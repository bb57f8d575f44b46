---------------------------- MODULE ObjectCache ----------------------------
(***************************************************************************)
(* The cache of Python objects (python/mod_cvcuda/nvcv/Cache.cpp): every   *)
(* thread has its own items, while the limit and the size in bytes are     *)
(* shared and guarded by one mutex.  A call holds the GIL, and may give it *)
(* up while it destroys objects, whose destructors may call the cache      *)
(* again.  A thread that ends takes the mutex without the GIL, and the GIL *)
(* after it.                                                               *)
(***************************************************************************)
EXTENDS Integers, FiniteSetsExt

CONSTANTS
    Threads,   \* host threads
    Items,     \* objects that are cached
    Wrappers,  \* those that wrap memory of others
    KeyOf,     \* the key of an item
    SizeOf,    \* the size in bytes of an item
    Limits,    \* limits that are set
    None,      \* no thread, no item, no key
    MaxBelow   \* bound on how far the size is below zero when a call starts

ASSUME ItemsAssumption ==
    /\ IsFiniteSet(Items) /\ IsFiniteSet(Threads) /\ None \notin Items \cup Threads /\ Wrappers \subseteq Items
    /\ SizeOf \in [Items -> Nat] /\ DOMAIN KeyOf = Items
ASSUME LimitsAssumption == Limits \subseteq Nat /\ Limits # {} /\ MaxBelow \in Nat

VARIABLES
    gil, mtx,   \* the threads that hold them
    th,         \* the call of each thread: [pc, op, key, new, limit]
    items,      \* Impl::items of each thread
    instances,  \* threads whose Cache exists
    limit,      \* cache_limit_inbytes
    current,    \* current_size_inbytes
    live,       \* items that are constructed and not destroyed
    uses,       \* use_count of the shared pointers to an item
    held,       \* items that a thread's Python code refers to
    doomed,     \* items that a call has still to let go, each by a shared pointer
    drifted     \* the size was set to something else than that of the items

locks == <<gil, mtx>>
sizes == <<limit, current, drifted>>
vars == <<locks, th, items, instances, sizes, live, uses, held, doomed>>

Idle == [pc |-> "idle", op |-> None, key |-> None, new |-> None, limit |-> 0]

Init ==
    /\ gil = None /\ mtx = None
    /\ th = [t \in Threads |-> Idle]
    /\ items = [t \in Threads |-> {}]
    /\ instances = Threads
    /\ limit \in Limits /\ current = 0 /\ drifted = FALSE
    /\ live = {} /\ uses = [i \in Items |-> 0]
    /\ held = [t \in Threads |-> {}] /\ doomed = [t \in Threads |-> {}]

Bytes(S) == MapThenSumSet(LAMBDA i: SizeOf[i], S)
ItemsOf(T) == UNION {items[t]: t \in T}
Total == Bytes(ItemsOf(instances))

\* Mutant: sthis is not counted.
isInUseByTwo(i) == uses[i] > 2

\* A shared pointer to the item, sthis, is made before the count is read.
isInUse(i) == uses[i] + 1 > 2

Unused(t, k) == {i \in items[t]: KeyOf[i] = k /\ ~isInUse(i)}

\* One more shared pointer to each item of S.
Point(S) == uses' = [i \in Items |-> uses[i] + IF i \in S THEN 1 ELSE 0]

-----------------------------------------------------------------------------
\* Thread t calls the cache, through Python.
Calls(t, call) ==
    /\ gil = None /\ th[t] = Idle
    /\ current >= -MaxBelow
    /\ gil' = t
    /\ th' = [th EXCEPT ![t] = call]
    /\ UNCHANGED <<mtx, instances, sizes, live, uses>>

Locks(op, key, new, lim) == [pc |-> "lock", op |-> op, key |-> key, new |-> new, limit |-> lim]
Dropping(new) == [Idle EXCEPT !.pc = "drop", !.new = new]

\* Create fetches an object, and a wrap lets the unused wrappers go, before
\* they make a new one.
Create(t) ==
    /\ \E i \in Items \ (live \cup {th[u].new: u \in Threads}):
        Calls(t, Locks(IF i \in Wrappers THEN "remove" ELSE "fetch", KeyOf[i], i, 0))
    /\ UNCHANGED <<items, held, doomed>>

SetLimit(t) ==
    /\ \E n \in Limits: Calls(t, Locks("limit", None, None, n))
    /\ UNCHANGED <<items, held, doomed>>

\* clear_cache(GLOBAL)
CallClearAll(t) == Calls(t, Locks("clearAll", None, None, 0)) /\ UNCHANGED <<items, held, doomed>>

\* clear_cache(LOCAL): clear takes no lock and leaves the size as it is.
clear(t) ==
    /\ gil = None /\ th[t] = Idle
    /\ gil' = t
    /\ th' = [th EXCEPT ![t] = Dropping(None)]
    /\ items' = [items EXCEPT ![t] = {}]
    /\ doomed' = [doomed EXCEPT ![t] = items[t]]
    /\ drifted' = (drifted \/ Bytes(items[t]) # 0)
    /\ UNCHANGED <<mtx, instances, limit, current, live, uses, held>>

\* Python code lets an object go.  All of it shares the one pointer of the
\* Python object, which goes with the last reference, ...
Forget(t) ==
    /\ \E i \in held[t]:
        /\ held' = [held EXCEPT ![t] = @ \ {i}]
        /\ doomed' = [doomed EXCEPT ![t] = {i} \ UNION {held[u]: u \in Threads \ {t}}]
    /\ Calls(t, Dropping(None))
    /\ UNCHANGED items

\* ... or passes a reference to another thread.
Share(t, u) ==
    /\ gil = None /\ u \in instances
    /\ \E i \in held[t] \ held[u]: held' = [held EXCEPT ![u] = @ \cup {i}]
    /\ UNCHANGED <<locks, th, items, instances, sizes, live, uses, doomed>>

-----------------------------------------------------------------------------
\* A call takes the mutex under the GIL, a thread that ends without it.
Lock(t) ==
    /\ th[t].pc = "lock" /\ (gil = t \/ th[t].op = "exit")
    /\ mtx = None /\ mtx' = t
    /\ th' = [th EXCEPT ![t].pc = "locked"]
    /\ UNCHANGED <<gil, items, instances, sizes, live, uses, held, doomed>>

\* The call op of thread t has the mutex, and unlocks it.
Locked(t, op) == th[t].pc = "locked" /\ th[t].op = op /\ mtx' = None

fetch(t) ==
    LET found == Unused(t, th[t].key) IN
    /\ Locked(t, "fetch")
    /\ \/ \E i \in found:
            /\ held' = [held EXCEPT ![t] = @ \cup {i}] /\ Point({i})
            /\ th' = [th EXCEPT ![t] = Dropping(None)]
       \/ /\ found = {}
          /\ th' = [th EXCEPT ![t] = Dropping(@.new)]
          /\ UNCHANGED <<held, uses>>
    /\ UNCHANGED <<gil, items, instances, sizes, live, doomed>>

removeAllNotInUseMatching(t) ==
    LET removed == Unused(t, th[t].key) IN
    /\ Locked(t, "remove")
    /\ items' = [items EXCEPT ![t] = @ \ removed]
    /\ doomed' = [doomed EXCEPT ![t] = @ \cup removed]
    /\ current' = current - Bytes(removed)
    /\ th' = [th EXCEPT ![t] = Dropping(@.new)]
    /\ UNCHANGED <<gil, instances, limit, drifted, live, uses, held>>

\* Mutant: the size goes on from what it was.
ResetKeepsSize(t, S) ==
    /\ items' = [items EXCEPT ![t] = S]
    /\ doomed' = [doomed EXCEPT ![t] = @ \cup items[t]]
    /\ current' = current + Bytes(S)
    /\ Point(S)
    /\ UNCHANGED drifted

\* The items of thread t are let go, and the size starts anew with those in S,
\* whatever the other threads' caches hold.
Reset(t, S) ==
    /\ items' = [items EXCEPT ![t] = S]
    /\ doomed' = [doomed EXCEPT ![t] = @ \cup items[t]]
    /\ current' = Bytes(S)
    /\ drifted' = (Bytes(ItemsOf(instances \ {t})) # 0)
    /\ Point(S)

Keeps(t, S) ==
    /\ items' = [items EXCEPT ![t] = @ \cup S]
    /\ current' = current + Bytes(S)
    /\ Point(S)
    /\ UNCHANGED <<doomed, drifted>>

\* Mutant: only the item is compared with the limit.
ExceedsAlone(n) == n > limit

Exceeds(n) == n + current > limit

\* An item over the limit is not added; if the limit is exceeded with it, the
\* others in this thread's cache are let go.  The pointer the caller has made
\* becomes that of the Python object.
add(t) ==
    LET i == th[t].new
        n == SizeOf[i]
    IN
    /\ Locked(t, "add")
    /\ \/ n > limit /\ Keeps(t, {})
       \/ n <= limit /\ ~Exceeds(n) /\ Keeps(t, {i})
       \/ n <= limit /\ Exceeds(n) /\ Reset(t, {i})
    /\ held' = [held EXCEPT ![t] = @ \cup {i}]
    /\ th' = [th EXCEPT ![t] = Dropping(None)]
    /\ UNCHANGED <<gil, instances, limit, live>>

setCacheLimit(t) ==
    /\ Locked(t, "limit")
    /\ \/ current > th[t].limit /\ Reset(t, {})
       \/ current <= th[t].limit /\ Keeps(t, {})
    /\ limit' = th[t].limit
    /\ th' = [th EXCEPT ![t] = Dropping(None)]
    /\ UNCHANGED <<gil, instances, live, held>>

ClearAll(t) ==
    /\ Locked(t, "clearAll")
    /\ items' = [u \in Threads |-> IF u \in instances THEN {} ELSE items[u]]
    /\ doomed' = [doomed EXCEPT ![t] = @ \cup ItemsOf(instances)]
    /\ current' = 0 /\ drifted' = FALSE
    /\ th' = [th EXCEPT ![t] = Dropping(None)]
    /\ UNCHANGED <<gil, instances, limit, live, uses, held>>

-----------------------------------------------------------------------------
\* With the mutex unlocked, references go out of scope; the last one destroys
\* the object, whose destructor may call the cache again.
Drop(t) ==
    /\ gil = t /\ th[t].pc = "drop"
    /\ \E i \in doomed[t]:
        /\ doomed' = [doomed EXCEPT ![t] = @ \ {i}]
        /\ uses' = [uses EXCEPT ![i] = @ - 1]
        /\ \/ uses[i] # 1 /\ UNCHANGED <<live, th>>
           \/ /\ uses[i] = 1
              /\ live' = live \ {i}
              /\ \/ UNCHANGED th
                 \/ /\ t \in instances
                    /\ th' = [th EXCEPT ![t] = Locks("remove", KeyOf[i], @.new, 0)]
    /\ UNCHANGED <<locks, items, instances, sizes, held>>

\* A destructor that runs Python code may give the GIL up for a while.
Switch(t) ==
    /\ gil = t /\ th[t].pc = "drop" /\ doomed[t] # {}
    /\ gil' = None
    /\ UNCHANGED <<mtx, th, items, instances, sizes, live, uses, held, doomed>>

\* A thread inside a call, or with its items to delete, takes the GIL.
TakeGIL(t) ==
    /\ gil = None /\ th[t].pc = "drop"
    /\ gil' = t
    /\ UNCHANGED <<mtx, th, items, instances, sizes, live, uses, held, doomed>>

\* The new object is constructed and goes to add, ...
Construct(t) ==
    /\ gil = t /\ th[t].pc = "drop" /\ doomed[t] = {} /\ th[t].new # None
    /\ live' = live \cup {th[t].new} /\ Point({th[t].new})
    /\ th' = [th EXCEPT ![t] = Locks("add", None, @.new, 0)]
    /\ UNCHANGED <<locks, items, instances, sizes, held, doomed>>

\* ... or the call is over.
Return(t) ==
    /\ gil = t /\ th[t].pc = "drop" /\ doomed[t] = {} /\ th[t].new = None
    /\ gil' = None
    /\ th' = [th EXCEPT ![t] = IF t \in instances THEN Idle ELSE [Idle EXCEPT !.pc = "gone"]]
    /\ UNCHANGED <<mtx, items, instances, sizes, live, uses, held, doomed>>

-----------------------------------------------------------------------------
\* Thread t ends; its Python variables are gone, and ~Cache runs.
ThreadEnds(t) ==
    /\ th[t] = Idle /\ held[t] = {} /\ gil # t
    /\ th' = [th EXCEPT ![t] = Locks("exit", None, None, 0)]
    /\ UNCHANGED <<locks, items, instances, sizes, live, uses, held, doomed>>

\* Mutant: the items are deleted under the mutex, with the GIL.
CacheDtorLocked(t) ==
    /\ Locked(t, "exit")
    /\ gil = None /\ gil' = t
    /\ instances' = instances \ {t}
    /\ current' = current - Bytes(items[t])
    /\ items' = [items EXCEPT ![t] = {}]
    /\ doomed' = [doomed EXCEPT ![t] = items[t]]
    /\ th' = [th EXCEPT ![t] = Dropping(@.new)]
    /\ UNCHANGED <<limit, drifted, live, uses, held>>

\* ~Cache: takes its items off the size; they are deleted under the GIL.
CacheDtor(t) ==
    /\ Locked(t, "exit")
    /\ instances' = instances \ {t}
    /\ current' = current - Bytes(items[t])
    /\ items' = [items EXCEPT ![t] = {}]
    /\ doomed' = [doomed EXCEPT ![t] = items[t]]
    /\ th' = [th EXCEPT ![t] = Dropping(@.new)]
    /\ UNCHANGED <<gil, limit, drifted, live, uses, held>>

Python(t) == Create(t) \/ SetLimit(t) \/ CallClearAll(t) \/ clear(t) \/ Forget(t) \/ \E u \in Threads: Share(t, u)

Section(t) ==
    fetch(t) \/ removeAllNotInUseMatching(t) \/ add(t) \/ setCacheLimit(t) \/ ClearAll(t) \/ CacheDtor(t)

Step(t) == Lock(t) \/ Section(t) \/ Drop(t) \/ Construct(t) \/ Return(t)

Next == \E t \in Threads: Python(t) \/ Step(t) \/ Switch(t) \/ TakeGIL(t) \/ ThreadEnds(t)

Spec == Init /\ [][Next]_vars

-----------------------------------------------------------------------------
CallType == [pc: {"idle", "lock", "locked", "drop", "gone"},
             op: {None, "fetch", "remove", "add", "limit", "clearAll", "exit"},
             key: {KeyOf[i]: i \in Items} \cup {None}, new: Items \cup {None}, limit: Limits \cup {0}]

\* Every reference, of a cache, of Python code or of a call, is to a live item.
TypeOK ==
    /\ gil \in Threads \cup {None} /\ mtx \in Threads \cup {None}
    /\ th \in [Threads -> CallType]
    /\ items \in [Threads -> SUBSET live] /\ held \in [Threads -> SUBSET live] /\ doomed \in [Threads -> SUBSET live]
    /\ instances \subseteq Threads
    /\ limit \in Limits /\ current \in Int /\ drifted \in BOOLEAN
    /\ live \subseteq Items

\* The shared size is that of all items in all threads' caches: a thread that
\* ends, a call from a destructor and a clear of all caches keep it so.  Only a
\* clear of one thread's cache, and a reset while other threads' caches hold
\* items, make it wrong.
SizeTracked == ~drifted => current = Total

\* As long as the size is right, the caches of all threads together hold no
\* more than the limit.
LimitKept == ~drifted => Total <= limit

\* What Python code and unfinished calls refer to, and the items of a call's
\* key that nothing but the cache does.
Referenced == UNION {held[t] \cup doomed[t]: t \in Threads}
Free(t) == {i \in items[t]: KeyOf[i] = th[t].key} \ Referenced

\* The use_count tells what is really unused, although calls of other threads
\* share, clear and destroy objects half way: a thread gets an object from its
\* cache that no thread's code and no call refers to, and makes a new one only if
\* there is none; and removing the unused ones removes all of them and no other.
FetchedExclusive ==
    [][\A t \in Threads: th[t].pc = "locked" /\ th'[t] # th[t] =>
        /\ th[t].op = "fetch" =>
              IF Free(t) = {} THEN held' = held /\ th'[t].new = th[t].new
                              ELSE \E i \in Free(t): held' = [held EXCEPT ![t] = @ \cup {i}]
        /\ th[t].op = "remove" => items' = [items EXCEPT ![t] = @ \ Free(t)]]_vars

\* The thread with the GIL can go on, or waits for the mutex of one that can: no
\* two wait for each other, even when one ends, and no destructor that calls the
\* cache again waits for its own thread.
NeverStuck == \A t \in Threads: gil = t => \E u \in {t, mtx} \ {None}: ENABLED Step(u)

-----------------------------------------------------------------------------
(* What the proofs add to these properties *)

\* The mutex is held by the thread inside a section, and by no other.
MutexInside == \A t \in Threads: mtx = t <=> th[t].pc = "locked"

\* A call has the GIL from its wait for the mutex to the end of its section,
\* and no thread has it outside of a call.
Calling(t) == th[t].pc \in {"lock", "locked"}
UnderGIL ==
    \A t \in Threads: /\ Calling(t) /\ th[t].op # "exit" => gil = t
                      /\ gil = t => Calling(t) \/ th[t].pc = "drop"

\* What a call goes to the mutex with.
Arguments ==
    \A t \in Threads: Calling(t) =>
        /\ th[t].op \in {"fetch", "remove", "add", "limit", "clearAll", "exit"}
        /\ th[t].op = "add" => th[t].new \in live
        /\ th[t].op = "fetch" => th[t].new # None
        /\ th[t].op = "limit" => th[t].limit \in Limits
        /\ th[t].op = "exit" => th[t].new = None

\* Nothing refers to an object that a call makes until add does, and no two
\* calls make the same one.
NewUnowned ==
    \A t \in Threads: th[t].new # None =>
        \A u \in Threads: /\ th[t].new \notin items[u] \cup held[u] \cup doomed[u]
                          /\ u # t => th[u].new # th[t].new

\* No item is in the caches of two threads.
OneCache == \A t, u \in Threads: t # u => items[t] \cap items[u] = {}

\* A thread whose Cache is gone has no items, and only lets go what it had.
Exited == \A t \in Threads \ instances: th[t].pc \in {"drop", "gone"} /\ th[t].new = None /\ items[t] = {}

\* The shared pointers to item i: of a cache, of its Python object, of calls
\* that have still to let it go, and of the call that has made it.
Makes(t, i) == Calling(t) /\ th[t].op = "add" /\ th[t].new = i
Pointers(i) ==
    (IF i \in ItemsOf(Threads) THEN 1 ELSE 0) + (IF \E t \in Threads: i \in held[t] THEN 1 ELSE 0)
      + Cardinality({t \in Threads: i \in doomed[t]}) + (IF \E t \in Threads: Makes(t, i) THEN 1 ELSE 0)

\* The use_count is the number of these pointers.
UsesExact == uses = [i \in Items |-> Pointers(i)]

\* Only what a destructor calls finds a call with objects still to let go.
LetGoFirst == \A t \in Threads: doomed[t] # {} => th[t].pc = "drop" \/ (Calling(t) /\ th[t].op = "remove")

\* The inductive invariant, with the count and without.
Counted == UsesExact /\ LetGoFirst
IInv ==
    TypeOK /\ MutexInside /\ UnderGIL /\ Arguments /\ NewUnowned /\ OneCache /\ Exited /\ SizeTracked /\ LimitKept

\* What Step waits for: the mutex at its door, nothing in a section of a known
\* call, and the GIL to let go what a call leaves.
Unblocked(t) ==
    \/ th[t].pc = "lock" /\ (gil = t \/ th[t].op = "exit") /\ mtx = None
    \/ th[t].pc = "locked" /\ th[t].op \in {"fetch", "remove", "add", "limit", "clearAll", "exit"}
    \/ th[t].pc = "drop" /\ gil = t

\* The thread with the GIL is not blocked, or waits for the mutex of another
\* thread that is not: none waits for itself, and no two for each other.
NoWaitCycle ==
    \A t \in Threads: gil = t =>
        Unblocked(t) \/ (th[t].pc = "lock" /\ mtx \in Threads \ {t} /\ Unblocked(mtx))
=============================================================================
