---------------------------- MODULE HandleManager ----------------------------
(***************************************************************************)
(* priv/HandleManager.hpp and HandleManagerImpl.hpp: the table behind all  *)
(* the handles of the C API (images, tensors, arrays, batches, allocators).*)
(* A resource is a slot of a pool; an object is constructed in it and      *)
(* reached through handles made of the slot's address and a generation     *)
(* number.  create, incRef and decRef run in any thread without a lock;    *)
(* only growing and resizing the pools takes the mutex mtxAlloc.           *)
(*                                                                         *)
(* The free slots are a LockFreeStack, used here through what FreeList     *)
(* promises: pop gives a free slot to one thread, push returns it.  Each   *)
(* atomic access to usedCount, to a reference count or to the stack is a   *)
(* step; a section under mtxAlloc is one step.                             *)
(***************************************************************************)
EXTENDS Naturals, Integers, Sequences, FiniteSets

CONSTANTS Threads,
          Res,              \* addresses at which a slot can be allocated
          Refs,             \* the references that clients can hold
          NoRes,            \* no slot
          NoHandle,         \* the null handle
          NoLimit,          \* no limit was requested
          Generations,      \* kResourceAlignment: 2^(bits of generation)
          MinHandles,       \* kMinHandles: slots added when a dynamic pool is empty
          Limits,           \* the arguments of setFixedSize and setDynamicSize
          ConcurrentConfig  \* whether sizes are set while other threads run

ASSUME ManagerAssumption ==
    /\ IsFiniteSet(Threads) /\ IsFiniteSet(Res) /\ IsFiniteSet(Refs)
    /\ NoRes \notin Res
    /\ Generations \in Nat \ {0} /\ MinHandles \in Nat \ {0}
    /\ Limits \subseteq Nat
    /\ ConcurrentConfig \in BOOLEAN

Handles == [res : Res, gen : 0..(Generations - 1)]

ASSUME HandleAssumption == NoHandle \notin Handles

VARIABLES managed,  \* the slots of the pools in resourceStack
          free,     \* the slots in freeResources
          live,     \* the slots with m_ptrObj # nullptr
          gen,      \* generation of each slot
          refs,     \* m_refCount of each slot
          used,     \* usedCount
          fixed,    \* hasFixedSize
          pc,       \* the statement each thread is at
          loc,      \* its local r / res
          ref,      \* client side: the handle behind each reference
          past,     \* history: generations of the last objects destroyed in a slot
          limit     \* history: the limit the client asked for

poolVars == <<managed, free, gen>>
histVars == <<past, limit>>
vars == <<managed, free, live, gen, refs, used, fixed, pc, loc, ref, past, limit>>

\* totalCapacity is initialized and never assigned.
totalCapacity == 0

Init ==
    /\ managed = {} /\ free = {} /\ live = {}
    /\ gen = [r \in Res |-> 0]
    /\ refs = [r \in Res |-> 0]
    /\ used = 0
    /\ fixed = FALSE
    /\ pc = [t \in Threads |-> "idle"]
    /\ loc = [t \in Threads |-> NoRes]
    /\ ref = [k \in Refs |-> NoHandle]
    /\ past = [r \in Res |-> <<>>]
    /\ limit = NoLimit

-----------------------------------------------------------------------------
(* Handles *)

HandleOf(r) == [res |-> r, gen |-> gen[r]]

\* Mutant: a handle is not compared with the generation of its slot.
ValidAnyGeneration(h) == h # NoHandle /\ h.res \in managed /\ h.res \in live

\* getValidResource, and validate: the slot is in a pool, has an object, and
\* the object is of the handle's generation.
Valid(h) ==
    /\ h # NoHandle
    /\ h.res \in managed
    /\ h.res \in live
    /\ gen[h.res] = h.gen

\* The references that clients hold to the object in slot r.
RefsTo(r) == {k \in Refs : ref[k] # NoHandle /\ ref[k].res = r}

Goto(t, l) == pc' = [pc EXCEPT ![t] = l]

Done(t) ==
    /\ pc' = [pc EXCEPT ![t] = "idle"]
    /\ loc' = [loc EXCEPT ![t] = NoRes]

-----------------------------------------------------------------------------
(* Pools *)

\* doAllocate: a pool of n new slots, all free.  ResourceBase() starts their
\* generation at 0, also where the memory of a pool that setFixedSize has just
\* freed is allocated again and handles with these addresses were given out: a
\* slot and its history start anew.
doAllocate(n, old) ==
    \E S \in SUBSET (Res \ old) :
        /\ Cardinality(S) = n
        /\ managed' = old \cup S
        /\ free' = (free \cap old) \cup S
        /\ gen' = [r \in Res |-> IF r \in S THEN 0 ELSE gen[r]]
        /\ refs' = [r \in Res |-> IF r \in S THEN 0 ELSE refs[r]]
        /\ past' = [r \in Res |-> IF r \in S THEN <<>> ELSE past[r]]

\* The new pool cannot be allocated: std::bad_alloc.
AllocateFails(old) ==
    /\ managed' = old
    /\ free' = free \cap old
    /\ UNCHANGED <<gen, refs, past>>

-----------------------------------------------------------------------------
(* create *)

CreateCall(t) ==
    /\ pc[t] = "idle"
    /\ Goto(t, "pop")
    /\ UNCHANGED <<managed, free, live, gen, refs, used, fixed, loc, ref, past, limit>>

Pop(t) ==
    /\ pc[t] = "pop"
    /\ \E r \in free :
          /\ free' = free \ {r}
          /\ loc' = [loc EXCEPT ![t] = r]
    /\ Goto(t, "count")
    /\ UNCHANGED <<managed, live, gen, refs, used, fixed, ref, past, limit>>

PopEmpty(t) ==
    /\ pc[t] = "pop"
    /\ free = {}
    /\ Goto(t, "grow")
    /\ UNCHANGED <<managed, free, live, gen, refs, used, fixed, loc, ref, past, limit>>

CountUsed(t) ==
    /\ pc[t] = "count"
    /\ used' = used + 1
    /\ Goto(t, "take")
    /\ UNCHANGED <<managed, free, live, gen, refs, fixed, loc, ref, past, limit>>

TakeRef(t) ==
    /\ pc[t] = "take"
    /\ refs' = [refs EXCEPT ![loc[t]] = @ + 1]
    /\ Goto(t, "construct")
    /\ UNCHANGED <<managed, free, live, gen, used, fixed, loc, ref, past, limit>>

\* The constructor succeeds; the caller gets the first reference.
Construct(t) ==
    /\ pc[t] = "construct"
    /\ \E k \in Refs :
          /\ ref[k] = NoHandle
          /\ live' = live \cup {loc[t]}
          /\ gen' = [gen EXCEPT ![loc[t]] = (@ + 1) % Generations]
          /\ ref' = [ref EXCEPT ![k] = [res |-> loc[t], gen |-> gen'[loc[t]]]]
    /\ Done(t)
    /\ UNCHANGED <<managed, free, refs, used, fixed, past, limit>>

\* Mutant: the slot of a failed construction is returned with its reference.
ConstructFailsKeepsRef(t) ==
    /\ pc[t] = "construct"
    /\ Goto(t, "return")
    /\ UNCHANGED <<managed, free, live, gen, refs, used, fixed, loc, ref, past, limit>>

\* The constructor throws: drop the reference, return the slot, rethrow.
ConstructFails(t) ==
    /\ pc[t] = "construct"
    /\ refs' = [refs EXCEPT ![loc[t]] = @ - 1]
    /\ Goto(t, "return")
    /\ UNCHANGED <<managed, free, live, gen, used, fixed, loc, ref, past, limit>>

\* doReturnResource: push the slot, then count it out.
ReturnResource(t) ==
    /\ pc[t] = "return"
    /\ free' = free \cup {loc[t]}
    /\ loc' = [loc EXCEPT ![t] = NoRes]
    /\ Goto(t, "uncount")
    /\ UNCHANGED <<managed, live, gen, refs, used, fixed, ref, past, limit>>

\* Mutant: the slot is returned and stays counted as used.
UncountForgets(t) ==
    /\ pc[t] = "uncount"
    /\ Done(t)
    /\ UNCHANGED <<managed, free, live, gen, refs, used, fixed, ref, past, limit>>

UncountUsed(t) ==
    /\ pc[t] = "uncount"
    /\ used' = used - 1
    /\ Done(t)
    /\ UNCHANGED <<managed, free, live, gen, refs, fixed, ref, past, limit>>

\* Mutant: the size policy is ignored.
GrowIgnoresPolicy(t) ==
    /\ pc[t] = "grow"
    /\ Goto(t, "growLock")
    /\ UNCHANGED <<managed, free, live, gen, refs, used, fixed, loc, ref, past, limit>>

\* doGrow reads the size policy before it takes the mutex.  Under the fixed
\* size policy create fails with OUT_OF_MEMORY.
Grow(t) ==
    /\ pc[t] = "grow"
    /\ Goto(t, IF fixed THEN "idle" ELSE "growLock")
    /\ UNCHANGED <<managed, free, live, gen, refs, used, fixed, loc, ref, past, limit>>

\* The section of doGrow under mtxAlloc.
GrowLocked(t) ==
    /\ pc[t] = "growLock"
    /\ \/ /\ free # {}
          /\ Goto(t, "pop")
          /\ UNCHANGED <<managed, free, gen, refs, past>>
       \/ /\ free = {}
          /\ \/ /\ doAllocate(IF totalCapacity # 0 THEN totalCapacity ELSE MinHandles, managed)
                /\ Goto(t, "pop")
             \/ /\ AllocateFails(managed)
                /\ Goto(t, "idle")
    /\ UNCHANGED <<live, used, fixed, loc, ref, limit>>

-----------------------------------------------------------------------------
(* incRef and decRef, called with a reference the client holds *)

IncRef(t, k, l) ==
    /\ pc[t] = "idle"
    /\ Valid(ref[k])
    /\ ref[l] = NoHandle
    /\ refs' = [refs EXCEPT ![ref[k].res] = @ + 1]
    /\ ref' = [ref EXCEPT ![l] = ref[k]]
    /\ UNCHANGED <<managed, free, live, gen, used, fixed, pc, loc, past, limit>>

\* The decrement that reaches zero destroys the object.
DecRef(t, k) ==
    /\ pc[t] = "idle"
    /\ Valid(ref[k])
    /\ LET r == ref[k].res IN
          /\ refs' = [refs EXCEPT ![r] = @ - 1]
          /\ IF refs[r] = 1
             THEN Goto(t, "destroy") /\ loc' = [loc EXCEPT ![t] = r]
             ELSE UNCHANGED <<pc, loc>>
    /\ ref' = [ref EXCEPT ![k] = NoHandle]
    /\ UNCHANGED <<managed, free, live, gen, used, fixed, past, limit>>

DestroyObject(t) ==
    /\ pc[t] = "destroy"
    /\ live' = live \ {loc[t]}
    /\ past' = [past EXCEPT ![loc[t]] =
                  LET p == <<gen[loc[t]]>> \o @
                  IN  SubSeq(p, 1, IF Len(p) < Generations THEN Len(p) ELSE Generations - 1)]
    /\ Goto(t, "return")
    /\ UNCHANGED <<managed, free, gen, refs, used, fixed, loc, ref, limit>>

-----------------------------------------------------------------------------
(* The size policy *)

\* Config.h asks that no handle is in use when a size is set, and says nothing
\* of other threads.
MayConfigure(t) ==
    /\ pc[t] = "idle"
    /\ ConcurrentConfig \/ \A u \in Threads : pc[u] = "idle"

\* Mutant: the pools are resized under the objects in use.
SetFixedSizeInUse(t, n) ==
    /\ MayConfigure(t)
    /\ totalCapacity < n
    /\ limit' = n
    /\ fixed' = TRUE
    /\ doAllocate(n - totalCapacity, {}) \/ AllocateFails({})
    /\ UNCHANGED <<live, used, pc, loc, ref>>

\* Nothing may be in use; the pools are replaced by one of the new size.
SetFixedSize(t, n) ==
    /\ MayConfigure(t)
    /\ used <= 0
    /\ limit' = n
    /\ \/ /\ totalCapacity >= n
          /\ UNCHANGED <<managed, free, gen, refs, past, fixed>>
       \/ /\ totalCapacity < n
          /\ fixed' = TRUE
          /\ doAllocate(n - totalCapacity, {}) \/ AllocateFails({})
    /\ UNCHANGED <<live, used, pc, loc, ref>>

SetDynamicSize(t, n) ==
    /\ MayConfigure(t)
    /\ fixed' = FALSE
    /\ limit' = NoLimit
    /\ \/ /\ totalCapacity >= n
          /\ UNCHANGED <<managed, free, gen, refs, past>>
       \/ /\ totalCapacity < n
          /\ doAllocate(n, managed) \/ AllocateFails(managed)
    /\ UNCHANGED <<live, used, pc, loc, ref>>

-----------------------------------------------------------------------------

Create(t) ==
    \/ CreateCall(t) \/ Pop(t) \/ PopEmpty(t) \/ CountUsed(t) \/ TakeRef(t)
    \/ Construct(t) \/ ConstructFails(t) \/ Grow(t) \/ GrowLocked(t)

Return(t) == ReturnResource(t) \/ UncountUsed(t)

CountRefs(t) ==
    \/ \E k, l \in Refs : IncRef(t, k, l)
    \/ \E k \in Refs : DecRef(t, k)
    \/ DestroyObject(t)

Configure(t) == \E n \in Limits : SetFixedSize(t, n) \/ SetDynamicSize(t, n)

Next == \E t \in Threads : Create(t) \/ Return(t) \/ CountRefs(t) \/ Configure(t)

Spec == Init /\ [][Next]_vars

-----------------------------------------------------------------------------
(* Properties *)

TypeOK ==
    /\ managed \subseteq Res /\ free \subseteq managed /\ live \subseteq Res
    /\ gen \in [Res -> 0..(Generations - 1)]
    /\ refs \in [Res -> Int]
    /\ used \in Int
    /\ fixed \in BOOLEAN
    /\ pc \in [Threads -> {"idle", "pop", "count", "take", "construct", "return",
                           "uncount", "grow", "growLock", "destroy"}]
    /\ loc \in [Threads -> Res \cup {NoRes}]
    /\ ref \in [Refs -> Handles \cup {NoHandle}]
    /\ past \in [Res -> Seq(0..(Generations - 1))]
    /\ limit \in Nat \cup {NoLimit}

\* A client that holds a reference has a handle the manager accepts: neither
\* another thread's decRef nor a reuse of the slot nor a change of the size
\* policy takes the object away.
HeldHandlesValid == \A k \in Refs : ref[k] # NoHandle => Valid(ref[k])

\* A slot that create is preparing or decRef is taking down is known to one
\* thread only, is in a pool, and is not in the free list.
OneThreadPerSlot ==
    /\ \A t \in Threads : loc[t] # NoRes => loc[t] \in managed \ free
    /\ \A t, u \in Threads : loc[t] # NoRes /\ t # u => loc[t] # loc[u]

\* m_refCount is the number of references: those of the clients and the one of
\* a create in progress.  (The assertion refCount() == 1 of doFetchFreeResource
\* is the case of a fetched slot.)
RefCountExact ==
    \A r \in managed :
        refs[r] = Cardinality(RefsTo(r))
                  + IF \E t \in Threads : loc[t] = r /\ pc[t] = "construct" THEN 1 ELSE 0

\* A free slot has no object, so constructObject never overwrites one, and a
\* slot has an object exactly while it is referenced or being destroyed.
ObjectsInUse ==
    \A r \in Res :
        r \in live <=> \/ RefsTo(r) # {}
                       \/ \E t \in Threads : loc[t] = r /\ pc[t] = "destroy"

\* usedCount is the number of slots in use, give or take the threads that are
\* between the free list and the counter.  This is what makes the test in
\* setFixedSize mean that no object exists.
UsedCountExact ==
    used = Cardinality(managed \ free)
           - Cardinality({t \in Threads : pc[t] = "count"})
           + Cardinality({t \in Threads : pc[t] = "uncount"})

\* A handle of a destroyed object is rejected while the slot has been reused
\* fewer times than there are generations.  This is said of a slot, that is
\* until setFixedSize replaces the pools.  It counts the generations of an
\* address from 0 again, and a handle from before it is then accepted for the
\* object that has the same generation.
StaleHandleRejected ==
    \A r \in Res : \A i \in DOMAIN past[r] : ~ Valid([res |-> r, gen |-> past[r][i]])

\* As many objects as setFixedSize allowed: a hard limit.
HardLimit == limit # NoLimit => Cardinality(live) <= limit

-----------------------------------------------------------------------------
(* What the proofs add to these properties *)

\* The statements at which a thread has a slot.
Busy == {"count", "take", "construct", "return", "destroy"}

\* A thread has a slot exactly at these statements, and a slot that clients
\* refer to is neither free nor with a thread.
SlotsApart ==
    /\ \A t \in Threads : loc[t] # NoRes <=> pc[t] \in Busy
    /\ \A k \in Refs : ref[k] # NoHandle =>
          /\ ref[k].res \notin free
          /\ \A t \in Threads : loc[t] # ref[k].res

\* The generation i objects before the last one of slot r.
Ago(r, i) == IF gen[r] >= i THEN gen[r] - i ELSE gen[r] - i + Generations

\* The generations of destroyed objects, the last first, lead up to the one of
\* the slot without a gap.
PastInOrder ==
    \A r \in Res :
        /\ Len(past[r]) < Generations
        /\ \A i \in 1..Len(past[r]) : past[r][i] = Ago(r, IF r \in live THEN i ELSE i - 1)

\* The inductive invariant.
IInv ==
    /\ TypeOK /\ OneThreadPerSlot /\ SlotsApart
    /\ HeldHandlesValid /\ ObjectsInUse /\ RefCountExact /\ UsedCountExact
    /\ PastInOrder

\* Under a limit the pools do not grow, and have no more slots than the limit.
LimitEnforced ==
    limit # NoLimit => /\ fixed
                       /\ Cardinality(managed) <= limit
                       /\ \A t \in Threads : pc[t] # "growLock"
=============================================================================
