-------------------------- MODULE StreamOrderedCache --------------------------
(***************************************************************************)
(* detail::StreamOrderedCache (cvcuda/util/PerStreamCache.hpp and          *)
(* PerStreamCacheImpl.hpp): the payloads put for one stream, each with the *)
(* event that tells that the GPU no longer uses it.  The list is 1..n,     *)
(* from the oldest item (m_head) to the newest (m_tail).  Every query of   *)
(* an event is a step, so that the GPU moves on while the host searches;   *)
(* PerStreamCache's mutex keeps other host threads out meanwhile.          *)
(*                                                                         *)
(* Sizes are left out: which item getIf takes is any.  The list is in      *)
(* order when its events complete in the order of its items, as they do    *)
(* when all were recorded on one stream just before they were put.         *)
(***************************************************************************)
EXTENDS Integers, FiniteSets

CONSTANTS
    MaxItems,  \* bound on the length of the list
    Block,     \* kMaxItemsOnStack
    Unordered  \* TRUE: a list searched by order may be out of order

ASSUME SizesAssumption == MaxItems \in Nat \ {0} /\ Block \in Nat \ {0}
ASSUME UnorderedAssumption == Unordered \in BOOLEAN

VARIABLES
    n,         \* number of items
    ready,     \* items whose event has completed
    wasReady,  \* items whose completion was seen (StreamCacheItem::wasReady)
    precise,   \* IsCudaStreamIdHintUnambiguous()
    inOrder,   \* the events complete in the order of the list
    pc,        \* where the host is, "idle" when the lock is free
    at,        \* sectionStart of the search, item of the walk, 0 for none
    count,     \* number of items in tmp
    lo, hi, m, \* of the binary search
    found,     \* the item findNewestReady returns, 0 for none
    asked      \* items that were ready when removeAllReady was called

list == <<n, ready, wasReady>>
search == <<at, count, lo, hi, m>>
vars == <<list, precise, inOrder, pc, search, found, asked>>

\* The list without item i: the items after it move down by one.
Without(S, i) == {IF j > i THEN j - 1 ELSE j : j \in S \ {i}}

\* The list without its oldest k items.
Beyond(S, k) == {j - k : j \in {i \in S : i > k}}

\* tmp[j]: the items before sectionStart, newest first.
Tmp(j) == at - 1 - j

Minimum(a, b) == IF a < b THEN a ELSE b

Init ==
    /\ n = 0 /\ ready = {} /\ wasReady = {}
    /\ precise \in BOOLEAN /\ inOrder \in BOOLEAN
    /\ precise => inOrder \/ Unordered
    /\ pc = "idle"
    /\ at = 0 /\ count = 0 /\ lo = 0 /\ hi = 0 /\ m = 0
    /\ found = 0 /\ asked = {}

-----------------------------------------------------------------------------
\* The GPU completes the event of an item; in a list in order, the next one.
Complete ==
    /\ \E i \in (1..n) \ ready:
        /\ inOrder => \A j \in 1..(i - 1): j \in ready
        /\ ready' = ready \cup {i}
    /\ UNCHANGED <<n, wasReady, precise, inOrder, pc, search, found, asked>>

\* Links a new item after the newest one.
insert == n' = n + 1

put ==
    /\ pc = "idle" /\ n < MaxItems
    /\ insert
    /\ UNCHANGED <<ready, wasReady, precise, inOrder, pc, search, found, asked>>

\* Unlinks item i and gives its list node back.
remove(i) ==
    /\ n' = n - 1
    /\ ready' = Without(ready, i)
    /\ wasReady' = Without(wasReady, i)

getIf ==
    /\ pc = "idle"
    /\ \E i \in 1..n: remove(i)
    /\ UNCHANGED <<precise, inOrder, pc, search, found, asked>>

\* waitAndPurge waits for the event of the newest item only, ...
waitNewest ==
    /\ pc = "idle" /\ n \in ready
    /\ pc' = "purge"
    /\ UNCHANGED <<list, precise, inOrder, search, found, asked>>

\* ... and then frees every item.
purge ==
    /\ pc = "purge"
    /\ n' = 0 /\ ready' = {} /\ wasReady' = {}
    /\ pc' = "idle"
    /\ UNCHANGED <<precise, inOrder, search, found, asked>>

-----------------------------------------------------------------------------
\* removeAllReady: by order, or item by item.
removeAllReady ==
    /\ pc = "idle"
    /\ asked' = ready
    /\ at' = n
    /\ pc' = IF precise THEN "section" ELSE "walk"
    /\ UNCHANGED <<list, precise, inOrder, count, lo, hi, m, found>>

\* isReady() of item i is true: the event has completed, which is remembered.
IsReady(i) == i \in ready /\ wasReady' = wasReady \cup {i}
NotReady(i) == i \notin ready /\ UNCHANGED wasReady

\* Mutant: a failed query ends the search as if it had found nothing.
QueryFailsSilently(i) ==
    /\ i \notin wasReady
    /\ pc' = "idle"
    /\ UNCHANGED <<list, precise, inOrder, search, found, asked>>

\* cudaEventQuery fails and removeAllReady throws; a completion already seen
\* is not queried again.
QueryFails(i) ==
    /\ i \notin wasReady
    /\ pc' = "threw"
    /\ UNCHANGED <<list, precise, inOrder, search, found, asked>>

\* findNewestReady returns item i, or 0 for none.
Return(i) == found' = i /\ pc' = "found"

sectionNone ==
    /\ pc = "section" /\ at = 0
    /\ Return(0)
    /\ UNCHANGED <<list, precise, inOrder, search, asked>>

sectionReady ==
    /\ pc = "section" /\ at > 0
    /\ IsReady(at)
    /\ Return(at)
    /\ UNCHANGED <<n, ready, precise, inOrder, search, asked>>

\* The section's newest item is not ready: tmp takes the items before it.
sectionGather ==
    /\ pc = "section" /\ at > 0
    /\ NotReady(at)
    /\ count' = Minimum(at - 1, Block)
    /\ IF at = 1 THEN Return(0) ELSE pc' = "oldest" /\ UNCHANGED found
    /\ UNCHANGED <<n, ready, precise, inOrder, at, lo, hi, m, asked>>

\* Mutant: gives up after the first section.
oldestGivesUp ==
    /\ pc = "oldest"
    /\ NotReady(Tmp(count - 1))
    /\ Return(0)
    /\ UNCHANGED <<n, ready, precise, inOrder, search, asked>>

\* No item of the section is ready: on to the one before it.
oldestNotReady ==
    /\ pc = "oldest"
    /\ NotReady(Tmp(count - 1))
    /\ at' = at - 1 - count
    /\ pc' = "section"
    /\ UNCHANGED <<n, ready, precise, inOrder, count, lo, hi, m, found, asked>>

\* Mutant: bisects without knowing that the oldest item is ready.
oldestUnchecked ==
    /\ pc = "oldest"
    /\ lo' = 0 /\ hi' = count /\ m' = count \div 2
    /\ pc' = "bisect"
    /\ UNCHANGED <<list, precise, inOrder, at, count, found, asked>>

oldestReady ==
    /\ pc = "oldest"
    /\ IsReady(Tmp(count - 1))
    /\ lo' = 0 /\ hi' = count /\ m' = count \div 2
    /\ pc' = "bisect"
    /\ UNCHANGED <<n, ready, precise, inOrder, at, count, found, asked>>

bisectReady ==
    /\ pc = "bisect" /\ lo < hi
    /\ IsReady(Tmp(m))
    /\ hi' = m /\ m' = (lo + m) \div 2
    /\ UNCHANGED <<n, ready, precise, inOrder, pc, at, count, lo, found, asked>>

\* Mutant: the element that is not ready stays in the range.
bisectKeepsLow ==
    /\ pc = "bisect" /\ lo < hi
    /\ NotReady(Tmp(m))
    /\ lo' = m /\ m' = (m + hi) \div 2
    /\ UNCHANGED <<n, ready, precise, inOrder, pc, at, count, hi, found, asked>>

bisectNotReady ==
    /\ pc = "bisect" /\ lo < hi
    /\ NotReady(Tmp(m))
    /\ lo' = m + 1 /\ m' = (m + 1 + hi) \div 2
    /\ UNCHANGED <<n, ready, precise, inOrder, pc, at, count, hi, found, asked>>

\* Mutant: returns the newest item that is not ready.
bisectDoneNewer ==
    /\ pc = "bisect" /\ lo >= hi
    /\ Return(Tmp(m - 1))
    /\ UNCHANGED <<list, precise, inOrder, search, asked>>

bisectDone ==
    /\ pc = "bisect" /\ lo >= hi
    /\ Return(Tmp(m))
    /\ UNCHANGED <<list, precise, inOrder, search, asked>>

\* removeAllReady hands the item found and all older ones to the callback.
removeFound ==
    /\ pc = "found"
    /\ n' = n - found
    /\ ready' = Beyond(ready, found)
    /\ wasReady' = Beyond(wasReady, found)
    /\ asked' = Beyond(asked, found)
    /\ pc' = "idle"
    /\ UNCHANGED <<precise, inOrder, search, found>>

\* Item by item, from the newest to the oldest.
walkReady ==
    /\ pc = "walk" /\ at > 0
    /\ at \in ready
    /\ remove(at)
    /\ asked' = Without(asked, at)
    /\ at' = at - 1
    /\ UNCHANGED <<precise, inOrder, pc, count, lo, hi, m, found>>

walkNotReady ==
    /\ pc = "walk" /\ at > 0
    /\ NotReady(at)
    /\ at' = at - 1
    /\ UNCHANGED <<n, ready, precise, inOrder, pc, count, lo, hi, m, found, asked>>

walkDone ==
    /\ pc = "walk" /\ at = 0
    /\ pc' = "idle"
    /\ UNCHANGED <<list, precise, inOrder, search, found, asked>>

\* The query of any of these steps may fail.
throws ==
    \/ pc \in {"section", "walk"} /\ at > 0 /\ QueryFails(at)
    \/ pc = "oldest" /\ QueryFails(Tmp(count - 1))
    \/ pc = "bisect" /\ lo < hi /\ QueryFails(Tmp(m))

\* The exception leaves PerStreamCache::getIf, whose guard unlocks.
unwind ==
    /\ pc = "threw"
    /\ pc' = "idle"
    /\ UNCHANGED <<list, precise, inOrder, search, found, asked>>

findNewestReady ==
    \/ sectionNone \/ sectionReady \/ sectionGather
    \/ oldestNotReady \/ oldestReady
    \/ bisectReady \/ bisectNotReady \/ bisectDone

Host ==
    \/ findNewestReady \/ removeFound
    \/ walkReady \/ walkNotReady \/ walkDone
    \/ purge \/ unwind

Next == Complete \/ put \/ getIf \/ waitNewest \/ removeAllReady \/ Host \/ throws

Spec == Init /\ [][Next]_vars

\* A thread that holds the lock goes on; the GPU need not.
FairSpec == Spec /\ WF_vars(Host)

-----------------------------------------------------------------------------
Items == 1..n

TypeOK ==
    /\ n \in 0..MaxItems
    /\ ready \subseteq Items /\ wasReady \subseteq ready
    /\ precise \in BOOLEAN /\ inOrder \in BOOLEAN
    /\ pc \in {"idle", "purge", "section", "oldest", "bisect", "found", "walk", "threw"}
    /\ at \in 0..MaxItems /\ count \in 0..Block
    /\ lo \in 0..Block /\ hi \in 0..Block /\ m \in 0..Block
    /\ found \in 0..MaxItems
    /\ asked \subseteq 1..MaxItems

\* Every probe of findNewestReady reads an element of tmp that was set, and
\* when the search ends the element at m is one that was seen ready, as the
\* assertions at the end of findNewestReady say; even while events complete
\* during the search and in any order.
ProbesInBounds ==
    /\ pc = "oldest" => count \in 1..Block /\ Tmp(count - 1) \in Items
    /\ pc = "bisect" /\ lo < hi => m \in 0..(count - 1) /\ Tmp(m) \in Items
    /\ pc = "bisect" /\ lo >= hi => m = hi /\ m < count /\ Tmp(m) \in wasReady

\* removeAllReady hands to the global cache only items that the GPU no longer
\* uses: the item found and all older ones are ready.
MovedReady == pc = "found" => 1..found \subseteq ready

\* Nothing that was ready when removeAllReady was called stays behind: not in
\* a list searched by order, nor in one walked item by item.
NoneLeftBehind ==
    /\ pc = "found" /\ inOrder => \A i \in asked: i <= found
    /\ pc = "walk" => \A i \in asked: i <= at

\* The search ends: removeAllReady always gives the lock back.
SearchReturns == pc # "idle" ~> pc = "idle"

\* What a caller sees of the host: a call that failed is not one that returned.
Call ==
    IF pc \in {"idle", "purge"} THEN "none" ELSE IF pc = "threw" THEN "failed" ELSE "removeAllReady"

R == INSTANCE ReadyList WITH ordered <- inOrder, call <- Call

\* The sectioned search and the walk do, in all, what PerStreamCache uses
\* removeAllReady for: it hands on only ready items, returns only when all that
\* were ready at the call are gone, and a failed query is never taken for that;
\* in between, only the GPU changes the list.  And waitAndPurge, which waits for
\* the newest item only, frees no item that is in use from a list in order.
ImplementsReadyList == R!Spec

-----------------------------------------------------------------------------
(***************************************************************************)
(* The inductive invariant: what the host knows at each point.             *)
(***************************************************************************)
ReadyInOrder == inOrder => \A i \in ready: 1..i \subseteq ready

Chosen == pc \in {"section", "oldest", "bisect", "found"} => precise

AskedReady == pc \in {"section", "oldest", "bisect", "found", "walk"} => asked \subseteq ready

AtSection == pc \in {"section", "walk"} =>
    /\ at <= n
    /\ inOrder \/ pc = "walk" => \A i \in asked: i <= at

AtOldest == pc = "oldest" =>
    /\ at <= n /\ at >= 2
    /\ count >= 1 /\ count <= at - 1
    /\ inOrder => \A i \in asked: i <= at - 1

AtBisect == pc = "bisect" =>
    /\ at <= n /\ count >= 1 /\ count <= at - 1
    /\ lo <= hi /\ hi <= count /\ lo < count
    /\ m = (lo + hi) \div 2
    /\ Tmp(count - 1) \in wasReady
    /\ hi < count => Tmp(hi) \in wasReady
    /\ inOrder => \A i \in asked: i <= Tmp(lo)

AtFound == pc = "found" =>
    /\ found = 0 \/ found \in ready
    /\ inOrder => \A i \in asked: i <= found

AtPurge == pc = "purge" => n \in ready

\* The inductive invariant.
IInv ==
    /\ TypeOK /\ ReadyInOrder /\ Chosen /\ AskedReady
    /\ AtSection /\ AtOldest /\ AtBisect /\ AtFound /\ AtPurge
=============================================================================
