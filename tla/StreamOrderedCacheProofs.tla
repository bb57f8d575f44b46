----------------------- MODULE StreamOrderedCacheProofs -----------------------
(***************************************************************************)
(* Proofs about StreamOrderedCache for lists of any length and sections of *)
(* any size.  IInv says what each step of the search has established; it   *)
(* is inductive and implies the properties.                                *)
(***************************************************************************)
EXTENDS StreamOrderedCache, TLAPS

(***************************************************************************)
(* What taking items out of the list does to a set of its items.           *)
(***************************************************************************)
\* An item of the list without item i was an item at its own place or next.
LEMMA WithoutElements ==
    ASSUME NEW S \in SUBSET Int, NEW i \in Int, NEW j \in Int
    PROVE  j \in Without(S, i) <=> \/ j \in S /\ j < i
                                   \/ j + 1 \in S /\ j >= i
BY DEF Without

\* An item of the list without its oldest k items was k places further.
LEMMA BeyondElements ==
    ASSUME NEW S \in SUBSET Int, NEW k \in Int, NEW j \in Int
    PROVE  j \in Beyond(S, k) <=> j >= 1 /\ j + k \in S
BY DEF Beyond

\* Both keep sets of integers, and inclusion.
LEMMA ShiftsAreMonotone ==
    ASSUME NEW S \in SUBSET Int, NEW T \in SUBSET S, NEW k \in Int
    PROVE  /\ Without(S, k) \subseteq Int /\ Beyond(S, k) \subseteq Int
           /\ Without(T, k) \subseteq Without(S, k)
           /\ Beyond(T, k) \subseteq Beyond(S, k)
BY DEF Without, Beyond

\* remove keeps the list well typed and in order.
LEMMA RemoveKeeps ==
    ASSUME TypeOK, ReadyInOrder, NEW i \in Items, remove(i), UNCHANGED inOrder
    PROVE  /\ n' \in 0..MaxItems /\ n' = n - 1
           /\ ready' \subseteq 1..n' /\ wasReady' \subseteq ready'
           /\ ReadyInOrder'
<1> USE DEF TypeOK, Items, remove
<1>1. n \in Int /\ i \in Int /\ ready \in SUBSET Int /\ wasReady \in SUBSET ready
  BY SizesAssumption
<1>2. \A j \in Int: j \in ready' <=> \/ j \in ready /\ j < i
                                     \/ j + 1 \in ready /\ j >= i
  BY <1>1, WithoutElements
<1>3. ready' \subseteq Int /\ wasReady' \subseteq ready'
  BY <1>1, ShiftsAreMonotone
<1>4. ready' \subseteq 1..n'
  BY <1>1, <1>2, <1>3
<1>5. ReadyInOrder'
  <2> SUFFICES ASSUME inOrder, NEW j \in ready', NEW k \in 1..j
               PROVE  k \in ready'
    BY DEF ReadyInOrder
  <2>1. j \in Int /\ k \in Int /\ k >= 1 /\ k <= j
    BY <1>3
  <2>2. \A a \in ready: \A b \in 1..a: b \in ready
    BY DEF ReadyInOrder
  <2>3. CASE j \in ready /\ j < i
    BY <2>1, <2>2, <2>3, <1>2, <1>1
  <2>4. CASE j + 1 \in ready /\ j >= i
    <3>1. k \in 1..(j + 1) /\ k + 1 \in 1..(j + 1)
      BY <2>1
    <3>2. k \in ready /\ k + 1 \in ready
      BY <3>1, <2>2, <2>4
    <3> QED BY <3>2, <2>1, <1>2, <1>1
  <2> QED BY <2>1, <2>3, <2>4, <1>2
<1> QED BY <1>1, <1>3, <1>4, <1>5, SizesAssumption

\* Removing the item found and all older ones keeps the list well typed and
\* in order.
LEMMA RemoveFoundKeeps ==
    ASSUME TypeOK, ReadyInOrder, AtFound, removeFound
    PROVE  /\ n' \in 0..MaxItems
           /\ ready' \subseteq 1..n' /\ wasReady' \subseteq ready'
           /\ asked' \subseteq 1..MaxItems
           /\ ReadyInOrder'
<1> USE DEF TypeOK, Items, removeFound
<1>1. /\ n \in Int /\ found \in 0..n
      /\ ready \in SUBSET Int /\ wasReady \in SUBSET ready /\ asked \in SUBSET Int
  BY SizesAssumption DEF AtFound
<1>2. \A j \in Int: j \in ready' <=> j >= 1 /\ j + found \in ready
  BY <1>1, BeyondElements
<1>3. \A j \in Int: j \in asked' <=> j >= 1 /\ j + found \in asked
  BY <1>1, BeyondElements
<1>4. ready' \subseteq Int /\ wasReady' \subseteq ready' /\ asked' \subseteq Int
  <2>1. ready' \subseteq Int /\ wasReady' \subseteq ready'
    <3>1. found \in Int
      BY <1>1
    <3> QED BY <1>1, <3>1, ShiftsAreMonotone
  <2>2. asked \in SUBSET asked
    OBVIOUS
  <2> QED BY <1>1, <2>1, <2>2, ShiftsAreMonotone
<1>5. ready' \subseteq 1..n'
  BY <1>1, <1>2, <1>4
<1>6. asked' \subseteq 1..MaxItems
  BY <1>1, <1>3, <1>4, SizesAssumption
<1>7. ReadyInOrder'
  <2> SUFFICES ASSUME inOrder, NEW j \in ready', NEW k \in 1..j
               PROVE  k \in ready'
    BY DEF ReadyInOrder
  <2>1. j \in Int /\ k \in Int /\ k >= 1 /\ k <= j /\ j + found \in ready
    BY <1>2, <1>4
  <2>2. k + found \in 1..(j + found)
    BY <2>1, <1>1
  <2>3. k + found \in ready
    BY <2>1, <2>2 DEF ReadyInOrder
  <2> QED BY <2>1, <2>3, <1>2
<1> QED BY <1>1, <1>4, <1>5, <1>6, <1>7, SizesAssumption

(***************************************************************************)
(* IInv is inductive.                                                      *)
(***************************************************************************)
LEMMA InitEstablishes == Init => IInv
BY SizesAssumption
DEF Init, IInv, TypeOK, Items, ReadyInOrder, Chosen, AskedReady,
    AtSection, AtOldest, AtBisect, AtFound, AtPurge

\* The GPU only adds to what is ready.
LEMMA CompleteKeeps == IInv /\ Complete => IInv'
<1> SUFFICES ASSUME IInv, Complete PROVE IInv'
  OBVIOUS
<1> USE DEF IInv, Complete
<1>1. PICK i \in (1..n) \ ready:
        /\ inOrder => \A j \in 1..(i - 1): j \in ready
        /\ ready' = ready \cup {i}
  OBVIOUS
<1>2. TypeOK'
  BY <1>1 DEF TypeOK, Items, search
<1>3. ReadyInOrder'
  BY <1>1, SizesAssumption DEF ReadyInOrder, TypeOK, Items
<1>4. Chosen' /\ AskedReady'
  BY <1>1 DEF Chosen, AskedReady, search
<1>5. AtSection' /\ AtOldest'
  BY DEF AtSection, AtOldest, search
<1>6. AtBisect'
  BY DEF AtBisect, search, Tmp
<1>7. AtFound' /\ AtPurge'
  BY <1>1 DEF AtFound, AtPurge
<1> QED BY <1>2, <1>3, <1>4, <1>5, <1>6, <1>7

LEMMA PutKeeps == IInv /\ put => IInv'
<1> SUFFICES ASSUME IInv, put PROVE IInv'
  OBVIOUS
<1> USE DEF IInv, put, insert
<1>1. TypeOK'
  BY SizesAssumption DEF TypeOK, Items, search
<1>2. ReadyInOrder' /\ Chosen' /\ AskedReady'
  BY DEF ReadyInOrder, Chosen, AskedReady, search
<1>3. AtSection' /\ AtOldest' /\ AtBisect' /\ AtFound' /\ AtPurge'
  BY DEF AtSection, AtOldest, AtBisect, AtFound, AtPurge
<1> QED BY <1>1, <1>2, <1>3

LEMMA GetKeeps == IInv /\ getIf => IInv'
<1> SUFFICES ASSUME IInv, getIf PROVE IInv'
  OBVIOUS
<1> USE DEF IInv, getIf
<1>1. PICK i \in Items: remove(i)
  BY DEF Items
<1>2. TypeOK' /\ ReadyInOrder'
  BY <1>1, RemoveKeeps DEF TypeOK, Items, search
<1>3. Chosen' /\ AskedReady' /\ AtSection' /\ AtOldest' /\ AtBisect' /\ AtFound' /\ AtPurge'
  BY DEF Chosen, AskedReady, AtSection, AtOldest, AtBisect, AtFound, AtPurge
<1> QED BY <1>2, <1>3

\* waitAndPurge, the start of removeAllReady and its failures.
LEMMA EntriesAndExitsKeep ==
    IInv /\ (waitNewest \/ purge \/ removeAllReady \/ throws \/ unwind \/ walkDone) => IInv'
<1> USE DEF IInv
<1>1. ASSUME IInv, waitNewest PROVE IInv'
  BY <1>1 DEF waitNewest, list, search, TypeOK, Items, ReadyInOrder, Chosen, AskedReady,
     AtSection, AtOldest, AtBisect, AtFound, AtPurge, Tmp
<1>2. ASSUME IInv, purge PROVE IInv'
  BY <1>2, SizesAssumption DEF purge, search, TypeOK, Items, ReadyInOrder, Chosen, AskedReady,
     AtSection, AtOldest, AtBisect, AtFound, AtPurge
<1>3. ASSUME IInv, removeAllReady PROVE IInv'
  BY <1>3, SizesAssumption DEF removeAllReady, list, TypeOK, Items, ReadyInOrder, Chosen,
     AskedReady, AtSection, AtOldest, AtBisect, AtFound, AtPurge
<1>4. ASSUME IInv, throws \/ unwind \/ walkDone PROVE IInv'
  <2>1. pc' \in {"idle", "threw"} /\ UNCHANGED <<list, precise, inOrder, search, found, asked>>
    BY <1>4 DEF throws, QueryFails, unwind, walkDone
  <2> QED
    BY <1>4, <2>1 DEF list, search, TypeOK, Items, ReadyInOrder, Chosen, AskedReady,
       AtSection, AtOldest, AtBisect, AtFound, AtPurge
<1> QED BY <1>1, <1>2, <1>3, <1>4

LEMMA SectionKeeps == IInv /\ (sectionNone \/ sectionReady \/ sectionGather) => IInv'
<1> USE DEF IInv, Return
<1>1. ASSUME IInv, sectionNone PROVE IInv'
  <2>1. asked = {} \/ ~inOrder
    BY <1>1 DEF sectionNone, AtSection, AskedReady, TypeOK, Items
  <2> QED
    BY <1>1, <2>1 DEF sectionNone, list, search, TypeOK, Items, ReadyInOrder, Chosen,
       AskedReady, AtSection, AtOldest, AtBisect, AtFound, AtPurge
<1>2. ASSUME IInv, sectionReady PROVE IInv'
  BY <1>2 DEF sectionReady, IsReady, search, TypeOK, Items, ReadyInOrder, Chosen,
     AskedReady, AtSection, AtOldest, AtBisect, AtFound, AtPurge
<1>3. ASSUME IInv, sectionGather PROVE IInv'
  <2> USE <1>3 DEF sectionGather, NotReady
  <2>1. inOrder => \A i \in asked: i <= at - 1
    <3>1. asked \subseteq ready /\ at \notin asked /\ at \in Int /\ asked \subseteq Int
      BY SizesAssumption DEF AskedReady, TypeOK, Items
    <3> QED BY <3>1 DEF AtSection
  <2>2. TypeOK'
    BY SizesAssumption DEF TypeOK, Items, Minimum
  <2>3. ReadyInOrder' /\ Chosen' /\ AskedReady' /\ AtSection' /\ AtBisect' /\ AtPurge'
    BY DEF ReadyInOrder, Chosen, AskedReady, AtSection, AtBisect, AtPurge
  <2>4. AtOldest'
    BY <2>1, SizesAssumption DEF AtOldest, AtSection, Minimum, TypeOK
  <2>5. AtFound'
    BY <2>1 DEF AtFound
  <2> QED BY <2>2, <2>3, <2>4, <2>5
<1> QED BY <1>1, <1>2, <1>3

LEMMA OldestKeeps == IInv /\ (oldestNotReady \/ oldestReady) => IInv'
<1> USE DEF IInv
<1>1. ASSUME IInv, oldestNotReady PROVE IInv'
  <2> USE <1>1 DEF oldestNotReady, NotReady
  <2>1. inOrder => \A i \in asked: i <= at - 1 - count
    <3> SUFFICES ASSUME inOrder, NEW i \in asked, i > at - 1 - count PROVE FALSE
      BY SizesAssumption DEF TypeOK
    <3>1. i \in ready /\ i \in Int /\ at \in Int /\ count \in Int
      BY SizesAssumption DEF AskedReady, TypeOK, Items
    <3>2. Tmp(count - 1) = at - count /\ at - count >= 1
      BY <3>1 DEF Tmp, AtOldest
    <3>3. at - count \in 1..i
      BY <3>1, <3>2
    <3> QED BY <3>1, <3>2, <3>3 DEF ReadyInOrder
  <2>2. TypeOK'
    BY SizesAssumption DEF TypeOK, Items, AtOldest
  <2>3. ReadyInOrder' /\ Chosen' /\ AskedReady' /\ AtOldest' /\ AtBisect' /\ AtFound' /\ AtPurge'
    BY DEF ReadyInOrder, Chosen, AskedReady, AtOldest, AtBisect, AtFound, AtPurge
  <2>4. AtSection'
    BY <2>1, SizesAssumption DEF AtSection, AtOldest, TypeOK
  <2> QED BY <2>2, <2>3, <2>4
<1>2. ASSUME IInv, oldestReady PROVE IInv'
  <2> USE <1>2 DEF oldestReady, IsReady
  <2>1. TypeOK'
    <3>1. count \in Int /\ count >= 0 /\ count <= Block
      BY SizesAssumption DEF TypeOK
    <3>2. lo' \in 0..Block /\ hi' \in 0..Block /\ m' \in 0..Block
      BY <3>1, SizesAssumption
    <3>3. wasReady' \subseteq ready'
      BY DEF TypeOK
    <3> QED BY <3>2, <3>3 DEF TypeOK, Items
  <2>2. ReadyInOrder' /\ Chosen' /\ AskedReady' /\ AtSection' /\ AtOldest' /\ AtFound' /\ AtPurge'
    BY DEF ReadyInOrder, Chosen, AskedReady, AtSection, AtOldest, AtFound, AtPurge
  <2>3. AtBisect'
    BY SizesAssumption DEF AtBisect, AtOldest, Tmp, TypeOK
  <2> QED BY <2>1, <2>2, <2>3
<1> QED BY <1>1, <1>2

LEMMA BisectKeeps == IInv /\ (bisectReady \/ bisectNotReady \/ bisectDone) => IInv'
<1> USE DEF IInv
<1>1. ASSUME IInv, bisectReady PROVE IInv'
  <2> USE <1>1 DEF bisectReady, IsReady
  <2>1. m \in Int /\ lo \in Int /\ hi \in Int /\ count \in Int /\ lo <= m /\ m < hi
    BY SizesAssumption DEF AtBisect, TypeOK
  <2>2. TypeOK'
    <3>1. hi' \in 0..Block /\ m' \in 0..Block
      BY <2>1, SizesAssumption DEF TypeOK
    <3>2. wasReady' \subseteq ready'
      BY DEF TypeOK
    <3> QED BY <3>1, <3>2 DEF TypeOK, Items
  <2>3. ReadyInOrder' /\ Chosen' /\ AskedReady' /\ AtSection' /\ AtOldest' /\ AtFound' /\ AtPurge'
    BY DEF ReadyInOrder, Chosen, AskedReady, AtSection, AtOldest, AtFound, AtPurge
  <2>4. AtBisect'
    BY <2>1 DEF AtBisect, Tmp
  <2> QED BY <2>2, <2>3, <2>4
<1>2. ASSUME IInv, bisectNotReady PROVE IInv'
  <2> USE <1>2 DEF bisectNotReady, NotReady
  <2>1. /\ m \in Int /\ lo \in Int /\ hi \in Int /\ count \in Int /\ at \in Int
        /\ lo <= m /\ m < hi /\ hi <= count /\ lo >= 0
    BY SizesAssumption DEF AtBisect, TypeOK
  <2>2. m + 1 < count
    <3> SUFFICES ASSUME m = count - 1 PROVE FALSE
      BY <2>1
    <3> QED BY DEF AtBisect, TypeOK
  <2>3. inOrder => \A i \in asked: i <= at - 1 - (m + 1)
    <3> SUFFICES ASSUME inOrder, NEW i \in asked, i > at - 1 - (m + 1) PROVE FALSE
      BY <2>1 DEF TypeOK
    <3>1. i \in ready /\ i \in Int
      BY SizesAssumption DEF AskedReady, TypeOK, Items
    <3>2. Tmp(m) = at - 1 - m /\ at - 1 - m >= 1
      BY <2>1 DEF Tmp, AtBisect
    <3>3. at - 1 - m \in 1..i
      BY <2>1, <3>1, <3>2
    <3> QED BY <3>1, <3>2, <3>3 DEF ReadyInOrder
  <2>4. TypeOK'
    BY <2>1, <2>2, SizesAssumption DEF TypeOK, Items
  <2>5. ReadyInOrder' /\ Chosen' /\ AskedReady' /\ AtSection' /\ AtOldest' /\ AtFound' /\ AtPurge'
    BY DEF ReadyInOrder, Chosen, AskedReady, AtSection, AtOldest, AtFound, AtPurge
  <2>6. AtBisect'
    BY <2>1, <2>2, <2>3 DEF AtBisect, Tmp
  <2> QED BY <2>4, <2>5, <2>6
<1>3. ASSUME IInv, bisectDone PROVE IInv'
  <2> USE <1>3 DEF bisectDone, Return
  <2>1. m = lo /\ m = hi /\ m < count
    BY SizesAssumption DEF AtBisect, TypeOK
  <2>2. Tmp(m) \in ready /\ Tmp(m) \in 0..MaxItems
    <3>1. Tmp(m) \in ready
      BY <2>1 DEF AtBisect, TypeOK
    <3>2. ready \subseteq 0..MaxItems
      BY SizesAssumption DEF TypeOK, Items
    <3> QED BY <3>1, <3>2
  <2>3. TypeOK'
    BY <2>2 DEF TypeOK, Items, list, search
  <2>4. AtFound'
    BY <2>1, <2>2 DEF AtFound, AtBisect, list
  <2>5. ReadyInOrder' /\ Chosen' /\ AskedReady' /\ AtSection' /\ AtOldest' /\ AtBisect' /\ AtPurge'
    BY DEF ReadyInOrder, Chosen, AskedReady, AtSection, AtOldest, AtBisect, AtPurge, list
  <2> QED BY <2>3, <2>4, <2>5
<1> QED BY <1>1, <1>2, <1>3

LEMMA RemoveFoundInductive == IInv /\ removeFound => IInv'
<1> SUFFICES ASSUME IInv, removeFound PROVE IInv'
  OBVIOUS
<1>1. TypeOK' /\ ReadyInOrder'
  BY RemoveFoundKeeps DEF IInv, TypeOK, Items, removeFound, search
<1>2. Chosen' /\ AskedReady' /\ AtSection' /\ AtOldest' /\ AtBisect' /\ AtFound' /\ AtPurge'
  BY DEF removeFound, Chosen, AskedReady, AtSection, AtOldest, AtBisect, AtFound, AtPurge
<1> QED BY <1>1, <1>2 DEF IInv

LEMMA WalkKeeps == IInv /\ (walkReady \/ walkNotReady) => IInv'
<1> USE DEF IInv
<1>1. ASSUME IInv, walkReady PROVE IInv'
  <2> USE <1>1 DEF walkReady
  <2>1. /\ at \in Items /\ at \in Int /\ ready \in SUBSET Int /\ asked \in SUBSET ready
        /\ asked \in SUBSET Int
    BY SizesAssumption DEF AtSection, TypeOK, Items, AskedReady
  <2>2. /\ n' \in 0..MaxItems /\ n' = n - 1
        /\ ready' \subseteq 1..n' /\ wasReady' \subseteq ready' /\ ReadyInOrder'
    BY <2>1, RemoveKeeps
  <2>3. asked' \subseteq ready'
    BY <2>1, ShiftsAreMonotone DEF remove
  <2>4. \A i \in asked': i <= at - 1
    <3> SUFFICES ASSUME NEW i \in asked' PROVE i <= at - 1
      OBVIOUS
    <3>1. i \in Int
      BY <2>1, ShiftsAreMonotone
    <3>2. \/ i \in asked /\ i < at
          \/ i + 1 \in asked /\ i >= at
      BY <3>1, <2>1, WithoutElements
    <3> QED BY <3>1, <3>2, <2>1 DEF AtSection
  <2>5. TypeOK'
    <3>1. asked' \subseteq 1..MaxItems
      <4>1. n' \in Int /\ n' <= MaxItems
        BY <2>2, SizesAssumption
      <4>2. 1..n' \subseteq 1..MaxItems
        BY <4>1, SizesAssumption
      <4> QED BY <2>2, <2>3, <4>2, Zenon
    <3>2. at' \in 0..MaxItems
      BY <2>1, SizesAssumption DEF TypeOK, Items
    <3> QED BY <2>2, <3>1, <3>2 DEF TypeOK, Items
  <2>6. AtSection'
    BY <2>1, <2>2, <2>4, SizesAssumption DEF AtSection, TypeOK
  <2>7. AskedReady' /\ Chosen' /\ AtOldest' /\ AtBisect' /\ AtFound' /\ AtPurge'
    BY <2>3 DEF AskedReady, Chosen, AtOldest, AtBisect, AtFound, AtPurge
  <2> QED BY <2>2, <2>5, <2>6, <2>7
<1>2. ASSUME IInv, walkNotReady PROVE IInv'
  <2> USE <1>2 DEF walkNotReady, NotReady
  <2>1. \A i \in asked: i <= at - 1
    BY SizesAssumption DEF AtSection, AskedReady, TypeOK, Items
  <2>2. TypeOK'
    BY SizesAssumption DEF TypeOK, Items
  <2>3. AtSection'
    BY <2>1, SizesAssumption DEF AtSection, TypeOK
  <2>4. ReadyInOrder' /\ Chosen' /\ AskedReady' /\ AtOldest' /\ AtBisect' /\ AtFound' /\ AtPurge'
    BY DEF ReadyInOrder, Chosen, AskedReady, AtOldest, AtBisect, AtFound, AtPurge
  <2> QED BY <2>2, <2>3, <2>4
<1> QED BY <1>1, <1>2

LEMMA StepKeeps == IInv /\ [Next]_vars => IInv'
<1>1. ASSUME IInv, UNCHANGED vars PROVE IInv'
  BY <1>1 DEF vars, list, search, IInv, TypeOK, Items, ReadyInOrder, Chosen, AskedReady,
     AtSection, AtOldest, AtBisect, AtFound, AtPurge, Tmp
<1> QED
  BY <1>1, CompleteKeeps, PutKeeps, GetKeeps, EntriesAndExitsKeep, SectionKeeps, OldestKeeps,
     BisectKeeps, RemoveFoundInductive, WalkKeeps DEF Next, Host, findNewestReady

\* What each step of the search has established holds in every behaviour.
THEOREM SearchInvariant == Spec => []IInv
BY InitEstablishes, StepKeeps, PTL DEF Spec

\* Type correctness of the list and of the search's variables.
THEOREM Typing == Spec => []TypeOK
<1>1. IInv => TypeOK
  BY DEF IInv
<1> QED BY <1>1, SearchInvariant, PTL

\* No probe of findNewestReady leaves tmp, and its assertions hold, whatever
\* completes while it searches.
THEOREM SearchInBounds == Spec => []ProbesInBounds
<1>1. IInv => ProbesInBounds
  <2> SUFFICES ASSUME IInv PROVE ProbesInBounds
    OBVIOUS
  <2>1. /\ n \in Int /\ at \in Int /\ count \in 0..Block /\ Block \in Int
        /\ lo \in Int /\ lo >= 0 /\ hi \in Int /\ m \in Int
    BY SizesAssumption DEF IInv, TypeOK
  <2>2. pc = "oldest" => count \in 1..Block /\ Tmp(count - 1) \in Items
    BY <2>1 DEF IInv, AtOldest, Tmp, Items
  <2>3. pc = "bisect" /\ lo < hi => m \in 0..(count - 1) /\ Tmp(m) \in Items
    BY <2>1 DEF IInv, AtBisect, Tmp, Items
  <2>4. pc = "bisect" /\ lo >= hi => m = hi /\ m < count /\ Tmp(m) \in wasReady
    BY <2>1 DEF IInv, AtBisect
  <2> QED BY <2>2, <2>3, <2>4 DEF ProbesInBounds
<1> QED BY <1>1, SearchInvariant, PTL

\* The hint under which a list is searched by order never changes, so a list
\* that is searched by order is in order, unless Unordered lists are allowed.
LEMMA PreciseIsInOrder ==
    ASSUME ~Unordered
    PROVE  Spec => [](precise => inOrder)
<1>1. Init => (precise => inOrder)
  BY DEF Init
<1>2. (precise => inOrder) /\ [Next]_vars => (precise => inOrder)'
  BY DEF Next, Host, findNewestReady, vars, Complete, put, insert, getIf, waitNewest, purge, removeAllReady,
     throws, QueryFails, unwind, sectionNone, sectionReady, sectionGather, oldestNotReady, oldestReady,
     bisectReady, bisectNotReady, bisectDone, removeFound, walkReady, walkNotReady, walkDone
<1> QED BY <1>1, <1>2, PTL DEF Spec

\* If the lists searched by order are in order, removeAllReady moves only
\* items that are ready.
THEOREM OnlyReadyIsMoved ==
    ASSUME ~Unordered
    PROVE  Spec => []MovedReady
<1>1. IInv /\ (precise => inOrder) => MovedReady
  BY DEF IInv, Chosen, AtFound, ReadyInOrder, MovedReady
<1> QED BY <1>1, SearchInvariant, PreciseIsInOrder, PTL

\* removeAllReady leaves nothing behind that was ready when it was called.
THEOREM AllReadyIsMoved == Spec => []NoneLeftBehind
<1>1. IInv => NoneLeftBehind
  BY DEF IInv, AtFound, AtSection, NoneLeftBehind
<1> QED BY <1>1, SearchInvariant, PTL

(***************************************************************************)
(* A list searched by order that is in order implements ReadyList.  The    *)
(* steps of the search are stutters of it; removeFound hands on the oldest *)
(* items at once, and walkReady one by one.                                *)
(***************************************************************************)
LEMMA InitIsReadyList == Init => R!Init
BY DEF Init, R!Init, Call

\* The steps of the search leave to a caller all as it was.
LEMMA SearchIsUnseen ==
    ASSUME findNewestReady \/ walkNotReady \/ waitNewest \/ UNCHANGED vars
    PROVE  UNCHANGED R!readyVars
<1>1. UNCHANGED <<n, ready, inOrder, asked>>
  BY DEF findNewestReady, sectionNone, sectionReady, sectionGather, oldestNotReady, oldestReady,
     bisectReady, bisectNotReady, bisectDone, walkNotReady, waitNewest, vars, list
<1>2. Call' = Call
  BY DEF findNewestReady, sectionNone, sectionReady, sectionGather, oldestNotReady, oldestReady,
     bisectReady, bisectNotReady, bisectDone, walkNotReady, waitNewest, vars, Return, Call
<1> QED BY <1>1, <1>2 DEF R!readyVars

\* What the callers of the list do, and the GPU.
LEMMA CallerSteps ==
    /\ Complete => R!Complete
    /\ put => R!Put
    /\ getIf => R!Get
    /\ removeAllReady => R!Call
    /\ throws => R!Fail
    /\ unwind => R!Unwind
<1>1. Complete => R!Complete
  BY DEF Complete, R!Complete, Call
<1>2. put => R!Put
  BY DEF put, insert, R!Put, Call
<1>3. getIf => R!Get
  BY DEF getIf, remove, Without, R!Get, R!Closed, Call
<1>4. removeAllReady => R!Call
  BY DEF removeAllReady, list, R!Call, Call
<1>5. throws => R!Fail
  BY DEF throws, QueryFails, list, R!Fail, Call
<1>6. unwind => R!Unwind
  BY DEF unwind, list, R!Unwind, Call
<1> QED BY <1>1, <1>2, <1>3, <1>4, <1>5, <1>6

\* removeFound hands on the item found and the older ones, which are ready, and
\* leaves nothing of what was asked for.
LEMMA RemoveFoundStep ==
    ASSUME IInv, precise => inOrder, removeFound
    PROVE  R!HandOnOldest
<1>1. pc = "found" /\ precise /\ inOrder
  BY DEF removeFound, IInv, Chosen
<1>2. /\ found \in Int /\ found >= 0 /\ found <= n /\ n \in Int
      /\ 1..found \subseteq ready
  BY <1>1, SizesAssumption DEF IInv, TypeOK, Items, AtFound, ReadyInOrder
<1>3. asked' = {}
  BY <1>1 DEF removeFound, Beyond, IInv, AtFound, TypeOK
<1>4. found \in 0..n
  BY <1>2
<1>5. Call = "removeAllReady" /\ Call' = "none"
  BY <1>1 DEF removeFound, Call
<1>6. n' = n - found /\ ready' = R!Cut(ready, found) /\ asked' = R!Cut(asked, found)
  BY DEF removeFound, Beyond, R!Cut
<1> QED BY <1>2, <1>3, <1>4, <1>5, <1>6 DEF R!HandOnOldest, removeFound

\* The walk hands on ready items, and has none of those asked for before it when
\* it ends.
LEMMA WalkSteps ==
    ASSUME IInv
    PROVE  (walkReady => R!HandOn) /\ (walkDone => R!Return)
<1>1. walkReady => R!HandOn
  BY DEF walkReady, remove, Without, R!HandOn, R!Closed, Call
<1>2. walkDone => asked = {}
  BY SizesAssumption DEF walkDone, IInv, AtSection, TypeOK
<1>3. walkDone => R!Return
  BY <1>2 DEF walkDone, list, R!Return, Call
<1> QED BY <1>1, <1>3

\* A purge of a list in order finds all items ready.
LEMMA PurgeStep ==
    ASSUME IInv, purge
    PROVE  R!Purge
<1>1. inOrder => 1..n \subseteq ready
  BY DEF purge, IInv, AtPurge, ReadyInOrder
<1> QED BY <1>1 DEF purge, R!Purge, Call

\* A call of removeAllReady that returns has handed on all that was ready when
\* it was called and nothing in use, however the GPU goes on meanwhile, and a
\* purge of a list in order frees nothing in use, if the lists searched by order
\* are in order.
THEOREM ListKeepsItsPromise ==
    ASSUME ~Unordered
    PROVE  Spec => ImplementsReadyList
<1>1. IInv /\ (precise => inOrder) /\ [Next]_vars => [R!Next]_(R!readyVars)
  BY SearchIsUnseen, CallerSteps, RemoveFoundStep, WalkSteps, PurgeStep DEF Next, Host, R!Next
<1> QED
  BY <1>1, InitIsReadyList, SearchInvariant, PreciseIsInOrder, PTL DEF Spec, ImplementsReadyList, R!Spec
=============================================================================
