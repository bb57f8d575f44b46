------------------------- MODULE HandleManagerProofs -------------------------
(***************************************************************************)
(* For any number of threads, slots, references and generations, and sizes *)
(* set only while no other thread is inside the manager: references keep   *)
(* objects alive, counts are exact, stale handles are refused, and a limit *)
(* that is not zero holds.                                                 *)
(***************************************************************************)
EXTENDS HandleManager, FiniteSetTheorems, SequenceTheorems, TLAPS

\* The threads at statement l, and how their number changes with a step.
At(f, l) == {t \in Threads : f[t] = l}

LEMMA AtFinite == ASSUME NEW f, NEW l PROVE IsFiniteSet(At(f, l)) /\ Cardinality(At(f, l)) \in Nat
  <1>1. At(f, l) \in SUBSET Threads
    BY DEF At
  <1>2. IsFiniteSet(At(f, l))
    BY <1>1, FS_Subset, ManagerAssumption
  <1>3. QED  BY <1>2, FS_CardinalityType

\* 1 where a is b.
One(a, b) == IF a = b THEN 1 ELSE 0

LEMMA AtChanges ==
  ASSUME NEW t \in Threads, NEW l, NEW f, NEW g, \A u \in Threads : u # t => g[u] = f[u]
  PROVE  Cardinality(At(g, l)) = Cardinality(At(f, l)) + One(g[t], l) - One(f[t], l)
  <1>1. IsFiniteSet(At(f, l)) /\ Cardinality(At(f, l)) \in Nat /\ (t \in At(f, l) <=> f[t] = l)
    BY AtFinite DEF At
  <1>2. CASE g[t] = l
    <2>1. At(g, l) = At(f, l) \cup {t}
      BY <1>2 DEF At
    <2>2. Cardinality(At(f, l) \cup {t}) = IF t \in At(f, l) THEN Cardinality(At(f, l)) ELSE Cardinality(At(f, l)) + 1
      BY <1>1, FS_AddElement
    <2>3. QED  BY <1>1, <1>2, <2>1, <2>2 DEF One
  <1>3. CASE g[t] # l
    <2>1. At(g, l) = At(f, l) \ {t}
      BY <1>3 DEF At
    <2>2. Cardinality(At(f, l) \ {t}) = IF t \in At(f, l) THEN Cardinality(At(f, l)) - 1 ELSE Cardinality(At(f, l))
      BY <1>1, FS_RemoveElement
    <2>3. QED  BY <1>1, <1>3, <2>1, <2>2 DEF One
  <1>4. QED  BY <1>2, <1>3

\* The same for the references to a slot.
Held(f, r) == {k \in Refs : f[k] # NoHandle /\ f[k].res = r}

LEMMA HeldFinite == ASSUME NEW f, NEW r PROVE IsFiniteSet(Held(f, r)) /\ Cardinality(Held(f, r)) \in Nat
  <1>1. Held(f, r) \in SUBSET Refs
    BY DEF Held
  <1>2. IsFiniteSet(Held(f, r))
    BY <1>1, FS_Subset, ManagerAssumption
  <1>3. QED  BY <1>2, FS_CardinalityType

LEMMA NewRef ==
  ASSUME NEW k \in Refs, NEW f, NEW g, f[k] = NoHandle, g[k] # NoHandle,
         \A j \in Refs : j # k => g[j] = f[j], NEW r
  PROVE  /\ Held(g, r) = IF g[k].res = r THEN Held(f, r) \cup {k} ELSE Held(f, r)
         /\ Cardinality(Held(g, r)) = Cardinality(Held(f, r)) + One(g[k].res, r)
  <1>1. IsFiniteSet(Held(f, r)) /\ Cardinality(Held(f, r)) \in Nat
    BY HeldFinite
  <1>2. k \notin Held(f, r)
    BY DEF Held
  <1>3. Held(g, r) = IF g[k].res = r THEN Held(f, r) \cup {k} ELSE Held(f, r)
    BY DEF Held
  <1>4. Cardinality(Held(f, r) \cup {k}) = Cardinality(Held(f, r)) + 1
    BY <1>1, <1>2, FS_AddElement
  <1>5. QED  BY <1>1, <1>3, <1>4 DEF One

LEMMA DroppedRef ==
  ASSUME NEW k \in Refs, NEW f, NEW g, f[k] # NoHandle, g[k] = NoHandle,
         \A j \in Refs : j # k => g[j] = f[j], NEW r
  PROVE  /\ Held(g, r) = Held(f, r) \ {k}
         /\ Cardinality(Held(g, r)) = Cardinality(Held(f, r)) - One(f[k].res, r)
  <1>1. IsFiniteSet(Held(f, r)) /\ Cardinality(Held(f, r)) \in Nat
    BY HeldFinite
  <1>2. k \in Held(f, r) <=> f[k].res = r
    BY DEF Held
  <1>3. Held(g, r) = Held(f, r) \ {k}
    BY DEF Held
  <1>4. Cardinality(Held(f, r) \ {k}) = IF k \in Held(f, r) THEN Cardinality(Held(f, r)) - 1 ELSE Cardinality(Held(f, r))
    BY <1>1, FS_RemoveElement
  <1>5. QED  BY <1>1, <1>2, <1>3, <1>4 DEF One

\* A slot with one reference left has no other.
LEMMA LastRef ==
  ASSUME NEW k, NEW f, NEW r, k \in Held(f, r), Cardinality(Held(f, r)) = 1
  PROVE  Held(f, r) = {k}
  BY HeldFinite, FS_Singleton

\* Slots are finitely many.
LEMMA SlotsFinite == ASSUME NEW S, S \subseteq Res PROVE IsFiniteSet(S) /\ Cardinality(S) \in Nat
  <1>1. IsFiniteSet(S)
    BY FS_Subset, ManagerAssumption
  <1>2. QED  BY <1>1, FS_CardinalityType

\* UsedCountExact holds after a step of a thread from one statement to another
\* if the counter changes as the slots in use and these statements do.
LEMMA UsedStep ==
  ASSUME IInv, TypeOK', NEW t \in Threads, NEW l, pc' = [pc EXCEPT ![t] = l],
         used' = used + Cardinality(managed' \ free') - Cardinality(managed \ free)
                 - One(l, "count") + One(pc[t], "count")
                 + One(l, "uncount") - One(pc[t], "uncount")
  PROVE  UsedCountExact'
  <1>1. managed \ free \subseteq Res /\ managed' \ free' \subseteq Res /\ used \in Int
    BY DEF IInv, TypeOK
  <1>2. Cardinality(managed \ free) \in Nat /\ Cardinality(managed' \ free') \in Nat
    BY <1>1, SlotsFinite
  <1>3. /\ Cardinality(At(pc', "count")) = Cardinality(At(pc, "count")) + One(l, "count") - One(pc[t], "count")
        /\ Cardinality(At(pc', "uncount")) = Cardinality(At(pc, "uncount")) + One(l, "uncount") - One(pc[t], "uncount")
        /\ Cardinality(At(pc, "count")) \in Nat /\ Cardinality(At(pc, "uncount")) \in Nat
    <2>1. pc'[t] = l /\ \A u \in Threads : u # t => pc'[u] = pc[u]
      BY DEF IInv, TypeOK
    <2>2. /\ Cardinality(At(pc', "count")) = Cardinality(At(pc, "count")) + One(pc'[t], "count") - One(pc[t], "count")
          /\ Cardinality(At(pc', "uncount")) = Cardinality(At(pc, "uncount")) + One(pc'[t], "uncount") - One(pc[t], "uncount")
      BY <2>1, AtChanges
    <2>3. QED  BY <2>1, <2>2, AtFinite
  <1>4. \A a, b : One(a, b) \in Int
    BY DEF One
  <1>5. used = Cardinality(managed \ free) - Cardinality(At(pc, "count")) + Cardinality(At(pc, "uncount"))
    BY DEF IInv, UsedCountExact, At
  <1>6. used' = Cardinality(managed' \ free') - Cardinality(At(pc', "count")) + Cardinality(At(pc', "uncount"))
    BY <1>1, <1>2, <1>3, <1>4, <1>5
  <1>7. QED  BY <1>6 DEF UsedCountExact, At

\* Generations follow each other modulo their number.
LEMMA NextGeneration ==
  ASSUME NEW g \in 0..(Generations - 1)
  PROVE  (g + 1) % Generations = IF g + 1 = Generations THEN 0 ELSE g + 1
  BY ManagerAssumption
LEMMA AgoNext ==
  ASSUME NEW g \in 0..(Generations - 1), NEW h, h = (IF g + 1 = Generations THEN 0 ELSE g + 1),
         NEW i \in Nat, 1 <= i, i < Generations
  PROVE  (IF g >= i - 1 THEN g - (i - 1) ELSE g - (i - 1) + Generations)
            = (IF h >= i THEN h - i ELSE h - i + Generations)
  <1>1. Generations \in Nat
    BY ManagerAssumption
  <1>2. QED  BY <1>1

LEMMA AgoDiffers ==
  ASSUME NEW g \in 0..(Generations - 1), NEW i \in Nat, 1 <= i, i < Generations
  PROVE  g # IF g >= i THEN g - i ELSE g - i + Generations
  <1>1. Generations \in Nat
    BY ManagerAssumption
  <1>2. QED  BY <1>1

\* PastInOrder for one slot: p are the generations destroyed, g that of the slot.
PastOf(p, g, hasObject) ==
  /\ Len(p) < Generations
  /\ \A i \in 1..Len(p) :
       LET n == IF hasObject THEN i ELSE i - 1
       IN  p[i] = IF g >= n THEN g - n ELSE g - n + Generations

LEMMA PastFacts ==
  /\ PastInOrder <=> \A r \in Res : PastOf(past[r], gen[r], r \in live)
  /\ PastInOrder' <=> \A r \in Res : PastOf(past'[r], gen'[r], r \in live')
  BY DEF PastInOrder, PastOf, Ago

-----------------------------------------------------------------------------
\* Steps that only move a thread between statements at which it has no slot and
\* nothing to count.
LEMMA LocalSteps ==
  ASSUME IInv, NEW t \in Threads, NEW l \in {"idle", "pop", "grow", "growLock"},
         pc[t] \in {"idle", "pop", "grow", "growLock"}, pc' = [pc EXCEPT ![t] = l],
         UNCHANGED <<managed, free, live, gen, refs, used, fixed, loc, ref, past, limit>>
  PROVE  IInv'
  <1>1. TypeOK'
    BY DEF IInv, TypeOK
  <1>2. OneThreadPerSlot' /\ HeldHandlesValid' /\ PastInOrder'
    BY DEF IInv, OneThreadPerSlot, HeldHandlesValid, Valid, PastInOrder, Ago
  <1>3. SlotsApart'
    BY DEF IInv, TypeOK, SlotsApart, Busy
  <1>4. ObjectsInUse'
    BY ZenonT(60) DEF IInv, TypeOK, ObjectsInUse, RefsTo
  <1>5. RefCountExact'
    BY DEF IInv, TypeOK, RefCountExact, RefsTo
  <1>6. UsedCountExact'
    <2>1. used \in Int /\ Cardinality(managed \ free) \in Nat
      BY SlotsFinite DEF IInv, TypeOK
    <2>2. used' = used + Cardinality(managed' \ free') - Cardinality(managed \ free)
                        - One(l, "count") + One(pc[t], "count") + One(l, "uncount") - One(pc[t], "uncount")
      BY <2>1 DEF One
    <2>3. QED  BY <1>1, <2>2, UsedStep
  <1>7. QED  BY <1>1, <1>2, <1>3, <1>4, <1>5, <1>6 DEF IInv

\* create takes a slot off the free list.
LEMMA PopStep == ASSUME IInv, NEW t \in Threads, Pop(t) PROVE IInv'
  <1> PICK r \in free : free' = free \ {r} /\ loc' = [loc EXCEPT ![t] = r]
    BY DEF Pop
  <1>1. /\ pc' = [pc EXCEPT ![t] = "count"] /\ pc[t] = "pop" /\ r \in managed /\ r \in Res
        /\ UNCHANGED <<managed, live, gen, refs, used, fixed, ref, past, limit>>
    BY DEF Pop, Goto, IInv, TypeOK
  <1>2. /\ \A u \in Threads : loc[u] # r
        /\ \A k \in Refs : ref[k] # NoHandle => ref[k].res # r
        /\ loc[t] = NoRes
    BY <1>1, ManagerAssumption DEF IInv, OneThreadPerSlot, SlotsApart, Busy, TypeOK
  <1>3. TypeOK'
    BY <1>1 DEF IInv, TypeOK
  <1>4. OneThreadPerSlot'
    BY <1>1, <1>2, ManagerAssumption DEF IInv, TypeOK, OneThreadPerSlot
  <1>5. SlotsApart'
    BY <1>1, <1>2, ManagerAssumption DEF IInv, TypeOK, SlotsApart, Busy
  <1>6. HeldHandlesValid' /\ PastInOrder'
    BY <1>1 DEF IInv, HeldHandlesValid, Valid, PastInOrder, Ago
  <1>7. ObjectsInUse'
    BY <1>1, <1>2, ZenonT(60) DEF IInv, TypeOK, ObjectsInUse, RefsTo
  <1>8. RefCountExact'
    BY <1>1, <1>2, ZenonT(60) DEF IInv, TypeOK, RefCountExact, RefsTo
  <1>9. UsedCountExact'
    <2>1. managed' \ free' = (managed \ free) \cup {r} /\ r \notin managed \ free /\ managed \ free \subseteq Res
      BY <1>1 DEF IInv, TypeOK
    <2>2. Cardinality(managed' \ free') = Cardinality(managed \ free) + 1 /\ Cardinality(managed \ free) \in Nat
      BY <2>1, SlotsFinite, FS_AddElement
    <2>3. used' = used /\ used \in Int
      BY <1>1 DEF IInv, TypeOK
    <2>4. used' = used + Cardinality(managed' \ free') - Cardinality(managed \ free)
                        - One("count", "count") + One(pc[t], "count") + One("count", "uncount") - One(pc[t], "uncount")
      BY <1>1, <2>2, <2>3 DEF One
    <2>5. QED  BY <1>1, <1>3, <2>4, UsedStep
  <1>10. QED  BY <1>3, <1>4, <1>5, <1>6, <1>7, <1>8, <1>9 DEF IInv

LEMMA CountStep == ASSUME IInv, NEW t \in Threads, CountUsed(t) PROVE IInv'
  <1>1. /\ pc' = [pc EXCEPT ![t] = "take"] /\ pc[t] = "count" /\ used' = used + 1
        /\ UNCHANGED <<managed, free, live, gen, refs, fixed, loc, ref, past, limit>>
    BY DEF CountUsed, Goto
  <1>2. TypeOK'
    BY <1>1 DEF IInv, TypeOK
  <1>3. OneThreadPerSlot' /\ HeldHandlesValid' /\ PastInOrder'
    BY <1>1 DEF IInv, OneThreadPerSlot, HeldHandlesValid, Valid, PastInOrder, Ago
  <1>4. SlotsApart'
    BY <1>1 DEF IInv, TypeOK, SlotsApart, Busy
  <1>5. ObjectsInUse'
    BY <1>1 DEF IInv, TypeOK, ObjectsInUse, RefsTo
  <1>8. RefCountExact'
    BY <1>1, ZenonT(60) DEF IInv, TypeOK, RefCountExact, RefsTo
  <1>6. UsedCountExact'
    <2>1. used \in Int /\ Cardinality(managed \ free) \in Nat
      BY SlotsFinite DEF IInv, TypeOK
    <2>2. used' = used + Cardinality(managed' \ free') - Cardinality(managed \ free)
                        - One("take", "count") + One(pc[t], "count") + One("take", "uncount") - One(pc[t], "uncount")
      BY <1>1, <2>1 DEF One
    <2>3. QED  BY <1>1, <1>2, <2>2, UsedStep
  <1>7. QED  BY <1>2, <1>3, <1>4, <1>5, <1>6, <1>8 DEF IInv

\* create takes the first reference, and gives it up when the constructor throws.
LEMMA TakeStep == ASSUME IInv, NEW t \in Threads, TakeRef(t) \/ ConstructFails(t) PROVE IInv'
  <1> DEFINE r == loc[t]
             d == IF pc[t] = "take" THEN 1 ELSE -1
             l == IF pc[t] = "take" THEN "construct" ELSE "return"
  <1>1. /\ pc[t] \in {"take", "construct"} /\ pc' = [pc EXCEPT ![t] = l] /\ refs' = [refs EXCEPT ![r] = @ + d]
        /\ UNCHANGED <<managed, free, live, gen, used, fixed, loc, ref, past, limit>>
    BY DEF TakeRef, ConstructFails, Goto, IInv, TypeOK
  <1>2. r \in managed /\ r \in Res /\ \A u \in Threads : u # t => loc[u] # r
    BY <1>1 DEF IInv, SlotsApart, Busy, OneThreadPerSlot, TypeOK
  <1>3. TypeOK'
    BY <1>1, <1>2 DEF IInv, TypeOK
  <1>4. OneThreadPerSlot' /\ HeldHandlesValid' /\ PastInOrder'
    BY <1>1 DEF IInv, OneThreadPerSlot, HeldHandlesValid, Valid, PastInOrder, Ago
  <1>5. SlotsApart'
    BY <1>1 DEF IInv, TypeOK, SlotsApart, Busy
  <1>6. ObjectsInUse'
    BY <1>1 DEF IInv, TypeOK, ObjectsInUse, RefsTo
  <1>7. RefCountExact'
    <2> SUFFICES ASSUME NEW q \in managed
                 PROVE  refs'[q] = Cardinality(Held(ref, q)) + (IF \E u \in Threads : loc'[u] = q /\ pc'[u] = "construct" THEN 1 ELSE 0)
      BY <1>1 DEF RefCountExact, RefsTo, Held
    <2>1. refs[q] = Cardinality(Held(ref, q)) + (IF \E u \in Threads : loc[u] = q /\ pc[u] = "construct" THEN 1 ELSE 0)
      BY DEF IInv, RefCountExact, RefsTo, Held
    <2>2. CASE q = r
      <3>1. (\E u \in Threads : loc[u] = q /\ pc[u] = "construct") <=> pc[t] = "construct"
        BY <1>2, <2>2
      <3>2. (\E u \in Threads : loc'[u] = q /\ pc'[u] = "construct") <=> pc[t] = "take"
        BY <1>1, <1>2, <2>2 DEF IInv, TypeOK
      <3>3. refs'[q] = refs[q] + d
        BY <1>1, <1>2, <2>2 DEF IInv, TypeOK
      <3>4. QED  BY <1>1, <2>1, <3>1, <3>2, <3>3, HeldFinite
    <2>3. CASE q # r
      <3>1. refs'[q] = refs[q]
        BY <1>1, <2>3 DEF IInv, TypeOK
      <3>2. (\E u \in Threads : loc'[u] = q /\ pc'[u] = "construct") <=> \E u \in Threads : loc[u] = q /\ pc[u] = "construct"
        BY <1>1, <2>3 DEF IInv, TypeOK
      <3>3. QED  BY <2>1, <3>1, <3>2
    <2>4. QED  BY <2>2, <2>3
  <1>8. UsedCountExact'
    <2>1. used \in Int /\ Cardinality(managed \ free) \in Nat
      BY SlotsFinite DEF IInv, TypeOK
    <2>2. used' = used + Cardinality(managed' \ free') - Cardinality(managed \ free)
                        - One(l, "count") + One(pc[t], "count") + One(l, "uncount") - One(pc[t], "uncount")
      BY <1>1, <2>1 DEF One
    <2>3. QED  BY <1>1, <1>3, <2>2, UsedStep
  <1>9. QED  BY <1>3, <1>4, <1>5, <1>6, <1>7, <1>8 DEF IInv

\* A slot that a thread constructs, returns or destroys is referred to by no
\* client, and has an object only if it is being destroyed.
LEMMA BusySlot ==
  ASSUME IInv, NEW t \in Threads, pc[t] \in Busy
  PROVE  /\ loc[t] \in managed \ free /\ loc[t] \in Res /\ loc[t] # NoRes
         /\ \A u \in Threads : u # t => loc[u] # loc[t]
         /\ \A k \in Refs : ref[k] # NoHandle => ref[k].res # loc[t]
         /\ Held(ref, loc[t]) = {}
         /\ loc[t] \in live <=> pc[t] = "destroy"
  <1>1. loc[t] # NoRes
    BY DEF IInv, SlotsApart
  <1>2. /\ loc[t] \in managed \ free /\ loc[t] \in Res
        /\ \A u \in Threads : u # t => loc[u] # loc[t]
    BY <1>1 DEF IInv, OneThreadPerSlot, TypeOK
  <1>3. \A k \in Refs : ref[k] # NoHandle => ref[k].res # loc[t]
    BY DEF IInv, SlotsApart
  <1>4. RefsTo(loc[t]) = {} /\ Held(ref, loc[t]) = {}
    BY <1>3 DEF RefsTo, Held
  <1>5. loc[t] \in live <=> pc[t] = "destroy"
    BY <1>2, <1>4 DEF IInv, ObjectsInUse
  <1>6. QED  BY <1>1, <1>2, <1>3, <1>4, <1>5

\* Slots with objects are in use.
LEMMA LiveSlots == ASSUME IInv PROVE live \subseteq managed \ free
  <1> SUFFICES ASSUME NEW r \in live PROVE r \in managed \ free
    OBVIOUS
  <1>1. r \in Res
    BY DEF IInv, TypeOK
  <1>2. CASE RefsTo(r) # {}
    BY <1>2 DEF IInv, RefsTo, HeldHandlesValid, Valid, SlotsApart
  <1>3. CASE \E t \in Threads : loc[t] = r /\ pc[t] = "destroy"
    BY <1>3, BusySlot DEF Busy
  <1>4. QED  BY <1>1, <1>2, <1>3 DEF IInv, ObjectsInUse

\* create hands the object and its first reference to the client.
LEMMA ConstructStep == ASSUME IInv, NEW t \in Threads, Construct(t) PROVE IInv'
  <1> DEFINE r == loc[t]
  <1>0. PICK k \in Refs :
        /\ ref[k] = NoHandle /\ live' = live \cup {r}
        /\ gen' = [gen EXCEPT ![r] = (@ + 1) % Generations]
        /\ ref' = [ref EXCEPT ![k] = [res |-> r, gen |-> gen'[r]]]
    BY DEF Construct
  <1>1. /\ pc[t] = "construct" /\ pc' = [pc EXCEPT ![t] = "idle"] /\ loc' = [loc EXCEPT ![t] = NoRes]
        /\ UNCHANGED <<managed, free, refs, used, fixed, past, limit>>
    BY DEF Construct, Done
  <1>2. /\ r \in managed \ free /\ r \in Res /\ r # NoRes /\ r \notin live
        /\ \A u \in Threads : u # t => loc[u] # r
        /\ \A j \in Refs : ref[j] # NoHandle => ref[j].res # r
        /\ Held(ref, r) = {}
    BY <1>1, BusySlot DEF Busy
  <1>3. /\ gen'[r] = (IF gen[r] + 1 = Generations THEN 0 ELSE gen[r] + 1) /\ gen[r] \in 0..(Generations - 1)
        /\ \A q \in Res : q # r => gen'[q] = gen[q]
    BY <1>0, <1>2, NextGeneration DEF IInv, TypeOK
  <1>4. gen' \in [Res -> 0..(Generations - 1)] /\ gen'[r] \in 0..(Generations - 1)
    BY <1>0, <1>2, <1>3, ManagerAssumption DEF IInv, TypeOK
  <1>5. /\ ref'[k] = [res |-> r, gen |-> gen'[r]] /\ ref'[k] \in Handles /\ ref'[k] # NoHandle
        /\ ref'[k].res = r /\ ref'[k].gen = gen'[r]
        /\ ref[k] = NoHandle /\ live' = live \cup {r}
        /\ \A j \in Refs : j # k => ref'[j] = ref[j]
    BY <1>0, <1>2, <1>4, HandleAssumption DEF Handles, IInv, TypeOK
  <1>6. TypeOK'
    BY <1>0, <1>1, <1>2, <1>4, <1>5 DEF IInv, TypeOK
  <1>7. /\ pc'[t] = "idle" /\ loc'[t] = NoRes
        /\ \A u \in Threads : u # t => pc'[u] = pc[u] /\ loc'[u] = loc[u]
    BY <1>1 DEF IInv, TypeOK
  <1>8. OneThreadPerSlot'
    BY <1>1, <1>7 DEF IInv, OneThreadPerSlot
  <1>9. SlotsApart'
    <2>1. \A u \in Threads : loc'[u] # NoRes <=> pc'[u] \in Busy
      BY <1>7 DEF IInv, SlotsApart, Busy
    <2>2. \A u \in Threads : loc'[u] # r
      BY <1>2, <1>7
    <2>3. \A j \in Refs : j # k /\ ref'[j] # NoHandle =>
             ref'[j].res \notin free' /\ \A u \in Threads : loc'[u] # ref'[j].res
      <3> SUFFICES ASSUME NEW j \in Refs, j # k, ref[j] # NoHandle
                   PROVE  ref[j].res \notin free /\ \A u \in Threads : loc'[u] # ref[j].res
        BY <1>1, <1>5
      <3>1. ref[j].res \in Res
        BY DEF IInv, TypeOK, Handles
      <3>2. QED  BY <1>7, <3>1, ManagerAssumption DEF IInv, SlotsApart
    <2>4. QED  BY <1>1, <1>2, <1>5, <2>1, <2>2, <2>3 DEF SlotsApart
  <1>10. HeldHandlesValid'
    <2> SUFFICES ASSUME NEW j \in Refs, ref'[j] # NoHandle
                 PROVE  ref'[j].res \in managed /\ ref'[j].res \in live' /\ gen'[ref'[j].res] = ref'[j].gen
      BY <1>1 DEF HeldHandlesValid, Valid
    <2>1. CASE j = k
      BY <1>2, <1>5, <2>1
    <2>2. CASE j # k
      <3>1. ref'[j] = ref[j] /\ ref[j].res # r /\ ref[j].res \in managed /\ ref[j].res \in live /\ gen[ref[j].res] = ref[j].gen
        BY <1>2, <1>5, <2>2 DEF IInv, HeldHandlesValid, Valid
      <3>2. QED  BY <1>3, <1>5, <3>1 DEF IInv, TypeOK
    <2>3. QED  BY <2>1, <2>2
  <1>11. ASSUME NEW q
         PROVE  /\ Held(ref', q) = IF r = q THEN Held(ref, q) \cup {k} ELSE Held(ref, q)
                /\ Cardinality(Held(ref', q)) = Cardinality(Held(ref, q)) + One(r, q)
    <2>1. /\ Held(ref', q) = IF ref'[k].res = q THEN Held(ref, q) \cup {k} ELSE Held(ref, q)
          /\ Cardinality(Held(ref', q)) = Cardinality(Held(ref, q)) + One(ref'[k].res, q)
      BY <1>5, NewRef
    <2>2. QED  BY <1>5, <2>1
  <1>12. ObjectsInUse'
    <2> SUFFICES ASSUME NEW q \in Res
                 PROVE  q \in live' <=> Held(ref', q) # {} \/ \E u \in Threads : loc'[u] = q /\ pc'[u] = "destroy"
      BY DEF ObjectsInUse, RefsTo, Held
    <2>1. q \in live <=> Held(ref, q) # {} \/ \E u \in Threads : loc[u] = q /\ pc[u] = "destroy"
      BY DEF IInv, ObjectsInUse, RefsTo, Held
    <2>2. CASE q = r
      BY <1>5, <1>11, <2>2
    <2>3. CASE q # r
      <3>1. Held(ref', q) = Held(ref, q) /\ (q \in live' <=> q \in live)
        BY <1>5, <1>11, <2>3
      <3>2. (\E u \in Threads : loc'[u] = q /\ pc'[u] = "destroy") <=> \E u \in Threads : loc[u] = q /\ pc[u] = "destroy"
        BY <1>1, <1>7
      <3>3. QED  BY <2>1, <3>1, <3>2
    <2>4. QED  BY <2>2, <2>3
  <1>13. RefCountExact'
    <2> SUFFICES ASSUME NEW q \in managed
                 PROVE  refs[q] = Cardinality(Held(ref', q)) + (IF \E u \in Threads : loc'[u] = q /\ pc'[u] = "construct" THEN 1 ELSE 0)
      BY <1>1 DEF RefCountExact, RefsTo, Held
    <2>1. refs[q] = Cardinality(Held(ref, q)) + (IF \E u \in Threads : loc[u] = q /\ pc[u] = "construct" THEN 1 ELSE 0)
      BY DEF IInv, RefCountExact, RefsTo, Held
    <2> Cardinality(Held(ref, q)) \in Nat
      BY HeldFinite
    <2>2. CASE q = r
      <3>1. (\E u \in Threads : loc[u] = q /\ pc[u] = "construct") /\ ~ \E u \in Threads : loc'[u] = q /\ pc'[u] = "construct"
        BY <1>1, <1>2, <1>7, <2>2
      <3>2. One(r, q) = 1
        BY <2>2 DEF One
      <3>3. QED  BY <1>11, <2>1, <3>1, <3>2
    <2>3. CASE q # r
      <3>1. (\E u \in Threads : loc'[u] = q /\ pc'[u] = "construct") <=> \E u \in Threads : loc[u] = q /\ pc[u] = "construct"
        BY <1>7, <2>3
      <3>2. One(r, q) = 0
        BY <2>3 DEF One
      <3>3. QED  BY <1>11, <2>1, <3>1, <3>2
    <2>4. QED  BY <2>2, <2>3
  <1>14. UsedCountExact'
    <2>1. used \in Int /\ Cardinality(managed \ free) \in Nat
      BY SlotsFinite DEF IInv, TypeOK
    <2>2. used' = used + Cardinality(managed' \ free') - Cardinality(managed \ free)
            - One("idle", "count") + One(pc[t], "count") + One("idle", "uncount") - One(pc[t], "uncount")
      BY <1>1, <2>1 DEF One
    <2>3. QED  BY <1>1, <1>6, <2>2, UsedStep
  <1>15. PastInOrder'
    <2> SUFFICES ASSUME NEW q \in Res
                 PROVE  PastOf(past[q], gen'[q], q \in live')
      BY <1>1, PastFacts
    <2>1. PastOf(past[q], gen[q], q \in live) /\ Len(past[q]) \in Nat
      BY PastFacts DEF IInv, TypeOK
    <2>2. CASE q = r
      <3> DEFINE p == past[q]
      <3>1. /\ Len(p) \in Nat /\ Len(p) < Generations
            /\ \A i \in 1..Len(p) : p[i] = IF gen[q] >= i - 1 THEN gen[q] - (i - 1) ELSE gen[q] - (i - 1) + Generations
        BY <1>2, <2>1, <2>2 DEF PastOf
      <3>2. \A i \in 1..Len(p) : p[i] = IF gen'[q] >= i THEN gen'[q] - i ELSE gen'[q] - i + Generations
        <4> SUFFICES ASSUME NEW i \in 1..Len(p)
                     PROVE  p[i] = IF gen'[q] >= i THEN gen'[q] - i ELSE gen'[q] - i + Generations
          OBVIOUS
        <4>1. i \in Nat /\ 1 <= i /\ i < Generations
          BY <3>1, ManagerAssumption
        <4>2. QED  BY <1>3, <2>2, <3>1, <4>1, AgoNext, SMTT(60)
      <3>3. q \in live'
        BY <1>5, <2>2
      <3>4. QED  BY <3>1, <3>2, <3>3 DEF PastOf
    <2>3. CASE q # r
      BY <1>3, <1>5, <2>1, <2>3 DEF PastOf
    <2>4. QED  BY <2>2, <2>3
  <1>16. QED  BY <1>6, <1>8, <1>9, <1>10, <1>12, <1>13, <1>14, <1>15 DEF IInv

\* doReturnResource: the slot is free, and still counted.
LEMMA ReturnStep == ASSUME IInv, NEW t \in Threads, ReturnResource(t) PROVE IInv'
  <1> DEFINE r == loc[t]
  <1>1. /\ pc[t] = "return" /\ pc' = [pc EXCEPT ![t] = "uncount"] /\ loc' = [loc EXCEPT ![t] = NoRes]
        /\ free' = free \cup {r}
        /\ UNCHANGED <<managed, live, gen, refs, used, fixed, ref, past, limit>>
    BY DEF ReturnResource, Goto
  <1>2. /\ r \in managed \ free /\ r \in Res /\ r # NoRes
        /\ \A u \in Threads : u # t => loc[u] # r
        /\ \A j \in Refs : ref[j] # NoHandle => ref[j].res # r
    BY <1>1, BusySlot DEF Busy
  <1>3. TypeOK'
    BY <1>1, <1>2 DEF IInv, TypeOK
  <1>4. /\ pc'[t] = "uncount" /\ loc'[t] = NoRes
        /\ \A u \in Threads : u # t => pc'[u] = pc[u] /\ loc'[u] = loc[u]
    BY <1>1 DEF IInv, TypeOK
  <1>5. OneThreadPerSlot'
    BY <1>1, <1>2, <1>4 DEF IInv, OneThreadPerSlot
  <1>6. SlotsApart'
    <2>1. \A u \in Threads : loc'[u] # NoRes <=> pc'[u] \in Busy
      BY <1>4 DEF IInv, SlotsApart, Busy
    <2>2. \A j \in Refs : ref[j] # NoHandle => ref[j].res \in Res
      BY DEF IInv, TypeOK, Handles
    <2>3. QED  BY <1>1, <1>2, <1>4, <2>1, <2>2, ManagerAssumption DEF IInv, SlotsApart
  <1>7. HeldHandlesValid' /\ PastInOrder'
    BY <1>1 DEF IInv, HeldHandlesValid, Valid, PastInOrder, Ago
  <1>8. ObjectsInUse'
    <2>1. \A q \in Res : (\E u \in Threads : loc'[u] = q /\ pc'[u] = "destroy") <=> \E u \in Threads : loc[u] = q /\ pc[u] = "destroy"
      BY <1>1, <1>4
    <2>2. QED  BY <1>1, <2>1 DEF IInv, ObjectsInUse, RefsTo
  <1>9. RefCountExact'
    <2>1. \A q \in Res : (\E u \in Threads : loc'[u] = q /\ pc'[u] = "construct") <=> \E u \in Threads : loc[u] = q /\ pc[u] = "construct"
      BY <1>1, <1>4
    <2>2. managed \subseteq Res
      BY DEF IInv, TypeOK
    <2>3. QED  BY <1>1, <2>1, <2>2 DEF IInv, RefCountExact, RefsTo
  <1>10. UsedCountExact'
    <2>1. managed' \ free' = (managed \ free) \ {r} /\ managed \ free \subseteq Res /\ used \in Int
      BY <1>1 DEF IInv, TypeOK
    <2>2. Cardinality(managed' \ free') = Cardinality(managed \ free) - 1 /\ Cardinality(managed \ free) \in Nat
      BY <1>2, <2>1, SlotsFinite, FS_RemoveElement, ZenonT(60)
    <2>3. used' = used + Cardinality(managed' \ free') - Cardinality(managed \ free)
            - One("uncount", "count") + One(pc[t], "count") + One("uncount", "uncount") - One(pc[t], "uncount")
      BY <1>1, <2>1, <2>2 DEF One
    <2>4. QED  BY <1>1, <1>3, <2>3, UsedStep
  <1>11. QED  BY <1>3, <1>5, <1>6, <1>7, <1>8, <1>9, <1>10 DEF IInv

LEMMA UncountStep == ASSUME IInv, NEW t \in Threads, UncountUsed(t) PROVE IInv'
  <1>1. /\ pc[t] = "uncount" /\ pc' = [pc EXCEPT ![t] = "idle"] /\ used' = used - 1
        /\ loc[t] = NoRes
        /\ UNCHANGED <<managed, free, live, gen, refs, fixed, loc, ref, past, limit>>
    BY DEF UncountUsed, Done, IInv, TypeOK, SlotsApart, Busy
  <1>2. TypeOK'
    BY <1>1 DEF IInv, TypeOK
  <1>3. OneThreadPerSlot' /\ HeldHandlesValid' /\ PastInOrder'
    BY <1>1 DEF IInv, OneThreadPerSlot, HeldHandlesValid, Valid, PastInOrder, Ago
  <1>4. SlotsApart'
    BY <1>1 DEF IInv, TypeOK, SlotsApart, Busy
  <1>5. ObjectsInUse'
    BY <1>1 DEF IInv, TypeOK, ObjectsInUse, RefsTo
  <1>6. RefCountExact'
    BY <1>1, ZenonT(60) DEF IInv, TypeOK, RefCountExact, RefsTo
  <1>7. UsedCountExact'
    <2>1. used \in Int /\ Cardinality(managed \ free) \in Nat
      BY SlotsFinite DEF IInv, TypeOK
    <2>2. used' = used + Cardinality(managed' \ free') - Cardinality(managed \ free)
            - One("idle", "count") + One(pc[t], "count") + One("idle", "uncount") - One(pc[t], "uncount")
      BY <1>1, <2>1 DEF One
    <2>3. QED  BY <1>1, <1>2, <2>2, UsedStep
  <1>8. QED  BY <1>2, <1>3, <1>4, <1>5, <1>6, <1>7 DEF IInv

\* The first m elements of a sequence.
LEMMA Prefix ==
  ASSUME NEW S, NEW s \in Seq(S), NEW m \in Nat, m <= Len(s)
  PROVE  /\ SubSeq(s, 1, m) \in Seq(S) /\ Len(SubSeq(s, 1, m)) = m
         /\ \A i \in 1..m : SubSeq(s, 1, m)[i] = s[i]
  <1>1. \A i \in 1..m : s[i] \in S
    OBVIOUS
  <1>2. /\ SubSeq(s, 1, m) \in Seq(S)
        /\ Len(SubSeq(s, 1, m)) = IF 1 <= m THEN m - 1 + 1 ELSE 0
        /\ \A i \in 1..(m - 1 + 1) : SubSeq(s, 1, m)[i] = s[1 + i - 1]
    BY <1>1, SubSeqProperties
  <1>3. QED  BY <1>2

\* The object is destroyed, and its generation is one of the past.
LEMMA DestroyStep == ASSUME IInv, NEW t \in Threads, DestroyObject(t) PROVE IInv'
  <1> DEFINE r == loc[t]
             p == <<gen[r]>> \o past[r]
             n == IF Len(p) < Generations THEN Len(p) ELSE Generations - 1
  <1>1. /\ pc[t] = "destroy" /\ pc' = [pc EXCEPT ![t] = "return"] /\ live' = live \ {r}
        /\ past' = [past EXCEPT ![r] = SubSeq(p, 1, n)]
        /\ UNCHANGED <<managed, free, gen, refs, used, fixed, loc, ref, limit>>
    BY DEF DestroyObject, Goto
  <1>2. /\ r \in managed \ free /\ r \in Res /\ r # NoRes /\ r \in live
        /\ \A u \in Threads : u # t => loc[u] # r
        /\ \A j \in Refs : ref[j] # NoHandle => ref[j].res # r
        /\ Held(ref, r) = {}
    BY <1>1, BusySlot DEF Busy
  <1>3. /\ past[r] \in Seq(0..(Generations - 1)) /\ gen[r] \in 0..(Generations - 1)
        /\ past \in [Res -> Seq(0..(Generations - 1))]
    BY <1>2 DEF IInv, TypeOK
  <1>4. /\ p \in Seq(0..(Generations - 1)) /\ Len(p) = Len(past[r]) + 1 /\ Len(past[r]) \in Nat
        /\ p[1] = gen[r] /\ \A i \in 1..Len(past[r]) : p[i + 1] = past[r][i]
    BY <1>3
  <1>5. n \in Nat /\ n <= Len(p) /\ n < Generations
    BY <1>4, ManagerAssumption
  <1>6. /\ SubSeq(p, 1, n) \in Seq(0..(Generations - 1)) /\ Len(SubSeq(p, 1, n)) = n
        /\ \A i \in 1..n : SubSeq(p, 1, n)[i] = p[i]
    BY <1>4, <1>5, Prefix
  <1>7. TypeOK'
    BY <1>1, <1>3, <1>6 DEF IInv, TypeOK
  <1>8. /\ pc'[t] = "return"
        /\ \A u \in Threads : u # t => pc'[u] = pc[u]
    BY <1>1 DEF IInv, TypeOK
  <1>9. OneThreadPerSlot'
    BY <1>1 DEF IInv, OneThreadPerSlot
  <1>10. SlotsApart'
    BY <1>1, <1>8 DEF IInv, SlotsApart, Busy
  <1>11. HeldHandlesValid'
    BY <1>1, <1>2 DEF IInv, HeldHandlesValid, Valid
  <1>12. ObjectsInUse'
    <2> SUFFICES ASSUME NEW q \in Res
                 PROVE  q \in live' <=> Held(ref, q) # {} \/ \E u \in Threads : loc[u] = q /\ pc'[u] = "destroy"
      BY <1>1 DEF ObjectsInUse, RefsTo, Held
    <2>1. q \in live <=> Held(ref, q) # {} \/ \E u \in Threads : loc[u] = q /\ pc[u] = "destroy"
      BY DEF IInv, ObjectsInUse, RefsTo, Held
    <2>2. QED  BY <1>1, <1>2, <1>8, <2>1
  <1>13. RefCountExact'
    <2>1. \A q \in managed : (\E u \in Threads : loc[u] = q /\ pc'[u] = "construct") <=> \E u \in Threads : loc[u] = q /\ pc[u] = "construct"
      BY <1>1, <1>8
    <2>2. QED  BY <1>1, <2>1 DEF IInv, RefCountExact, RefsTo
  <1>14. UsedCountExact'
    <2>1. used \in Int /\ Cardinality(managed \ free) \in Nat
      BY SlotsFinite DEF IInv, TypeOK
    <2>2. used' = used + Cardinality(managed' \ free') - Cardinality(managed \ free)
            - One("return", "count") + One(pc[t], "count") + One("return", "uncount") - One(pc[t], "uncount")
      BY <1>1, <2>1 DEF One
    <2>3. QED  BY <1>1, <1>7, <2>2, UsedStep
  <1>15. PastInOrder'
    <2> SUFFICES ASSUME NEW q \in Res
                 PROVE  PastOf(past'[q], gen[q], q \in live')
      BY <1>1, PastFacts
    <2>1. PastOf(past[q], gen[q], q \in live) /\ Len(past[q]) \in Nat
      BY PastFacts DEF IInv, TypeOK
    <2>2. CASE q = r
      <3>1. \A i \in 1..Len(past[r]) : past[r][i] = IF gen[r] >= i THEN gen[r] - i ELSE gen[r] - i + Generations
        BY <1>2, <2>1, <2>2 DEF PastOf
      <3>2. \A i \in 1..n : p[i] = IF gen[r] >= i - 1 THEN gen[r] - (i - 1) ELSE gen[r] - (i - 1) + Generations
        <4> SUFFICES ASSUME NEW i \in 1..n
                     PROVE  p[i] = IF gen[r] >= i - 1 THEN gen[r] - (i - 1) ELSE gen[r] - (i - 1) + Generations
          OBVIOUS
        <4>1. CASE i = 1
          BY <1>3, <1>4, <4>1
        <4>2. CASE i # 1
          <5>1. i - 1 \in 1..Len(past[r]) /\ (i - 1) + 1 = i
            BY <1>4, <1>5, <4>2
          <5>2. QED  BY <1>4, <3>1, <5>1
        <4>3. QED  BY <4>1, <4>2
      <3>3. past'[q] = SubSeq(p, 1, n) /\ q \notin live'
        BY <1>1, <1>2, <1>3, <2>2
      <3>4. QED  BY <1>5, <1>6, <2>2, <3>2, <3>3 DEF PastOf
    <2>3. CASE q # r
      BY <1>1, <1>3, <2>1, <2>3 DEF PastOf
    <2>4. QED  BY <2>2, <2>3
  <1>16. QED  BY <1>7, <1>9, <1>10, <1>11, <1>12, <1>13, <1>14, <1>15 DEF IInv

\* A client gives away a copy of its handle.
LEMMA IncRefStep == ASSUME IInv, NEW t \in Threads, NEW k \in Refs, NEW l \in Refs, IncRef(t, k, l) PROVE IInv'
  <1> DEFINE r == ref[k].res
  <1>1. /\ ref[l] = NoHandle /\ refs' = [refs EXCEPT ![r] = @ + 1] /\ ref' = [ref EXCEPT ![l] = ref[k]]
        /\ UNCHANGED <<managed, free, live, gen, used, fixed, pc, loc, past, limit>>
    BY DEF IncRef
  <1>2. ref[k] # NoHandle /\ r \in managed /\ r \in live /\ gen[r] = ref[k].gen
    BY DEF IncRef, Valid
  <1>3. r \in Res /\ ref[k] \in Handles
    BY <1>2 DEF IInv, TypeOK
  <1>4. /\ ref[l] = NoHandle /\ ref'[l] = ref[k] /\ ref'[l] # NoHandle
        /\ \A j \in Refs : j # l => ref'[j] = ref[j]
    BY <1>1, <1>2 DEF IInv, TypeOK
  <1>5. TypeOK'
    BY <1>1, <1>3 DEF IInv, TypeOK
  <1>6. OneThreadPerSlot' /\ PastInOrder' /\ UsedCountExact'
    BY <1>1 DEF IInv, OneThreadPerSlot, PastInOrder, Ago, UsedCountExact
  <1>7. SlotsApart'
    BY <1>1, <1>2, <1>4 DEF IInv, SlotsApart
  <1>8. HeldHandlesValid'
    BY <1>1, <1>2, <1>4 DEF IInv, HeldHandlesValid, Valid
  <1>9. ASSUME NEW q
        PROVE  /\ Held(ref', q) = IF r = q THEN Held(ref, q) \cup {l} ELSE Held(ref, q)
               /\ Cardinality(Held(ref', q)) = Cardinality(Held(ref, q)) + One(r, q)
    <2>1. /\ Held(ref', q) = IF ref'[l].res = q THEN Held(ref, q) \cup {l} ELSE Held(ref, q)
          /\ Cardinality(Held(ref', q)) = Cardinality(Held(ref, q)) + One(ref'[l].res, q)
      BY <1>4, NewRef
    <2>2. QED  BY <1>4, <2>1
  <1>10. ObjectsInUse'
    <2> SUFFICES ASSUME NEW q \in Res
                 PROVE  q \in live <=> Held(ref', q) # {} \/ \E u \in Threads : loc[u] = q /\ pc[u] = "destroy"
      BY <1>1 DEF ObjectsInUse, RefsTo, Held
    <2>1. q \in live <=> Held(ref, q) # {} \/ \E u \in Threads : loc[u] = q /\ pc[u] = "destroy"
      BY DEF IInv, ObjectsInUse, RefsTo, Held
    <2>2. QED  BY <1>2, <1>9, <2>1
  <1>11. RefCountExact'
    <2> SUFFICES ASSUME NEW q \in managed
                 PROVE  refs'[q] = Cardinality(Held(ref', q)) + (IF \E u \in Threads : loc[u] = q /\ pc[u] = "construct" THEN 1 ELSE 0)
      BY <1>1 DEF RefCountExact, RefsTo, Held
    <2>1. refs[q] = Cardinality(Held(ref, q)) + (IF \E u \in Threads : loc[u] = q /\ pc[u] = "construct" THEN 1 ELSE 0)
      BY DEF IInv, RefCountExact, RefsTo, Held
    <2>2. refs'[q] = refs[q] + One(r, q)
      BY <1>1, <1>3 DEF IInv, TypeOK, One
    <2>3. Cardinality(Held(ref, q)) \in Nat /\ One(r, q) \in Nat
      BY HeldFinite DEF One
    <2>4. QED  BY <1>9, <2>1, <2>2, <2>3
  <1>12. QED  BY <1>5, <1>6, <1>7, <1>8, <1>10, <1>11 DEF IInv

\* A client gives up a reference; the last one leaves the object to the thread.
LEMMA DecRefStep == ASSUME IInv, NEW t \in Threads, NEW k \in Refs, DecRef(t, k) PROVE IInv'
  <1> DEFINE r == ref[k].res
  <1>1. /\ pc[t] = "idle" /\ refs' = [refs EXCEPT ![r] = @ - 1] /\ ref' = [ref EXCEPT ![k] = NoHandle]
        /\ UNCHANGED <<managed, free, live, gen, used, fixed, past, limit>>
    BY DEF DecRef
  <1>2. ref[k] # NoHandle /\ r \in managed /\ r \in live /\ gen[r] = ref[k].gen
    BY DEF DecRef, Valid
  <1>3. /\ r \in Res /\ r # NoRes /\ r \notin free /\ loc[t] = NoRes
        /\ \A u \in Threads : loc[u] # r
    BY <1>1, <1>2, ManagerAssumption DEF IInv, TypeOK, SlotsApart, Busy
  <1>4. ref[k] # NoHandle /\ ref'[k] = NoHandle /\ \A j \in Refs : j # k => ref'[j] = ref[j]
    BY <1>1, <1>2 DEF IInv, TypeOK
  <1>5. /\ refs[r] = Cardinality(Held(ref, r)) /\ k \in Held(ref, r)
        /\ refs'[r] = refs[r] - 1 /\ \A q \in Res : q # r => refs'[q] = refs[q]
        /\ \A q \in Res : refs[q] \in Int
    <2>1. refs[r] = Cardinality(Held(ref, r)) + (IF \E u \in Threads : loc[u] = r /\ pc[u] = "construct" THEN 1 ELSE 0)
      BY <1>2 DEF IInv, RefCountExact, RefsTo, Held
    <2>2. refs[r] = Cardinality(Held(ref, r))
      BY <1>3, <2>1, HeldFinite
    <2>3. k \in Held(ref, r)
      BY <1>2 DEF Held
    <2>4. refs'[r] = refs[r] - 1 /\ \A q \in Res : q # r => refs'[q] = refs[q]
      BY <1>1, <1>3 DEF IInv, TypeOK
    <2>5. QED  BY <2>2, <2>3, <2>4 DEF IInv, TypeOK
  <1>6. ASSUME NEW q
        PROVE  /\ Held(ref', q) = Held(ref, q) \ {k}
               /\ Cardinality(Held(ref', q)) = Cardinality(Held(ref, q)) - One(r, q)
    BY <1>4, DroppedRef
  <1>7. refs' \in [Res -> Int] /\ ref' \in [Refs -> Handles \cup {NoHandle}]
    BY <1>1, <1>3 DEF IInv, TypeOK
  <1>8. HeldHandlesValid' /\ PastInOrder'
    BY <1>1, <1>4 DEF IInv, HeldHandlesValid, Valid, PastInOrder, Ago
  <1>9. \A u \in Threads : \/ loc'[u] = loc[u] /\ pc'[u] = pc[u]
                           \/ u = t /\ loc'[u] = r /\ pc'[u] = "destroy"
    <2>1. CASE refs[r] = 1
      <3>1. pc' = [pc EXCEPT ![t] = "destroy"] /\ loc' = [loc EXCEPT ![t] = r]
        BY <2>1 DEF DecRef, Goto
      <3>2. QED  BY <3>1 DEF IInv, TypeOK
    <2>2. CASE refs[r] # 1
      BY <2>2 DEF DecRef
    <2>3. QED  BY <2>1, <2>2
  <1>10. RefCountExact'
    <2> SUFFICES ASSUME NEW q \in managed
                 PROVE  refs'[q] = Cardinality(Held(ref', q)) + (IF \E u \in Threads : loc'[u] = q /\ pc'[u] = "construct" THEN 1 ELSE 0)
      BY <1>1 DEF RefCountExact, RefsTo, Held
    <2>1. refs[q] = Cardinality(Held(ref, q)) + (IF \E u \in Threads : loc[u] = q /\ pc[u] = "construct" THEN 1 ELSE 0)
      BY DEF IInv, RefCountExact, RefsTo, Held
    <2>2. refs'[q] = refs[q] - One(r, q)
      BY <1>1, <1>3 DEF IInv, TypeOK, One
    <2>3. Cardinality(Held(ref, q)) \in Nat /\ One(r, q) \in Nat
      BY HeldFinite DEF One
    <2>4. (\E u \in Threads : loc'[u] = q /\ pc'[u] = "construct") <=> \E u \in Threads : loc[u] = q /\ pc[u] = "construct"
      BY <1>1, <1>9
    <2>5. QED  BY <1>6, <2>1, <2>2, <2>3, <2>4
  <1>11. CASE refs[r] = 1
    <2>1. pc' = [pc EXCEPT ![t] = "destroy"] /\ loc' = [loc EXCEPT ![t] = r]
      BY <1>11 DEF DecRef, Goto
    <2>2. Held(ref, r) = {k}
      BY <1>5, <1>11, LastRef
    <2>3. \A j \in Refs : j # k /\ ref[j] # NoHandle => ref[j].res # r
      BY <2>2 DEF Held
    <2>4. TypeOK'
      BY <1>1, <1>3, <1>7, <2>1 DEF IInv, TypeOK
    <2>5. /\ pc'[t] = "destroy" /\ loc'[t] = r
          /\ \A u \in Threads : u # t => pc'[u] = pc[u] /\ loc'[u] = loc[u]
      BY <2>1 DEF IInv, TypeOK
    <2>6. OneThreadPerSlot'
      BY <1>1, <1>2, <1>3, <2>5 DEF IInv, OneThreadPerSlot
    <2>7. SlotsApart'
      <3>1. \A u \in Threads : loc'[u] # NoRes <=> pc'[u] \in Busy
        BY <1>3, <2>5 DEF IInv, SlotsApart, Busy
      <3>2. QED  BY <1>1, <1>4, <2>3, <2>5, <3>1 DEF IInv, SlotsApart
    <2>8. ObjectsInUse'
      <3> SUFFICES ASSUME NEW q \in Res
                   PROVE  q \in live <=> Held(ref', q) # {} \/ \E u \in Threads : loc'[u] = q /\ pc'[u] = "destroy"
        BY <1>1 DEF ObjectsInUse, RefsTo, Held
      <3>1. q \in live <=> Held(ref, q) # {} \/ \E u \in Threads : loc[u] = q /\ pc[u] = "destroy"
        BY DEF IInv, ObjectsInUse, RefsTo, Held
      <3>2. CASE q = r
        BY <1>2, <2>5, <3>2
      <3>3. CASE q # r
        <4>1. Held(ref', q) = Held(ref, q)
          BY <1>6, <3>3 DEF Held
        <4>2. (\E u \in Threads : loc'[u] = q /\ pc'[u] = "destroy") <=> \E u \in Threads : loc[u] = q /\ pc[u] = "destroy"
          BY <1>1, <1>3, <2>5, <3>3
        <4>3. QED  BY <3>1, <4>1, <4>2
      <3>4. QED  BY <3>2, <3>3
    <2>9. UsedCountExact'
      <3>1. used \in Int /\ Cardinality(managed \ free) \in Nat
        BY SlotsFinite DEF IInv, TypeOK
      <3>2. used' = used + Cardinality(managed' \ free') - Cardinality(managed \ free)
              - One("destroy", "count") + One(pc[t], "count") + One("destroy", "uncount") - One(pc[t], "uncount")
        BY <1>1, <3>1 DEF One
      <3>3. QED  BY <2>1, <2>4, <3>2, UsedStep
    <2>10. QED  BY <1>8, <1>10, <2>4, <2>6, <2>7, <2>8, <2>9 DEF IInv
  <1>12. CASE refs[r] # 1
    <2>1. UNCHANGED <<pc, loc>>
      BY <1>12 DEF DecRef
    <2>2. Held(ref', r) # {}
      <3>1. Cardinality(Held(ref', r)) # 0 /\ IsFiniteSet(Held(ref', r))
        <4>1. One(r, r) = 1 /\ Cardinality(Held(ref, r)) \in Nat
          BY HeldFinite DEF One
        <4>2. Cardinality(Held(ref', r)) = Cardinality(Held(ref, r)) - One(r, r)
          BY <1>6
        <4>3. QED  BY <1>5, <1>12, <4>1, <4>2, HeldFinite
      <3>2. QED  BY <3>1, FS_EmptySet
    <2>3. TypeOK'
      BY <1>1, <1>7, <2>1 DEF IInv, TypeOK
    <2>4. OneThreadPerSlot' /\ UsedCountExact'
      BY <1>1, <2>1 DEF IInv, OneThreadPerSlot, UsedCountExact
    <2>5. SlotsApart'
      BY <1>1, <1>4, <2>1 DEF IInv, SlotsApart
    <2>6. ObjectsInUse'
      <3> SUFFICES ASSUME NEW q \in Res
                   PROVE  q \in live <=> Held(ref', q) # {} \/ \E u \in Threads : loc[u] = q /\ pc[u] = "destroy"
        BY <1>1, <2>1 DEF ObjectsInUse, RefsTo, Held
      <3>1. q \in live <=> Held(ref, q) # {} \/ \E u \in Threads : loc[u] = q /\ pc[u] = "destroy"
        BY DEF IInv, ObjectsInUse, RefsTo, Held
      <3>2. CASE q = r
        BY <1>2, <2>2, <3>2
      <3>3. CASE q # r
        <4>1. Held(ref', q) = Held(ref, q)
          BY <1>6, <3>3 DEF Held
        <4>2. QED  BY <3>1, <4>1
      <3>4. QED  BY <3>2, <3>3
    <2>7. QED  BY <1>8, <1>10, <2>3, <2>4, <2>5, <2>6 DEF IInv
  <1>13. QED  BY <1>11, <1>12

\* A pool added to the pools in old, or one that could not be allocated (S is
\* empty then): the slots S are fresh.
LEMMA FreshSlots ==
  ASSUME IInv, NEW n, NEW old \in SUBSET Res, doAllocate(n, old) \/ AllocateFails(old)
  PROVE  \E S \in SUBSET (Res \ old) :
            /\ managed' = old \cup S /\ free' = (free \cap old) \cup S
            /\ gen' \in [Res -> 0..(Generations - 1)] /\ refs' \in [Res -> Int]
            /\ past' \in [Res -> Seq(0..(Generations - 1))]
            /\ \A r \in S : gen'[r] = 0 /\ refs'[r] = 0 /\ past'[r] = <<>>
            /\ \A r \in Res : r \notin S => gen'[r] = gen[r] /\ refs'[r] = refs[r] /\ past'[r] = past[r]
  <1>1. /\ gen \in [Res -> 0..(Generations - 1)] /\ refs \in [Res -> Int]
        /\ past \in [Res -> Seq(0..(Generations - 1))]
    BY DEF IInv, TypeOK
  <1>2. CASE AllocateFails(old)
    <2>1. managed' = old \cup {} /\ free' = (free \cap old) \cup {} /\ gen' = gen /\ refs' = refs /\ past' = past
      BY <1>2 DEF AllocateFails
    <2>2. WITNESS {} \in SUBSET (Res \ old)
    <2>3. QED  BY <1>1, <2>1
  <1>3. CASE doAllocate(n, old)
    <2>1. PICK S \in SUBSET (Res \ old) :
             /\ managed' = old \cup S /\ free' = (free \cap old) \cup S
             /\ gen' = [r \in Res |-> IF r \in S THEN 0 ELSE gen[r]]
             /\ refs' = [r \in Res |-> IF r \in S THEN 0 ELSE refs[r]]
             /\ past' = [r \in Res |-> IF r \in S THEN <<>> ELSE past[r]]
      BY <1>3 DEF doAllocate
    <2>2. 0 \in 0..(Generations - 1)
      BY ManagerAssumption
    <2>3. gen' \in [Res -> 0..(Generations - 1)] /\ refs' \in [Res -> Int]
      BY <1>1, <2>1, <2>2
    <2>4. past' \in [Res -> Seq(0..(Generations - 1))]
      <3>1. <<>> \in Seq(0..(Generations - 1))
        OBVIOUS
      <3>2. QED  BY <1>1, <2>1, <3>1
    <2>5. /\ \A r \in S : gen'[r] = 0 /\ refs'[r] = 0 /\ past'[r] = <<>>
          /\ \A r \in Res : r \notin S => gen'[r] = gen[r] /\ refs'[r] = refs[r] /\ past'[r] = past[r]
      BY <2>1
    <2>6. QED  BY <2>1, <2>3, <2>4, <2>5
  <1>4. QED  BY <1>2, <1>3

\* The pools change under the objects in use, all of which are in the pools kept.
LEMMA PoolStep ==
  ASSUME IInv, NEW t \in Threads, NEW l \in {"idle", "pop"}, NEW n, NEW old,
         managed \ free \subseteq old, old \subseteq managed,
         doAllocate(n, old) \/ AllocateFails(old),
         fixed' \in BOOLEAN, limit' \in Nat \cup {NoLimit},
         pc[t] \in {"idle", "growLock"}, pc' = [pc EXCEPT ![t] = l],
         UNCHANGED <<live, used, loc, ref>>
  PROVE  IInv'
  <1>0. old \in SUBSET Res
    BY DEF IInv, TypeOK
  <1>1. PICK S \in SUBSET (Res \ old) :
          /\ managed' = old \cup S /\ free' = (free \cap old) \cup S
          /\ gen' \in [Res -> 0..(Generations - 1)] /\ refs' \in [Res -> Int]
          /\ past' \in [Res -> Seq(0..(Generations - 1))]
          /\ \A r \in S : gen'[r] = 0 /\ refs'[r] = 0 /\ past'[r] = <<>>
          /\ \A r \in Res : r \notin S => gen'[r] = gen[r] /\ refs'[r] = refs[r] /\ past'[r] = past[r]
    BY <1>0, FreshSlots
  <1>2. managed' \ free' = managed \ free /\ managed' \subseteq Res /\ free' \subseteq managed' /\ live \subseteq old
    BY <1>0, <1>1, LiveSlots
  <1>3. TypeOK'
    BY <1>1, <1>2 DEF IInv, TypeOK
  <1>4. \A u \in Threads : loc[u] # NoRes => loc[u] \in old /\ loc[u] \in managed' \ free' /\ loc[u] \notin S
    BY <1>1, <1>2 DEF IInv, OneThreadPerSlot
  <1>5. \A k \in Refs : ref[k] # NoHandle =>
           /\ ref[k].res \in old /\ ref[k].res \in managed' \ free' /\ ref[k].res \notin S
           /\ ref[k].res \in live /\ ref[k].res \in Res /\ gen[ref[k].res] = ref[k].gen
    <2> SUFFICES ASSUME NEW k \in Refs, ref[k] # NoHandle
                 PROVE  /\ ref[k].res \in old /\ ref[k].res \in managed' \ free' /\ ref[k].res \notin S
                        /\ ref[k].res \in live /\ ref[k].res \in Res /\ gen[ref[k].res] = ref[k].gen
      OBVIOUS
    <2>1. ref[k].res \in live /\ ref[k].res \in managed /\ gen[ref[k].res] = ref[k].gen
      BY DEF IInv, HeldHandlesValid, Valid
    <2>2. QED  BY <1>0, <1>1, <1>2, <2>1, LiveSlots
  <1>6. pc'[t] = l /\ \A u \in Threads : u # t => pc'[u] = pc[u]
    BY DEF IInv, TypeOK
  <1>7. OneThreadPerSlot'
    BY <1>4 DEF IInv, OneThreadPerSlot
  <1>8. SlotsApart'
    BY <1>5, <1>6 DEF IInv, SlotsApart, Busy
  <1>9. HeldHandlesValid'
    BY <1>1, <1>5 DEF HeldHandlesValid, Valid
  <1>10. ObjectsInUse'
    <2>1. \A q \in Res : (\E u \in Threads : loc[u] = q /\ pc'[u] = "destroy") <=> \E u \in Threads : loc[u] = q /\ pc[u] = "destroy"
      BY <1>6
    <2>2. QED  BY <2>1 DEF IInv, ObjectsInUse, RefsTo
  <1>11. RefCountExact'
    <2> SUFFICES ASSUME NEW q \in managed'
                 PROVE  refs'[q] = Cardinality(Held(ref, q)) + (IF \E u \in Threads : loc[u] = q /\ pc'[u] = "construct" THEN 1 ELSE 0)
      BY DEF RefCountExact, RefsTo, Held
    <2>1. (\E u \in Threads : loc[u] = q /\ pc'[u] = "construct") <=> \E u \in Threads : loc[u] = q /\ pc[u] = "construct"
      BY <1>6
    <2>2. CASE q \in S
      <3>1. Held(ref, q) = {}
        BY <1>5, <2>2 DEF Held
      <3>2. ~ \E u \in Threads : loc[u] = q /\ pc[u] = "construct"
        BY <1>4, <2>2, ManagerAssumption
      <3>3. QED  BY <1>1, <2>1, <2>2, <3>1, <3>2, FS_EmptySet
    <2>3. CASE q \notin S
      <3>1. q \in managed /\ refs'[q] = refs[q]
        BY <1>0, <1>1, <2>3
      <3>2. refs[q] = Cardinality(Held(ref, q)) + (IF \E u \in Threads : loc[u] = q /\ pc[u] = "construct" THEN 1 ELSE 0)
        BY <3>1 DEF IInv, RefCountExact, RefsTo, Held
      <3>3. QED  BY <2>1, <3>1, <3>2
    <2>4. QED  BY <2>2, <2>3
  <1>12. UsedCountExact'
    <2>1. used \in Int /\ Cardinality(managed \ free) \in Nat /\ used' = used
      BY SlotsFinite DEF IInv, TypeOK
    <2>2. used' = used + Cardinality(managed' \ free') - Cardinality(managed \ free)
            - One(l, "count") + One(pc[t], "count") + One(l, "uncount") - One(pc[t], "uncount")
      <3>1. One(l, "count") = 0 /\ One(pc[t], "count") = 0 /\ One(l, "uncount") = 0 /\ One(pc[t], "uncount") = 0
        BY DEF One
      <3>2. Cardinality(managed' \ free') = Cardinality(managed \ free)
        BY <1>2
      <3>3. QED  BY <2>1, <3>1, <3>2
    <2>3. QED  BY <1>3, <2>2, UsedStep
  <1>13. PastInOrder'
    <2> SUFFICES ASSUME NEW q \in Res
                 PROVE  PastOf(past'[q], gen'[q], q \in live)
      BY PastFacts
    <2>1. CASE q \in S
      <3>1. past'[q] = <<>> /\ Generations > 0 /\ Generations \in Nat
        BY <1>1, <2>1, ManagerAssumption
      <3>2. QED  BY <3>1 DEF PastOf
    <2>2. CASE q \notin S
      <3>1. PastOf(past[q], gen[q], q \in live)
        BY PastFacts DEF IInv
      <3>2. QED  BY <1>1, <2>2, <3>1
    <2>3. QED  BY <2>1, <2>2
  <1>14. QED  BY <1>3, <1>7, <1>8, <1>9, <1>10, <1>11, <1>12, <1>13 DEF IInv

\* The section of doGrow under the mutex.
LEMMA GrowLockedStep == ASSUME IInv, NEW t \in Threads, GrowLocked(t) PROVE IInv'
  <1>1. pc[t] = "growLock" /\ UNCHANGED <<live, used, fixed, loc, ref, limit>>
    BY DEF GrowLocked
  <1>2. fixed' \in BOOLEAN /\ limit' \in Nat \cup {NoLimit}
    BY <1>1 DEF IInv, TypeOK
  <1>3. CASE pc' = [pc EXCEPT ![t] = "pop"] /\ UNCHANGED <<managed, free, gen, refs, past>>
    BY <1>1, <1>3, LocalSteps
  <1>4. CASE doAllocate(IF totalCapacity # 0 THEN totalCapacity ELSE MinHandles, managed)
             /\ pc' = [pc EXCEPT ![t] = "pop"]
    BY <1>1, <1>2, <1>4, PoolStep
  <1>5. CASE AllocateFails(managed) /\ pc' = [pc EXCEPT ![t] = "idle"]
    BY <1>1, <1>2, <1>5, PoolStep
  <1>6. QED  BY <1>3, <1>4, <1>5 DEF GrowLocked, Goto

\* With every thread outside the manager and a count of zero, no slot is in use.
LEMMA NothingInUse ==
  ASSUME IInv, \A u \in Threads : pc[u] = "idle", used <= 0
  PROVE  managed \ free = {}
  <1>1. At(pc, "count") = {} /\ At(pc, "uncount") = {}
    BY DEF At
  <1>2. used = Cardinality(managed \ free) - Cardinality(At(pc, "count")) + Cardinality(At(pc, "uncount"))
    BY DEF IInv, UsedCountExact, At
  <1>3. managed \ free \subseteq Res
    BY DEF IInv, TypeOK
  <1>4. IsFiniteSet(managed \ free) /\ Cardinality(managed \ free) \in Nat
    BY <1>3, SlotsFinite
  <1>5. Cardinality(managed \ free) = 0
    <2>1. Cardinality(At(pc, "count")) = 0 /\ Cardinality(At(pc, "uncount")) = 0
      BY <1>1, FS_EmptySet
    <2>2. QED  BY <1>2, <1>4, <2>1
  <1>6. QED  BY <1>4, <1>5, FS_EmptySet

\* setFixedSize and setDynamicSize, called while no other thread is inside.
LEMMA ConfigureStep ==
  ASSUME IInv, ~ ConcurrentConfig, NEW t \in Threads, NEW n \in Limits,
         SetFixedSize(t, n) \/ SetDynamicSize(t, n)
  PROVE  IInv'
  <1>1. /\ \A u \in Threads : pc[u] = "idle"
        /\ UNCHANGED <<live, used, pc, loc, ref>>
    BY DEF SetFixedSize, SetDynamicSize, MayConfigure
  <1>2. fixed' \in BOOLEAN /\ limit' \in Nat \cup {NoLimit}
    BY ManagerAssumption DEF SetFixedSize, SetDynamicSize, IInv, TypeOK
  <1>3. pc' = [pc EXCEPT ![t] = "idle"] /\ pc[t] = "idle"
    BY <1>1 DEF IInv, TypeOK
  <1>4. CASE UNCHANGED <<managed, free, gen, refs, past>>
    <2>1. TypeOK'
      BY <1>1, <1>2, <1>4 DEF IInv, TypeOK
    <2>2. OneThreadPerSlot' /\ SlotsApart' /\ UsedCountExact'
      BY <1>1, <1>4 DEF IInv, OneThreadPerSlot, SlotsApart, UsedCountExact
    <2>3. HeldHandlesValid' /\ ObjectsInUse'
      BY <1>1, <1>4 DEF IInv, HeldHandlesValid, Valid, ObjectsInUse, RefsTo
    <2>4. RefCountExact'
      BY <1>1, <1>4 DEF IInv, RefCountExact, RefsTo
    <2>5. PastInOrder'
      BY <1>1, <1>4 DEF IInv, PastInOrder, Ago
    <2>6. QED  BY <2>1, <2>2, <2>3, <2>4, <2>5 DEF IInv
  <1>5. CASE doAllocate(n, managed) \/ AllocateFails(managed)
    BY <1>1, <1>2, <1>3, <1>5, PoolStep
  <1>6. CASE used <= 0 /\ (doAllocate(n - totalCapacity, {}) \/ AllocateFails({}))
    <2> SUFFICES ASSUME NEW old, old = {} PROVE IInv'
      OBVIOUS
    <2>1. managed \ free \subseteq old /\ old \subseteq managed
      BY <1>1, <1>6, NothingInUse
    <2>2. doAllocate(n - totalCapacity, old) \/ AllocateFails(old)
      BY <1>6
    <2>3. QED  BY <1>1, <1>2, <1>3, <2>1, <2>2, PoolStep
  <1>7. QED  BY <1>4, <1>5, <1>6 DEF SetFixedSize, SetDynamicSize

-----------------------------------------------------------------------------

LEMMA InitIInv == Init => IInv
  <1> SUFFICES ASSUME Init PROVE IInv
    OBVIOUS
  <1>1. \A r \in Res : gen[r] = 0 /\ refs[r] = 0 /\ past[r] = <<>>
    BY DEF Init
  <1>2. TypeOK
    <2>1. 0 \in 0..(Generations - 1) /\ <<>> \in Seq(0..(Generations - 1))
      BY ManagerAssumption
    <2>2. /\ gen \in [Res -> 0..(Generations - 1)] /\ refs \in [Res -> Int]
          /\ past \in [Res -> Seq(0..(Generations - 1))]
      BY <2>1 DEF Init
    <2>3. /\ loc \in [Threads -> Res \cup {NoRes}] /\ ref \in [Refs -> Handles \cup {NoHandle}]
      <3>1. NoRes \in Res \cup {NoRes} /\ NoHandle \in Handles \cup {NoHandle}
        OBVIOUS
      <3>2. loc = [u \in Threads |-> NoRes] /\ ref = [k \in Refs |-> NoHandle]
        BY DEF Init
      <3>3. QED  BY <3>1, <3>2
    <2>7. limit \in Nat \cup {NoLimit} /\ used \in Int /\ fixed \in BOOLEAN
      <3>1. limit = NoLimit
        BY DEF Init
      <3>2. used \in Int
        BY DEF Init
      <3>3. fixed \in BOOLEAN
        BY DEF Init
      <3>4. QED  BY <3>1, <3>2, <3>3
    <2>4. pc \in [Threads -> {"idle", "pop", "count", "take", "construct", "return",
                             "uncount", "grow", "growLock", "destroy"}]
      BY DEF Init
    <2>5. managed \subseteq Res /\ free \subseteq managed /\ live \subseteq Res
      BY DEF Init
    <2>6. QED  BY <2>2, <2>3, <2>4, <2>5, <2>7 DEF TypeOK
  <1>3. OneThreadPerSlot /\ SlotsApart /\ HeldHandlesValid
    BY DEF Init, OneThreadPerSlot, SlotsApart, HeldHandlesValid, Busy
  <1>4. ObjectsInUse /\ RefCountExact
    BY DEF Init, ObjectsInUse, RefCountExact, RefsTo
  <1>5. UsedCountExact
    <2>1. {u \in Threads : pc[u] = "count"} = {} /\ {u \in Threads : pc[u] = "uncount"} = {} /\ managed \ free = {}
      BY DEF Init
    <2>2. used = 0
      BY DEF Init
    <2>3. QED  BY <2>1, <2>2, FS_EmptySet DEF UsedCountExact
  <1>6. PastInOrder
    BY <1>1, ManagerAssumption DEF PastInOrder
  <1>7. QED  BY <1>2, <1>3, <1>4, <1>5, <1>6 DEF IInv

LEMMA NextIInv == ASSUME IInv, ~ ConcurrentConfig, [Next]_vars PROVE IInv'
  <1>1. CASE UNCHANGED vars
    <2>1. TypeOK' /\ OneThreadPerSlot' /\ SlotsApart' /\ UsedCountExact'
      BY <1>1 DEF vars, IInv, TypeOK, OneThreadPerSlot, SlotsApart, UsedCountExact
    <2>2. HeldHandlesValid' /\ ObjectsInUse'
      BY <1>1 DEF vars, IInv, HeldHandlesValid, Valid, ObjectsInUse, RefsTo
    <2>3. RefCountExact' /\ PastInOrder'
      BY <1>1 DEF vars, IInv, RefCountExact, RefsTo, PastInOrder, Ago
    <2>4. QED  BY <2>1, <2>2, <2>3 DEF IInv
  <1>2. ASSUME NEW t \in Threads, CreateCall(t) \/ PopEmpty(t) \/ Grow(t) PROVE IInv'
    BY <1>2, LocalSteps DEF CreateCall, PopEmpty, Grow, Goto
  <1>3. ASSUME NEW t \in Threads, Create(t) PROVE IInv'
    BY <1>2, <1>3, PopStep, CountStep, TakeStep, ConstructStep, GrowLockedStep DEF Create
  <1>4. ASSUME NEW t \in Threads, Return(t) PROVE IInv'
    BY <1>4, ReturnStep, UncountStep DEF Return
  <1>5. ASSUME NEW t \in Threads, CountRefs(t) PROVE IInv'
    BY <1>5, IncRefStep, DecRefStep, DestroyStep DEF CountRefs
  <1>6. ASSUME NEW t \in Threads, Configure(t) PROVE IInv'
    BY <1>6, ConfigureStep DEF Configure
  <1>7. QED  BY <1>1, <1>3, <1>4, <1>5, <1>6 DEF Next

\* In every reachable state of the manager, when sizes are set only while no
\* other thread is inside it, the invariant holds.
LEMMA ManagerIInv == ASSUME ~ ConcurrentConfig PROVE Spec => []IInv
  <1>1. Init => IInv
    BY InitIInv
  <1>2. IInv /\ [Next]_vars => IInv'
    BY NextIInv
  <1>3. QED  BY <1>1, <1>2, PTL DEF Spec

\* The state keeps its types: free slots are slots of the pools, generations
\* stay below their number, and a thread is at a statement of the code.
THEOREM Typing == ASSUME ~ ConcurrentConfig PROVE Spec => []TypeOK
  <1>1. IInv => TypeOK
    BY DEF IInv
  <1>2. QED  BY <1>1, ManagerIInv, PTL

\* A slot outside the free list is known to one thread or to clients, never to
\* both: doFetchFreeResource never gives a slot to two creates, and destroying
\* an object is left to one thread.
THEOREM SlotOwnership == ASSUME ~ ConcurrentConfig PROVE Spec => [](OneThreadPerSlot /\ SlotsApart)
  <1>1. IInv => OneThreadPerSlot /\ SlotsApart
    BY DEF IInv
  <1>2. QED  BY <1>1, ManagerIInv, PTL

\* A handle that a client holds a reference with is valid, whatever the other
\* threads create, share, destroy or resize.
THEOREM HandlesStayValid == ASSUME ~ ConcurrentConfig PROVE Spec => []HeldHandlesValid
  <1>1. IInv => HeldHandlesValid
    BY DEF IInv
  <1>2. QED  BY <1>1, ManagerIInv, PTL

\* m_refCount counts the references of clients and of the create in progress.
THEOREM RefCounting == ASSUME ~ ConcurrentConfig PROVE Spec => []RefCountExact
  <1>1. IInv => RefCountExact
    BY DEF IInv
  <1>2. QED  BY <1>1, ManagerIInv, PTL

\* usedCount counts the slots outside the free list, up to the threads between
\* the list and the counter.
THEOREM UseCounting == ASSUME ~ ConcurrentConfig PROVE Spec => []UsedCountExact
  <1>1. IInv => UsedCountExact
    BY DEF IInv
  <1>2. QED  BY <1>1, ManagerIInv, PTL

\* The generation of a live object is not that of one of the objects destroyed
\* in its slot less than Generations objects ago, so that a handle to any of
\* them is rejected, as long as setFixedSize does not free the slot and allocate
\* another one at its address.
THEOREM StaleHandles == ASSUME ~ ConcurrentConfig PROVE Spec => []StaleHandleRejected
  <1>1. ASSUME IInv PROVE StaleHandleRejected
    <2> SUFFICES ASSUME NEW r \in Res, NEW i \in DOMAIN past[r], r \in live
                 PROVE  gen[r] # past[r][i]
      BY DEF StaleHandleRejected, Valid
    <2>1. past[r] \in Seq(0..(Generations - 1)) /\ gen[r] \in 0..(Generations - 1)
      BY <1>1 DEF IInv, TypeOK
    <2>2. i \in 1..Len(past[r]) /\ Len(past[r]) \in Nat
      BY <2>1
    <2>3. Len(past[r]) < Generations /\ past[r][i] = IF gen[r] >= i THEN gen[r] - i ELSE gen[r] - i + Generations
      BY <1>1, <2>2 DEF IInv, PastInOrder, Ago
    <2>4. i \in Nat /\ 1 <= i /\ i < Generations
      BY <2>2, <2>3, ManagerAssumption
    <2>5. QED  BY <2>1, <2>3, <2>4, AgoDiffers
  <1>2. QED  BY <1>1, ManagerIInv, PTL

-----------------------------------------------------------------------------
(* The limit *)

\* A step keeps the pools within the limit, if no limit of zero is asked for.
LEMMA LimitStep ==
  ASSUME IInv, LimitEnforced, ~ ConcurrentConfig, 0 \notin Limits, [Next]_vars
  PROVE  LimitEnforced'
  <1> SUFFICES ASSUME limit' # NoLimit
               PROVE  fixed' /\ Cardinality(managed') <= limit' /\ \A u \in Threads : pc'[u] # "growLock"
    BY DEF LimitEnforced
  <1>1. CASE UNCHANGED vars
    BY <1>1 DEF vars, LimitEnforced
  <1>2. ASSUME NEW t \in Threads, NEW l, l # "growLock", pc' = [pc EXCEPT ![t] = l],
               UNCHANGED <<managed, fixed, limit>>
        PROVE  fixed' /\ Cardinality(managed') <= limit' /\ \A u \in Threads : pc'[u] # "growLock"
    BY <1>2 DEF LimitEnforced, IInv, TypeOK
  <1>3. ASSUME NEW t \in Threads, Create(t)
        PROVE  fixed' /\ Cardinality(managed') <= limit' /\ \A u \in Threads : pc'[u] # "growLock"
    <2>1. CASE Grow(t)
      <3>1. fixed
        BY <2>1 DEF Grow, LimitEnforced
      <3>2. QED  BY <1>2, <2>1, <3>1 DEF Grow, Goto
    <2>2. CASE GrowLocked(t)
      BY <2>2 DEF GrowLocked, LimitEnforced
    <2>3. CASE CreateCall(t) \/ Pop(t) \/ PopEmpty(t) \/ CountUsed(t) \/ TakeRef(t) \/ Construct(t) \/ ConstructFails(t)
      BY <1>2, <2>3 DEF CreateCall, Pop, PopEmpty, CountUsed, TakeRef, Construct, ConstructFails, Goto, Done
    <2>4. QED  BY <1>3, <2>1, <2>2, <2>3 DEF Create
  <1>4. ASSUME NEW t \in Threads, Return(t)
        PROVE  fixed' /\ Cardinality(managed') <= limit' /\ \A u \in Threads : pc'[u] # "growLock"
    BY <1>2, <1>4 DEF Return, ReturnResource, UncountUsed, Goto, Done
  <1>5. ASSUME NEW t \in Threads, CountRefs(t)
        PROVE  fixed' /\ Cardinality(managed') <= limit' /\ \A u \in Threads : pc'[u] # "growLock"
    <2>1. CASE \E k, l \in Refs : IncRef(t, k, l)
      BY <2>1 DEF IncRef, LimitEnforced
    <2>2. CASE \E k \in Refs : DecRef(t, k)
      <3>1. PICK k \in Refs : DecRef(t, k)
        BY <2>2
      <3>2. pc' = pc \/ pc' = [pc EXCEPT ![t] = "destroy"]
        BY <3>1 DEF DecRef, Goto
      <3>3. UNCHANGED <<managed, fixed, limit>>
        BY <3>1 DEF DecRef
      <3>4. CASE pc' = pc
        BY <3>3, <3>4 DEF LimitEnforced
      <3>5. QED  BY <1>2, <3>2, <3>3, <3>4
    <2>3. CASE DestroyObject(t)
      BY <1>2, <2>3 DEF DestroyObject, Goto
    <2>4. QED  BY <1>5, <2>1, <2>2, <2>3 DEF CountRefs
  <1>6. ASSUME NEW t \in Threads, Configure(t)
        PROVE  fixed' /\ Cardinality(managed') <= limit' /\ \A u \in Threads : pc'[u] # "growLock"
    <2>1. PICK n \in Limits : SetFixedSize(t, n)
      BY <1>6 DEF Configure, SetDynamicSize
    <2>2. n \in Nat /\ ~ totalCapacity >= n /\ n - totalCapacity = n
      BY ManagerAssumption DEF totalCapacity
    <2>3. /\ \A u \in Threads : pc[u] = "idle" /\ pc' = pc
          /\ limit' = n /\ fixed' /\ (doAllocate(n, {}) \/ AllocateFails({}))
      <3>1. \A u \in Threads : pc[u] = "idle" /\ pc' = pc
        BY <2>1 DEF SetFixedSize, MayConfigure
      <3>2. limit' = n /\ fixed' = TRUE /\ (doAllocate(n - totalCapacity, {}) \/ AllocateFails({}))
        BY <2>1, <2>2 DEF SetFixedSize
      <3>3. QED  BY <2>2, <3>1, <3>2
    <2>4. Cardinality(managed') <= n
      <3>1. CASE AllocateFails({})
        BY <2>2, <3>1, FS_EmptySet DEF AllocateFails
      <3>2. CASE doAllocate(n, {})
        <4>1. PICK S : Cardinality(S) = n /\ managed' = {} \cup S
          BY <3>2 DEF doAllocate
        <4>2. managed' = S
          BY <4>1
        <4>3. QED  BY <2>2, <4>1, <4>2
      <3>3. QED  BY <2>3, <3>1, <3>2
    <2>5. QED  BY <2>3, <2>4
  <1>7. QED  BY <1>1, <1>3, <1>4, <1>5, <1>6 DEF Next

\* setFixedSize sets a hard limit on the number of objects, for every limit
\* except zero.
THEOREM HardLimitHolds == ASSUME ~ ConcurrentConfig, 0 \notin Limits PROVE Spec => []HardLimit
  <1>1. Init => LimitEnforced
    BY DEF Init, LimitEnforced
  <1>2. IInv /\ LimitEnforced /\ [Next]_vars => LimitEnforced'
    BY LimitStep
  <1>3. ASSUME IInv, LimitEnforced PROVE HardLimit
    <2> SUFFICES ASSUME limit # NoLimit PROVE Cardinality(live) <= limit
      BY DEF HardLimit
    <2>1. live \subseteq managed /\ managed \subseteq Res /\ limit \in Nat
      BY <1>3, LiveSlots DEF IInv, TypeOK
    <2>2. IsFiniteSet(managed) /\ Cardinality(managed) \in Nat /\ Cardinality(live) \in Nat
      BY <2>1, SlotsFinite
    <2>3. Cardinality(live) <= Cardinality(managed)
      BY <2>1, <2>2, FS_Subset
    <2>4. Cardinality(managed) <= limit
      BY <1>3 DEF LimitEnforced
    <2>5. QED  BY <2>1, <2>2, <2>3, <2>4
  <1>4. Spec => []IInv
    BY ManagerIInv
  <1>5. QED  BY <1>1, <1>2, <1>3, <1>4, PTL DEF Spec
=============================================================================
