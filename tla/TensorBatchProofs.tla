-------------------------- MODULE TensorBatchProofs --------------------------
(***************************************************************************)
(* For every capacity, every set of tensors and any number of streams, the *)
(* dirty range covers the changes, exports are delivered, and the tensors  *)
(* of a batch agree and are counted exactly.                               *)
(***************************************************************************)
EXTENDS TensorBatch, FiniteSetTheorems, FunctionTheorems, SequenceTheorems, TLAPS

\* Arguments are sequences of tensors.
LEMMA ArgsFacts ==
  ASSUME NEW ts \in Args
  PROVE  /\ Len(ts) \in Nat
         /\ DOMAIN ts = 1 .. Len(ts)
         /\ \A j \in 1 .. Len(ts) : ts[j] \in Tensors
         /\ ts # <<>> => Len(ts) > 0
  <1>1. ts \in Seq(Tensors)
    BY SeqDef, BoundsAssumption DEF Args
  <1>2. QED  BY <1>1, LenProperties, EmptySeq

\* What Written writes and what it leaves alone.
LEMMA WrittenFacts ==
  ASSUME NEW a \in [Slots -> Tensors \cup {NoTensor}], NEW ts \in Args, NEW b \in Nat
  PROVE  /\ Written(a, b, ts) \in [Slots -> Tensors \cup {NoTensor}]
         /\ \A i \in Slots : i \in b .. b + Len(ts) - 1 =>
              /\ i - b + 1 \in 1 .. Len(ts)
              /\ Written(a, b, ts)[i] = ts[i - b + 1]
         /\ \A i \in Slots : i \notin b .. b + Len(ts) - 1 => Written(a, b, ts)[i] = a[i]
  BY ArgsFacts, CapacityAssumption DEF Written, Slots, Span

\* The entries of a from b up to e that hold t, and their number.
Where(a, b, e, t) == {i \in Span(b, e) : a[i] = t}
Count(a, b, e, t) == Cardinality(Where(a, b, e, t))

LEMMA CountType ==
  ASSUME NEW a, NEW b \in Int, NEW e \in Int, NEW t
  PROVE  /\ IsFiniteSet(Where(a, b, e, t))
         /\ Count(a, b, e, t) \in Nat
  <1>1. IsFiniteSet(b .. e - 1)
    BY FS_Interval
  <1>2. Where(a, b, e, t) \in SUBSET (b .. e - 1)
    BY DEF Span, Where
  <1>3. IsFiniteSet(Where(a, b, e, t))
    BY <1>1, <1>2, FS_Subset
  <1>4. QED  BY <1>3, FS_CardinalityType DEF Count

\* Counting a range in two parts.
LEMMA CountSplit ==
  ASSUME NEW a, NEW b \in Int, NEW m \in Int, NEW e \in Int, b <= m, m <= e, NEW t
  PROVE  Count(a, b, e, t) = Count(a, b, m, t) + Count(a, m, e, t)
  <1> DEFINE S == Where(a, b, m, t)
             T == Where(a, m, e, t)
  <1>1. IsFiniteSet(S) /\ IsFiniteSet(T)
    BY CountType
  <1>2. S \cap T = {} /\ S \cup T = Where(a, b, e, t)
    BY DEF Span, Where
  <1>3. Cardinality(S \cup T) = Cardinality(S) + Cardinality(T) - Cardinality(S \cap T)
    BY <1>1, FS_Union
  <1>4. Cardinality(S) \in Nat /\ Cardinality(T) \in Nat
    BY <1>1, FS_CardinalityType
  <1>5. Cardinality(S \cap T) = 0
    BY <1>2, FS_EmptySet, Zenon
  <1>6. Cardinality(S \cup T) = Count(a, b, e, t)
    BY <1>2, Zenon DEF Count
  <1>7. QED  BY <1>3, <1>4, <1>5, <1>6 DEF Count

\* Arrays that agree on a range count the same there.
LEMMA CountSame ==
  ASSUME NEW a, NEW c, NEW b, NEW e, NEW t, \A i \in Span(b, e) : a[i] = c[i]
  PROVE  Count(a, b, e, t) = Count(c, b, e, t)
  <1>1. Where(a, b, e, t) = Where(c, b, e, t)
    BY DEF Where
  <1>2. QED  BY <1>1 DEF Count

\* The range that Written writes counts as the arguments do.
LEMMA CountWritten ==
  ASSUME NEW a \in [Slots -> Tensors \cup {NoTensor}], NEW ts \in Args, NEW b \in Nat,
         b + Len(ts) <= Capacity, NEW t
  PROVE  /\ Count(Written(a, b, ts), b, b + Len(ts), t) = InArgs(ts, t)
         /\ InArgs(ts, t) \in Nat
  <1> DEFINE S == Where(Written(a, b, ts), b, b + Len(ts), t)
             T == {j \in DOMAIN ts : ts[j] = t}
             f == [i \in S |-> i - b + 1]
  <1>1. Len(ts) \in Nat /\ DOMAIN ts = 1 .. Len(ts)
    BY ArgsFacts
  <1>2. IsFiniteSet(S)
    BY <1>1, CountType
  <1>3. \A i \in Span(b, b + Len(ts)) : i \in Slots /\ i \in Int /\ Written(a, b, ts)[i] = ts[i - b + 1]
                                        /\ i - b + 1 \in DOMAIN ts
    BY <1>1, WrittenFacts, CapacityAssumption DEF Span, Slots
  <1>4. \A i \in S : f[i] \in T
    BY <1>3 DEF Where
  <1>5. \A i, j \in S : f[i] = f[j] => i = j
    BY <1>3 DEF Where
  <1>6. \A j \in T : \E i \in S : f[i] = j
    <2> TAKE j \in T
    <2>1. j + b - 1 \in Span(b, b + Len(ts)) /\ (j + b - 1) - b + 1 = j
      BY <1>1 DEF Span
    <2>2. j + b - 1 \in S
      BY <1>3, <2>1 DEF Where
    <2>3. QED  BY <2>1, <2>2
  <1>7. f \in Bijection(S, T)
    BY <1>4, <1>5, <1>6 DEF Bijection, Injection, Surjection, IsInjective
  <1>8. Cardinality(T) = Cardinality(S)
    BY <1>2, <1>7, FS_Bijection DEF ExistsBijection
  <1>9. QED  BY <1>1, <1>2, <1>8, FS_CardinalityType DEF Count, InArgs
-----------------------------------------------------------------------------
\* RefsExact in terms of Count, and the counts it speaks of.
LEMMA RefsFacts ==
  ASSUME TypeOK
  PROVE  /\ RefsExact <=> \A t \in Tensors :
              refCount[t] = clientRefs[t] + Count(m_Tensors, 0, m_numTensors, t)
         /\ \A b, e \in Int, t \in Tensors : /\ InBatch(b, e, t) = Count(m_Tensors, b, e, t)
                                             /\ Count(m_Tensors, b, e, t) \in Nat
         /\ \A t \in Tensors : clientRefs[t] \in Nat /\ refCount[t] \in Nat
  <1>1. \A b, e \in Int, t \in Tensors : InBatch(b, e, t) = Count(m_Tensors, b, e, t)
    BY DEF InBatch, Count, Where
  <1>2. \A b, e \in Int, t \in Tensors : Count(m_Tensors, b, e, t) \in Nat
    BY CountType
  <1>3. 0 \in Int /\ m_numTensors \in Int
    BY DEF TypeOK
  <1>4. \A t \in Tensors : clientRefs[t] \in Nat /\ refCount[t] \in Nat
    BY BoundsAssumption DEF TypeOK
  <1>5. QED  BY <1>1, <1>2, <1>3, <1>4 DEF RefsExact

\* Calls that leave the buffers alone leave what is on its way alone.
LEMMA BuffersKept ==
  ASSUME IInv, UNCHANGED buffers
  PROVE  /\ CopiesFenced' /\ PinnedStable' /\ ExportOnItsWay'
         /\ \A i \in Slots : WillHold(i)' = WillHold(i)
         /\ pinned' \in [Slots -> Elements \cup {Garbage}]
         /\ dev' \in [Slots -> Elements \cup {Garbage}]
         /\ copies' \subseteq CopyType
         /\ m_evPostFence' \in CopyType \cup {NoCopy}
  BY DEF IInv, TypeOK, CopiesFenced, PinnedStable, ExportOnItsWay, WillHold, buffers, gpu

LEMMA PushKeepsInv ==
  ASSUME IInv, NEW ts \in Args, pushTensors(ts)
  PROVE  IInv'
  <1> DEFINE n == Len(ts)
  <1>1. /\ n \in Nat /\ n > 0 /\ DOMAIN ts = 1 .. n /\ m_numTensors \in Nat
        /\ m_numTensors + n <= Capacity /\ m_numTensors' = m_numTensors + n
        /\ \A j \in 1 .. n : ts[j] \in Tensors
        /\ m_Tensors \in [Slots -> Tensors \cup {NoTensor}]
    BY ArgsFacts, CapacityAssumption DEF pushTensors, IInv, TypeOK
  <1>2. /\ m_Tensors' \in [Slots -> Tensors \cup {NoTensor}]
        /\ \A i \in Span(0, m_numTensors) : i \in Slots /\ m_Tensors'[i] = m_Tensors[i]
        /\ \A i \in Span(m_numTensors, m_numTensors') : i \in Slots /\ i - m_numTensors + 1 \in 1 .. n
                                               /\ m_Tensors'[i] = ts[i - m_numTensors + 1]
    BY <1>1, WrittenFacts, CapacityAssumption DEF pushTensors, Span, Slots
  <1>3. CopiesFenced' /\ PinnedStable' /\ ExportOnItsWay' /\ \A i \in Slots : WillHold(i)' = WillHold(i)
    BY BuffersKept DEF pushTensors
  <1>4. RefsExact' /\ refCount' \in [Tensors -> Nat]
    <2> SUFFICES ASSUME NEW t \in Tensors
                 PROVE  /\ refCount'[t] = clientRefs'[t] + Count(m_Tensors', 0, m_numTensors', t)
                        /\ refCount'[t] \in Nat
      BY DEF RefsExact, InBatch, Count, Where, pushTensors
    <2>1. Count(m_Tensors', 0, m_numTensors', t)
            = Count(m_Tensors', 0, m_numTensors, t) + Count(m_Tensors', m_numTensors, m_numTensors', t)
      BY <1>1, CountSplit
    <2>2. Count(m_Tensors', 0, m_numTensors, t) = Count(m_Tensors, 0, m_numTensors, t)
      BY <1>2, CountSame
    <2>3. Count(m_Tensors', m_numTensors, m_numTensors', t) = InArgs(ts, t) /\ InArgs(ts, t) \in Nat
      <3>1. m_Tensors' = Written(m_Tensors, m_numTensors, ts)
        BY DEF pushTensors
      <3>2. /\ Count(Written(m_Tensors, m_numTensors, ts), m_numTensors, m_numTensors + n, t) = InArgs(ts, t)
            /\ InArgs(ts, t) \in Nat
        BY <1>1, CountWritten
      <3>3. QED  BY <1>1, <3>1, <3>2
    <2>4. refCount'[t] = refCount[t] + InArgs(ts, t) /\ clientRefs'[t] = clientRefs[t]
      BY DEF pushTensors
    <2>5. /\ refCount[t] = clientRefs[t] + Count(m_Tensors, 0, m_numTensors, t)
          /\ refCount[t] \in Nat /\ clientRefs[t] \in Nat
          /\ Count(m_Tensors, 0, m_numTensors, t) \in Nat
      BY <1>1, RefsFacts DEF IInv
    <2>6. QED  BY <2>1, <2>2, <2>3, <2>4, <2>5
  <1>5. /\ m_dirtyEnd' = m_numTensors'
        /\ m_dirtyBegin' \in 0 .. m_numTensors
        /\ \A i \in Span(0, m_numTensors') : i \notin Span(m_dirtyBegin', m_dirtyEnd') =>
             i \in Span(0, m_numTensors) \ Span(m_dirtyBegin, m_dirtyEnd)
    BY <1>1 DEF pushTensors, IInv, TypeOK, Span
  <1>6. DirtyCoversChanges'
    BY <1>2, <1>3, <1>5 DEF IInv, DirtyCoversChanges
  <1>7. KindsAgree' /\ attrs' \in Kinds
    <2>1. \A j \in 1 .. n : KindOf[ts[j]] = attrs'
      BY <1>1 DEF pushTensors, validateTensors
    <2>2. \A i \in Span(0, m_numTensors) : KindOf[m_Tensors[i]] = attrs'
      BY <1>1 DEF pushTensors, setLayoutAndDType, IInv, KindsAgree, Span
    <2>3. \A i \in Span(0, m_numTensors') :
             i \in Span(0, m_numTensors) \/ i \in Span(m_numTensors, m_numTensors')
      BY <1>1 DEF Span
    <2>4. KindsAgree'
      BY <1>2, <2>1, <2>2, <2>3 DEF KindsAgree
    <2>5. QED  BY <1>1, <2>1, <2>4, KindAssumption
  <1>8. \A i \in Span(0, m_numTensors') : m_Tensors'[i] \in Tensors
    BY <1>1, <1>2 DEF IInv, TypeOK, Span
  <1>9. TypeOK'
    <2>1. clientRefs' \in [Tensors -> 0 .. MaxClientRefs]
      BY DEF pushTensors, IInv, TypeOK
    <2>2. m_numTensors' \in 0 .. Capacity /\ m_dirtyEnd' \in 0 .. m_numTensors' /\ m_dirtyBegin' \in 0 .. m_dirtyEnd'
      BY <1>1, <1>5
    <2>3. UNCHANGED buffers
      BY DEF pushTensors
    <2>4. QED  BY <1>2, <1>4, <1>7, <1>8, <2>1, <2>2, <2>3, BuffersKept DEF TypeOK
  <1>10. QED  BY <1>3, <1>4, <1>6, <1>7, <1>9 DEF IInv

LEMMA PushRejectedKeepsInv ==
  ASSUME IInv, NEW ts \in Args, pushRejected(ts)
  PROVE  IInv'
  <1>1. UNCHANGED <<m_Tensors, m_numTensors, m_dirtyBegin, m_dirtyEnd, refCount, clientRefs, buffers>>
    BY DEF pushRejected, dirty
  <1>2. attrs' \in Kinds \cup {NoKind} /\ (m_numTensors # 0 => attrs' = attrs)
    BY ArgsFacts, KindAssumption DEF pushRejected, setLayoutAndDType, IInv, TypeOK
  <1>3. TypeOK'
    BY <1>1, <1>2, BuffersKept DEF IInv, TypeOK
  <1>4. KindsAgree'
    BY <1>1, <1>2 DEF IInv, KindsAgree, Span
  <1>5. RefsExact'
    BY <1>1 DEF IInv, RefsExact, InBatch
  <1>6. DirtyCoversChanges'
    BY <1>1, BuffersKept, CapacityAssumption DEF IInv, TypeOK, DirtyCoversChanges, Span, Slots
  <1>7. QED  BY <1>1, <1>3, <1>4, <1>5, <1>6, BuffersKept DEF IInv

\* The batch shrinks to m tensors, whose references are the only ones kept.
LEMMA ShrinkKeepsRefs ==
  ASSUME IInv, NEW m \in 0 .. m_numTensors, m_numTensors' = m, UNCHANGED <<m_Tensors, clientRefs>>,
         refCount' = [t \in Tensors |-> refCount[t] - InBatch(m, m_numTensors, t)]
  PROVE  RefsExact' /\ refCount' \in [Tensors -> Nat] /\ clientRefs' \in [Tensors -> 0 .. MaxClientRefs]
  <1>1. m_numTensors \in Nat /\ m \in Nat /\ m <= m_numTensors
    BY CapacityAssumption DEF IInv, TypeOK
  <1>2. ASSUME NEW t \in Tensors
        PROVE  /\ refCount'[t] = clientRefs'[t] + Count(m_Tensors', 0, m_numTensors', t)
               /\ refCount'[t] \in Nat
    <2>1. Count(m_Tensors, 0, m_numTensors, t) = Count(m_Tensors, 0, m, t) + Count(m_Tensors, m, m_numTensors, t)
      BY <1>1, CountSplit
    <2>2. /\ refCount[t] = clientRefs[t] + Count(m_Tensors, 0, m_numTensors, t)
          /\ clientRefs[t] \in Nat
          /\ Count(m_Tensors, 0, m, t) \in Nat /\ Count(m_Tensors, m, m_numTensors, t) \in Nat
          /\ InBatch(m, m_numTensors, t) = Count(m_Tensors, m, m_numTensors, t)
      BY <1>1, RefsFacts DEF IInv
    <2>3. QED  BY <2>1, <2>2
  <1>3. QED  BY <1>2 DEF RefsExact, InBatch, Count, Where, IInv, TypeOK

LEMMA PopKeepsInv ==
  ASSUME IInv, NEW n, popTensors(n)
  PROVE  IInv'
  <1> DEFINE m == m_numTensors - n
  <1>1. m \in 0 .. m_numTensors /\ m_numTensors' = m /\ m_numTensors \in Nat /\ n \in Nat
        /\ UNCHANGED <<m_Tensors, clientRefs, buffers>>
    BY CapacityAssumption DEF popTensors, IInv, TypeOK
  <1>2. RefsExact' /\ refCount' \in [Tensors -> Nat] /\ clientRefs' \in [Tensors -> 0 .. MaxClientRefs]
    BY <1>1, ShrinkKeepsRefs DEF popTensors
  <1>3. /\ m_dirtyEnd' \in 0 .. m /\ m_dirtyBegin' \in 0 .. m_dirtyEnd'
        /\ \A i \in Span(0, m) : i \in Span(0, m_numTensors)
        /\ \A i \in Span(0, m) : i \notin Span(m_dirtyBegin', m_dirtyEnd') =>
             i \in Span(0, m_numTensors) \ Span(m_dirtyBegin, m_dirtyEnd)
    BY <1>1 DEF popTensors, IInv, TypeOK, Span, MinOf
  <1>4. attrs' \in Kinds \cup {NoKind} /\ (m # 0 => attrs' = attrs)
    BY <1>1 DEF popTensors, IInv, TypeOK
  <1>5. TypeOK'
    <2>1. m_numTensors' \in 0 .. Capacity /\ m_dirtyEnd' \in 0 .. m_numTensors'
      BY <1>1, <1>3, CapacityAssumption DEF IInv, TypeOK
    <2>2. \A i \in Span(0, m_numTensors') : m_Tensors'[i] \in Tensors
      BY <1>1, <1>3 DEF IInv, TypeOK
    <2>3. m_Tensors' \in [Slots -> Tensors \cup {NoTensor}]
      BY <1>1 DEF IInv, TypeOK
    <2>4. QED  BY <1>1, <1>2, <1>3, <1>4, <2>1, <2>2, <2>3, BuffersKept DEF TypeOK
  <1>6. KindsAgree'
    BY <1>1, <1>3, <1>4 DEF IInv, KindsAgree, Span
  <1>7. \A i \in Span(0, m) : i \in Slots
    BY <1>1, CapacityAssumption DEF Span, Slots, IInv, TypeOK
  <1>8. DirtyCoversChanges'
    BY <1>1, <1>3, <1>7, BuffersKept DEF IInv, DirtyCoversChanges
  <1>9. QED  BY <1>1, <1>2, <1>5, <1>6, <1>8, BuffersKept DEF IInv

LEMMA ClearKeepsInv ==
  ASSUME IInv, clear
  PROVE  IInv'
  <1>1. m_numTensors \in Nat /\ 0 \in 0 .. m_numTensors /\ Span(0, 0) = {}
        /\ UNCHANGED <<m_Tensors, clientRefs, buffers>> /\ m_numTensors' = 0
    BY CapacityAssumption DEF IInv, TypeOK, clear, Span
  <1>2. RefsExact' /\ refCount' \in [Tensors -> Nat] /\ clientRefs' \in [Tensors -> 0 .. MaxClientRefs]
    BY <1>1, ShrinkKeepsRefs DEF clear
  <1>3. TypeOK'
    BY <1>1, <1>2, BuffersKept, CapacityAssumption DEF IInv, TypeOK, clear
  <1>4. KindsAgree' /\ DirtyCoversChanges'
    BY <1>1 DEF KindsAgree, DirtyCoversChanges
  <1>5. QED  BY <1>1, <1>2, <1>3, <1>4, BuffersKept DEF IInv

LEMMA CleanUpKeepsInv ==
  ASSUME IInv, cleanUp
  PROVE  IInv'
  <1>1. m_numTensors \in Nat /\ m_numTensors' = 0 /\ Span(0, 0) = {}
    BY CapacityAssumption DEF IInv, TypeOK, cleanUp, Span
  <1>2. ASSUME NEW t \in Tensors
        PROVE  /\ refCount'[t] = clientRefs'[t] + Count(m_Tensors', 0, m_numTensors', t)
               /\ refCount'[t] \in Nat
    <2>1. Where(m_Tensors', 0, m_numTensors', t) = {}
      BY <1>1 DEF Where
    <2>2. Count(m_Tensors', 0, m_numTensors', t) = 0
      BY <2>1, FS_EmptySet DEF Count
    <2>3. /\ refCount[t] = clientRefs[t] + InBatch(0, m_numTensors, t)
          /\ clientRefs[t] \in Nat /\ InBatch(0, m_numTensors, t) \in Nat
      BY <1>1, RefsFacts DEF IInv
    <2>4. refCount'[t] = refCount[t] - InBatch(0, m_numTensors, t) /\ clientRefs'[t] = clientRefs[t]
      BY DEF cleanUp
    <2>5. QED  BY <2>2, <2>3, <2>4
  <1>3. RefsExact' /\ refCount' \in [Tensors -> Nat]
    BY <1>2 DEF RefsExact, InBatch, Count, Where, cleanUp
  <1>4. TypeOK'
    BY <1>1, <1>3, CapacityAssumption DEF IInv, TypeOK, cleanUp
  <1>5. KindsAgree' /\ DirtyCoversChanges'
    BY <1>1 DEF KindsAgree, DirtyCoversChanges
  <1>6. CopiesFenced' /\ PinnedStable'
    BY DEF cleanUp, CopiesFenced, PinnedStable
  <1>7. ExportOnItsWay'
    BY DEF cleanUp, ExportOnItsWay
  <1>8. QED  BY <1>3, <1>4, <1>5, <1>6, <1>7 DEF IInv

LEMMA GetKeepsInv ==
  ASSUME IInv, NEW index \in Nat, NEW n \in Nat, getTensors(index, n)
  PROVE  IInv'
  <1>1. UNCHANGED <<m_Tensors, m_numTensors, m_dirtyBegin, m_dirtyEnd, attrs, buffers>>
    BY DEF getTensors, dirty
  <1>2. ASSUME NEW t \in Tensors
        PROVE  /\ refCount'[t] = clientRefs'[t] + InBatch(0, m_numTensors, t)
               /\ refCount'[t] \in Nat /\ clientRefs'[t] \in 0 .. MaxClientRefs
    <2>1. /\ refCount[t] = clientRefs[t] + InBatch(0, m_numTensors, t)
          /\ clientRefs[t] \in Nat /\ InBatch(0, m_numTensors, t) \in Nat
          /\ InBatch(index, index + n, t) \in Nat
      BY RefsFacts, CapacityAssumption DEF IInv, TypeOK
    <2>2. /\ refCount'[t] = refCount[t] + InBatch(index, index + n, t)
          /\ clientRefs'[t] = clientRefs[t] + InBatch(index, index + n, t)
          /\ clientRefs[t] + InBatch(index, index + n, t) <= MaxClientRefs
      BY DEF getTensors
    <2>3. QED  BY <2>1, <2>2, BoundsAssumption
  <1>3. RefsExact' /\ refCount' \in [Tensors -> Nat] /\ clientRefs' \in [Tensors -> 0 .. MaxClientRefs]
    <2>1. RefsExact'
      BY <1>1, <1>2 DEF RefsExact, InBatch
    <2>2. refCount' = [t \in Tensors |-> refCount'[t]] /\ clientRefs' = [t \in Tensors |-> clientRefs'[t]]
      BY DEF getTensors
    <2>3. QED  BY <1>2, <2>1, <2>2
  <1>4. TypeOK'
    BY <1>1, <1>3, BuffersKept DEF IInv, TypeOK
  <1>5. KindsAgree'
    BY <1>1 DEF IInv, KindsAgree
  <1>6. DirtyCoversChanges'
    BY <1>1, BuffersKept, CapacityAssumption DEF IInv, TypeOK, DirtyCoversChanges, Span, Slots
  <1>7. QED  BY <1>1, <1>3, <1>4, <1>5, <1>6, BuffersKept DEF IInv

LEMMA ReleaseKeepsInv ==
  ASSUME IInv, NEW u \in Tensors, ReleaseTensor(u)
  PROVE  IInv'
  <1>1. UNCHANGED <<m_Tensors, m_numTensors, m_dirtyBegin, m_dirtyEnd, attrs, buffers>>
    BY DEF ReleaseTensor, dirty
  <1>2. ASSUME NEW t \in Tensors
        PROVE  /\ refCount'[t] = clientRefs'[t] + InBatch(0, m_numTensors, t)
               /\ refCount'[t] \in Nat /\ clientRefs'[t] \in 0 .. MaxClientRefs
    <2>1. /\ refCount[t] = clientRefs[t] + InBatch(0, m_numTensors, t)
          /\ clientRefs[t] \in 0 .. MaxClientRefs /\ InBatch(0, m_numTensors, t) \in Nat
      BY RefsFacts, CapacityAssumption DEF IInv, TypeOK
    <2>2. /\ refCount'[t] = IF t = u THEN refCount[t] - 1 ELSE refCount[t]
          /\ clientRefs'[t] = IF t = u THEN clientRefs[t] - 1 ELSE clientRefs[t]
          /\ clientRefs[u] > 0
      BY DEF ReleaseTensor, IInv, TypeOK
    <2>3. QED  BY <2>1, <2>2, BoundsAssumption
  <1>3. RefsExact' /\ refCount' \in [Tensors -> Nat] /\ clientRefs' \in [Tensors -> 0 .. MaxClientRefs]
    <2>1. RefsExact'
      BY <1>1, <1>2 DEF RefsExact, InBatch
    <2>2. refCount' = [t \in Tensors |-> refCount'[t]] /\ clientRefs' = [t \in Tensors |-> clientRefs'[t]]
      BY DEF ReleaseTensor, IInv, TypeOK
    <2>3. QED  BY <1>2, <2>1, <2>2
  <1>4. TypeOK'
    BY <1>1, <1>3, BuffersKept DEF IInv, TypeOK
  <1>5. KindsAgree'
    BY <1>1 DEF IInv, KindsAgree
  <1>6. DirtyCoversChanges'
    BY <1>1, BuffersKept, CapacityAssumption DEF IInv, TypeOK, DirtyCoversChanges, Span, Slots
  <1>7. QED  BY <1>1, <1>3, <1>4, <1>5, <1>6, BuffersKept DEF IInv

LEMMA SetKeepsInv ==
  ASSUME IInv, NEW index \in Nat, NEW ts \in Args, setTensors(index, ts)
  PROVE  IInv'
  <1> DEFINE n == Len(ts)
             e == index + n
  <1>1. /\ n \in Nat /\ e \in Nat /\ DOMAIN ts = 1 .. n /\ m_numTensors \in Nat
        /\ index <= e /\ e <= m_numTensors /\ m_numTensors <= Capacity
        /\ \A j \in 1 .. n : ts[j] \in Tensors
        /\ m_Tensors \in [Slots -> Tensors \cup {NoTensor}]
        /\ m_Tensors' = Written(m_Tensors, index, ts)
        /\ UNCHANGED <<m_numTensors, attrs, clientRefs, buffers>>
    BY ArgsFacts, CapacityAssumption DEF setTensors, IInv, TypeOK
  <1>2. /\ m_Tensors' \in [Slots -> Tensors \cup {NoTensor}]
        /\ \A i \in Span(0, m_numTensors) : i \in Slots
        /\ \A i \in Slots : i \notin Span(index, e) => m_Tensors'[i] = m_Tensors[i]
        /\ \A i \in Slots : i \in Span(index, e) =>
             i - index + 1 \in 1 .. n /\ m_Tensors'[i] = ts[i - index + 1]
    BY <1>1, WrittenFacts, CapacityAssumption DEF Span, Slots
  <1>3. RefsExact' /\ refCount' \in [Tensors -> Nat]
    <2> SUFFICES ASSUME NEW t \in Tensors
                 PROVE  /\ refCount'[t] = clientRefs'[t] + Count(m_Tensors', 0, m_numTensors', t)
                        /\ refCount'[t] \in Nat
      BY DEF RefsExact, InBatch, Count, Where, setTensors
    <2> DEFINE C(a, b, f) == Count(a, b, f, t)
    <2>1. C(m_Tensors, 0, m_numTensors) = C(m_Tensors, 0, index) + C(m_Tensors, index, m_numTensors)
      BY <1>1, CountSplit
    <2>2. C(m_Tensors, index, m_numTensors) = C(m_Tensors, index, e) + C(m_Tensors, e, m_numTensors)
      BY <1>1, CountSplit
    <2>3. C(m_Tensors', 0, m_numTensors) = C(m_Tensors', 0, index) + C(m_Tensors', index, m_numTensors)
      BY <1>1, CountSplit
    <2>4. C(m_Tensors', index, m_numTensors) = C(m_Tensors', index, e) + C(m_Tensors', e, m_numTensors)
      BY <1>1, CountSplit
    <2>5. C(m_Tensors', 0, index) = C(m_Tensors, 0, index)
      <3>1. \A i \in Span(0, index) : m_Tensors'[i] = m_Tensors[i]
        BY <1>1, <1>2 DEF Span
      <3>2. QED  BY <3>1, CountSame
    <2>6. C(m_Tensors', e, m_numTensors) = C(m_Tensors, e, m_numTensors)
      <3>1. \A i \in Span(e, m_numTensors) : m_Tensors'[i] = m_Tensors[i]
        BY <1>1, <1>2 DEF Span
      <3>2. QED  BY <3>1, CountSame
    <2>7. C(m_Tensors', index, e) = InArgs(ts, t) /\ InArgs(ts, t) \in Nat
      <3>1. e <= Capacity
        BY <1>1, CapacityAssumption
      <3>2. /\ Count(Written(m_Tensors, index, ts), index, index + n, t) = InArgs(ts, t)
            /\ InArgs(ts, t) \in Nat
        BY <1>1, <3>1, CountWritten
      <3>3. QED  BY <1>1, <3>2
    <2>8. /\ refCount[t] = clientRefs[t] + C(m_Tensors, 0, m_numTensors)
          /\ clientRefs[t] \in Nat
          /\ InBatch(index, e, t) = C(m_Tensors, index, e)
          /\ C(m_Tensors, 0, index) \in Nat /\ C(m_Tensors, index, e) \in Nat
          /\ C(m_Tensors, e, m_numTensors) \in Nat
      BY <1>1, RefsFacts DEF IInv
    <2>9. refCount'[t] = refCount[t] - InBatch(index, e, t) + InArgs(ts, t) /\ clientRefs'[t] = clientRefs[t]
      BY <1>1 DEF setTensors
    <2> HIDE DEF C
    <2>10. /\ refCount'[t] = clientRefs'[t] + C(m_Tensors', 0, m_numTensors)
           /\ refCount'[t] \in Nat
      BY <2>1, <2>2, <2>3, <2>4, <2>5, <2>6, <2>7, <2>8, <2>9, SMTT(60)
    <2>11. QED  BY <1>1, <2>10 DEF C
  <1>4. /\ m_dirtyEnd' \in 0 .. m_numTensors /\ m_dirtyBegin' \in 0 .. m_dirtyEnd'
        /\ \A i \in Span(0, m_numTensors) : i \notin Span(m_dirtyBegin', m_dirtyEnd') =>
             i \notin Span(index, e) /\ i \notin Span(m_dirtyBegin, m_dirtyEnd)
    BY <1>1 DEF setTensors, IInv, TypeOK, Span, MinOf, MaxOf
  <1>5. DirtyCoversChanges'
    BY <1>1, <1>2, <1>4, BuffersKept DEF IInv, DirtyCoversChanges
  <1>6. KindsAgree'
    <2>1. \A j \in 1 .. n : KindOf[ts[j]] = attrs
      BY <1>1 DEF setTensors, validateTensors
    <2>2. QED  BY <1>1, <1>2, <2>1 DEF IInv, KindsAgree
  <1>7. TypeOK'
    <2>1. \A i \in Span(0, m_numTensors') : m_Tensors'[i] \in Tensors
      BY <1>1, <1>2 DEF IInv, TypeOK
    <2>2. clientRefs' \in [Tensors -> 0 .. MaxClientRefs] /\ attrs' \in Kinds \cup {NoKind}
      BY <1>1 DEF IInv, TypeOK
    <2>3. m_numTensors' \in 0 .. Capacity /\ m_dirtyEnd' \in 0 .. m_numTensors' /\ m_dirtyBegin' \in 0 .. m_dirtyEnd'
      BY <1>1, <1>4
    <2>4. QED  BY <1>1, <1>2, <1>3, <2>1, <2>2, <2>3, BuffersKept DEF TypeOK
  <1>8. QED  BY <1>1, <1>3, <1>5, <1>6, <1>7, BuffersKept DEF IInv

\* Staging writes the descriptors of the dirty entries and no others.
LEMMA StagedFacts ==
  ASSUME IInv
  PROVE  /\ Staged \in [Slots -> Elements \cup {Garbage}]
         /\ \A i \in Slots : Staged[i] = IF i \in Span(m_dirtyBegin, m_dirtyEnd)
                                         THEN Element(m_Tensors[i]) ELSE pinned[i]
         /\ \A i \in Span(0, m_numTensors) : i \in Slots
         /\ \A i \in Span(m_dirtyBegin, m_dirtyEnd) : i \in Span(0, m_numTensors)
  <1>1. /\ \A i \in Span(0, m_numTensors) : i \in Slots
        /\ \A i \in Span(m_dirtyBegin, m_dirtyEnd) : i \in Span(0, m_numTensors)
    BY CapacityAssumption DEF IInv, TypeOK, Span, Slots
  <1>2. \A i \in Span(m_dirtyBegin, m_dirtyEnd) : Element(m_Tensors[i]) \in Elements
    BY <1>1 DEF IInv, TypeOK, Element, Elements
  <1>3. QED  BY <1>1, <1>2 DEF Staged, IInv, TypeOK

LEMMA ExportKeepsInv ==
  ASSUME IInv, NEW s \in Streams, exportData(s)
  PROVE  IInv'
  <1> DEFINE c == [stream |-> s, begin |-> m_dirtyBegin, end |-> m_dirtyEnd, data |-> pinned']
  <1>1. /\ UNCHANGED <<m_Tensors, m_numTensors, m_dirtyEnd, attrs, dev, refCount, clientRefs>>
        /\ pinned' = Staged /\ m_evPostFence' = c /\ m_dirtyBegin' = m_dirtyEnd
        /\ m_dirtyBegin \in Nat /\ m_dirtyEnd \in Nat
    BY CapacityAssumption DEF exportData, IInv, TypeOK
  <1>2. copies' = {c}
    BY <1>1 DEF exportData, IInv, CopiesFenced
  <1>3. c \in CopyType /\ c # NoCopy
    <2>1. c \in CopyType
      BY <1>1, StagedFacts DEF CopyType
    <2>2. QED  BY <2>1, NoCopyAssumption
  <1>4. \A i \in Slots : WillHold(i)' = IF i \in Span(m_dirtyBegin, m_dirtyEnd)
                                        THEN Element(m_Tensors[i]) ELSE WillHold(i)
    <2>1. \A i \in Slots : WillHold(i) = dev[i]
      BY DEF exportData, WillHold
    <2>2. c.begin = m_dirtyBegin /\ c.end = m_dirtyEnd /\ c.data = Staged
      BY <1>1
    <2>3. QED  BY <1>1, <1>3, <2>1, <2>2, StagedFacts DEF WillHold
  <1>5. \A i \in Span(0, m_numTensors) : WillHold(i)' = Element(m_Tensors[i])
    BY <1>4, StagedFacts DEF IInv, DirtyCoversChanges
  <1>6. TypeOK'
    <2>1. m_dirtyBegin' \in 0 .. m_dirtyEnd' /\ m_dirtyEnd' \in 0 .. m_numTensors'
      BY <1>1 DEF IInv, TypeOK
    <2>2. QED  BY <1>1, <1>2, <1>3, <2>1, StagedFacts DEF IInv, TypeOK
  <1>7. KindsAgree' /\ RefsExact'
    BY <1>1 DEF IInv, KindsAgree, RefsExact, InBatch
  <1>8. CopiesFenced' /\ PinnedStable'
    BY <1>1, <1>2, <1>3 DEF CopiesFenced, PinnedStable
  <1>9. DirtyCoversChanges'
    BY <1>1, <1>5 DEF DirtyCoversChanges
  <1>10. ExportOnItsWay'
    BY <1>5, StagedFacts DEF exportData, ExportOnItsWay, Contents
  <1>11. QED  BY <1>6, <1>7, <1>8, <1>9, <1>10 DEF IInv

LEMMA ExportFailsKeepsInv ==
  ASSUME IInv, exportFails
  PROVE  IInv'
  <1>1. /\ UNCHANGED <<m_Tensors, m_numTensors, m_dirtyBegin, m_dirtyEnd, attrs, dev, copies,
                       m_evPostFence, refCount, clientRefs, exported>>
        /\ pinned' = Staged /\ copies = {}
    BY DEF exportFails, IInv, CopiesFenced, gpu, dirty
  <1>2. TypeOK'
    BY <1>1, StagedFacts DEF IInv, TypeOK
  <1>3. KindsAgree' /\ RefsExact' /\ CopiesFenced' /\ PinnedStable'
    BY <1>1 DEF IInv, KindsAgree, RefsExact, InBatch, CopiesFenced, PinnedStable
  <1>4. DirtyCoversChanges' /\ ExportOnItsWay'
    BY <1>1 DEF IInv, DirtyCoversChanges, ExportOnItsWay, WillHold
  <1>5. QED  BY <1>2, <1>3, <1>4 DEF IInv

LEMMA ExportCleanKeepsInv ==
  ASSUME IInv, NEW s \in Streams, exportClean(s)
  PROVE  IInv'
  <1>1. /\ UNCHANGED <<m_Tensors, m_numTensors, m_dirtyBegin, m_dirtyEnd, attrs, pinned, dev, copies,
                       m_evPostFence, refCount, clientRefs>>
        /\ exported' = [stream |-> s, elems |-> Contents]
    BY DEF exportClean, gpu, dirty
  <1>2. \A i \in Span(0, m_numTensors) : WillHold(i)' = Element(m_Tensors[i])
    <2>1. Span(m_dirtyBegin, m_dirtyEnd) = {}
      BY CapacityAssumption DEF exportClean, Span, IInv, TypeOK
    <2>2. QED  BY <1>1, <2>1 DEF IInv, DirtyCoversChanges, WillHold
  <1>3. TypeOK'
    BY <1>1 DEF IInv, TypeOK
  <1>4. KindsAgree' /\ RefsExact' /\ CopiesFenced' /\ PinnedStable'
    BY <1>1 DEF IInv, KindsAgree, RefsExact, InBatch, CopiesFenced, PinnedStable
  <1>5. DirtyCoversChanges'
    BY <1>1 DEF IInv, DirtyCoversChanges, WillHold
  <1>6. ExportOnItsWay'
    BY <1>1, <1>2, StagedFacts DEF ExportOnItsWay, Contents
  <1>7. QED  BY <1>3, <1>4, <1>5, <1>6 DEF IInv

LEMMA CopyDoneKeepsInv ==
  ASSUME IInv, NEW c \in copies, CopyDone(c)
  PROVE  IInv'
  <1>1. c = m_evPostFence /\ m_evPostFence # NoCopy /\ copies = {c} /\ c \in CopyType
    BY DEF IInv, CopiesFenced, TypeOK
  <1>2. /\ UNCHANGED <<m_Tensors, m_numTensors, m_dirtyBegin, m_dirtyEnd, attrs, pinned,
                       refCount, clientRefs, exported>>
        /\ copies' = {} /\ m_evPostFence' = NoCopy
        /\ dev' = [i \in Slots |-> IF i \in Span(c.begin, c.end) THEN pinned[i] ELSE dev[i]]
    BY <1>1 DEF CopyDone, dirty
  <1>3. \A i \in Slots : WillHold(i)' = WillHold(i)
    BY <1>1, <1>2 DEF WillHold, IInv, PinnedStable
  <1>4. TypeOK'
    BY <1>2 DEF IInv, TypeOK
  <1>5. KindsAgree' /\ RefsExact' /\ CopiesFenced' /\ PinnedStable'
    BY <1>2 DEF IInv, KindsAgree, RefsExact, InBatch, CopiesFenced, PinnedStable
  <1>6. DirtyCoversChanges'
    BY <1>2, <1>3, StagedFacts DEF IInv, DirtyCoversChanges
  <1>7. ExportOnItsWay'
    BY <1>2, <1>3 DEF IInv, ExportOnItsWay
  <1>8. QED  BY <1>4, <1>5, <1>6, <1>7 DEF IInv
-----------------------------------------------------------------------------
LEMMA InitEstablishesInv == Init => IInv
  <1> SUFFICES ASSUME Init PROVE IInv
    OBVIOUS
  <1>1. m_numTensors = 0 /\ Span(0, 0) = {} /\ DOMAIN exported.elems = {}
    BY DEF Init, Span
  <1>2. TypeOK
    BY <1>1, CapacityAssumption, BoundsAssumption DEF Init, TypeOK
  <1>3. KindsAgree /\ DirtyCoversChanges /\ CopiesFenced /\ PinnedStable /\ ExportOnItsWay
    BY <1>1 DEF Init, KindsAgree, DirtyCoversChanges, CopiesFenced, PinnedStable, ExportOnItsWay
  <1>4. RefsExact
    <2>1. \A t \in Tensors : InBatch(0, m_numTensors, t) = 0
      BY <1>1, FS_EmptySet DEF InBatch
    <2>2. QED  BY <2>1 DEF RefsExact, Init
  <1>5. QED  BY <1>2, <1>3, <1>4 DEF IInv

\* Every step of the batch, its client and the GPU preserves the invariant.
LEMMA NextKeepsInv == IInv /\ [Next]_vars => IInv'
  <1> SUFFICES ASSUME IInv, [Next]_vars PROVE IInv'
    OBVIOUS
  <1>1. CASE \E ts \in Args : pushTensors(ts)
    BY <1>1, PushKeepsInv
  <1>2. CASE \E ts \in Args : pushRejected(ts)
    BY <1>2, PushRejectedKeepsInv
  <1>3. CASE \E n \in 0 .. Capacity : popTensors(n)
    BY <1>3, PopKeepsInv
  <1>4. CASE \E index \in Slots, n \in 1 .. MaxArgs : getTensors(index, n)
    <2>1. PICK index \in Slots, n \in 1 .. MaxArgs : getTensors(index, n)
      BY <1>4
    <2>2. index \in Nat /\ n \in Nat
      BY CapacityAssumption, BoundsAssumption DEF Slots
    <2>3. QED  BY <2>1, <2>2, GetKeepsInv
  <1>5. CASE \E index \in 0 .. Capacity, ts \in Args : setTensors(index, ts)
    <2>1. PICK index \in 0 .. Capacity, ts \in Args : setTensors(index, ts)
      BY <1>5
    <2>2. index \in Nat
      BY CapacityAssumption
    <2>3. QED  BY <2>1, <2>2, SetKeepsInv
  <1>6. CASE clear
    BY <1>6, ClearKeepsInv
  <1>7. CASE \E s \in Streams : exportData(s)
    BY <1>7, ExportKeepsInv
  <1>8. CASE exportFails
    BY <1>8, ExportFailsKeepsInv
  <1>9. CASE \E s \in Streams : exportClean(s)
    BY <1>9, ExportCleanKeepsInv
  <1>10. CASE \E c \in copies : CopyDone(c)
    BY <1>10, CopyDoneKeepsInv
  <1>11. CASE \E t \in Tensors : ReleaseTensor(t)
    BY <1>11, ReleaseKeepsInv
  <1>12. CASE cleanUp
    BY <1>12, CleanUpKeepsInv
  <1>13. CASE UNCHANGED vars
    BY <1>13 DEF vars, IInv, TypeOK, KindsAgree, RefsExact, InBatch, CopiesFenced, PinnedStable,
                 DirtyCoversChanges, ExportOnItsWay, WillHold
  <1>14. QED
    BY <1>1, <1>2, <1>3, <1>4, <1>5, <1>6, <1>7, <1>8, <1>9, <1>10, <1>11, <1>12, <1>13 DEF Next

LEMMA InvAlways == Spec => []IInv
  <1>1. QED  BY InitEstablishesInv, NextKeepsInv, PTL DEF Spec

\* The batch is well typed, and the range exportData walks holds tensors only.
THEOREM BatchTyping == Spec => []TypeOK
  <1>1. IInv => TypeOK
    BY DEF IInv
  <1>2. QED  BY <1>1, InvAlways, PTL

\* No modified tensor is missed by the next export (TensorBatch.hpp 73-74).
THEOREM ChangesAreDirty == Spec => []DirtyCoversChanges
  <1>1. IInv => DirtyCoversChanges
    BY DEF IInv
  <1>2. QED  BY <1>1, InvAlways, PTL

\* The staging array is stable under the copies that read it.
THEOREM StagingIsStable == Spec => []PinnedStable
  <1>1. IInv => PinnedStable
    BY DEF IInv
  <1>2. QED  BY <1>1, InvAlways, PTL

\* Once its copy is done, an export has delivered the tensors it returned.
THEOREM ExportsAreDelivered == Spec => []ExportDelivered
  <1>1. IInv => ExportDelivered
    <2> SUFFICES ASSUME IInv, copies = {} PROVE \A i \in DOMAIN exported.elems : dev[i] = exported.elems[i]
      BY DEF ExportDelivered
    <2>1. m_evPostFence = NoCopy
      BY DEF IInv, CopiesFenced
    <2>2. QED  BY <2>1 DEF IInv, ExportOnItsWay, WillHold
  <1>2. QED  BY <1>1, InvAlways, PTL

\* The tensors of a batch have its rank, type and layout.
THEOREM TensorsAgree == Spec => []KindsAgree
  <1>1. IInv => KindsAgree
    BY DEF IInv
  <1>2. QED  BY <1>1, InvAlways, PTL

\* The batch holds one reference for each of its entries.
THEOREM ReferencesAreExact == Spec => []RefsExact
  <1>1. IInv => RefsExact
    BY DEF IInv
  <1>2. QED  BY <1>1, InvAlways, PTL
=============================================================================
