-------------------------- MODULE ObjectCacheProofs --------------------------
(***************************************************************************)
(* For any number of threads, objects, sizes and limits: the shared size   *)
(* is that of all threads' items and no more than the limit, unless one of *)
(* the two calls that make it wrong was made; the use_count of an object   *)
(* is exact, so that a fetched object is used by nothing else; and no      *)
(* thread waits for itself.                                                *)
(***************************************************************************)
EXTENDS ObjectCache, FiniteSetTheorems, WellFoundedInduction, NaturalsInduction, TLAPS

-----------------------------------------------------------------------------
(* The bytes of a set of items *)

\* One step of the sum: an element that CHOOSE picks, and the rest.
Body(f, s) == IF s = {} THEN 0 ELSE SizeOf[CHOOSE x \in s : TRUE] + f[s \ {CHOOSE x \in s : TRUE}]

\* Bytes is the recursive function on the subsets of its argument.
LEMMA BytesIs ==
  ASSUME NEW S
  PROVE  Bytes(S) = (CHOOSE f : f = [s \in SUBSET S |-> Body(f, s)])[S]
  BY DEF Bytes, MapThenSumSet, MapThenFoldSet, Body

\* The element that CHOOSE picks, and the cardinality of the rest.
LEMMA Picked ==
  ASSUME NEW s \in SUBSET Items, s # {}
  PROVE  /\ (CHOOSE x \in s : TRUE) \in s /\ (CHOOSE x \in s : TRUE) \in Items
         /\ s \ {CHOOSE x \in s : TRUE} \in SUBSET Items
         /\ Cardinality(s) \in Nat /\ Cardinality(s) > 0
         /\ \A y \in s : Cardinality(s \ {y}) = Cardinality(s) - 1
  <1>1. PICK y : y \in s
    OBVIOUS
  <1>2. (CHOOSE x \in s : TRUE) \in s
    BY <1>1
  <1>3. IsFiniteSet(s)
    BY FS_Subset, ItemsAssumption
  <1>4. Cardinality(s) \in Nat
    BY <1>3, FS_CardinalityType
  <1>5. \A z \in s : Cardinality(s \ {z}) = Cardinality(s) - 1
    BY <1>3, FS_RemoveElement
  <1>6. Cardinality(s) # 0
    BY <1>3, FS_EmptySet
  <1>7. QED  BY <1>2, <1>4, <1>5, <1>6

\* There is a function on all sets of items that obeys the recursion.
LEMMA SumExists ==
  \E G : \A s \in SUBSET Items : G[s] = Body(G, s)
  <1> DEFINE Good(f, k) == \A s \in SUBSET Items : Cardinality(s) <= k => f[s] = Body(f, s)
             Bad == {k \in Nat : ~ \E f : Good(f, k)}
  <1>0. \A s \in SUBSET Items : IsFiniteSet(s) /\ Cardinality(s) \in Nat /\ Cardinality(s) <= Cardinality(Items)
    BY FS_Subset, FS_CardinalityType, ItemsAssumption
  <1>1. Bad = {}
    <2> SUFFICES ASSUME Bad # {} PROVE FALSE
      OBVIOUS
    <2>1. PICK k \in Bad : \A j \in Bad : ~ (<<j, k>> \in OpToRel(<, Nat))
      BY WFMin, NatLessThanWellFounded
    <2>2. k \in Nat /\ \A j \in Nat : j < k => j \notin Bad
      BY <2>1 DEF OpToRel
    <2>3. CASE k = 0
      <3> DEFINE f == [s \in SUBSET Items |-> 0]
      <3>1. \A s \in SUBSET Items : Cardinality(s) <= 0 => s = {}
        BY <1>0, Picked
      <3>2. Good(f, 0)
        BY <3>1 DEF Body
      <3>3. QED  BY <2>2, <2>3, <3>2
    <2>4. CASE k # 0
      <3>1. k - 1 \in Nat /\ k - 1 < k
        BY <2>2, <2>4
      <3>2. PICK g : Good(g, k - 1)
        BY <2>2, <3>1
      <3> DEFINE f == [s \in SUBSET Items |-> Body(g, s)]
      <3>3. \A s \in SUBSET Items : f[s] = Body(g, s)
        OBVIOUS
      <3>4. \A s \in SUBSET Items : Cardinality(s) <= k - 1 => f[s] = g[s]
        BY <3>2, <3>3
      <3> HIDE DEF f, Good
      <3>5. ASSUME NEW s \in SUBSET Items, Cardinality(s) <= k PROVE f[s] = Body(f, s)
        <4>1. CASE s = {}
          BY <3>3, <4>1 DEF Body
        <4>2. CASE s # {}
          <5> DEFINE r == s \ {CHOOSE x \in s : TRUE}
          <5>1. r \in SUBSET Items /\ Cardinality(r) <= k - 1
            <6>1. r \in SUBSET Items /\ Cardinality(s) \in Nat /\ Cardinality(r) = Cardinality(s) - 1
              BY <4>2, Picked
            <6>2. QED  BY <2>2, <3>5, <6>1
          <5>2. f[r] = g[r]
            BY <3>4, <5>1
          <5>3. QED  BY <3>3, <5>2 DEF Body
        <4>3. QED  BY <4>1, <4>2
      <3>6. Good(f, k)
        BY <3>5 DEF Good
      <3>7. QED  BY <2>2, <3>6
    <2>5. QED  BY <2>3, <2>4
  <1>2. Cardinality(Items) \in Nat
    BY FS_CardinalityType, ItemsAssumption
  <1>3. PICK G : Good(G, Cardinality(Items))
    BY <1>1, <1>2
  <1>4. \A s \in SUBSET Items : G[s] = Body(G, s)
    BY <1>0, <1>3
  <1>5. QED  BY <1>4

\* Two functions that obey the recursion on the subsets of a set agree there.
LEMMA SumUnique ==
  ASSUME NEW S \in SUBSET Items, NEW f, NEW g,
         \A s \in SUBSET S : f[s] = Body(f, s),
         \A s \in SUBSET S : g[s] = Body(g, s)
  PROVE  \A s \in SUBSET S : f[s] = g[s]
  <1> DEFINE Bad == {k \in Nat : \E s \in SUBSET S : Cardinality(s) = k /\ f[s] # g[s]}
  <1>1. Bad = {}
    <2> SUFFICES ASSUME Bad # {} PROVE FALSE
      OBVIOUS
    <2>1. PICK k \in Bad : \A j \in Bad : ~ (<<j, k>> \in OpToRel(<, Nat))
      BY WFMin, NatLessThanWellFounded
    <2>2. k \in Nat /\ \A j \in Nat : j < k => j \notin Bad
      BY <2>1 DEF OpToRel
    <2>3. PICK s \in SUBSET S : Cardinality(s) = k /\ f[s] # g[s]
      BY <2>1
    <2>4. s # {}
      <3>1. f[s] = Body(f, s) /\ g[s] = Body(g, s)
        OBVIOUS
      <3>2. QED  BY <2>3, <3>1 DEF Body
    <2> DEFINE r == s \ {CHOOSE x \in s : TRUE}
    <2>5. r \in SUBSET S /\ Cardinality(r) \in Nat /\ Cardinality(r) < k
      <3>1. s \in SUBSET Items
        OBVIOUS
      <3>2. Cardinality(s) \in Nat /\ Cardinality(s) > 0 /\ Cardinality(r) = Cardinality(s) - 1
        BY <2>4, <3>1, Picked
      <3>3. QED  BY <2>3, <3>2
    <2>6. f[r] = g[r]
      BY <2>2, <2>5
    <2>7. f[s] = Body(f, s) /\ g[s] = Body(g, s)
      OBVIOUS
    <2>8. QED  BY <2>3, <2>4, <2>6, <2>7 DEF Body
  <1>2. \A s \in SUBSET S : Cardinality(s) \in Nat
    BY FS_Subset, FS_CardinalityType, ItemsAssumption
  <1>3. QED  BY <1>1, <1>2

\* Bytes obeys the recursion.
LEMMA BytesRecursion ==
  ASSUME NEW S \in SUBSET Items
  PROVE  /\ S = {} => Bytes(S) = 0
         /\ S # {} => Bytes(S) = SizeOf[CHOOSE x \in S : TRUE] + Bytes(S \ {CHOOSE x \in S : TRUE})
  <1>1. PICK G : \A s \in SUBSET Items : G[s] = Body(G, s)
    BY SumExists
  <1>2. ASSUME NEW T \in SUBSET Items PROVE Bytes(T) = G[T]
    <2> DEFINE F == CHOOSE f : f = [s \in SUBSET T |-> Body(f, s)]
               H == [s \in SUBSET T |-> G[s]]
    <2>1. \A s \in SUBSET T : H[s] = Body(H, s)
      <3>1. SUFFICES ASSUME NEW s \in SUBSET T PROVE H[s] = Body(H, s)
        OBVIOUS
      <3>2. H[s] = G[s] /\ G[s] = Body(G, s)
        BY <1>1
      <3>3. s \ {CHOOSE x \in s : TRUE} \in SUBSET T
        OBVIOUS
      <3>4. H[s \ {CHOOSE x \in s : TRUE}] = G[s \ {CHOOSE x \in s : TRUE}]
        BY <3>3
      <3> HIDE DEF H
      <3>5. QED  BY <3>2, <3>4 DEF Body
    <2>2. H = [s \in SUBSET T |-> Body(H, s)]
      BY <2>1
    <2>3. F = [s \in SUBSET T |-> Body(F, s)]
      <3> HIDE DEF H
      <3>1. QED  BY <2>2
    <2>4. Bytes(T) = F[T]
      BY BytesIs
    <2> HIDE DEF F, H
    <2>5. \A s \in SUBSET T : F[s] = Body(F, s)
      BY <2>3
    <2>6. \A s \in SUBSET T : G[s] = Body(G, s)
      BY <1>1
    <2>7. \A s \in SUBSET T : F[s] = G[s]
      BY <2>5, <2>6, SumUnique
    <2>8. QED  BY <2>4, <2>7
  <1>3. G[S] = Body(G, S)
    BY <1>1
  <1>4. S \ {CHOOSE x \in S : TRUE} \in SUBSET Items
    OBVIOUS
  <1>5. QED  BY <1>2, <1>3, <1>4 DEF Body

\* The bytes of a set of items are a natural number.
LEMMA BytesNat ==
  \A S \in SUBSET Items : Bytes(S) \in Nat
  <1> DEFINE Bad == {k \in Nat : \E s \in SUBSET Items : Cardinality(s) = k /\ Bytes(s) \notin Nat}
  <1>1. Bad = {}
    <2> SUFFICES ASSUME Bad # {} PROVE FALSE
      OBVIOUS
    <2>1. PICK k \in Bad : \A j \in Bad : ~ (<<j, k>> \in OpToRel(<, Nat))
      BY WFMin, NatLessThanWellFounded
    <2>2. k \in Nat /\ \A j \in Nat : j < k => j \notin Bad
      BY <2>1 DEF OpToRel
    <2>3. PICK s \in SUBSET Items : Cardinality(s) = k /\ Bytes(s) \notin Nat
      BY <2>1
    <2>4. s # {}
      <3>1. SUFFICES ASSUME s = {} PROVE FALSE
        OBVIOUS
      <3>2. Bytes(s) = 0
        BY <3>1, BytesRecursion
      <3>3. QED  BY <2>3, <3>2
    <2> DEFINE x == CHOOSE y \in s : TRUE
               r == s \ {x}
    <2>5. x \in Items /\ r \in SUBSET Items /\ Cardinality(r) \in Nat /\ Cardinality(r) < k
      <3>1. /\ x \in s /\ Cardinality(s) \in Nat /\ Cardinality(s) > 0
            /\ \A y \in s : Cardinality(s \ {y}) = Cardinality(s) - 1
        BY <2>4, Picked
      <3>2. Cardinality(r) = Cardinality(s) - 1
        BY <3>1
      <3>3. QED  BY <2>3, <3>1, <3>2
    <2>6. Bytes(r) \in Nat
      BY <2>2, <2>5
    <2>7. Bytes(s) = SizeOf[x] + Bytes(r)
      BY <2>4, BytesRecursion
    <2> HIDE DEF x, r
    <2>8. SizeOf[x] \in Nat
      BY <2>5, ItemsAssumption
    <2>9. QED  BY <2>3, <2>6, <2>7, <2>8
  <1>2. \A s \in SUBSET Items : Cardinality(s) \in Nat
    BY FS_Subset, FS_CardinalityType, ItemsAssumption
  <1>3. QED  BY <1>1, <1>2

\* Whichever item is taken out, its size is what the bytes shrink by.
LEMMA BytesRemove ==
  \A S \in SUBSET Items : \A y \in S : Bytes(S) = SizeOf[y] + Bytes(S \ {y})
  <1> DEFINE Fine(s) == \A y \in s : Bytes(s) = SizeOf[y] + Bytes(s \ {y})
             Bad == {k \in Nat : \E s \in SUBSET Items : Cardinality(s) = k /\ ~ Fine(s)}
  <1>1. Bad = {}
    <2> SUFFICES ASSUME Bad # {} PROVE FALSE
      OBVIOUS
    <2>1. PICK k \in Bad : \A j \in Bad : ~ (<<j, k>> \in OpToRel(<, Nat))
      BY WFMin, NatLessThanWellFounded
    <2>2. k \in Nat /\ \A j \in Nat : j < k => j \notin Bad
      BY <2>1 DEF OpToRel
    <2>3. PICK s \in SUBSET Items : Cardinality(s) = k /\ ~ Fine(s)
      BY <2>1
    <2>4. PICK y \in s : Bytes(s) # SizeOf[y] + Bytes(s \ {y})
      BY <2>3
    <2> DEFINE x == CHOOSE z \in s : TRUE
    <2>5. x \in s /\ Bytes(s) = SizeOf[x] + Bytes(s \ {x})
      BY <2>4, BytesRecursion
    <2> HIDE DEF x
    <2>6. x # y
      BY <2>4, <2>5
    <2>7. \A z \in s : Cardinality(s \ {z}) \in Nat /\ Cardinality(s \ {z}) < k
      <3>1. Cardinality(s) \in Nat /\ Cardinality(s) > 0 /\ \A z \in s : Cardinality(s \ {z}) = Cardinality(s) - 1
        BY <2>4, Picked
      <3>2. QED  BY <2>3, <3>1
    <2>8. Fine(s \ {x}) /\ Fine(s \ {y})
      <3> HIDE DEF Fine
      <3>1. s \ {x} \in SUBSET Items /\ s \ {y} \in SUBSET Items
        OBVIOUS
      <3>2. QED  BY <2>2, <2>5, <2>7, <3>1
    <2>9. Bytes(s \ {x}) = SizeOf[y] + Bytes((s \ {x}) \ {y}) /\ Bytes(s \ {y}) = SizeOf[x] + Bytes((s \ {y}) \ {x})
      BY <2>5, <2>6, <2>8
    <2>10. (s \ {x}) \ {y} = (s \ {y}) \ {x}
      OBVIOUS
    <2> DEFINE b == Bytes((s \ {x}) \ {y})
    <2>11. b \in Nat /\ SizeOf[x] \in Nat /\ SizeOf[y] \in Nat
      <3>1. (s \ {x}) \ {y} \in SUBSET Items
        OBVIOUS
      <3>2. QED  BY <2>5, <3>1, BytesNat, ItemsAssumption
    <2>12. Bytes(s) = SizeOf[x] + (SizeOf[y] + b) /\ Bytes(s \ {y}) = SizeOf[x] + b
      BY <2>5, <2>9, <2>10
    <2> HIDE DEF b
    <2>13. QED  BY <2>4, <2>11, <2>12
  <1>2. \A s \in SUBSET Items : Cardinality(s) \in Nat
    BY FS_Subset, FS_CardinalityType, ItemsAssumption
  <1>3. QED  BY <1>1, <1>2

\* Sets of items without a common item: their bytes add up.
LEMMA BytesUnion ==
  ASSUME NEW A \in SUBSET Items
  PROVE  \A B \in SUBSET Items : A \cap B = {} => Bytes(A \cup B) = Bytes(A) + Bytes(B)
  <1> DEFINE Fine(B) == A \cap B = {} => Bytes(A \cup B) = Bytes(A) + Bytes(B)
             Bad == {k \in Nat : \E s \in SUBSET Items : Cardinality(s) = k /\ ~ Fine(s)}
  <1>1. Bad = {}
    <2> SUFFICES ASSUME Bad # {} PROVE FALSE
      OBVIOUS
    <2>1. PICK k \in Bad : \A j \in Bad : ~ (<<j, k>> \in OpToRel(<, Nat))
      <3>1. Bad \subseteq Nat /\ Bad # {}
        OBVIOUS
      <3> HIDE DEF Bad
      <3>2. QED  BY <3>1, WFMin, NatLessThanWellFounded
    <2>2. k \in Nat /\ \A j \in Nat : j < k => j \notin Bad
      BY <2>1 DEF OpToRel
    <2>3. PICK s \in SUBSET Items : Cardinality(s) = k /\ ~ Fine(s)
      BY <2>1
    <2>4. A \cap s = {} /\ Bytes(A \cup s) # Bytes(A) + Bytes(s)
      BY <2>3
    <2>5. s # {}
      <3>1. SUFFICES ASSUME s = {} PROVE FALSE
        OBVIOUS
      <3>2. Bytes(s) = 0 /\ A \cup s = A
        BY <3>1, BytesRecursion
      <3>3. Bytes(A) \in Nat
        BY BytesNat
      <3>4. QED  BY <2>4, <3>2, <3>3
    <2>6. PICK y : y \in s
      BY <2>5
    <2> DEFINE r == s \ {y}
    <2>7. r \in SUBSET Items /\ Cardinality(r) \in Nat /\ Cardinality(r) < k
      <3>1. Cardinality(s) \in Nat /\ Cardinality(s) > 0 /\ Cardinality(r) = Cardinality(s) - 1
        BY <2>5, <2>6, Picked
      <3>2. QED  BY <2>3, <3>1
    <2>8. Fine(r)
      <3> HIDE DEF Fine, r
      <3>1. QED  BY <2>2, <2>7
    <2>9. A \cap r = {} /\ (A \cup s) \ {y} = A \cup r /\ y \in A \cup s /\ A \cup s \in SUBSET Items
      BY <2>4, <2>6
    <2>10. Bytes(A \cup r) = Bytes(A) + Bytes(r)
      BY <2>8, <2>9
    <2>11. Bytes(A \cup s) = SizeOf[y] + Bytes(A \cup r)
      BY <2>9, BytesRemove
    <2>12. Bytes(s) = SizeOf[y] + Bytes(r)
      BY <2>6, BytesRemove
    <2>13. Bytes(A) \in Nat /\ Bytes(r) \in Nat /\ SizeOf[y] \in Nat
      BY <2>6, <2>7, BytesNat, ItemsAssumption
    <2> HIDE DEF r
    <2>14. QED  BY <2>4, <2>10, <2>11, <2>12, <2>13
  <1>2. \A s \in SUBSET Items : Cardinality(s) \in Nat
    BY FS_Subset, FS_CardinalityType, ItemsAssumption
  <1>3. QED  BY <1>1, <1>2

\* What is taken out of a set of items, and what is left, add up.
LEMMA BytesDifference ==
  ASSUME NEW A \in SUBSET Items, NEW B \in SUBSET A
  PROVE  Bytes(A) = Bytes(A \ B) + Bytes(B) /\ Bytes(A \ B) \in Nat /\ Bytes(B) \in Nat
  <1>1. A \ B \in SUBSET Items /\ B \in SUBSET Items /\ (A \ B) \cap B = {} /\ (A \ B) \cup B = A
    OBVIOUS
  <1>2. QED  BY <1>1, BytesUnion, BytesNat

-----------------------------------------------------------------------------
(* The caches of all threads *)

\* What the caches of threads T hold, for any assignment of items to threads.
Union(f, T) == UNION {f[t] : t \in T}

\* The bytes of all caches, and what one cache has of them.
LEMMA UnionSplit ==
  ASSUME NEW f, f \in [Threads -> SUBSET Items], NEW T \in SUBSET Threads, NEW t \in T,
         \A u, v \in Threads : u # v => f[u] \cap f[v] = {}
  PROVE  /\ Union(f, T) = Union(f, T \ {t}) \cup f[t]
         /\ Union(f, T) \in SUBSET Items /\ Union(f, T \ {t}) \in SUBSET Items /\ f[t] \in SUBSET Items
         /\ Bytes(Union(f, T)) = Bytes(Union(f, T \ {t})) + Bytes(f[t])
         /\ Bytes(Union(f, T)) \in Nat /\ Bytes(Union(f, T \ {t})) \in Nat /\ Bytes(f[t]) \in Nat
  <1> DEFINE A == Union(f, T \ {t})
  <1>1. \A u \in T : f[u] \in SUBSET Items
    OBVIOUS
  <1>2. Union(f, T) = A \cup f[t]
    BY DEF Union
  <1>3. Union(f, T) \in SUBSET Items /\ A \in SUBSET Items /\ f[t] \in SUBSET Items
    BY <1>1 DEF Union
  <1>4. A \cap f[t] = {}
    <2>1. \A u \in T \ {t} : f[u] \cap f[t] = {}
      OBVIOUS
    <2>2. QED  BY <2>1 DEF Union
  <1> HIDE DEF A
  <1>5. Bytes(A \cup f[t]) = Bytes(A) + Bytes(f[t])
    BY <1>3, <1>4, BytesUnion
  <1>6. Bytes(A) \in Nat /\ Bytes(f[t]) \in Nat /\ Bytes(Union(f, T)) \in Nat
    BY <1>3, BytesNat
  <1>7. QED  BY <1>2, <1>3, <1>5, <1>6 DEF A

-----------------------------------------------------------------------------
(* Steps that leave the caches and the size as they are *)

\* The size and the limit are right as long as nothing touches them.
LEMMA SizesKept ==
  ASSUME IInv, UNCHANGED <<items, instances, sizes>>
  PROVE  SizeTracked' /\ LimitKept'
  BY DEF IInv, SizeTracked, LimitKept, Total, ItemsOf, sizes

\* What a step of one thread makes of the calls.
LEMMA Assigned ==
  ASSUME TypeOK, NEW t \in Threads, NEW c \in CallType, th' = [th EXCEPT ![t] = c]
  PROVE  th' \in [Threads -> CallType] /\ th'[t] = c /\ \A u \in Threads : u # t => th'[u] = th[u]
  BY DEF TypeOK

\* The calls a thread can be in, field by field.
LEMMA CallForms ==
  /\ \A op \in {"fetch", "remove", "add", "limit", "clearAll", "exit"}, key \in {KeyOf[i]: i \in Items} \cup {None},
        new \in Items \cup {None}, lim \in Limits \cup {0} :
        /\ Locks(op, key, new, lim) \in CallType
        /\ Locks(op, key, new, lim).pc = "lock" /\ Locks(op, key, new, lim).op = op
        /\ Locks(op, key, new, lim).key = key
        /\ Locks(op, key, new, lim).new = new /\ Locks(op, key, new, lim).limit = lim
  /\ \A new \in Items \cup {None} :
        /\ Dropping(new) \in CallType
        /\ Dropping(new).pc = "drop" /\ Dropping(new).new = new
  /\ Idle \in CallType /\ Idle.pc = "idle" /\ Idle.new = None
  <1>1. \A op \in {"fetch", "remove", "add", "limit", "clearAll", "exit"}, key \in {KeyOf[i]: i \in Items} \cup {None},
        new \in Items \cup {None}, lim \in Limits \cup {0} :
        /\ Locks(op, key, new, lim) \in CallType
        /\ Locks(op, key, new, lim).pc = "lock" /\ Locks(op, key, new, lim).op = op
        /\ Locks(op, key, new, lim).key = key
        /\ Locks(op, key, new, lim).new = new /\ Locks(op, key, new, lim).limit = lim
    BY DEF Locks, CallType
  <1>2. \A new \in Items \cup {None} :
        /\ Dropping(new) \in CallType
        /\ Dropping(new).pc = "drop" /\ Dropping(new).new = new
    BY DEF Dropping, Idle, CallType
  <1>3. Idle \in CallType /\ Idle.pc = "idle" /\ Idle.new = None
    BY DEF Idle, CallType
  <1>4. QED  BY <1>1, <1>2, <1>3

\* Python code calls the cache, and may let an object go.
LEMMA CallStep ==
  ASSUME IInv, NEW t \in Threads, NEW c \in CallType, Calls(t, c), items' = items,
         c.pc \in {"lock", "drop"},
         c.pc = "lock" => c.op \in {"fetch", "remove", "limit", "clearAll"},
         c.pc = "lock" /\ c.op = "fetch" => c.new # None,
         c.pc = "lock" /\ c.op = "limit" => c.limit \in Limits,
         c.new # None => c.new \notin live /\ \A u \in Threads : th[u].new # c.new,
         held' \in [Threads -> SUBSET live], doomed' \in [Threads -> SUBSET live],
         \A v \in Threads : held'[v] \cup doomed'[v] \subseteq held[v] \cup doomed[v]
  PROVE  IInv'
  <1>1. /\ gil = None /\ th[t] = Idle /\ gil' = t /\ th' = [th EXCEPT ![t] = c]
        /\ mtx' = mtx /\ instances' = instances /\ live' = live /\ UNCHANGED sizes
        /\ limit' = limit /\ current' = current /\ drifted' = drifted
    BY DEF Calls, sizes
  <1>2. TypeOK /\ MutexInside /\ UnderGIL /\ Arguments /\ NewUnowned /\ OneCache /\ Exited
    BY DEF IInv
  <1>3. th' \in [Threads -> CallType] /\ th'[t] = c /\ \A u \in Threads : u # t => th'[u] = th[u]
    BY <1>1, <1>2, Assigned
  <1>4. th[t].pc = "idle" /\ th[t].new = None
    BY <1>1, CallForms
  <1>5. TypeOK'
    BY <1>1, <1>2, <1>3 DEF TypeOK
  <1>6. MutexInside'
    BY <1>1, <1>2, <1>3, <1>4 DEF MutexInside
  <1>7. UnderGIL'
    <2>1. \A u \in Threads : u # t => ~ (Calling(u) /\ th[u].op # "exit")
      BY <1>1, <1>2, ItemsAssumption DEF UnderGIL
    <2>2. QED  BY <1>1, <1>3, <2>1 DEF UnderGIL, Calling
  <1>8. Arguments'
    BY <1>1, <1>2, <1>3 DEF Arguments, Calling
  <1>9. NewUnowned'
    <2>1. ASSUME NEW u \in Threads, th'[u].new # None, NEW v \in Threads
          PROVE  th'[u].new \notin items'[v] \cup held'[v] \cup doomed'[v] /\ (v # u => th'[v].new # th'[u].new)
      <3>1. CASE u = t
        BY <1>1, <1>2, <1>3, <2>1, <3>1 DEF TypeOK
      <3>2. CASE u # t
        <4>1. th[u].new # None /\ th'[u] = th[u]
          BY <1>3, <2>1, <3>2
        <4>2. th[u].new \notin items[v] \cup held[v] \cup doomed[v] /\ (v # u => th[v].new # th[u].new)
          BY <1>2, <4>1 DEF NewUnowned
        <4>3. v = t => th'[v].new # th'[u].new
          BY <1>3, <2>1, <4>1
        <4>4. QED  BY <1>3, <4>1, <4>2, <4>3
      <3>3. QED  BY <3>1, <3>2
    <2>2. QED  BY <2>1 DEF NewUnowned
  <1>10. OneCache' /\ Exited'
    BY <1>1, <1>2, <1>3, <1>4 DEF OneCache, Exited
  <1>11. QED  BY <1>1, <1>5, <1>6, <1>7, <1>8, <1>9, <1>10, SizesKept DEF IInv

\* Python code makes an object, sets the limit, clears all caches or lets an
\* object go.
LEMMA PythonCallStep ==
  ASSUME IInv, NEW t \in Threads, Create(t) \/ SetLimit(t) \/ CallClearAll(t) \/ Forget(t)
  PROVE  IInv'
  <1>1. /\ held \in [Threads -> SUBSET live] /\ doomed \in [Threads -> SUBSET live] /\ held[t] \in SUBSET live
        /\ Limits \subseteq Nat /\ live \subseteq Items
    BY LimitsAssumption DEF IInv, TypeOK
  <1>2. CASE Create(t)
    <2>1. PICK i \in Items \ (live \cup {th[u].new : u \in Threads}) :
            Calls(t, Locks(IF i \in Wrappers THEN "remove" ELSE "fetch", KeyOf[i], i, 0))
      BY <1>2 DEF Create
    <2> DEFINE c == Locks(IF i \in Wrappers THEN "remove" ELSE "fetch", KeyOf[i], i, 0)
    <2>2. items' = items /\ held' = held /\ doomed' = doomed
      BY <1>2 DEF Create
    <2>3. i \in Items /\ i # None /\ i \notin live /\ \A u \in Threads : th[u].new # i
      BY ItemsAssumption
    <2>4. c \in CallType /\ c.pc = "lock" /\ c.op \in {"remove", "fetch"} /\ c.new = i
      BY <2>3, CallForms
    <2>5. Calls(t, c)
      BY <2>1
    <2> HIDE DEF c
    <2>6. QED  BY <1>1, <2>2, <2>3, <2>4, <2>5, CallStep
  <1>3. CASE SetLimit(t)
    <2>1. PICK n \in Limits : Calls(t, Locks("limit", None, None, n))
      BY <1>3 DEF SetLimit
    <2> DEFINE c == Locks("limit", None, None, n)
    <2>2. items' = items /\ held' = held /\ doomed' = doomed
      BY <1>3 DEF SetLimit
    <2>3. c \in CallType /\ c.pc = "lock" /\ c.op = "limit" /\ c.new = None /\ c.limit = n
      BY CallForms
    <2>4. Calls(t, c)
      BY <2>1
    <2> HIDE DEF c
    <2>5. QED  BY <1>1, <2>2, <2>3, <2>4, CallStep
  <1>4. CASE CallClearAll(t)
    <2> DEFINE c == Locks("clearAll", None, None, 0)
    <2>1. Calls(t, c) /\ items' = items /\ held' = held /\ doomed' = doomed
      BY <1>4 DEF CallClearAll
    <2>2. c \in CallType /\ c.pc = "lock" /\ c.op = "clearAll" /\ c.new = None
      BY CallForms
    <2> HIDE DEF c
    <2>3. QED  BY <1>1, <2>1, <2>2, CallStep
  <1>5. CASE Forget(t)
    <2> DEFINE c == Dropping(None)
    <2>1. PICK i \in held[t] : /\ held' = [held EXCEPT ![t] = @ \ {i}]
                               /\ doomed' = [doomed EXCEPT ![t] = {i} \ UNION {held[u] : u \in Threads \ {t}}]
      BY <1>5 DEF Forget
    <2>2. Calls(t, c) /\ items' = items
      BY <1>5 DEF Forget
    <2>3. c \in CallType /\ c.pc = "drop" /\ c.new = None
      BY CallForms
    <2> HIDE DEF c
    <2>4. /\ held' \in [Threads -> SUBSET live] /\ doomed' \in [Threads -> SUBSET live]
          /\ \A v \in Threads : held'[v] \cup doomed'[v] \subseteq held[v] \cup doomed[v]
      <3> DEFINE D == {i} \ UNION {held[u] : u \in Threads \ {t}}
      <3>1. D \subseteq {i} /\ doomed' = [doomed EXCEPT ![t] = D]
        BY <2>1
      <3> HIDE DEF D
      <3>2. QED  BY <1>1, <2>1, <3>1
    <2>5. QED  BY <2>2, <2>3, <2>4, CallStep
  <1>6. QED  BY <1>2, <1>3, <1>4, <1>5

\* Only what Python code holds changes: an object is passed on, or fetched.
LEMMA ShareStep ==
  ASSUME IInv, NEW t \in Threads, NEW u \in Threads, Share(t, u)
  PROVE  IInv'
  <1>1. TypeOK /\ MutexInside /\ UnderGIL /\ Arguments /\ NewUnowned /\ OneCache /\ Exited
    BY DEF IInv
  <1>2. /\ gil' = gil /\ mtx' = mtx /\ th' = th /\ items' = items /\ instances' = instances /\ UNCHANGED sizes
        /\ limit' = limit /\ current' = current /\ drifted' = drifted /\ live' = live /\ doomed' = doomed
    BY DEF Share, locks, sizes
  <1>3. PICK i \in held[t] : held' = [held EXCEPT ![u] = @ \cup {i}]
    BY DEF Share
  <1>4. i \in live /\ held \in [Threads -> SUBSET live]
    BY <1>1 DEF TypeOK
  <1>5. TypeOK'
    BY <1>1, <1>2, <1>3, <1>4 DEF TypeOK
  <1>6. MutexInside' /\ UnderGIL' /\ Arguments' /\ OneCache' /\ Exited'
    BY <1>1, <1>2 DEF MutexInside, UnderGIL, Arguments, Calling, OneCache, Exited
  <1>7. NewUnowned'
    <2>1. \A v \in Threads : \A j \in held'[v] : j \in held[v] \/ j \in held[t]
      BY <1>3, <1>4
    <2>2. QED  BY <1>1, <1>2, <2>1 DEF NewUnowned
  <1>8. QED  BY <1>2, <1>5, <1>6, <1>7, SizesKept DEF IInv

\* A thread takes the mutex.
LEMMA LockStep ==
  ASSUME IInv, NEW t \in Threads, Lock(t)
  PROVE  IInv'
  <1>1. TypeOK /\ MutexInside /\ UnderGIL /\ Arguments /\ NewUnowned /\ OneCache /\ Exited
    BY DEF IInv
  <1>2. /\ gil' = gil /\ mtx = None /\ mtx' = t /\ items' = items /\ instances' = instances /\ UNCHANGED sizes
        /\ limit' = limit /\ current' = current /\ drifted' = drifted
        /\ live' = live /\ held' = held /\ doomed' = doomed
        /\ th[t].pc = "lock" /\ (gil = t \/ th[t].op = "exit") /\ th' = [th EXCEPT ![t].pc = "locked"]
    BY DEF Lock, sizes
  <1>3. /\ th' \in [Threads -> CallType] /\ \A u \in Threads : u # t => th'[u] = th[u]
        /\ th'[t].pc = "locked" /\ th'[t].op = th[t].op /\ th'[t].key = th[t].key
        /\ th'[t].new = th[t].new /\ th'[t].limit = th[t].limit
    BY <1>1, <1>2 DEF TypeOK, CallType
  <1>4. TypeOK'
    BY <1>1, <1>2, <1>3 DEF TypeOK
  <1>5. MutexInside'
    BY <1>1, <1>2, <1>3, ItemsAssumption DEF MutexInside
  <1>6. UnderGIL' /\ Arguments'
    BY <1>1, <1>2, <1>3 DEF UnderGIL, Arguments, Calling
  <1>7. OneCache' /\ Exited'
    BY <1>1, <1>2, <1>3 DEF OneCache, Exited
  <1>8. NewUnowned'
    <2>1. \A u \in Threads : th'[u].new = th[u].new
      BY <1>3
    <2>2. QED  BY <1>1, <1>2, <2>1 DEF NewUnowned
  <1>9. QED  BY <1>2, <1>4, <1>5, <1>6, <1>7, <1>8, SizesKept DEF IInv

-----------------------------------------------------------------------------
(* The sections under the mutex *)

\* A section ends: what threads refer to are items they referred to before, or
\* the new one if the call is done with it.
Leaves(t, n) ==
    /\ n = None \/ n = th[t].new
    /\ th[t].pc = "locked" /\ mtx' = None /\ gil' = gil /\ live' = live /\ th' = [th EXCEPT ![t] = Dropping(n)]
    /\ items' \in [Threads -> SUBSET live] /\ held' \in [Threads -> SUBSET live] /\ doomed' \in [Threads -> SUBSET live]
    /\ \A v \in Threads : \A j \in items'[v] \cup held'[v] \cup doomed'[v] :
            (\E w \in Threads : j \in items[w] \cup held[w] \cup doomed[w]) \/ (n = None /\ j = th[t].new)
    /\ OneCache' /\ instances' \subseteq instances
    /\ \A u \in Threads : u \notin instances' => items'[u] = {} /\ (u = t \/ u \notin instances)
    /\ t \notin instances' => n = None
    /\ limit' \in Limits /\ current' \in Int /\ drifted' \in BOOLEAN
    /\ SizeTracked' /\ LimitKept'

\* The end of a section keeps the invariant.
LEMMA LeaveStep ==
  ASSUME IInv, NEW t \in Threads, NEW n, Leaves(t, n)
  PROVE  IInv'
  <1>0. /\ n = None \/ n = th[t].new
        /\ th[t].pc = "locked" /\ mtx' = None /\ gil' = gil /\ live' = live /\ th' = [th EXCEPT ![t] = Dropping(n)]
        /\ items' \in [Threads -> SUBSET live] /\ held' \in [Threads -> SUBSET live] /\ doomed' \in [Threads -> SUBSET live]
        /\ \A v \in Threads : \A j \in items'[v] \cup held'[v] \cup doomed'[v] :
                (\E w \in Threads : j \in items[w] \cup held[w] \cup doomed[w]) \/ (n = None /\ j = th[t].new)
        /\ OneCache' /\ instances' \subseteq instances
        /\ \A u \in Threads : u \notin instances' => items'[u] = {} /\ (u = t \/ u \notin instances)
        /\ t \notin instances' => n = None
        /\ limit' \in Limits /\ current' \in Int /\ drifted' \in BOOLEAN
        /\ SizeTracked' /\ LimitKept'
    BY DEF Leaves
  <1>1. TypeOK /\ MutexInside /\ UnderGIL /\ Arguments /\ NewUnowned /\ OneCache /\ Exited
    BY DEF IInv
  <1>2. n \in Items \cup {None}
    BY <1>0, <1>1 DEF TypeOK, CallType
  <1>3. Dropping(n) \in CallType /\ Dropping(n).pc = "drop" /\ Dropping(n).new = n
    BY <1>2, CallForms
  <1>4. th' \in [Threads -> CallType] /\ th'[t] = Dropping(n) /\ \A u \in Threads : u # t => th'[u] = th[u]
    BY <1>0, <1>1, <1>3, Assigned
  <1>5. th'[t].pc = "drop" /\ th'[t].new = n
    BY <1>3, <1>4
  <1>6. TypeOK'
    BY <1>0, <1>1, <1>4 DEF TypeOK
  <1>7. MutexInside'
    <2>1. mtx = t
      BY <1>0, <1>1 DEF MutexInside
    <2>2. QED  BY <1>0, <1>1, <1>4, <1>5, <2>1, ItemsAssumption DEF MutexInside
  <1>8. UnderGIL' /\ Arguments'
    BY <1>0, <1>1, <1>4, <1>5 DEF UnderGIL, Arguments, Calling
  <1>9. Exited'
    BY <1>0, <1>1, <1>4, <1>5 DEF Exited
  <1>10. NewUnowned'
    <2>1. ASSUME NEW u \in Threads, th'[u].new # None, NEW v \in Threads
          PROVE  th'[u].new \notin items'[v] \cup held'[v] \cup doomed'[v] /\ (v # u => th'[v].new # th'[u].new)
      <3>1. /\ th[u].new # None /\ th'[u].new = th[u].new
            /\ \A w \in Threads : th'[w].new = th[w].new \/ (w = t /\ n = None /\ th'[w].new = None)
        BY <1>0, <1>4, <1>5, <2>1
      <3>2. /\ \A w \in Threads : th[u].new \notin items[w] \cup held[w] \cup doomed[w]
            /\ \A w \in Threads : w # u => th[w].new # th[u].new
        BY <1>1, <3>1 DEF NewUnowned
      <3>3. ~ (n = None /\ th[u].new = th[t].new)
        BY <1>5, <2>1, <3>2
      <3>4. th'[u].new \notin items'[v] \cup held'[v] \cup doomed'[v]
        BY <1>0, <3>1, <3>2, <3>3
      <3>5. QED  BY <2>1, <3>1, <3>2, <3>4
    <2>2. QED  BY <2>1 DEF NewUnowned
  <1>11. QED  BY <1>0, <1>6, <1>7, <1>8, <1>9, <1>10 DEF IInv

\* The types of references, and the caches of all threads, as the sections
\* find them.
LEMMA Caches ==
  ASSUME IInv
  PROVE  /\ items \in [Threads -> SUBSET Items]
         /\ items \in [Threads -> SUBSET live] /\ held \in [Threads -> SUBSET live] /\ doomed \in [Threads -> SUBSET live]
         /\ \A u, v \in Threads : u # v => items[u] \cap items[v] = {}
         /\ \A t \in Threads : t \notin instances => items[t] = {}
         /\ live \subseteq Items /\ instances \in SUBSET Threads
         /\ limit \in Limits /\ limit \in Nat /\ current \in Int /\ drifted \in BOOLEAN
         /\ Total = Bytes(Union(items, instances)) /\ Total \in Nat
         /\ ~ drifted => current = Total /\ Total <= limit
  <1>1. /\ items \in [Threads -> SUBSET live] /\ held \in [Threads -> SUBSET live] /\ doomed \in [Threads -> SUBSET live]
        /\ live \subseteq Items /\ instances \in SUBSET Threads
        /\ limit \in Limits /\ current \in Int /\ drifted \in BOOLEAN
    BY DEF IInv, TypeOK
  <1>2. items \in [Threads -> SUBSET Items] /\ limit \in Nat
    BY <1>1, LimitsAssumption
  <1>3. Total = Bytes(Union(items, instances))
    BY DEF Total, ItemsOf, Union
  <1>4. Total \in Nat
    <2>1. Union(items, instances) \in SUBSET Items
      BY <1>1, <1>2 DEF Union
    <2>2. QED  BY <1>3, <2>1, BytesNat
  <1>5. QED  BY <1>1, <1>2, <1>3, <1>4 DEF IInv, OneCache, Exited, SizeTracked, LimitKept

\* The references of a call as they are: the case that most sections are in.
LEMMA fetchStep ==
  ASSUME IInv, NEW t \in Threads, fetch(t)
  PROVE  IInv'
  <1> DEFINE found == Unused(t, th[t].key)
  <1>1. /\ th[t].pc = "locked" /\ th[t].op = "fetch" /\ mtx' = None
        /\ gil' = gil /\ items' = items /\ instances' = instances /\ UNCHANGED sizes
        /\ limit' = limit /\ current' = current /\ drifted' = drifted /\ live' = live /\ doomed' = doomed
    BY DEF fetch, Locked, sizes
  <1>2. SizeTracked' /\ LimitKept'
    BY <1>1, SizesKept
  <1>3. OneCache' /\ \A u \in Threads : u \notin instances' => items'[u] = {} /\ (u = t \/ u \notin instances)
    BY <1>1 DEF IInv, OneCache, Exited
  <1>4. t \in instances
    BY <1>1 DEF IInv, Exited
  <1>5. \/ \E i \in found : held' = [held EXCEPT ![t] = @ \cup {i}] /\ th' = [th EXCEPT ![t] = Dropping(None)]
        \/ th' = [th EXCEPT ![t] = Dropping(th[t].new)] /\ held' = held
    BY DEF fetch, IInv, TypeOK
  <1>6. found \subseteq items[t]
    BY DEF Unused
  <1> HIDE DEF found
  <1>7. CASE \E i \in found : held' = [held EXCEPT ![t] = @ \cup {i}] /\ th' = [th EXCEPT ![t] = Dropping(None)]
    <2>1. PICK i \in found : held' = [held EXCEPT ![t] = @ \cup {i}] /\ th' = [th EXCEPT ![t] = Dropping(None)]
      BY <1>7
    <2>2. held' \in [Threads -> SUBSET live] /\ \A v \in Threads : \A j \in held'[v] : j \in held[v] \/ j \in items[t]
      BY <1>6, <2>1, Caches
    <2>3. \A v \in Threads : \A j \in items'[v] \cup held'[v] \cup doomed'[v] :
            \E w \in Threads : j \in items[w] \cup held[w] \cup doomed[w]
      BY <1>1, <2>2
    <2> DEFINE n == None
    <2>4. th' = [th EXCEPT ![t] = Dropping(n)] /\ (n = None \/ n = th[t].new) /\ (t \notin instances' => n = None)
      BY <2>1
    <2>5. \A v \in Threads : \A j \in items'[v] \cup held'[v] \cup doomed'[v] :
            (\E w \in Threads : j \in items[w] \cup held[w] \cup doomed[w]) \/ (n = None /\ j = th[t].new)
      BY <2>3
    <2>6. /\ items' \in [Threads -> SUBSET live] /\ doomed' \in [Threads -> SUBSET live] /\ instances' \subseteq instances
          /\ limit' \in Limits /\ current' \in Int /\ drifted' \in BOOLEAN
      BY <1>1, Caches
    <2> HIDE DEF n
    <2>7. Leaves(t, n)
      BY <1>1, <1>2, <1>3, <2>2, <2>4, <2>5, <2>6 DEF Leaves
    <2>8. QED  BY <2>7, LeaveStep
  <1>8. CASE th' = [th EXCEPT ![t] = Dropping(th[t].new)] /\ held' = held
    <2>1. \A v \in Threads : \A j \in items'[v] \cup held'[v] \cup doomed'[v] :
            \E w \in Threads : j \in items[w] \cup held[w] \cup doomed[w]
      BY <1>1, <1>8
    <2>2. Leaves(t, th[t].new)
      BY <1>1, <1>2, <1>3, <1>4, <1>8, <2>1, Caches DEF Leaves
    <2>3. QED  BY <2>2, LeaveStep
  <1>9. QED  BY <1>5, <1>7, <1>8

\* The bytes in the caches of the other threads.
Others(t) == Bytes(Union(items, instances \ {t}))

\* The cache of one thread changes: what this does to the bytes of all.
LEMMA CacheChange ==
  ASSUME IInv, NEW t \in instances, NEW S \in SUBSET Items, \A u \in Threads : u # t => items[u] \cap S = {},
         items' = [items EXCEPT ![t] = S], instances' = instances
  PROVE  /\ OneCache'
         /\ \A u \in Threads : u \notin instances' => items'[u] = {} /\ (u = t \/ u \notin instances)
         /\ Total = Others(t) + Bytes(items[t]) /\ Total' = Others(t) + Bytes(S)
         /\ Others(t) \in Nat /\ Bytes(items[t]) \in Nat /\ Bytes(S) \in Nat
  <1>1. /\ items \in [Threads -> SUBSET Items] /\ instances \in SUBSET Threads
        /\ \A u, v \in Threads : u # v => items[u] \cap items[v] = {}
        /\ \A u \in Threads : u \notin instances => items[u] = {}
        /\ Total = Bytes(Union(items, instances))
    BY Caches
  <1>2. /\ Bytes(Union(items, instances)) = Others(t) + Bytes(items[t])
        /\ Others(t) \in Nat /\ Bytes(items[t]) \in Nat
    BY <1>1, UnionSplit DEF Others
  <1>3. /\ \A u, v \in Threads : u # v => items'[u] \cap items'[v] = {}
        /\ Bytes(Union(items', instances)) = Others(t) + Bytes(S) /\ Bytes(S) \in Nat
    <2>1. PICK g : g = items'
      OBVIOUS
    <2>2. g \in [Threads -> SUBSET Items] /\ g[t] = S /\ \A u \in Threads : u # t => g[u] = items[u]
      BY <1>1, <2>1
    <2>3. \A u, v \in Threads : u # v => g[u] \cap g[v] = {}
      BY <1>1, <2>2
    <2>4. Union(g, instances \ {t}) = Union(items, instances \ {t})
      <3>1. \A u \in instances \ {t} : g[u] = items[u]
        BY <1>1, <2>2
      <3>2. QED  BY <3>1 DEF Union
    <2>5. Bytes(Union(g, instances)) = Bytes(Union(g, instances \ {t})) + Bytes(g[t]) /\ Bytes(g[t]) \in Nat
      BY <1>1, <2>2, <2>3, UnionSplit
    <2>6. QED  BY <2>1, <2>2, <2>3, <2>4, <2>5 DEF Others
  <1>4. Total' = Bytes(Union(items', instances))
    BY DEF Total, ItemsOf, Union
  <1>5. \A u \in Threads : u # t => items'[u] = items[u]
    BY <1>1
  <1>6. QED  BY <1>1, <1>2, <1>3, <1>4, <1>5 DEF OneCache

\* The wrappers of a key that nothing refers to are let go.
LEMMA removeStep ==
  ASSUME IInv, NEW t \in Threads, removeAllNotInUseMatching(t)
  PROVE  IInv'
  <1> DEFINE removed == Unused(t, th[t].key)
             S == items[t] \ removed
             n == th[t].new
  <1>1. /\ th[t].pc = "locked" /\ mtx' = None /\ gil' = gil /\ instances' = instances
        /\ limit' = limit /\ drifted' = drifted /\ live' = live /\ held' = held
        /\ items' = [items EXCEPT ![t] = S] /\ doomed' = [doomed EXCEPT ![t] = @ \cup removed]
        /\ current' = current - Bytes(removed) /\ th' = [th EXCEPT ![t] = Dropping(n)]
    BY Caches DEF removeAllNotInUseMatching, Locked, IInv, TypeOK
  <1>2. t \in instances
    BY <1>1 DEF IInv, Exited
  <1>3. removed \subseteq items[t]
    BY DEF Unused
  <1> HIDE DEF removed
  <1>4. items[t] \in SUBSET Items /\ removed \in SUBSET items[t]
    BY <1>3, Caches
  <1>5. Bytes(items[t]) = Bytes(S) + Bytes(removed) /\ Bytes(S) \in Nat /\ Bytes(removed) \in Nat
    BY <1>4, BytesDifference
  <1>6. S \in SUBSET Items /\ \A u \in Threads : u # t => items[u] \cap S = {}
    BY <1>4, Caches
  <1> HIDE DEF S
  <1>7. /\ OneCache' /\ \A u \in Threads : u \notin instances' => items'[u] = {} /\ (u = t \/ u \notin instances)
        /\ Total = Others(t) + Bytes(items[t]) /\ Total' = Others(t) + Bytes(S) /\ Others(t) \in Nat
    BY <1>1, <1>2, <1>6, CacheChange
  <1>8. Total' = Total - Bytes(removed) /\ Total \in Nat
    BY <1>5, <1>7
  <1>9. SizeTracked' /\ LimitKept'
    <2>1. ~ drifted => current = Total /\ Total <= limit /\ limit \in Nat
      BY Caches
    <2>2. QED  BY <1>1, <1>5, <1>8, <2>1 DEF SizeTracked, LimitKept
  <1>10. /\ items' \in [Threads -> SUBSET live] /\ held' \in [Threads -> SUBSET live]
         /\ doomed' \in [Threads -> SUBSET live]
         /\ \A v \in Threads : items'[v] \subseteq items[v] /\ held'[v] = held[v] /\ doomed'[v] \subseteq doomed[v] \cup items[v]
    BY <1>1, <1>4, Caches DEF S
  <1>11. \A v \in Threads : \A j \in items'[v] \cup held'[v] \cup doomed'[v] :
            (\E w \in Threads : j \in items[w] \cup held[w] \cup doomed[w]) \/ (n = None /\ j = th[t].new)
    BY <1>10
  <1>12. /\ instances' \subseteq instances /\ limit' \in Limits /\ current' \in Int /\ drifted' \in BOOLEAN
         /\ (n = None \/ n = th[t].new) /\ (t \notin instances' => n = None)
    BY <1>1, <1>2, <1>5, Caches
  <1>13. th[t].pc = "locked" /\ mtx' = None /\ gil' = gil /\ live' = live /\ th' = [th EXCEPT ![t] = Dropping(n)]
    BY <1>1
  <1> HIDE DEF n
  <1>14. Leaves(t, n)
    BY <1>7, <1>9, <1>10, <1>11, <1>12, <1>13 DEF Leaves
  <1>15. QED  BY <1>14, LeaveStep

\* The cache of a thread that ends is destroyed.
LEMMA CacheDtorStep ==
  ASSUME IInv, NEW t \in Threads, CacheDtor(t)
  PROVE  IInv'
  <1> DEFINE n == th[t].new
  <1>1. /\ th[t].pc = "locked" /\ th[t].op = "exit" /\ mtx' = None /\ gil' = gil /\ instances' = instances \ {t}
        /\ limit' = limit /\ drifted' = drifted /\ live' = live /\ held' = held
        /\ items' = [items EXCEPT ![t] = {}] /\ doomed' = [doomed EXCEPT ![t] = items[t]]
        /\ current' = current - Bytes(items[t]) /\ th' = [th EXCEPT ![t] = Dropping(n)]
    BY DEF CacheDtor, Locked, IInv, TypeOK
  <1>2. t \in instances /\ n = None
    BY <1>1 DEF IInv, Exited, Arguments, Calling
  <1>3. /\ items \in [Threads -> SUBSET Items] /\ instances \in SUBSET Threads
        /\ \A u, v \in Threads : u # v => items[u] \cap items[v] = {}
        /\ Total = Bytes(Union(items, instances))
    BY Caches
  <1>4. /\ Total = Others(t) + Bytes(items[t]) /\ Others(t) \in Nat /\ Bytes(items[t]) \in Nat
    BY <1>2, <1>3, UnionSplit DEF Others
  <1>5. \A u \in Threads : items'[u] = IF u = t THEN {} ELSE items[u]
    BY <1>1, <1>3
  <1>6. Total' = Others(t)
    <2>1. Union(items', instances') = Union(items, instances \ {t})
      <3>1. \A u \in instances \ {t} : items'[u] = items[u]
        BY <1>3, <1>5
      <3>2. QED  BY <1>1, <3>1 DEF Union
    <2>2. Total' = Bytes(Union(items', instances'))
      BY DEF Total, ItemsOf, Union
    <2>3. QED  BY <2>1, <2>2 DEF Others
  <1>7. SizeTracked' /\ LimitKept'
    <2>1. /\ ~ drifted => current = Total /\ Total <= limit
          /\ limit \in Nat
      BY Caches
    <2>2. QED  BY <1>1, <1>4, <1>6, <2>1 DEF SizeTracked, LimitKept
  <1>8. OneCache' /\ \A u \in Threads : u \notin instances' => items'[u] = {} /\ (u = t \/ u \notin instances)
    BY <1>1, <1>3, <1>5, Caches DEF OneCache
  <1>9. /\ items' \in [Threads -> SUBSET live] /\ held' \in [Threads -> SUBSET live]
        /\ doomed' \in [Threads -> SUBSET live]
        /\ \A v \in Threads : items'[v] \subseteq items[v] /\ held'[v] = held[v] /\ doomed'[v] \subseteq doomed[v] \cup items[v]
    BY <1>1, Caches
  <1>10. \A v \in Threads : \A j \in items'[v] \cup held'[v] \cup doomed'[v] :
            (\E w \in Threads : j \in items[w] \cup held[w] \cup doomed[w]) \/ (n = None /\ j = th[t].new)
    BY <1>9
  <1>11. /\ instances' \subseteq instances /\ limit' \in Limits /\ current' \in Int /\ drifted' \in BOOLEAN
    BY <1>1, <1>4, Caches
  <1> HIDE DEF n
  <1>12. Leaves(t, n)
    BY <1>1, <1>2, <1>7, <1>8, <1>9, <1>10, <1>11 DEF Leaves
  <1>13. QED  BY <1>12, LeaveStep

\* The bytes of one item.
LEMMA BytesOfOne ==
  Bytes({}) = 0 /\ \A i \in Items : Bytes({i}) = SizeOf[i] /\ SizeOf[i] \in Nat
  <1>1. Bytes({}) = 0
    BY BytesRecursion
  <1>2. ASSUME NEW i \in Items PROVE Bytes({i}) = SizeOf[i] /\ SizeOf[i] \in Nat
    <2>1. Bytes({i}) = SizeOf[i] + Bytes({i} \ {i})
      BY BytesRemove
    <2>2. {i} \ {i} = {}
      OBVIOUS
    <2>3. SizeOf[i] \in Nat
      BY ItemsAssumption
    <2>4. QED  BY <1>1, <2>1, <2>2, <2>3
  <1>3. QED  BY <1>1, <1>2

\* The items of one thread make room for S, or S joins them: the size is that
\* of all caches, or drifted says that it is not.
LEMMA CacheFilled ==
  ASSUME IInv, NEW t \in instances, NEW S \in SUBSET live, \A u \in Threads : items[u] \cap S = {},
         Reset(t, S) \/ Keeps(t, S), instances' = instances
  PROVE  /\ OneCache' /\ \A u \in Threads : u \notin instances' => items'[u] = {} /\ (u = t \/ u \notin instances)
         /\ items' \in [Threads -> SUBSET live] /\ doomed' \in [Threads -> SUBSET live]
         /\ \A v \in Threads : \A j \in items'[v] \cup doomed'[v] : j \in items[v] \cup doomed[v] \cup S
         /\ current' \in Int /\ drifted' \in BOOLEAN /\ SizeTracked'
         /\ Reset(t, S) => current' = Bytes(S)
         /\ Keeps(t, S) => current' = current + Bytes(S) /\ drifted' = drifted
  <1>1. /\ t \in Threads /\ S \in SUBSET Items /\ items[t] \in SUBSET Items /\ current \in Int /\ drifted \in BOOLEAN
        /\ items \in [Threads -> SUBSET live] /\ doomed \in [Threads -> SUBSET live] /\ live \subseteq Items
        /\ \A u, v \in Threads : u # v => items[u] \cap items[v] = {}
        /\ ~ drifted => current = Total
    BY Caches
  <1>2. CASE Reset(t, S)
    <2>1. /\ items' = [items EXCEPT ![t] = S] /\ doomed' = [doomed EXCEPT ![t] = @ \cup items[t]]
          /\ current' = Bytes(S) /\ drifted' = (Bytes(ItemsOf(instances \ {t})) # 0)
      BY <1>2 DEF Reset
    <2>2. Bytes(ItemsOf(instances \ {t})) = Others(t)
      BY DEF Others, ItemsOf, Union
    <2>3. /\ OneCache' /\ \A u \in Threads : u \notin instances' => items'[u] = {} /\ (u = t \/ u \notin instances)
          /\ Total' = Others(t) + Bytes(S) /\ Others(t) \in Nat /\ Bytes(S) \in Nat
      BY <1>1, <2>1, CacheChange
    <2>4. ~ drifted' => current' = Total'
      <3>1. ~ drifted' => Bytes(ItemsOf(instances \ {t})) = 0
        BY <2>1, Zenon
      <3>2. QED  BY <2>1, <2>2, <2>3, <3>1
    <2>5. /\ items' \in [Threads -> SUBSET live] /\ doomed' \in [Threads -> SUBSET live]
          /\ \A v \in Threads : items'[v] \subseteq items[v] \cup S /\ doomed'[v] \subseteq items[v] \cup doomed[v]
      BY <1>1, <2>1
    <2>6. /\ \A v \in Threads : \A j \in items'[v] \cup doomed'[v] : j \in items[v] \cup doomed[v] \cup S
      BY <2>5
    <2>7. Keeps(t, S) => current' = current + Bytes(S) /\ drifted' = drifted
      BY DEF Keeps
    <2>8. drifted' \in BOOLEAN
      BY <2>1
    <2>9. QED  BY <2>1, <2>3, <2>4, <2>5, <2>6, <2>7, <2>8 DEF SizeTracked
  <1>3. CASE Keeps(t, S)
    <2> DEFINE R == items[t] \cup S
    <2>1. /\ items' = [items EXCEPT ![t] = R] /\ doomed' = doomed
          /\ current' = current + Bytes(S) /\ drifted' = drifted
      BY <1>1, <1>3 DEF Keeps
    <2>2. R \in SUBSET Items /\ \A u \in Threads : u # t => items[u] \cap R = {}
      BY <1>1
    <2>3. Bytes(R) = Bytes(items[t]) + Bytes(S)
      BY <1>1, BytesUnion
    <2> HIDE DEF R
    <2>4. /\ OneCache' /\ \A u \in Threads : u \notin instances' => items'[u] = {} /\ (u = t \/ u \notin instances)
          /\ Total = Others(t) + Bytes(items[t]) /\ Total' = Others(t) + Bytes(R)
          /\ Others(t) \in Nat /\ Bytes(items[t]) \in Nat /\ Bytes(R) \in Nat
      BY <2>1, <2>2, CacheChange
    <2>5. Bytes(S) \in Nat
      BY <1>1, BytesNat
    <2>6. ~ drifted' => current' = Total'
      BY <1>1, <2>1, <2>3, <2>4, <2>5
    <2>7. /\ items' \in [Threads -> SUBSET live] /\ doomed' \in [Threads -> SUBSET live]
          /\ \A v \in Threads : items'[v] \subseteq items[v] \cup S /\ doomed'[v] = doomed[v]
      BY <1>1, <2>1 DEF R
    <2>8. \A v \in Threads : \A j \in items'[v] \cup doomed'[v] : j \in items[v] \cup doomed[v] \cup S
      BY <2>7
    <2>9. current' \in Int
      BY <1>1, <2>1, <2>5
    <2>10. Reset(t, S) => current' = Bytes(S)
      BY DEF Reset
    <2>11. QED  BY <1>1, <2>1, <2>4, <2>6, <2>7, <2>8, <2>9, <2>10 DEF SizeTracked
  <1>4. QED  BY <1>2, <1>3

\* An object is added, and others may make room for it.
LEMMA addStep ==
  ASSUME IInv, NEW t \in Threads, add(t)
  PROVE  IInv'
  <1> DEFINE i == th[t].new
             n == None
  <1>1. /\ th[t].pc = "locked" /\ th[t].op = "add" /\ mtx' = None /\ gil' = gil /\ instances' = instances
        /\ limit' = limit /\ live' = live /\ held' = [held EXCEPT ![t] = @ \cup {i}]
        /\ th' = [th EXCEPT ![t] = Dropping(n)]
    BY DEF add, Locked
  <1>2. PICK S \in {{}, {i}} : \/ Keeps(t, S) /\ (S = {} \/ ~ Exceeds(SizeOf[i]))
                               \/ Reset(t, S) /\ S = {i} /\ SizeOf[i] <= limit
    <2>1. \/ Keeps(t, {})
          \/ ~ Exceeds(SizeOf[i]) /\ Keeps(t, {i})
          \/ SizeOf[i] <= limit /\ Reset(t, {i})
      BY Zenon DEF add
    <2>2. CASE Keeps(t, {})
      BY <2>2
    <2>3. CASE ~ Exceeds(SizeOf[i]) /\ Keeps(t, {i})
      BY <2>3, Zenon
    <2>4. CASE SizeOf[i] <= limit /\ Reset(t, {i})
      BY <2>4, Zenon
    <2>5. QED  BY <2>1, <2>2, <2>3, <2>4, Zenon
  <1>3. t \in instances /\ i \in live
    BY <1>1 DEF IInv, Exited, Arguments, Calling
  <1>4. i \in Items /\ i # None
    BY <1>3, Caches, ItemsAssumption
  <1>5. S \in SUBSET live /\ \A u \in Threads : items[u] \cap S = {}
    BY <1>3, <1>4 DEF IInv, NewUnowned
  <1>6. /\ OneCache' /\ \A u \in Threads : u \notin instances' => items'[u] = {} /\ (u = t \/ u \notin instances)
        /\ items' \in [Threads -> SUBSET live] /\ doomed' \in [Threads -> SUBSET live]
        /\ \A v \in Threads : \A j \in items'[v] \cup doomed'[v] : j \in items[v] \cup doomed[v] \cup S
        /\ current' \in Int /\ drifted' \in BOOLEAN /\ SizeTracked'
        /\ Reset(t, S) => current' = Bytes(S)
        /\ Keeps(t, S) => current' = current + Bytes(S) /\ drifted' = drifted
    BY <1>1, <1>2, <1>3, <1>5, CacheFilled
  <1>7. LimitKept'
    <2>1. SizeOf[i] \in Nat /\ Bytes({i}) = SizeOf[i] /\ Bytes({}) = 0
      BY <1>4, BytesOfOne
    <2>2. limit \in Nat /\ current \in Int /\ (~ drifted => current <= limit)
      BY Caches
    <2>3. CASE Keeps(t, S) /\ (S = {} \/ ~ Exceeds(SizeOf[i]))
      <3>1. CASE S = {}
        <4>1. current' = current /\ drifted' = drifted
          BY <1>6, <2>1, <2>2, <2>3, <3>1
        <4>2. ~ drifted' => current' <= limit'
          BY <1>1, <2>2, <4>1
        <4>3. QED  BY <1>6, <4>2 DEF SizeTracked, LimitKept
      <3>2. CASE S # {}
        <4>1. S = {i} /\ SizeOf[i] + current <= limit
          BY <2>1, <2>2, <2>3, <3>2 DEF Exceeds
        <4>2. current' = current + SizeOf[i]
          BY <1>6, <2>1, <2>3, <4>1
        <4>3. current' <= limit'
          BY <1>1, <2>1, <2>2, <4>1, <4>2
        <4>4. QED  BY <1>6, <4>3 DEF SizeTracked, LimitKept
      <3>3. QED  BY <3>1, <3>2
    <2>4. CASE Reset(t, S) /\ S = {i} /\ SizeOf[i] <= limit
      <3>1. current' <= limit'
        BY <1>1, <1>6, <2>1, <2>4
      <3>2. QED  BY <1>6, <3>1 DEF SizeTracked, LimitKept
    <2>5. QED  BY <1>2, <2>3, <2>4
  <1>8. held' \in [Threads -> SUBSET live] /\ \A v \in Threads : \A j \in held'[v] : j \in held[v] \/ j = i
    BY <1>1, <1>3, Caches
  <1>9. \A v \in Threads : \A j \in items'[v] \cup held'[v] \cup doomed'[v] :
            (\E w \in Threads : j \in items[w] \cup held[w] \cup doomed[w]) \/ (n = None /\ j = th[t].new)
    BY <1>6, <1>8
  <1>10. /\ instances' \subseteq instances /\ limit' \in Limits
         /\ (n = None \/ n = th[t].new) /\ (t \notin instances' => n = None)
         /\ th[t].pc = "locked" /\ mtx' = None /\ gil' = gil /\ live' = live /\ th' = [th EXCEPT ![t] = Dropping(n)]
    BY <1>1, Caches
  <1>11. /\ OneCache' /\ \A u \in Threads : u \notin instances' => items'[u] = {} /\ (u = t \/ u \notin instances)
         /\ items' \in [Threads -> SUBSET live] /\ doomed' \in [Threads -> SUBSET live]
         /\ current' \in Int /\ drifted' \in BOOLEAN /\ SizeTracked'
    BY <1>6
  <1>12. held' \in [Threads -> SUBSET live]
    BY <1>8
  <1> HIDE DEF n, i
  <1>13. Leaves(t, n)
    BY <1>7, <1>9, <1>10, <1>11, <1>12 DEF Leaves
  <1>14. QED  BY <1>13, LeaveStep

\* The limit is set, and this thread's items are let go if they exceed it.
LEMMA setCacheLimitStep ==
  ASSUME IInv, NEW t \in Threads, setCacheLimit(t)
  PROVE  IInv'
  <1> DEFINE n == None
             S == {}
  <1>1. /\ th[t].pc = "locked" /\ th[t].op = "limit" /\ mtx' = None /\ gil' = gil /\ instances' = instances
        /\ limit' = th[t].limit /\ live' = live /\ held' = held /\ th' = [th EXCEPT ![t] = Dropping(n)]
        /\ (Reset(t, S) \/ (Keeps(t, S) /\ current <= th[t].limit))
    BY DEF setCacheLimit, Locked
  <1>2. t \in instances /\ limit' \in Limits
    BY <1>1 DEF IInv, Exited, Arguments, Calling
  <1>3. S \in SUBSET live /\ \A u \in Threads : items[u] \cap S = {}
    OBVIOUS
  <1>4. Bytes(S) = 0
    BY BytesOfOne
  <1> HIDE DEF S
  <1>5. /\ OneCache' /\ \A u \in Threads : u \notin instances' => items'[u] = {} /\ (u = t \/ u \notin instances)
        /\ items' \in [Threads -> SUBSET live] /\ doomed' \in [Threads -> SUBSET live]
        /\ \A v \in Threads : \A j \in items'[v] \cup doomed'[v] : j \in items[v] \cup doomed[v] \cup S
        /\ current' \in Int /\ drifted' \in BOOLEAN /\ SizeTracked'
        /\ Reset(t, S) => current' = Bytes(S)
        /\ Keeps(t, S) => current' = current + Bytes(S) /\ drifted' = drifted
    BY <1>1, <1>2, <1>3, CacheFilled
  <1>6. LimitKept'
    <2>1. limit' \in Nat /\ current \in Int
      BY <1>2, Caches, LimitsAssumption
    <2>2. current' <= limit'
      BY <1>1, <1>4, <1>5, <2>1
    <2>3. QED  BY <1>5, <2>2 DEF SizeTracked, LimitKept
  <1>7. held' \in [Threads -> SUBSET live]
    BY <1>1, Caches
  <1>8. \A v \in Threads : \A j \in items'[v] \cup held'[v] \cup doomed'[v] :
            (\E w \in Threads : j \in items[w] \cup held[w] \cup doomed[w]) \/ (n = None /\ j = th[t].new)
    BY <1>1, <1>5 DEF S
  <1>9. /\ instances' \subseteq instances
        /\ (n = None \/ n = th[t].new) /\ (t \notin instances' => n = None)
        /\ th[t].pc = "locked" /\ mtx' = None /\ gil' = gil /\ live' = live /\ th' = [th EXCEPT ![t] = Dropping(n)]
    BY <1>1
  <1>10. /\ OneCache' /\ \A u \in Threads : u \notin instances' => items'[u] = {} /\ (u = t \/ u \notin instances)
         /\ items' \in [Threads -> SUBSET live] /\ doomed' \in [Threads -> SUBSET live]
         /\ limit' \in Limits /\ current' \in Int /\ drifted' \in BOOLEAN /\ SizeTracked'
    BY <1>2, <1>5
  <1> HIDE DEF n
  <1>11. Leaves(t, n)
    BY <1>6, <1>7, <1>8, <1>9, <1>10 DEF Leaves
  <1>12. QED  BY <1>11, LeaveStep

\* The caches of all threads are cleared.
LEMMA ClearAllStep ==
  ASSUME IInv, NEW t \in Threads, ClearAll(t)
  PROVE  IInv'
  <1> DEFINE n == None
  <1>1. /\ th[t].pc = "locked" /\ th[t].op = "clearAll" /\ mtx' = None /\ gil' = gil /\ instances' = instances
        /\ limit' = limit /\ live' = live /\ held' = held /\ th' = [th EXCEPT ![t] = Dropping(n)]
        /\ items' = [u \in Threads |-> IF u \in instances THEN {} ELSE items[u]]
        /\ doomed' = [doomed EXCEPT ![t] = @ \cup ItemsOf(instances)]
        /\ current' = 0 /\ drifted' = FALSE
    BY DEF ClearAll, Locked
  <1>2. t \in instances
    BY <1>1 DEF IInv, Exited
  <1>3. /\ items \in [Threads -> SUBSET live] /\ held \in [Threads -> SUBSET live] /\ doomed \in [Threads -> SUBSET live]
        /\ instances \in SUBSET Threads /\ limit \in Limits /\ limit \in Nat
        /\ \A u \in Threads : u \notin instances => items[u] = {}
    BY Caches
  <1>4. items' \in [Threads -> SUBSET live] /\ \A u \in Threads : items'[u] = {}
    BY <1>1, <1>3
  <1>5. OneCache' /\ \A u \in Threads : u \notin instances' => items'[u] = {} /\ (u = t \/ u \notin instances)
    BY <1>1, <1>4 DEF OneCache
  <1>6. Total' = 0
    <2>1. Union(items', instances') = {}
      <3>1. \A u \in instances' : items'[u] = {}
        BY <1>1, <1>3, <1>4
      <3>2. QED  BY <3>1 DEF Union
    <2>2. Total' = Bytes(Union(items', instances'))
      BY DEF Total, ItemsOf, Union
    <2>3. QED  BY <2>1, <2>2, BytesOfOne
  <1>7. SizeTracked' /\ LimitKept'
    BY <1>1, <1>3, <1>6 DEF SizeTracked, LimitKept
  <1>8. \A j : j \in ItemsOf(instances) => j \in live /\ \E w \in Threads : j \in items[w]
    BY <1>3 DEF ItemsOf
  <1>9. ItemsOf(instances) \subseteq live
    BY <1>8
  <1>10. /\ doomed' \in [Threads -> SUBSET live]
         /\ \A v \in Threads : \A j \in doomed'[v] : j \in doomed[v] \/ j \in ItemsOf(instances)
    BY <1>1, <1>3, <1>9
  <1>11. \A v \in Threads : \A j \in items'[v] \cup held'[v] \cup doomed'[v] :
            (\E w \in Threads : j \in items[w] \cup held[w] \cup doomed[w]) \/ (n = None /\ j = th[t].new)
    <2>1. SUFFICES ASSUME NEW v \in Threads, NEW j, j \in held[v] \/ j \in doomed'[v]
                   PROVE  \E w \in Threads : j \in items[w] \cup held[w] \cup doomed[w]
      BY <1>1, <1>4
    <2>2. j \in held[v] \/ j \in doomed[v] \/ \E w \in Threads : j \in items[w]
      BY <1>8, <1>10, <2>1
    <2>3. QED  BY <2>2
  <1>12. /\ instances' \subseteq instances /\ limit' \in Limits /\ current' \in Int
         /\ held' \in [Threads -> SUBSET live] /\ (n = None \/ n = th[t].new) /\ (t \notin instances' => n = None)
         /\ th[t].pc = "locked" /\ mtx' = None /\ gil' = gil /\ live' = live /\ th' = [th EXCEPT ![t] = Dropping(n)]
    BY <1>1, <1>3
  <1>13. doomed' \in [Threads -> SUBSET live] /\ drifted' \in BOOLEAN
    BY <1>1, <1>10
  <1> HIDE DEF n
  <1>14. Leaves(t, n)
    BY <1>4, <1>5, <1>7, <1>11, <1>12, <1>13 DEF Leaves
  <1>15. QED  BY <1>14, LeaveStep

\* The calling thread's cache is cleared, and the size left as it is.
LEMMA clearStep ==
  ASSUME IInv, NEW t \in Threads, clear(t)
  PROVE  IInv'
  <1> DEFINE c == Dropping(None)
             S == {}
  <1>1. /\ gil = None /\ th[t] = Idle /\ gil' = t /\ th' = [th EXCEPT ![t] = c] /\ mtx' = mtx /\ instances' = instances
        /\ limit' = limit /\ current' = current /\ live' = live /\ held' = held
        /\ items' = [items EXCEPT ![t] = S] /\ doomed' = [doomed EXCEPT ![t] = items[t]]
        /\ drifted' = (drifted \/ Bytes(items[t]) # 0)
    BY DEF clear
  <1>2. TypeOK /\ MutexInside /\ UnderGIL /\ Arguments /\ NewUnowned /\ OneCache /\ Exited
    BY DEF IInv
  <1>3. c \in CallType /\ c.pc = "drop" /\ c.new = None
    BY CallForms
  <1> HIDE DEF c
  <1>4. th' \in [Threads -> CallType] /\ th'[t] = c /\ \A u \in Threads : u # t => th'[u] = th[u]
    BY <1>1, <1>2, <1>3, Assigned
  <1>5. th[t].pc = "idle" /\ th[t].new = None
    BY <1>1, CallForms
  <1>6. t \in instances
    BY <1>2, <1>5 DEF Exited
  <1>7. S \in SUBSET Items /\ Bytes(S) = 0 /\ \A u \in Threads : u # t => items[u] \cap S = {}
    BY BytesOfOne
  <1>8. \A v \in Threads : items'[v] \subseteq items[v] /\ held'[v] = held[v] /\ doomed'[v] \subseteq doomed[v] \cup items[v]
    BY <1>1, Caches
  <1>9. items' \in [Threads -> SUBSET live] /\ doomed' \in [Threads -> SUBSET live]
    BY <1>1, Caches
  <1> HIDE DEF S
  <1>10. /\ OneCache' /\ \A u \in Threads : u \notin instances' => items'[u] = {} /\ (u = t \/ u \notin instances)
         /\ Total = Others(t) + Bytes(items[t]) /\ Total' = Others(t) + Bytes(S)
         /\ Others(t) \in Nat /\ Bytes(items[t]) \in Nat
    BY <1>1, <1>6, <1>7, CacheChange
  <1>11. drifted' \in BOOLEAN
    BY <1>1
  <1>12. TypeOK'
    BY <1>1, <1>2, <1>4, <1>9, <1>11 DEF TypeOK
  <1>13. SizeTracked' /\ LimitKept'
    <2>1. ~ drifted' => ~ drifted /\ Bytes(items[t]) = 0
      BY <1>1, Zenon
    <2>2. ~ drifted => current = Total /\ Total <= limit
      BY Caches
    <2>3. ~ drifted' => Total' = Total
      BY <1>7, <1>10, <2>1
    <2>4. QED  BY <1>1, <2>1, <2>2, <2>3 DEF SizeTracked, LimitKept
  <1>14. MutexInside'
    BY <1>1, <1>2, <1>3, <1>4, <1>5 DEF MutexInside
  <1>15. UnderGIL'
    <2>1. \A u \in Threads : u # t => ~ (Calling(u) /\ th[u].op # "exit")
      BY <1>1, <1>2, ItemsAssumption DEF UnderGIL
    <2>2. QED  BY <1>1, <1>3, <1>4, <2>1 DEF UnderGIL, Calling
  <1>16. Arguments'
    BY <1>1, <1>2, <1>3, <1>4 DEF Arguments, Calling
  <1>17. Exited'
    BY <1>1, <1>2, <1>4, <1>6, <1>10 DEF Exited
  <1>18. NewUnowned'
    <2>1. ASSUME NEW u \in Threads, th'[u].new # None, NEW v \in Threads
          PROVE  th'[u].new \notin items'[v] \cup held'[v] \cup doomed'[v] /\ (v # u => th'[v].new # th'[u].new)
      <3>1. u # t /\ th[u].new # None /\ th'[u] = th[u]
        BY <1>3, <1>4, <2>1
      <3>2. th[u].new \notin items[v] \cup held[v] \cup doomed[v] /\ (v # u => th[v].new # th[u].new)
        BY <1>2, <3>1 DEF NewUnowned
      <3>3. v = t => th'[v].new = None
        BY <1>3, <1>4
      <3>4. th'[u].new \notin items'[v] \cup held'[v] \cup doomed'[v]
        BY <1>8, <3>1, <3>2
      <3>5. QED  BY <1>4, <2>1, <3>1, <3>2, <3>3, <3>4
    <2>2. QED  BY <2>1 DEF NewUnowned
  <1>19. QED  BY <1>10, <1>12, <1>13, <1>14, <1>15, <1>16, <1>17, <1>18 DEF IInv

-----------------------------------------------------------------------------
(* The shared pointers to an item *)

\* Whether some thread has item i, as a number.
InAny(f, i) == IF \E t \in Threads : i \in f[t] THEN 1 ELSE 0

\* The threads whose calls have still to let item i go.
Letting(d, i) == {t \in Threads : i \in d[t]}

\* Whether some call has made item i and not yet added it.
Making(i) == IF \E t \in Threads : Makes(t, i) THEN 1 ELSE 0

LEMMA LettingFinite == ASSUME NEW d, NEW i PROVE IsFiniteSet(Letting(d, i)) /\ Cardinality(Letting(d, i)) \in Nat
  <1>1. Letting(d, i) \in SUBSET Threads
    BY DEF Letting
  <1>2. IsFiniteSet(Letting(d, i))
    BY <1>1, FS_Subset, ItemsAssumption
  <1>3. QED  BY <1>2, FS_CardinalityType

\* One more call lets an item go, or one less.
LEMMA LettingChanges ==
  ASSUME NEW d, NEW e, NEW i, NEW t \in Threads, \A u \in Threads : u # t => e[u] = d[u]
  PROVE  /\ i \in d[t] /\ i \notin e[t] => Cardinality(Letting(e, i)) = Cardinality(Letting(d, i)) - 1
         /\ i \notin d[t] /\ i \in e[t] => Cardinality(Letting(e, i)) = Cardinality(Letting(d, i)) + 1
         /\ (i \in d[t] <=> i \in e[t]) => Letting(e, i) = Letting(d, i)
         /\ Cardinality(Letting(d, i)) \in Nat
  <1>1. IsFiniteSet(Letting(d, i)) /\ Cardinality(Letting(d, i)) \in Nat
    BY LettingFinite
  <1>2. ASSUME i \in d[t], i \notin e[t] PROVE Cardinality(Letting(e, i)) = Cardinality(Letting(d, i)) - 1
    <2>1. Letting(e, i) = Letting(d, i) \ {t} /\ t \in Letting(d, i)
      BY <1>2 DEF Letting
    <2>2. QED  BY <1>1, <2>1, FS_RemoveElement
  <1>3. ASSUME i \notin d[t], i \in e[t] PROVE Cardinality(Letting(e, i)) = Cardinality(Letting(d, i)) + 1
    <2>1. Letting(e, i) = Letting(d, i) \cup {t} /\ t \notin Letting(d, i)
      BY <1>3 DEF Letting
    <2>2. QED  BY <1>1, <2>1, FS_AddElement
  <1>4. ASSUME i \in d[t] <=> i \in e[t] PROVE Letting(e, i) = Letting(d, i)
    BY <1>4 DEF Letting
  <1>5. QED  BY <1>1, <1>2, <1>3, <1>4

\* The pointers, in these terms.
LEMMA PointersAre ==
  /\ \A i : Pointers(i) = InAny(items, i) + InAny(held, i) + Cardinality(Letting(doomed, i)) + Making(i)
  /\ \A i : Pointers(i)' = InAny(items', i) + InAny(held', i) + Cardinality(Letting(doomed', i)) + Making(i)'
  <1>1. /\ \A i : i \in ItemsOf(Threads) <=> \E t \in Threads : i \in items[t]
        /\ \A i : i \in ItemsOf(Threads)' <=> \E t \in Threads : i \in items'[t]
    BY DEF ItemsOf
  <1>2. QED  BY <1>1 DEF Pointers, InAny, Letting, Making

LEMMA Bits ==
  /\ \A f, i : InAny(f, i) \in {0, 1} /\ (InAny(f, i) = 1 <=> \E t \in Threads : i \in f[t])
  /\ \A i : Making(i) \in {0, 1} /\ (Making(i) = 1 <=> \E t \in Threads : Makes(t, i))
  /\ \A i : Making(i)' \in {0, 1} /\ (Making(i)' = 1 <=> \E t \in Threads : Makes(t, i)')
  BY DEF InAny, Making

\* The use_count of an item.
LEMMA UsesAre ==
  ASSUME Counted, NEW i \in Items
  PROVE  uses[i] = InAny(items, i) + InAny(held, i) + Cardinality(Letting(doomed, i)) + Making(i)
  BY PointersAre DEF Counted, UsesExact

LEMMA UsesFollow ==
  ASSUME uses' = [i \in Items |-> uses'[i]],
         \A i \in Items : uses'[i] = InAny(items', i) + InAny(held', i) + Cardinality(Letting(doomed', i)) + Making(i)'
  PROVE  UsesExact'
  BY PointersAre DEF UsesExact

\* A call that no thread but t is in does not change what the others make.
LEMMA MakingKept ==
  ASSUME NEW t \in Threads, \A u \in Threads : u # t => th'[u] = th[u],
         \/ th'[t].new = th[t].new /\ (Calling(t) /\ th[t].op = "add" <=> Calling(t)' /\ th'[t].op = "add")
         \/ ~ (Calling(t) /\ th[t].op = "add") /\ ~ (Calling(t)' /\ th'[t].op = "add")
  PROVE  \A i : Making(i)' = Making(i)
  <1>1. \A i : \A u \in Threads : Makes(u, i)' <=> Makes(u, i)
    BY DEF Makes, Calling
  <1>2. QED  BY <1>1 DEF Making

\* No thread but t changes what it has still to let go.
LEMMA LetGoKept ==
  ASSUME Counted, NEW t \in Threads, \A u \in Threads : u # t => th'[u] = th[u] /\ doomed'[u] = doomed[u],
         doomed'[t] = {} \/ th'[t].pc = "drop" \/ (th'[t].pc \in {"lock", "locked"} /\ th'[t].op = "remove")
  PROVE  LetGoFirst'
  BY DEF Counted, LetGoFirst, Calling

\* An item in a cache is in use if, and only if, something else refers to it.
LEMMA UnusedIs ==
  ASSUME IInv, Counted, NEW t \in Threads
  PROVE  \A k : Unused(t, k) = {i \in items[t] : KeyOf[i] = k} \ Referenced
  <1>1. SUFFICES ASSUME NEW i \in items[t] PROVE ~ isInUse(i) <=> i \notin Referenced
    BY DEF Unused
  <1>2. i \in Items /\ i # None
    BY ItemsAssumption DEF IInv, TypeOK
  <1>3. uses[i] = InAny(items, i) + InAny(held, i) + Cardinality(Letting(doomed, i)) + Making(i)
    BY <1>2, UsesAre
  <1>4. InAny(items, i) = 1
    BY DEF InAny
  <1>5. Making(i) = 0
    <2>1. \A u \in Threads : th[u].new # None => th[u].new \notin items[t]
      BY DEF IInv, NewUnowned
    <2>2. QED  BY <1>2, <2>1 DEF Making, Makes
  <1>6. InAny(held, i) \in {0, 1} /\ (InAny(held, i) = 1 <=> \E u \in Threads : i \in held[u])
    BY Bits
  <1>7. Cardinality(Letting(doomed, i)) \in Nat /\ (Cardinality(Letting(doomed, i)) = 0 <=> ~ \E u \in Threads : i \in doomed[u])
    <2>1. IsFiniteSet(Letting(doomed, i)) /\ Cardinality(Letting(doomed, i)) \in Nat
      BY LettingFinite
    <2>2. Letting(doomed, i) = {} <=> ~ \E u \in Threads : i \in doomed[u]
      BY DEF Letting
    <2>3. QED  BY <2>1, <2>2, FS_EmptySet
  <1>8. isInUse(i) <=> InAny(held, i) = 1 \/ Cardinality(Letting(doomed, i)) # 0
    BY <1>3, <1>4, <1>5, <1>6, <1>7 DEF isInUse
  <1>9. i \in Referenced <=> \E u \in Threads : i \in held[u] \/ i \in doomed[u]
    BY DEF Referenced
  <1>10. QED  BY <1>6, <1>7, <1>8, <1>9

\* The last pointer is let go: nothing refers to the item any more.
LEMMA LastPointer ==
  ASSUME IInv, Counted, NEW t \in Threads, NEW i \in doomed[t], uses[i] = 1,
         doomed' = [doomed EXCEPT ![t] = @ \ {i}]
  PROVE  \A u \in Threads : i \notin items[u] \cup held[u] \cup doomed'[u]
  <1>1. i \in Items /\ doomed \in [Threads -> SUBSET live]
    BY DEF IInv, TypeOK
  <1>2. uses[i] = InAny(items, i) + InAny(held, i) + Cardinality(Letting(doomed, i)) + Making(i)
    BY <1>1, UsesAre
  <1>3. /\ \A u \in Threads : u # t => doomed'[u] = doomed[u]
        /\ i \notin doomed'[t]
    BY <1>1
  <1>4. /\ Cardinality(Letting(doomed', i)) = Cardinality(Letting(doomed, i)) - 1
        /\ Cardinality(Letting(doomed, i)) \in Nat /\ Cardinality(Letting(doomed', i)) \in Nat
        /\ IsFiniteSet(Letting(doomed', i))
    <2> DEFINE d == doomed'
    <2>1. i \in doomed[t] /\ i \notin d[t] /\ \A u \in Threads : u # t => d[u] = doomed[u]
      BY <1>3
    <2> HIDE DEF d
    <2>2. /\ Cardinality(Letting(d, i)) = Cardinality(Letting(doomed, i)) - 1
          /\ Cardinality(Letting(doomed, i)) \in Nat
      BY <2>1, LettingChanges
    <2>3. IsFiniteSet(Letting(d, i)) /\ Cardinality(Letting(d, i)) \in Nat
      BY LettingFinite
    <2>4. QED  BY <2>2, <2>3 DEF d
  <1>5. /\ InAny(items, i) \in {0, 1} /\ InAny(held, i) \in {0, 1} /\ Making(i) \in {0, 1}
        /\ InAny(items, i) = 1 <=> \E u \in Threads : i \in items[u]
        /\ InAny(held, i) = 1 <=> \E u \in Threads : i \in held[u]
    BY Bits
  <1>6. InAny(items, i) = 0 /\ InAny(held, i) = 0 /\ Cardinality(Letting(doomed', i)) = 0
    BY <1>2, <1>4, <1>5
  <1>7. Letting(doomed', i) = {}
    BY <1>4, <1>6, FS_EmptySet
  <1>8. QED  BY <1>5, <1>6, <1>7 DEF Letting

-----------------------------------------------------------------------------
(* Steps of a call outside of the mutex *)

\* A reference goes out of scope; the object may be destroyed, and its
\* destructor call the cache.
LEMMA DropStep ==
  ASSUME IInv, Counted, NEW t \in Threads, Drop(t)
  PROVE  IInv'
  <1>1. TypeOK /\ MutexInside /\ UnderGIL /\ Arguments /\ NewUnowned /\ OneCache /\ Exited
    BY DEF IInv
  <1>2. /\ gil = t /\ th[t].pc = "drop" /\ gil' = gil /\ mtx' = mtx /\ items' = items /\ instances' = instances
        /\ UNCHANGED sizes /\ limit' = limit /\ current' = current /\ drifted' = drifted /\ held' = held
    BY DEF Drop, locks, sizes
  <1>3. PICK i \in doomed[t] :
          /\ doomed' = [doomed EXCEPT ![t] = @ \ {i}]
          /\ \/ live' = live /\ th' = th
             \/ /\ uses[i] = 1
                /\ live' = live \ {i}
                /\ \/ th' = th
                   \/ /\ t \in instances
                      /\ th' = [th EXCEPT ![t] = Locks("remove", KeyOf[i], @.new, 0)]
    BY Zenon DEF Drop
  <1>4. /\ items \in [Threads -> SUBSET live] /\ held \in [Threads -> SUBSET live] /\ doomed \in [Threads -> SUBSET live]
        /\ live \subseteq Items /\ th \in [Threads -> CallType] /\ i \in Items
    BY <1>1 DEF TypeOK
  <1>5. doomed' \in [Threads -> SUBSET live] /\ \A v \in Threads : doomed'[v] \subseteq doomed[v]
    BY <1>3, <1>4
  <1>6. live' = live \/ (live' = live \ {i} /\ \A u \in Threads : i \notin items[u] \cup held[u] \cup doomed'[u])
    BY <1>3, LastPointer
  <1>7. /\ items' \in [Threads -> SUBSET live'] /\ held' \in [Threads -> SUBSET live']
        /\ doomed' \in [Threads -> SUBSET live'] /\ live' \subseteq Items
    <2>1. \A u \in Threads : items[u] \subseteq live' /\ held[u] \subseteq live' /\ doomed'[u] \subseteq live'
      BY <1>4, <1>5, <1>6
    <2>2. QED  BY <1>2, <1>4, <1>5, <1>6, <2>1
  <1>8. /\ th' \in [Threads -> CallType] /\ \A u \in Threads : u # t => th'[u] = th[u]
        /\ \/ th'[t] = th[t]
           \/ t \in instances /\ th'[t].pc = "lock" /\ th'[t].op = "remove"
        /\ \A u \in Threads : th'[u].new = th[u].new
    <2>1. CASE th' = th
      BY <1>4, <2>1
    <2>2. CASE t \in instances /\ th' = [th EXCEPT ![t] = Locks("remove", KeyOf[i], @.new, 0)]
      <3> DEFINE c == Locks("remove", KeyOf[i], th[t].new, 0)
      <3>1. KeyOf[i] \in {KeyOf[j] : j \in Items} \cup {None} /\ th[t].new \in Items \cup {None}
        BY <1>4 DEF CallType
      <3>2. c \in CallType /\ c.pc = "lock" /\ c.op = "remove" /\ c.new = th[t].new
        BY <3>1, CallForms
      <3>3. th' = [th EXCEPT ![t] = c]
        BY <1>4, <2>2
      <3> HIDE DEF c
      <3>4. th' \in [Threads -> CallType] /\ th'[t] = c /\ \A u \in Threads : u # t => th'[u] = th[u]
        BY <1>1, <3>2, <3>3, Assigned
      <3>5. QED  BY <2>2, <3>2, <3>4
    <2>3. QED  BY <1>3, <2>1, <2>2
  <1>9. TypeOK'
    BY <1>1, <1>2, <1>7, <1>8 DEF TypeOK
  <1>10. MutexInside'
    BY <1>1, <1>2, <1>8 DEF MutexInside
  <1>11. UnderGIL'
    BY <1>1, <1>2, <1>8 DEF UnderGIL, Calling
  <1>12. Arguments'
    <2>1. \A u \in Threads : th[u].new # None => th[u].new # i
      BY <1>1 DEF NewUnowned
    <2>2. \A u \in Threads : th[u].new \in live => th[u].new \in live'
      <3>1. \A u \in Threads : th[u].new \in live => th[u].new # None
        BY <1>4, ItemsAssumption
      <3>2. QED  BY <1>6, <2>1, <3>1
    <2>3. ASSUME NEW u \in Threads, Calling(u)'
          PROVE  /\ th'[u].op \in {"fetch", "remove", "add", "limit", "clearAll", "exit"}
                 /\ th'[u].op = "add" => th'[u].new \in live'
                 /\ th'[u].op = "fetch" => th'[u].new # None
                 /\ th'[u].op = "limit" => th'[u].limit \in Limits
                 /\ th'[u].op = "exit" => th'[u].new = None
      <3>1. CASE th'[u] = th[u]
        BY <1>1, <2>2, <2>3, <3>1 DEF Arguments, Calling
      <3>2. CASE th'[u].op = "remove"
        BY <3>2
      <3>3. QED  BY <1>8, <3>1, <3>2
    <2>4. QED  BY <2>3 DEF Arguments
  <1>13. NewUnowned'
    <2>1. \A v \in Threads : items'[v] \cup held'[v] \cup doomed'[v] \subseteq items[v] \cup held[v] \cup doomed[v]
      BY <1>2, <1>5
    <2>2. \A u \in Threads : th'[u].new = th[u].new
      BY <1>8
    <2>3. QED  BY <1>1, <2>1, <2>2 DEF NewUnowned
  <1>14. OneCache' /\ Exited'
    BY <1>1, <1>2, <1>8 DEF OneCache, Exited
  <1>15. QED  BY <1>2, <1>9, <1>10, <1>11, <1>12, <1>13, <1>14, SizesKept DEF IInv

\* The GIL is given up for a while, or taken again.
LEMMA GILStep ==
  ASSUME IInv, NEW t \in Threads, Switch(t) \/ TakeGIL(t)
  PROVE  IInv'
  <1>1. TypeOK /\ MutexInside /\ UnderGIL /\ Arguments /\ NewUnowned /\ OneCache /\ Exited
    BY DEF IInv
  <1>2. th[t].pc = "drop" /\ ((gil = t /\ gil' = None) \/ (gil = None /\ gil' = t))
    BY Zenon DEF Switch, TakeGIL
  <1>3. /\ mtx' = mtx /\ th' = th /\ items' = items /\ instances' = instances /\ UNCHANGED sizes
        /\ limit' = limit /\ current' = current /\ drifted' = drifted
        /\ live' = live /\ held' = held /\ doomed' = doomed
    BY DEF Switch, TakeGIL, sizes
  <1>4. TypeOK'
    BY <1>1, <1>2, <1>3 DEF TypeOK
  <1>5. UnderGIL'
    BY <1>1, <1>2, <1>3, ItemsAssumption DEF UnderGIL, Calling
  <1>6. MutexInside' /\ Arguments' /\ OneCache' /\ Exited'
    BY <1>1, <1>3 DEF MutexInside, Arguments, Calling, OneCache, Exited
  <1>7. NewUnowned'
    BY <1>1, <1>3 DEF NewUnowned
  <1>8. QED  BY <1>3, <1>4, <1>5, <1>6, <1>7, SizesKept DEF IInv

\* The new object is constructed.
LEMMA ConstructStep ==
  ASSUME IInv, NEW t \in Threads, Construct(t)
  PROVE  IInv'
  <1> DEFINE c == Locks("add", None, th[t].new, 0)
  <1>1. TypeOK /\ MutexInside /\ UnderGIL /\ Arguments /\ NewUnowned /\ OneCache /\ Exited
    BY DEF IInv
  <1>2. /\ gil = t /\ th[t].pc = "drop" /\ th[t].new # None /\ live' = live \cup {th[t].new}
        /\ gil' = gil /\ mtx' = mtx /\ items' = items /\ instances' = instances /\ UNCHANGED sizes
        /\ limit' = limit /\ current' = current /\ drifted' = drifted /\ held' = held /\ doomed' = doomed
        /\ th' = [th EXCEPT ![t] = c]
    BY DEF Construct, locks, sizes, IInv, TypeOK
  <1>3. th[t].new \in Items
    BY <1>1, <1>2 DEF TypeOK, CallType
  <1>4. c \in CallType /\ c.pc = "lock" /\ c.op = "add" /\ c.new = th[t].new
    BY <1>3, CallForms
  <1> HIDE DEF c
  <1>5. th' \in [Threads -> CallType] /\ th'[t] = c /\ \A u \in Threads : u # t => th'[u] = th[u]
    BY <1>1, <1>2, <1>4, Assigned
  <1>6. TypeOK'
    <2>1. /\ items' \in [Threads -> SUBSET live'] /\ held' \in [Threads -> SUBSET live']
          /\ doomed' \in [Threads -> SUBSET live'] /\ live' \subseteq Items
      BY <1>1, <1>2, <1>3 DEF TypeOK
    <2>2. QED  BY <1>1, <1>2, <1>5, <2>1 DEF TypeOK
  <1>7. MutexInside' /\ UnderGIL' /\ Arguments'
    BY <1>1, <1>2, <1>4, <1>5 DEF MutexInside, UnderGIL, Arguments, Calling
  <1>8. OneCache' /\ Exited'
    BY <1>1, <1>2, <1>4, <1>5 DEF OneCache, Exited
  <1>9. NewUnowned'
    <2>1. \A u \in Threads : th'[u].new = th[u].new
      BY <1>4, <1>5
    <2>2. QED  BY <1>1, <1>2, <2>1 DEF NewUnowned
  <1>10. QED  BY <1>2, <1>6, <1>7, <1>8, <1>9, SizesKept DEF IInv

\* A call is over, or a thread ends: the thread is left with no new object.
LEMMA ThreadStep ==
  ASSUME IInv, NEW t \in Threads, NEW c \in CallType,
         th[t].pc \in {"idle", "drop"}, th' = [th EXCEPT ![t] = c],
         c.pc # "locked", c.pc = "lock" => c.op = "exit", c.new = None, t \notin instances => c.pc = "gone",
         gil' = gil \/ (gil = t /\ gil' = None), gil' # t,
         UNCHANGED <<mtx, items, instances, sizes, live, held, doomed>>
  PROVE  IInv'
  <1>1. TypeOK /\ MutexInside /\ UnderGIL /\ Arguments /\ NewUnowned /\ OneCache /\ Exited
    BY DEF IInv
  <1>2. /\ mtx' = mtx /\ items' = items /\ instances' = instances /\ UNCHANGED sizes
        /\ limit' = limit /\ current' = current /\ drifted' = drifted
        /\ live' = live /\ held' = held /\ doomed' = doomed
    BY DEF sizes
  <1>3. th' \in [Threads -> CallType] /\ th'[t] = c /\ \A u \in Threads : u # t => th'[u] = th[u]
    BY <1>1, Assigned
  <1>4. TypeOK'
    BY <1>1, <1>2, <1>3 DEF TypeOK
  <1>5. MutexInside'
    BY <1>1, <1>2, <1>3 DEF MutexInside
  <1>6. UnderGIL'
    BY <1>1, <1>2, <1>3, ItemsAssumption DEF UnderGIL, Calling
  <1>7. Arguments'
    BY <1>1, <1>2, <1>3 DEF Arguments, Calling
  <1>8. OneCache' /\ Exited'
    BY <1>1, <1>2, <1>3 DEF OneCache, Exited
  <1>9. NewUnowned'
    <2>1. \A u \in Threads : th'[u].new = th[u].new \/ th'[u].new = None
      BY <1>3
    <2>2. QED  BY <1>1, <1>2, <2>1 DEF NewUnowned
  <1>10. QED  BY <1>2, <1>4, <1>5, <1>6, <1>7, <1>8, <1>9, SizesKept DEF IInv

\* A call returns.
LEMMA ReturnStep ==
  ASSUME IInv, NEW t \in Threads, Return(t)
  PROVE  IInv'
  <1> DEFINE c == IF t \in instances THEN Idle ELSE [Idle EXCEPT !.pc = "gone"]
  <1>1. /\ gil = t /\ th[t].pc = "drop" /\ gil' = None /\ th' = [th EXCEPT ![t] = c]
        /\ UNCHANGED <<mtx, items, instances, sizes, live, held, doomed>>
    BY DEF Return
  <1>2. c \in CallType /\ c.pc \in {"idle", "gone"} /\ c.new = None /\ (t \notin instances => c.pc = "gone")
    BY DEF Idle, CallType
  <1> HIDE DEF c
  <1>3. gil' # t
    BY <1>1, ItemsAssumption
  <1>4. QED  BY <1>1, <1>2, <1>3, ThreadStep

\* A thread ends.
LEMMA ThreadEndsStep ==
  ASSUME IInv, NEW t \in Threads, ThreadEnds(t)
  PROVE  IInv'
  <1> DEFINE c == Locks("exit", None, None, 0)
  <1>1. /\ th[t] = Idle /\ gil' = gil /\ gil # t /\ th' = [th EXCEPT ![t] = c]
        /\ UNCHANGED <<mtx, items, instances, sizes, live, held, doomed>>
    BY DEF ThreadEnds, locks
  <1>2. c \in CallType /\ c.pc = "lock" /\ c.op = "exit" /\ c.new = None /\ th[t].pc = "idle"
    BY <1>1, CallForms
  <1>3. t \in instances
    BY <1>2 DEF IInv, Exited
  <1> HIDE DEF c
  <1>4. QED  BY <1>1, <1>2, <1>3, ThreadStep

-----------------------------------------------------------------------------
(* The use_count through every step *)

\* The numbers that the use_count consists of.
LEMMA Numbers ==
  ASSUME Counted
  PROVE  /\ uses = [i \in Items |-> uses[i]] /\ \A i \in Items : uses[i] \in Int
         /\ \A f, i : InAny(f, i) \in Int
         /\ \A d, i : Cardinality(Letting(d, i)) \in Int
         /\ \A i : Making(i) \in Int /\ Making(i)' \in Int
  <1>1. \A f, i : InAny(f, i) \in Int
    BY Bits
  <1>2. \A d, i : Cardinality(Letting(d, i)) \in Int
    BY LettingFinite
  <1>3. \A i : Making(i) \in Int /\ Making(i)' \in Int
    BY Bits
  <1>4. \A i \in Items : uses[i] \in Int
    BY <1>1, <1>2, <1>3, UsesAre
  <1>5. uses = [i \in Items |-> uses[i]]
    BY DEF Counted, UsesExact
  <1>6. QED  BY <1>1, <1>2, <1>3, <1>4, <1>5

\* A step that only goes on with the call of thread t.
LEMMA CallCounts ==
  ASSUME Counted, NEW t \in Threads, \A u \in Threads : u # t => th'[u] = th[u],
         items' = items, held' = held, doomed' = doomed, uses' = uses,
         \/ th'[t].new = th[t].new /\ (Calling(t) /\ th[t].op = "add" <=> Calling(t)' /\ th'[t].op = "add")
         \/ ~ (Calling(t) /\ th[t].op = "add") /\ ~ (Calling(t)' /\ th'[t].op = "add"),
         doomed[t] = {} \/ th'[t].pc = "drop" \/ (th'[t].pc \in {"lock", "locked"} /\ th'[t].op = "remove")
  PROVE  Counted'
  <1>1. \A i : Making(i)' = Making(i)
    BY MakingKept
  <1>2. UsesExact'
    <2>1. \A i \in Items : uses'[i] = InAny(items', i) + InAny(held', i) + Cardinality(Letting(doomed', i)) + Making(i)'
      BY <1>1, UsesAre
    <2>2. uses' = [i \in Items |-> uses'[i]]
      BY Numbers
    <2>3. QED  BY <2>1, <2>2, UsesFollow
  <1>3. LetGoFirst'
    BY LetGoKept
  <1>4. QED  BY <1>2, <1>3 DEF Counted

\* An idle thread, and one inside a section that no destructor calls, has
\* nothing to let go.
LEMMA NothingToLetGo ==
  ASSUME IInv, Counted, NEW t \in Threads, th[t].pc = "idle" \/ (th[t].pc \in {"lock", "locked"} /\ th[t].op # "remove")
  PROVE  doomed[t] = {}
  BY DEF Counted, LetGoFirst, Calling

\* Python code calls the cache, or a thread ends.
LEMMA PythonCounts ==
  ASSUME IInv, Counted, NEW t \in Threads, Create(t) \/ SetLimit(t) \/ CallClearAll(t) \/ ThreadEnds(t)
  PROVE  Counted'
  <1>1. PICK c \in CallType : /\ th' = [th EXCEPT ![t] = c] /\ th[t] = Idle
                              /\ items' = items /\ held' = held /\ doomed' = doomed /\ uses' = uses
                              /\ c.pc = "lock" /\ c.op # "add"
    <2>0. Limits \subseteq Nat
      BY LimitsAssumption
    <2>1. CASE Create(t)
      <3>1. PICK i \in Items : Calls(t, Locks(IF i \in Wrappers THEN "remove" ELSE "fetch", KeyOf[i], i, 0))
        BY <2>1 DEF Create
      <3> DEFINE c == Locks(IF i \in Wrappers THEN "remove" ELSE "fetch", KeyOf[i], i, 0)
      <3>2. c \in CallType /\ c.pc = "lock" /\ c.op # "add"
        <4> DEFINE op == IF i \in Wrappers THEN "remove" ELSE "fetch"
        <4>1. op \in {"fetch", "remove"}
          OBVIOUS
        <4> HIDE DEF op
        <4>2. Locks(op, KeyOf[i], i, 0) \in CallType /\ Locks(op, KeyOf[i], i, 0).pc = "lock" /\ Locks(op, KeyOf[i], i, 0).op = op
          BY <4>1, CallForms
        <4>3. QED  BY <4>1, <4>2 DEF op
      <3>3. th' = [th EXCEPT ![t] = c] /\ th[t] = Idle /\ uses' = uses
        BY <3>1 DEF Calls
      <3>4. items' = items /\ held' = held /\ doomed' = doomed
        BY <2>1 DEF Create
      <3> HIDE DEF c
      <3>5. QED  BY <3>2, <3>3, <3>4
    <2>2. CASE SetLimit(t)
      <3>1. PICK n \in Limits : Calls(t, Locks("limit", None, None, n))
        BY <2>2 DEF SetLimit
      <3> DEFINE c == Locks("limit", None, None, n)
      <3>2. c \in CallType /\ c.pc = "lock" /\ c.op # "add"
        BY CallForms
      <3>3. /\ th' = [th EXCEPT ![t] = c] /\ th[t] = Idle /\ uses' = uses
            /\ items' = items /\ held' = held /\ doomed' = doomed
        BY <2>2, <3>1 DEF Calls, SetLimit
      <3> HIDE DEF c
      <3>4. QED  BY <3>2, <3>3
    <2>3. CASE CallClearAll(t)
      <3> DEFINE c == Locks("clearAll", None, None, 0)
      <3>1. c \in CallType /\ c.pc = "lock" /\ c.op # "add"
        BY CallForms
      <3>2. /\ th' = [th EXCEPT ![t] = c] /\ th[t] = Idle /\ uses' = uses
            /\ items' = items /\ held' = held /\ doomed' = doomed
        BY <2>3 DEF Calls, CallClearAll
      <3> HIDE DEF c
      <3>3. QED  BY <3>1, <3>2
    <2>4. CASE ThreadEnds(t)
      <3> DEFINE c == Locks("exit", None, None, 0)
      <3>1. c \in CallType /\ c.pc = "lock" /\ c.op # "add"
        BY CallForms
      <3>2. /\ th' = [th EXCEPT ![t] = c] /\ th[t] = Idle /\ uses' = uses
            /\ items' = items /\ held' = held /\ doomed' = doomed
        BY <2>4 DEF ThreadEnds
      <3> HIDE DEF c
      <3>3. QED  BY <3>1, <3>2
    <2>5. QED  BY <2>1, <2>2, <2>3, <2>4
  <1>2. th'[t] = c /\ \A u \in Threads : u # t => th'[u] = th[u]
    BY <1>1, Assigned DEF IInv
  <1>3. th[t].pc = "idle"
    BY <1>1, CallForms
  <1>4. doomed[t] = {}
    BY <1>3, NothingToLetGo
  <1>5. ~ (Calling(t) /\ th[t].op = "add") /\ ~ (Calling(t)' /\ th'[t].op = "add")
    BY <1>1, <1>2, <1>3 DEF Calling
  <1>6. QED  BY <1>1, <1>2, <1>4, <1>5, CallCounts

\* A call waits, goes on or returns.
LEMMA GoingOnCounts ==
  ASSUME IInv, Counted, NEW t \in Threads, Lock(t) \/ Switch(t) \/ TakeGIL(t) \/ Return(t)
  PROVE  Counted'
  <1>1. th \in [Threads -> CallType] /\ items' = items /\ held' = held /\ doomed' = doomed /\ uses' = uses
    BY DEF IInv, TypeOK, Lock, Switch, TakeGIL, Return
  <1>2. CASE Lock(t)
    <2>1. th[t].pc = "lock" /\ th' = [th EXCEPT ![t].pc = "locked"]
      BY <1>2 DEF Lock
    <2>2. /\ th'[t].pc = "locked" /\ th'[t].op = th[t].op /\ th'[t].new = th[t].new
          /\ \A u \in Threads : u # t => th'[u] = th[u]
      BY <1>1, <2>1 DEF CallType
    <2>3. Calling(t) /\ th[t].op = "add" <=> Calling(t)' /\ th'[t].op = "add"
      BY <2>1, <2>2 DEF Calling
    <2>4. doomed[t] = {} \/ th'[t].op = "remove"
      BY <2>1, <2>2, NothingToLetGo
    <2>5. QED  BY <1>1, <2>2, <2>3, <2>4, CallCounts
  <1>3. CASE Switch(t) \/ TakeGIL(t)
    <2>1. th[t].pc = "drop" /\ th' = th
      BY <1>3 DEF Switch, TakeGIL
    <2>2. ~ (Calling(t) /\ th[t].op = "add") /\ ~ (Calling(t)' /\ th'[t].op = "add")
      BY <2>1 DEF Calling
    <2>3. QED  BY <1>1, <2>1, <2>2, CallCounts
  <1>4. CASE Return(t)
    <2> DEFINE c == IF t \in instances THEN Idle ELSE [Idle EXCEPT !.pc = "gone"]
    <2>1. th[t].pc = "drop" /\ doomed[t] = {} /\ th' = [th EXCEPT ![t] = c]
      BY <1>4 DEF Return
    <2>2. c.pc \in {"idle", "gone"}
      BY DEF Idle
    <2> HIDE DEF c
    <2>3. th'[t] = c /\ \A u \in Threads : u # t => th'[u] = th[u]
      BY <1>1, <2>1
    <2>4. ~ (Calling(t) /\ th[t].op = "add") /\ ~ (Calling(t)' /\ th'[t].op = "add")
      BY <2>1, <2>2, <2>3 DEF Calling
    <2>5. QED  BY <1>1, <2>1, <2>3, <2>4, CallCounts
  <1>5. QED  BY <1>2, <1>3, <1>4

\* Thread t moves the items of S from the caches to what it has still to let
\* go, and adds those of A to its cache, while the pointers of Python objects and
\* of calls that make objects stay as many.
LEMMA MoveCounts ==
  ASSUME IInv, Counted, NEW t \in Threads, NEW S, NEW A,
         doomed' = [doomed EXCEPT ![t] = doomed[t] \cup S], S \cap doomed[t] = {},
         \A i \in S : \E u \in Threads : i \in items[u],
         \A i \in A : ~ \E u \in Threads : i \in items[u],
         \A i : (\E u \in Threads : i \in items'[u]) <=> ((\E u \in Threads : i \in items[u]) /\ i \notin S) \/ i \in A,
         uses' = [i \in Items |-> uses[i] + IF i \in A THEN 1 ELSE 0],
         \A i \in Items : InAny(held', i) + Making(i)' = InAny(held, i) + Making(i)
  PROVE  UsesExact'
  <1>1. doomed'[t] = doomed[t] \cup S /\ \A u \in Threads : u # t => doomed'[u] = doomed[u]
    BY DEF IInv, TypeOK
  <1>2. ASSUME NEW i \in Items
        PROVE  uses'[i] = InAny(items', i) + InAny(held', i) + Cardinality(Letting(doomed', i)) + Making(i)'
    <2> DEFINE g == items'
               e == doomed'
               a == IF i \in A THEN 1 ELSE 0
               s == IF i \in S THEN 1 ELSE 0
    <2>1. /\ \A u \in Threads : u # t => e[u] = doomed[u]
          /\ e[t] = doomed[t] \cup S /\ S \cap doomed[t] = {}
          /\ i \in S => \E u \in Threads : i \in items[u]
          /\ i \in A => ~ \E u \in Threads : i \in items[u]
          /\ (\E u \in Threads : i \in g[u]) <=> ((\E u \in Threads : i \in items[u]) /\ i \notin S) \/ i \in A
      BY <1>1
    <2>2. uses'[i] = uses[i] + a
      BY <1>2
    <2>3. a = (IF i \in A THEN 1 ELSE 0) /\ s = (IF i \in S THEN 1 ELSE 0) /\ a \in Int /\ s \in Int
      OBVIOUS
    <2> HIDE DEF g, e, a, s
    <2>4. InAny(g, i) = InAny(items, i) + a - s /\ Cardinality(Letting(e, i)) = Cardinality(Letting(doomed, i)) + s
      <3>1. InAny(g, i) = InAny(items, i) + a - s
        BY <2>1, <2>3 DEF InAny
      <3>2. Cardinality(Letting(doomed, i)) \in Nat
        BY LettingFinite
      <3> \A u \in Threads : u # t => e[u] = doomed[u]
        BY <2>1
      <3>3. CASE i \in S
        <4>1. i \notin doomed[t] /\ i \in e[t]
          BY <2>1, <2>3, <3>3
        <4>2. Cardinality(Letting(e, i)) = Cardinality(Letting(doomed, i)) + 1
          <5>1. Letting(e, i) = Letting(doomed, i) \cup {t} /\ t \notin Letting(doomed, i)
            BY <4>1 DEF Letting
          <5>2. IsFiniteSet(Letting(doomed, i))
            BY LettingFinite
          <5>3. QED  BY <5>1, <5>2, FS_AddElement
        <4>3. QED  BY <2>3, <3>1, <3>3, <4>1, <4>2
      <3>4. CASE i \notin S
        <4>1. (i \in doomed[t] <=> i \in e[t]) /\ s = 0
          BY <2>1, <2>3, <3>4
        <4>2. Letting(e, i) = Letting(doomed, i)
          BY <4>1, LettingChanges
        <4>3. QED  BY <3>1, <3>2, <4>1, <4>2
      <3>5. QED  BY <3>3, <3>4
    <2>5. uses[i] = InAny(items, i) + InAny(held, i) + Cardinality(Letting(doomed, i)) + Making(i)
      BY <1>2, UsesAre
    <2>6. /\ InAny(items, i) \in Int /\ InAny(held, i) \in Int /\ InAny(held', i) \in Int
          /\ Cardinality(Letting(doomed, i)) \in Int /\ Making(i) \in Int /\ Making(i)' \in Int
      BY Numbers
    <2>7. InAny(held', i) + Making(i)' = InAny(held, i) + Making(i)
      BY <1>2
    <2>8. uses'[i] = InAny(g, i) + InAny(held', i) + Cardinality(Letting(e, i)) + Making(i)'
      BY <2>2, <2>3, <2>4, <2>5, <2>6, <2>7
    <2>9. QED  BY <2>8 DEF g, e
  <1>3. uses' = [i \in Items |-> uses'[i]]
    OBVIOUS
  <1>4. QED  BY <1>2, <1>3, UsesFollow

\* Nothing is added, and no pointer is made.
LEMMA UnchangedUses ==
  ASSUME Counted, NEW A, A = {}
  PROVE  uses = [i \in Items |-> uses[i] + IF i \in A THEN 1 ELSE 0]
  <1>1. uses = [i \in Items |-> uses[i]] /\ \A i \in Items : uses[i] \in Int
    BY Numbers
  <1>2. \A i \in Items : uses[i] + (IF i \in A THEN 1 ELSE 0) = uses[i]
    BY <1>1
  <1>3. QED  BY <1>1, <1>2

\* A call that does not make an object lets items of its thread's cache go.
LEMMA LettingGoCounts ==
  ASSUME IInv, Counted, NEW t \in Threads, NEW S, S \subseteq items[t], S \cap doomed[t] = {},
         items' = [items EXCEPT ![t] = items[t] \ S], doomed' = [doomed EXCEPT ![t] = doomed[t] \cup S],
         held' = held, uses' = uses, \A u \in Threads : u # t => th'[u] = th[u],
         ~ (Calling(t) /\ th[t].op = "add"), th'[t].pc = "drop"
  PROVE  Counted'
  <1>1. /\ items \in [Threads -> SUBSET live] /\ doomed \in [Threads -> SUBSET live]
        /\ \A u, v \in Threads : u # v => items[u] \cap items[v] = {}
    BY Caches
  <1>2. \A i : Making(i)' = Making(i)
    BY MakingKept DEF Calling
  <1>3. /\ \A i \in S : \E u \in Threads : i \in items[u]
        /\ \A i : (\E u \in Threads : i \in items'[u]) <=> ((\E u \in Threads : i \in items[u]) /\ i \notin S)
    <2>1. items'[t] = items[t] \ S /\ \A u \in Threads : u # t => items'[u] = items[u]
      BY <1>1
    <2>2. \A u \in Threads : u # t => \A i \in items[u] : i \notin S
      BY <1>1
    <2>3. QED  BY <2>1, <2>2
  <1>4. UsesExact'
    <2> DEFINE A == {}
    <2>1. /\ uses' = [i \in Items |-> uses[i] + IF i \in A THEN 1 ELSE 0]
      BY UnchangedUses
    <2>2. \A i \in Items : InAny(held', i) + Making(i)' = InAny(held, i) + Making(i)
      BY <1>2
    <2>3. /\ \A i \in A : ~ \E u \in Threads : i \in items[u]
          /\ \A i : (\E u \in Threads : i \in items'[u]) <=> ((\E u \in Threads : i \in items[u]) /\ i \notin S) \/ i \in A
      BY <1>3
    <2> HIDE DEF A
    <2>4. QED  BY <1>3, <2>1, <2>2, <2>3, MoveCounts
  <1>5. LetGoFirst'
    BY <1>1, LetGoKept
  <1>6. QED  BY <1>4, <1>5 DEF Counted

\* The call of thread t ends its section.
LEMMA SectionEnds ==
  ASSUME IInv, NEW t \in Threads, NEW n \in Items \cup {None}, th' = [th EXCEPT ![t] = Dropping(n)]
  PROVE  th'[t] = Dropping(n) /\ th'[t].pc = "drop" /\ th'[t].new = n /\ \A u \in Threads : u # t => th'[u] = th[u]
  <1>1. Dropping(n) \in CallType /\ Dropping(n).pc = "drop" /\ Dropping(n).new = n
    BY CallForms
  <1>2. th'[t] = Dropping(n) /\ \A u \in Threads : u # t => th'[u] = th[u]
    BY <1>1 DEF IInv, TypeOK
  <1>3. QED  BY <1>1, <1>2

\* This thread's cache is cleared, without the mutex or when the thread ends.
LEMMA clearCounts ==
  ASSUME IInv, Counted, NEW t \in Threads, clear(t) \/ CacheDtor(t)
  PROVE  Counted'
  <1> DEFINE S == items[t]
  <1>1. /\ items' = [items EXCEPT ![t] = {}] /\ doomed' = [doomed EXCEPT ![t] = items[t]]
        /\ held' = held /\ uses' = uses
        /\ th[t] = Idle \/ (th[t].pc = "locked" /\ th[t].op = "exit")
        /\ th' = [th EXCEPT ![t] = Dropping(None)] \/ th' = [th EXCEPT ![t] = Dropping(@.new)]
    BY DEF clear, CacheDtor, Locked
  <1>2. doomed[t] = {} /\ ~ (Calling(t) /\ th[t].op = "add")
    <2>1. th[t].pc = "idle" \/ (th[t].pc = "locked" /\ th[t].op = "exit")
      BY <1>1, CallForms
    <2>2. QED  BY <2>1, NothingToLetGo DEF Calling
  <1>3. PICK n \in Items \cup {None} : th' = [th EXCEPT ![t] = Dropping(n)]
    <2>1. th[t].new \in Items \cup {None} /\ th \in [Threads -> CallType]
      BY DEF IInv, TypeOK, CallType
    <2>2. QED  BY <1>1, <2>1
  <1>4. th'[t].pc = "drop" /\ \A u \in Threads : u # t => th'[u] = th[u]
    BY <1>3, SectionEnds
  <1>5. items' = [items EXCEPT ![t] = items[t] \ S] /\ doomed' = [doomed EXCEPT ![t] = doomed[t] \cup S]
    <2>1. items[t] \ S = {} /\ doomed[t] \cup S = items[t]
      BY <1>2
    <2>2. QED  BY <1>1, <2>1
  <1>6. S \subseteq items[t] /\ S \cap doomed[t] = {}
    BY <1>2
  <1> HIDE DEF S
  <1>7. QED  BY <1>1, <1>2, <1>4, <1>5, <1>6, LettingGoCounts

\* The unused objects of a key are removed.
LEMMA removeCounts ==
  ASSUME IInv, Counted, NEW t \in Threads, removeAllNotInUseMatching(t)
  PROVE  Counted'
  <1> DEFINE S == Unused(t, th[t].key)
  <1>1. /\ items' = [items EXCEPT ![t] = @ \ S] /\ doomed' = [doomed EXCEPT ![t] = @ \cup S]
        /\ held' = held /\ uses' = uses /\ th[t].op = "remove"
        /\ th' = [th EXCEPT ![t] = Dropping(@.new)]
    BY DEF removeAllNotInUseMatching, Locked
  <1>2. S \subseteq items[t] /\ S \cap doomed[t] = {}
    <2>1. S = {i \in items[t] : KeyOf[i] = th[t].key} \ Referenced
      BY UnusedIs
    <2>2. QED  BY <2>1 DEF Referenced
  <1> HIDE DEF S
  <1>3. /\ th[t].new \in Items \cup {None} /\ th' = [th EXCEPT ![t] = Dropping(th[t].new)]
        /\ items' = [items EXCEPT ![t] = items[t] \ S] /\ doomed' = [doomed EXCEPT ![t] = doomed[t] \cup S]
    BY <1>1 DEF IInv, TypeOK, CallType
  <1>4. th'[t].pc = "drop" /\ \A u \in Threads : u # t => th'[u] = th[u]
    BY <1>3, SectionEnds
  <1>5. QED  BY <1>1, <1>2, <1>3, <1>4, LettingGoCounts

\* The limit is set.
LEMMA setCacheLimitCounts ==
  ASSUME IInv, Counted, NEW t \in Threads, setCacheLimit(t)
  PROVE  Counted'
  <1>1. /\ th[t].pc = "locked" /\ th[t].op = "limit" /\ held' = held /\ th' = [th EXCEPT ![t] = Dropping(None)]
        /\ Reset(t, {}) \/ Keeps(t, {})
    BY DEF setCacheLimit, Locked
  <1>2. doomed[t] = {}
    BY <1>1, NothingToLetGo
  <1>3. th'[t].pc = "drop" /\ \A u \in Threads : u # t => th'[u] = th[u]
    BY <1>1, SectionEnds
  <1>4. uses' = uses
    <2> DEFINE A == {}
    <2>1. uses' = [i \in Items |-> uses[i] + IF i \in A THEN 1 ELSE 0]
      BY <1>1 DEF Reset, Keeps, Point
    <2>2. A = {}
      OBVIOUS
    <2> HIDE DEF A
    <2>3. uses = [i \in Items |-> uses[i] + IF i \in A THEN 1 ELSE 0]
      BY <2>2, UnchangedUses
    <2>4. QED  BY <2>1, <2>3
  <1>5. items \in [Threads -> SUBSET live] /\ doomed \in [Threads -> SUBSET live]
    BY Caches
  <1>6. CASE Reset(t, {})
    <2> DEFINE S == items[t]
    <2>1. items' = [items EXCEPT ![t] = {}] /\ doomed' = [doomed EXCEPT ![t] = doomed[t] \cup S]
      BY <1>5, <1>6 DEF Reset
    <2>2. items' = [items EXCEPT ![t] = items[t] \ S] /\ S \subseteq items[t] /\ S \cap doomed[t] = {}
      BY <1>2, <2>1
    <2> HIDE DEF S
    <2>3. QED  BY <1>1, <1>3, <1>4, <2>1, <2>2, LettingGoCounts
  <1>7. CASE Keeps(t, {})
    <2>1. items' = items /\ doomed' = doomed
      BY <1>5, <1>7 DEF Keeps
    <2>2. ~ (Calling(t) /\ th[t].op = "add") /\ ~ (Calling(t)' /\ th'[t].op = "add")
      BY <1>1, <1>3 DEF Calling
    <2>3. QED  BY <1>1, <1>2, <1>3, <1>4, <2>1, <2>2, CallCounts
  <1>8. QED  BY <1>1, <1>6, <1>7

\* The caches of all threads are cleared.
LEMMA ClearAllCounts ==
  ASSUME IInv, Counted, NEW t \in Threads, ClearAll(t)
  PROVE  Counted'
  <1> DEFINE S == ItemsOf(instances)
  <1>1. /\ th[t].pc = "locked" /\ th[t].op = "clearAll" /\ held' = held /\ uses' = uses
        /\ th' = [th EXCEPT ![t] = Dropping(None)]
        /\ items' = [u \in Threads |-> IF u \in instances THEN {} ELSE items[u]]
        /\ doomed' = [doomed EXCEPT ![t] = @ \cup S]
    BY DEF ClearAll, Locked
  <1>2. /\ items \in [Threads -> SUBSET live] /\ doomed \in [Threads -> SUBSET live] /\ instances \in SUBSET Threads
        /\ \A u \in Threads : u \notin instances => items[u] = {}
    BY Caches
  <1>3. doomed[t] = {}
    BY <1>1, NothingToLetGo
  <1>4. th'[t].pc = "drop" /\ \A u \in Threads : u # t => th'[u] = th[u]
    BY <1>1, SectionEnds
  <1>5. \A i : i \in S <=> \E u \in Threads : i \in items[u]
    <2>1. \A i : i \in S <=> \E u \in instances : i \in items[u]
      BY DEF ItemsOf
    <2>2. QED  BY <1>2, <2>1
  <1>6. \A u \in Threads : items'[u] = {}
    BY <1>1, <1>2
  <1> HIDE DEF S
  <1>7. \A i : Making(i)' = Making(i)
    BY <1>1, <1>4, MakingKept DEF Calling
  <1>8. UsesExact'
    <2> DEFINE A == {}
    <2>1. uses' = [i \in Items |-> uses[i] + IF i \in A THEN 1 ELSE 0]
      <3>1. A = {}
        OBVIOUS
      <3> HIDE DEF A
      <3>2. uses = [i \in Items |-> uses[i] + IF i \in A THEN 1 ELSE 0]
        BY <3>1, UnchangedUses
      <3>3. QED  BY <1>1, <3>2
    <2>2. \A i \in Items : InAny(held', i) + Making(i)' = InAny(held, i) + Making(i)
      BY <1>1, <1>7
    <2>3. /\ \A i \in A : ~ \E u \in Threads : i \in items[u]
          /\ \A i \in S : \E u \in Threads : i \in items[u]
          /\ \A i : (\E u \in Threads : i \in items'[u]) <=> ((\E u \in Threads : i \in items[u]) /\ i \notin S) \/ i \in A
      BY <1>5, <1>6
    <2>4. doomed' = [doomed EXCEPT ![t] = doomed[t] \cup S] /\ S \cap doomed[t] = {}
      BY <1>1, <1>2, <1>3
    <2> HIDE DEF A
    <2>5. QED  BY <2>1, <2>2, <2>3, <2>4, MoveCounts
  <1>9. LetGoFirst'
    BY <1>1, <1>2, <1>4, LetGoKept
  <1>10. QED  BY <1>8, <1>9 DEF Counted

\* An object is found, or not: its Python object gets a pointer of its own.
LEMMA fetchCounts ==
  ASSUME IInv, Counted, NEW t \in Threads, fetch(t)
  PROVE  Counted'
  <1>1. /\ th[t].pc = "locked" /\ th[t].op = "fetch" /\ items' = items /\ doomed' = doomed
    BY DEF fetch, Locked
  <1>2. doomed[t] = {} /\ ~ (Calling(t) /\ th[t].op = "add")
    BY <1>1, NothingToLetGo DEF Calling
  <1>3. ASSUME NEW n \in Items \cup {None}, th' = [th EXCEPT ![t] = Dropping(n)]
        PROVE  /\ th'[t].pc = "drop" /\ ~ (Calling(t)' /\ th'[t].op = "add")
               /\ \A u \in Threads : u # t => th'[u] = th[u]
    <2>1. th'[t].pc = "drop" /\ \A u \in Threads : u # t => th'[u] = th[u]
      BY <1>3, SectionEnds
    <2>2. QED  BY <2>1 DEF Calling
  <1>4. ASSUME NEW i \in Unused(t, th[t].key), held' = [held EXCEPT ![t] = @ \cup {i}], Point({i}),
               th' = [th EXCEPT ![t] = Dropping(None)]
        PROVE  Counted'
    <2>1. /\ th'[t].pc = "drop" /\ ~ (Calling(t)' /\ th'[t].op = "add")
          /\ \A u \in Threads : u # t => th'[u] = th[u]
      BY <1>3, <1>4
    <2>2. \A j : Making(j)' = Making(j)
      BY <1>2, <2>1, MakingKept
    <2>3. \A u \in Threads : i \notin held[u]
      <3>1. i \notin Referenced
        BY <1>4, UnusedIs
      <3>2. QED  BY <3>1 DEF Referenced
    <2>4. \A j : (\E u \in Threads : j \in held'[u]) <=> (\E u \in Threads : j \in held[u]) \/ j = i
      BY <1>4 DEF IInv, TypeOK
    <2>5. ASSUME NEW j \in Items
          PROVE  uses'[j] = InAny(items', j) + InAny(held', j) + Cardinality(Letting(doomed', j)) + Making(j)'
      <3> DEFINE a == IF j = i THEN 1 ELSE 0
      <3>1. InAny(held', j) = InAny(held, j) + a
        BY <2>3, <2>4 DEF InAny
      <3>2. uses'[j] = uses[j] + a
        BY <1>4, <2>5 DEF Point
      <3>3. a \in Int
        OBVIOUS
      <3> HIDE DEF a
      <3>4. uses[j] = InAny(items, j) + InAny(held, j) + Cardinality(Letting(doomed, j)) + Making(j)
        BY <2>5, UsesAre
      <3>5. /\ InAny(items, j) \in Int /\ InAny(held, j) \in Int
            /\ Cardinality(Letting(doomed, j)) \in Int /\ Making(j) \in Int
        BY Numbers
      <3>6. QED  BY <1>1, <2>2, <3>1, <3>2, <3>3, <3>4, <3>5
    <2>6. uses' = [j \in Items |-> uses'[j]]
      BY <1>4 DEF Point
    <2>7. UsesExact'
      BY <2>5, <2>6, UsesFollow
    <2>8. LetGoFirst'
      BY <1>1, <2>1, LetGoKept
    <2>9. QED  BY <2>7, <2>8 DEF Counted
  <1>5. ASSUME held' = held, uses' = uses, th' = [th EXCEPT ![t] = Dropping(th[t].new)]
        PROVE  Counted'
    <2>1. th[t].new \in Items \cup {None}
      BY DEF IInv, TypeOK, CallType
    <2>2. /\ th'[t].pc = "drop" /\ ~ (Calling(t)' /\ th'[t].op = "add")
          /\ \A u \in Threads : u # t => th'[u] = th[u]
      BY <1>3, <1>5, <2>1
    <2>3. QED  BY <1>1, <1>2, <1>5, <2>2, CallCounts
  <1>6. \/ \E i \in Unused(t, th[t].key) :
             held' = [held EXCEPT ![t] = @ \cup {i}] /\ Point({i}) /\ th' = [th EXCEPT ![t] = Dropping(None)]
        \/ held' = held /\ uses' = uses /\ th' = [th EXCEPT ![t] = Dropping(th[t].new)]
    BY DEF fetch, IInv, TypeOK
  <1>7. QED  BY <1>4, <1>5, <1>6

\* A reference goes out of scope.
LEMMA DropCounts ==
  ASSUME IInv, Counted, NEW t \in Threads, Drop(t)
  PROVE  Counted'
  <1>1. th[t].pc = "drop" /\ items' = items /\ held' = held
    BY DEF Drop
  <1>2. PICK i \in doomed[t] :
          /\ doomed' = [doomed EXCEPT ![t] = @ \ {i}] /\ uses' = [uses EXCEPT ![i] = @ - 1]
          /\ th' = th \/ th' = [th EXCEPT ![t] = Locks("remove", KeyOf[i], @.new, 0)]
    BY Zenon DEF Drop
  <1>3. doomed \in [Threads -> SUBSET live] /\ th \in [Threads -> CallType] /\ i \in Items
    BY DEF IInv, TypeOK
  <1>4. /\ \A u \in Threads : u # t => th'[u] = th[u]
        /\ th'[t].pc = "drop" \/ (th'[t].pc = "lock" /\ th'[t].op = "remove")
    <2>1. CASE th' = th
      BY <1>1, <2>1
    <2>2. CASE th' = [th EXCEPT ![t] = Locks("remove", KeyOf[i], @.new, 0)]
      <3> DEFINE c == Locks("remove", KeyOf[i], th[t].new, 0)
      <3>1. c.pc = "lock" /\ c.op = "remove"
        BY DEF Locks
      <3>2. th' = [th EXCEPT ![t] = c]
        BY <1>3, <2>2
      <3> HIDE DEF c
      <3>3. QED  BY <1>3, <3>1, <3>2
    <2>3. QED  BY <1>2, <2>1, <2>2
  <1>5. ~ (Calling(t) /\ th[t].op = "add") /\ ~ (Calling(t)' /\ th'[t].op = "add")
    BY <1>1, <1>4 DEF Calling
  <1>6. \A j : Making(j)' = Making(j)
    BY <1>4, <1>5, MakingKept
  <1>7. \A u \in Threads : u # t => doomed'[u] = doomed[u]
    BY <1>2, <1>3
  <1>8. ASSUME NEW j \in Items
        PROVE  uses'[j] = InAny(items', j) + InAny(held', j) + Cardinality(Letting(doomed', j)) + Making(j)'
    <2> DEFINE e == doomed'
               a == IF j = i THEN 1 ELSE 0
    <2>1. uses'[j] = uses[j] - a
      <3>1. uses = [k \in Items |-> uses[k]] /\ \A k \in Items : uses[k] \in Int
        BY Numbers
      <3>2. QED  BY <1>2, <1>3, <1>8, <3>1
    <2>2. Cardinality(Letting(doomed, j)) \in Int
      BY Numbers
    <2>3. Cardinality(Letting(e, j)) = Cardinality(Letting(doomed, j)) - a
      <3>1. CASE j = i
        <4>1. Letting(e, j) = Letting(doomed, j) \ {t} /\ t \in Letting(doomed, j)
          BY <1>2, <1>3, <1>7, <3>1 DEF Letting
        <4>2. IsFiniteSet(Letting(doomed, j))
          BY LettingFinite
        <4> HIDE DEF e
        <4>3. Cardinality(Letting(e, j)) = Cardinality(Letting(doomed, j)) - 1
          BY <4>1, <4>2, FS_RemoveElement
        <4>4. QED  BY <3>1, <4>3
      <3>2. CASE j # i
        <4>1. Letting(e, j) = Letting(doomed, j)
          BY <1>2, <1>3, <1>7, <3>2 DEF Letting
        <4> HIDE DEF e
        <4>2. QED  BY <2>2, <3>2, <4>1
      <3>3. QED  BY <3>1, <3>2
    <2>4. a \in Int
      OBVIOUS
    <2> HIDE DEF a, e
    <2>5. uses[j] = InAny(items, j) + InAny(held, j) + Cardinality(Letting(doomed, j)) + Making(j)
      BY <1>8, UsesAre
    <2>6. InAny(items, j) \in Int /\ InAny(held, j) \in Int /\ Making(j) \in Int
      BY Numbers
    <2>7. uses'[j] = InAny(items', j) + InAny(held', j) + Cardinality(Letting(e, j)) + Making(j)'
      BY <1>1, <1>6, <2>1, <2>2, <2>3, <2>4, <2>5, <2>6
    <2>8. QED  BY <2>7 DEF e
  <1>9. uses' = [j \in Items |-> uses'[j]]
    <2>1. uses = [k \in Items |-> uses[k]]
      BY Numbers
    <2>2. QED  BY <1>2, <1>3, <2>1
  <1>10. UsesExact'
    BY <1>8, <1>9, UsesFollow
  <1>11. LetGoFirst'
    BY <1>4, <1>7, LetGoKept
  <1>12. QED  BY <1>10, <1>11 DEF Counted

\* The object a call makes, before and after it has a pointer of its own.
LEMMA MakingChanges ==
  ASSUME IInv, NEW t \in Threads, th[t].new # None, \A u \in Threads : u # t => th'[u] = th[u]
  PROVE  /\ ~ (Calling(t) /\ th[t].op = "add") /\ Calling(t)' /\ th'[t].op = "add" /\ th'[t].new = th[t].new =>
              \A j : Making(j)' = Making(j) + (IF j = th[t].new THEN 1 ELSE 0)
         /\ Calling(t) /\ th[t].op = "add" /\ ~ (Calling(t)' /\ th'[t].op = "add") =>
              \A j : Making(j)' = Making(j) - (IF j = th[t].new THEN 1 ELSE 0)
  <1>1. \A u \in Threads : u # t => th[u].new # th[t].new
    BY DEF IInv, NewUnowned
  <1>2. \A u \in Threads : \A j : u # t => (Makes(u, j)' <=> Makes(u, j)) /\ ~ Makes(u, th[t].new)
    BY <1>1 DEF Makes, Calling
  <1>3. ASSUME ~ (Calling(t) /\ th[t].op = "add"), Calling(t)', th'[t].op = "add", th'[t].new = th[t].new, NEW j
        PROVE  Making(j)' = Making(j) + (IF j = th[t].new THEN 1 ELSE 0)
    <2>1. ~ Makes(t, j) /\ (Makes(t, j)' <=> j = th[t].new)
      BY <1>3 DEF Makes
    <2>2. QED  BY <1>2, <2>1 DEF Making
  <1>4. ASSUME Calling(t), th[t].op = "add", ~ (Calling(t)' /\ th'[t].op = "add"), NEW j
        PROVE  Making(j)' = Making(j) - (IF j = th[t].new THEN 1 ELSE 0)
    <2>1. ~ Makes(t, j)' /\ (Makes(t, j) <=> j = th[t].new)
      BY <1>4 DEF Makes
    <2>2. QED  BY <1>2, <2>1 DEF Making
  <1>5. QED  BY <1>3, <1>4

\* The new object is constructed, with a pointer of the call.
LEMMA ConstructCounts ==
  ASSUME IInv, Counted, NEW t \in Threads, Construct(t)
  PROVE  Counted'
  <1> DEFINE c == Locks("add", None, th[t].new, 0)
  <1>1. /\ th[t].pc = "drop" /\ doomed[t] = {} /\ th[t].new # None /\ items' = items /\ held' = held /\ doomed' = doomed
        /\ uses' = [i \in Items |-> uses[i] + IF i \in {th[t].new} THEN 1 ELSE 0]
        /\ th' = [th EXCEPT ![t] = c]
    BY DEF Construct, Point, IInv, TypeOK
  <1>2. c.pc = "lock" /\ c.op = "add" /\ c.new = th[t].new
    BY DEF Locks
  <1> HIDE DEF c
  <1>3. th'[t] = c /\ \A u \in Threads : u # t => th'[u] = th[u]
    BY <1>1 DEF IInv, TypeOK
  <1>4. ~ (Calling(t) /\ th[t].op = "add") /\ Calling(t)' /\ th'[t].op = "add" /\ th'[t].new = th[t].new
    BY <1>1, <1>2, <1>3 DEF Calling
  <1>5. \A j : Making(j)' = Making(j) + (IF j = th[t].new THEN 1 ELSE 0)
    BY <1>1, <1>3, <1>4, MakingChanges
  <1>6. ASSUME NEW j \in Items
        PROVE  uses'[j] = InAny(items', j) + InAny(held', j) + Cardinality(Letting(doomed', j)) + Making(j)'
    <2> DEFINE a == IF j = th[t].new THEN 1 ELSE 0
    <2>1. uses'[j] = uses[j] + a /\ Making(j)' = Making(j) + a /\ a \in Int
      BY <1>1, <1>5, <1>6
    <2> HIDE DEF a
    <2>2. uses[j] = InAny(items, j) + InAny(held, j) + Cardinality(Letting(doomed, j)) + Making(j)
      BY <1>6, UsesAre
    <2>3. /\ InAny(items, j) \in Int /\ InAny(held, j) \in Int
          /\ Cardinality(Letting(doomed, j)) \in Int /\ Making(j) \in Int
      BY Numbers
    <2>4. QED  BY <1>1, <2>1, <2>2, <2>3
  <1>7. uses' = [j \in Items |-> uses'[j]]
    BY <1>1
  <1>8. UsesExact'
    BY <1>6, <1>7, UsesFollow
  <1>9. LetGoFirst'
    BY <1>1, <1>3, LetGoKept
  <1>10. QED  BY <1>8, <1>9 DEF Counted

\* The object is added: the call's pointer becomes that of the Python object.
LEMMA addCounts ==
  ASSUME IInv, Counted, NEW t \in Threads, add(t)
  PROVE  Counted'
  <1> DEFINE n == th[t].new
  <1>1. /\ th[t].pc = "locked" /\ th[t].op = "add" /\ held' = [held EXCEPT ![t] = @ \cup {n}]
        /\ th' = [th EXCEPT ![t] = Dropping(None)]
    BY DEF add, Locked
  <1>2. PICK A \in {{}, {n}} : Keeps(t, A) \/ Reset(t, A)
    <2>1. Keeps(t, {}) \/ Keeps(t, {n}) \/ Reset(t, {n})
      BY Zenon DEF add
    <2>2. QED  BY <2>1, Zenon
  <1>3. /\ doomed[t] = {} /\ n \in live /\ n # None
        /\ \A u \in Threads : n \notin items[u] /\ n \notin held[u]
    <2>1. doomed[t] = {} /\ n \in live
      BY <1>1, NothingToLetGo DEF IInv, Arguments, Calling
    <2>2. n # None
      BY <2>1, ItemsAssumption DEF IInv, TypeOK
    <2>3. QED  BY <2>1, <2>2 DEF IInv, NewUnowned
  <1>4. /\ items \in [Threads -> SUBSET live] /\ doomed \in [Threads -> SUBSET live] /\ held \in [Threads -> SUBSET live]
        /\ \A u, v \in Threads : u # v => items[u] \cap items[v] = {}
    BY Caches
  <1>5. th'[t].pc = "drop" /\ \A u \in Threads : u # t => th'[u] = th[u]
    BY <1>1, SectionEnds
  <1>6. \A j : Making(j)' = Making(j) - (IF j = n THEN 1 ELSE 0)
    <2>1. Calling(t) /\ ~ (Calling(t)' /\ th'[t].op = "add")
      BY <1>1, <1>5 DEF Calling
    <2>2. QED  BY <1>1, <1>3, <1>5, <2>1, MakingChanges
  <1>7. \A j : InAny(held', j) = InAny(held, j) + (IF j = n THEN 1 ELSE 0)
    <2>1. \A j : (\E u \in Threads : j \in held'[u]) <=> (\E u \in Threads : j \in held[u]) \/ j = n
      BY <1>1, <1>4
    <2>2. QED  BY <1>3, <2>1 DEF InAny
  <1>8. \A j \in Items : InAny(held', j) + Making(j)' = InAny(held, j) + Making(j)
    <2>1. ASSUME NEW j PROVE InAny(held', j) + Making(j)' = InAny(held, j) + Making(j)
      <3> DEFINE a == IF j = n THEN 1 ELSE 0
      <3>1. Making(j)' = Making(j) - a /\ InAny(held', j) = InAny(held, j) + a /\ a \in Int
        BY <1>6, <1>7
      <3> HIDE DEF a
      <3>2. Making(j) \in Int /\ InAny(held, j) \in Int
        BY Numbers
      <3>3. QED  BY <3>1, <3>2
    <2>2. QED  BY <2>1
  <1>9. /\ uses' = [i \in Items |-> uses[i] + IF i \in A THEN 1 ELSE 0]
        /\ \A i \in A : ~ \E u \in Threads : i \in items[u]
    BY <1>2, <1>3 DEF Keeps, Reset, Point
  <1> HIDE DEF n
  <1>10. CASE Keeps(t, A)
    <2> DEFINE S == {}
    <2>1. /\ items' = [items EXCEPT ![t] = @ \cup A] /\ doomed' = doomed
      BY <1>10 DEF Keeps
    <2>2. \A i : (\E u \in Threads : i \in items'[u]) <=> ((\E u \in Threads : i \in items[u]) /\ i \notin S) \/ i \in A
      BY <1>4, <2>1
    <2>3. doomed' = [doomed EXCEPT ![t] = doomed[t] \cup S] /\ S \cap doomed[t] = {}
      BY <1>4, <2>1
    <2>4. \A i \in S : \E u \in Threads : i \in items[u]
      OBVIOUS
    <2> HIDE DEF S
    <2>5. UsesExact'
      BY <1>8, <1>9, <2>2, <2>3, <2>4, MoveCounts
    <2>6. LetGoFirst'
      BY <1>5, <2>1, LetGoKept
    <2>7. QED  BY <2>5, <2>6 DEF Counted
  <1>11. CASE Reset(t, A)
    <2> DEFINE S == items[t]
    <2>1. items' = [items EXCEPT ![t] = A] /\ doomed' = [doomed EXCEPT ![t] = doomed[t] \cup S]
      BY <1>4, <1>11 DEF Reset
    <2>2. \A i : (\E u \in Threads : i \in items'[u]) <=> ((\E u \in Threads : i \in items[u]) /\ i \notin S) \/ i \in A
      <3>1. items'[t] = A /\ \A u \in Threads : u # t => items'[u] = items[u]
        BY <1>4, <2>1
      <3>2. \A u \in Threads : u # t => \A i \in items[u] : i \notin items[t]
        BY <1>4
      <3>3. QED  BY <3>1, <3>2
    <2>3. S \cap doomed[t] = {} /\ \A i \in S : \E u \in Threads : i \in items[u]
      BY <1>3
    <2> HIDE DEF S
    <2>4. UsesExact'
      BY <1>8, <1>9, <2>1, <2>2, <2>3, MoveCounts
    <2>5. LetGoFirst'
      BY <1>4, <1>5, <2>1, LetGoKept
    <2>6. QED  BY <2>4, <2>5 DEF Counted
  <1>12. QED  BY <1>2, <1>10, <1>11

\* Python code lets an object go: its pointer goes with the last reference.
LEMMA ForgetCounts ==
  ASSUME IInv, Counted, NEW t \in Threads, Forget(t)
  PROVE  Counted'
  <1>1. PICK i \in held[t] :
          /\ held' = [held EXCEPT ![t] = @ \ {i}]
          /\ doomed' = [doomed EXCEPT ![t] = {i} \ UNION {held[u] : u \in Threads \ {t}}]
    BY DEF Forget
  <1>2. th[t] = Idle /\ th' = [th EXCEPT ![t] = Dropping(None)] /\ uses' = uses /\ items' = items
    BY DEF Forget, Calls
  <1>3. held \in [Threads -> SUBSET live] /\ doomed \in [Threads -> SUBSET live] /\ i \in Items
    BY DEF IInv, TypeOK
  <1>4. th[t].pc = "idle" /\ doomed[t] = {}
    BY <1>2, CallForms, NothingToLetGo
  <1>5. th'[t].pc = "drop" /\ \A u \in Threads : u # t => th'[u] = th[u]
    BY <1>2, SectionEnds
  <1>6. \A j : Making(j)' = Making(j)
    BY <1>4, <1>5, MakingKept DEF Calling
  <1>7. \A u \in Threads : u # t => doomed'[u] = doomed[u] /\ held'[u] = held[u]
    BY <1>1, <1>3
  <1>8. held'[t] = held[t] \ {i} /\ doomed'[t] = {i} \ UNION {held[u] : u \in Threads \ {t}}
    BY <1>1, <1>3
  <1>9. \A j : j \in doomed'[t] <=> j = i /\ \A u \in Threads : u # t => i \notin held[u]
    BY <1>8
  <1>10. ASSUME NEW j \in Items
         PROVE  uses'[j] = InAny(items', j) + InAny(held', j) + Cardinality(Letting(doomed', j)) + Making(j)'
    <2> DEFINE e == doomed'
               a == IF j \in e[t] THEN 1 ELSE 0
    <2>1. InAny(held', j) = InAny(held, j) - a
      <3>1. (\E u \in Threads : j \in held'[u]) <=> (\E u \in Threads : j \in held[u]) /\ j \notin e[t]
        BY <1>1, <1>7, <1>8, <1>9
      <3>2. j \in e[t] => \E u \in Threads : j \in held[u]
        BY <1>1, <1>9
      <3>3. QED  BY <3>1, <3>2 DEF InAny
    <2>2. Cardinality(Letting(doomed, j)) \in Int
      BY Numbers
    <2>3. Cardinality(Letting(e, j)) = Cardinality(Letting(doomed, j)) + a
      <3>1. CASE j \in e[t]
        <4>1. Letting(e, j) = Letting(doomed, j) \cup {t} /\ t \notin Letting(doomed, j)
          BY <1>4, <1>7, <3>1 DEF Letting
        <4>2. IsFiniteSet(Letting(doomed, j))
          BY LettingFinite
        <4> HIDE DEF e
        <4>3. Cardinality(Letting(e, j)) = Cardinality(Letting(doomed, j)) + 1
          BY <4>1, <4>2, FS_AddElement
        <4>4. QED  BY <3>1, <4>3
      <3>2. CASE j \notin e[t]
        <4>1. Letting(e, j) = Letting(doomed, j)
          BY <1>4, <1>7, <3>2 DEF Letting
        <4> HIDE DEF e
        <4>2. QED  BY <2>2, <3>2, <4>1
      <3>3. QED  BY <3>1, <3>2
    <2>4. a \in Int
      OBVIOUS
    <2> HIDE DEF a, e
    <2>5. uses[j] = InAny(items, j) + InAny(held, j) + Cardinality(Letting(doomed, j)) + Making(j)
      BY <1>10, UsesAre
    <2>6. InAny(items, j) \in Int /\ InAny(held, j) \in Int /\ Making(j) \in Int
      BY Numbers
    <2>7. uses'[j] = InAny(items', j) + InAny(held', j) + Cardinality(Letting(e, j)) + Making(j)'
      BY <1>2, <1>6, <2>1, <2>2, <2>3, <2>4, <2>5, <2>6
    <2>8. QED  BY <2>7 DEF e
  <1>11. uses' = [j \in Items |-> uses'[j]]
    BY <1>2, Numbers
  <1>12. UsesExact'
    BY <1>10, <1>11, UsesFollow
  <1>13. LetGoFirst'
    BY <1>5, <1>7, LetGoKept
  <1>14. QED  BY <1>12, <1>13 DEF Counted

\* Python code shares an object: no pointer is made.
LEMMA ShareCounts ==
  ASSUME IInv, Counted, NEW t \in Threads, NEW u \in Threads, Share(t, u)
  PROVE  Counted'
  <1>1. /\ th' = th /\ items' = items /\ uses' = uses /\ doomed' = doomed
        /\ \E i \in held[t] : held' = [held EXCEPT ![u] = @ \cup {i}]
    BY DEF Share
  <1>2. \A j : InAny(held', j) = InAny(held, j)
    <2>1. \A j : (\E v \in Threads : j \in held'[v]) <=> (\E v \in Threads : j \in held[v])
      BY <1>1, Caches
    <2>2. QED  BY <2>1 DEF InAny
  <1>3. \A j : Making(j)' = Making(j)
    BY <1>1 DEF Making, Makes, Calling
  <1>4. \A j \in Items : uses'[j] = InAny(items', j) + InAny(held', j) + Cardinality(Letting(doomed', j)) + Making(j)'
    BY <1>1, <1>2, <1>3, UsesAre
  <1>5. uses' = [j \in Items |-> uses'[j]]
    BY <1>1, Numbers
  <1>6. UsesExact'
    BY <1>4, <1>5, UsesFollow
  <1>7. LetGoFirst'
    BY <1>1 DEF Counted, LetGoFirst, Calling
  <1>8. QED  BY <1>6, <1>7 DEF Counted

-----------------------------------------------------------------------------
(* The specification *)

\* The invariant holds initially.
LEMMA InitIInv == Init => IInv
  <1> SUFFICES ASSUME Init PROVE IInv
    OBVIOUS
  <1>1. /\ gil = None /\ mtx = None /\ th = [t \in Threads |-> Idle] /\ items = [t \in Threads |-> {}]
        /\ instances = Threads /\ limit \in Limits /\ current = 0 /\ live = {}
        /\ held = [t \in Threads |-> {}] /\ doomed = [t \in Threads |-> {}]
    BY DEF Init
  <1>2. drifted \in BOOLEAN
    BY DEF Init
  <1>3. th \in [Threads -> CallType] /\ \A t \in Threads : th[t].pc = "idle" /\ th[t].new = None
    BY <1>1, CallForms
  <1>4. TypeOK
    BY <1>1, <1>2, <1>3 DEF TypeOK
  <1>5. MutexInside /\ UnderGIL /\ Arguments /\ NewUnowned
    BY <1>1, <1>3, ItemsAssumption DEF MutexInside, UnderGIL, Arguments, Calling, NewUnowned
  <1>6. OneCache /\ Exited
    BY <1>1 DEF OneCache, Exited
  <1>7. Total = 0
    <2>1. ItemsOf(instances) = {}
      BY <1>1 DEF ItemsOf
    <2>2. QED  BY <2>1, BytesOfOne DEF Total
  <1>8. SizeTracked /\ LimitKept
    BY <1>1, <1>7, LimitsAssumption DEF SizeTracked, LimitKept
  <1>9. QED  BY <1>4, <1>5, <1>6, <1>8 DEF IInv

\* No item has a pointer at first.
LEMMA InitCounted == Init => Counted
  <1> SUFFICES ASSUME Init PROVE Counted
    OBVIOUS
  <1>1. /\ \A t \in Threads : th[t].pc = "idle" /\ items[t] = {} /\ held[t] = {} /\ doomed[t] = {}
        /\ uses = [i \in Items |-> 0]
    BY CallForms DEF Init
  <1>2. ASSUME NEW i \in Items PROVE Pointers(i) = 0
    <2>1. InAny(items, i) = 0 /\ InAny(held, i) = 0 /\ Making(i) = 0
      BY <1>1 DEF InAny, Making, Makes, Calling
    <2>2. Letting(doomed, i) = {}
      BY <1>1 DEF Letting
    <2>3. Cardinality(Letting(doomed, i)) = 0
      BY <2>2, FS_EmptySet
    <2>4. Pointers(i) = InAny(items, i) + InAny(held, i) + Cardinality(Letting(doomed, i)) + Making(i)
      BY PointersAre
    <2>5. QED  BY <2>1, <2>3, <2>4
  <1>3. UsesExact
    BY <1>1, <1>2 DEF UsesExact
  <1>4. LetGoFirst
    BY <1>1 DEF LetGoFirst
  <1>5. QED  BY <1>3, <1>4 DEF Counted

\* Every step keeps the count exact.
LEMMA NextCounted == IInv /\ Counted /\ [Next]_vars => Counted'
  <1> SUFFICES ASSUME IInv, Counted, [Next]_vars PROVE Counted'
    OBVIOUS
  <1>1. CASE UNCHANGED vars
    <2>1. th' = th /\ items' = items /\ held' = held /\ doomed' = doomed /\ uses' = uses
      BY <1>1 DEF vars
    <2>2. Counted' <=> Counted
      BY <2>1 DEF Counted, UsesExact, Pointers, ItemsOf, Makes, LetGoFirst, Calling
    <2>3. QED  BY <2>2
  <1>2. CASE Next
    <2>1. PICK t \in Threads : Python(t) \/ Step(t) \/ Switch(t) \/ TakeGIL(t) \/ ThreadEnds(t)
      BY <1>2 DEF Next
    <2>2. CASE Python(t)
      BY <2>2, PythonCounts, clearCounts, ForgetCounts, ShareCounts DEF Python
    <2>3. CASE Step(t)
      <3>1. CASE Section(t)
        BY <3>1, fetchCounts, removeCounts, addCounts, setCacheLimitCounts, ClearAllCounts, clearCounts DEF Section
      <3>2. QED  BY <2>3, <3>1, GoingOnCounts, DropCounts, ConstructCounts DEF Step
    <2>4. CASE Switch(t) \/ TakeGIL(t) \/ ThreadEnds(t)
      BY <2>4, GoingOnCounts, PythonCounts
    <2>5. QED  BY <2>1, <2>2, <2>3, <2>4
  <1>3. QED  BY <1>1, <1>2

\* Every step keeps the invariant.
LEMMA NextIInv == IInv /\ Counted /\ [Next]_vars => IInv'
  <1> SUFFICES ASSUME IInv, Counted, [Next]_vars PROVE IInv'
    OBVIOUS
  <1>1. CASE UNCHANGED vars
    <2>1. /\ gil' = gil /\ mtx' = mtx /\ th' = th /\ items' = items /\ instances' = instances /\ UNCHANGED sizes
          /\ limit' = limit /\ current' = current /\ drifted' = drifted
          /\ live' = live /\ held' = held /\ doomed' = doomed
      BY <1>1 DEF vars, locks, sizes
    <2>2. TypeOK'
      BY <2>1 DEF IInv, TypeOK
    <2>3. MutexInside' /\ UnderGIL' /\ Arguments' /\ OneCache' /\ Exited'
      BY <2>1 DEF IInv, MutexInside, UnderGIL, Arguments, Calling, OneCache, Exited
    <2>4. NewUnowned'
      BY <2>1 DEF IInv, NewUnowned
    <2>5. QED  BY <2>1, <2>2, <2>3, <2>4, SizesKept DEF IInv
  <1>2. CASE Next
    <2>1. PICK t \in Threads : Python(t) \/ Step(t) \/ Switch(t) \/ TakeGIL(t) \/ ThreadEnds(t)
      BY <1>2 DEF Next
    <2>2. CASE Python(t)
      BY <2>2, PythonCallStep, clearStep, ShareStep DEF Python
    <2>3. CASE Step(t)
      <3>1. CASE Section(t)
        BY <3>1, fetchStep, removeStep, addStep, setCacheLimitStep, ClearAllStep, CacheDtorStep DEF Section
      <3>2. QED  BY <2>3, <3>1, LockStep, DropStep, ConstructStep, ReturnStep DEF Step
    <2>4. CASE Switch(t) \/ TakeGIL(t) \/ ThreadEnds(t)
      BY <2>4, GILStep, ThreadEndsStep
    <2>5. QED  BY <2>1, <2>2, <2>3, <2>4
  <1>3. QED  BY <1>1, <1>2

\* The invariant of the cache.
LEMMA CacheIInv == Spec => [](IInv /\ Counted)
  <1>1. QED  BY InitIInv, InitCounted, NextIInv, NextCounted, PTL DEF Spec

\* Type correctness; what caches, Python code and calls refer to is never an
\* object that ~CacheItem has destroyed.
THEOREM ObjectCacheTyping == Spec => []TypeOK
  <1>1. IInv => TypeOK
    BY DEF IInv
  <1>2. QED  BY <1>1, CacheIInv, PTL

\* doGetTotalSizeInBytes, whatever threads add, fetch, remove and end: the
\* size is that of all items, unless clear or a reset over other threads' items
\* made it wrong.
THEOREM SizeIsTracked == Spec => []SizeTracked
  <1>1. IInv => SizeTracked
    BY DEF IInv
  <1>2. QED  BY <1>1, CacheIInv, PTL

\* Cache::add and setCacheLimit keep the caches of all threads together within
\* the limit, as long as the size is right.
THEOREM LimitIsKept == Spec => []LimitKept
  <1>1. IInv => LimitKept
    BY DEF IInv
  <1>2. QED  BY <1>1, CacheIInv, PTL

\* The thread with the GIL goes on, or waits for the mutex of another that
\* does: also when a destructor calls the cache again, or a thread ends.
THEOREM NoThreadsAwaitEachOther == Spec => []NoWaitCycle
  <1>1. IInv => NoWaitCycle
    <2>1. SUFFICES ASSUME IInv, NEW t \in Threads, gil = t
                   PROVE  Unblocked(t) \/ (th[t].pc = "lock" /\ mtx \in Threads \ {t} /\ Unblocked(mtx))
      BY DEF NoWaitCycle
    <2>2. /\ \A u \in Threads : (mtx = u <=> th[u].pc = "locked") /\ (th[u].pc = "locked" => Unblocked(u))
          /\ mtx \in Threads \cup {None}
      BY <2>1 DEF IInv, MutexInside, Arguments, Calling, Unblocked, TypeOK
    <2>3. th[t].pc \in {"lock", "locked", "drop"}
      BY <2>1 DEF IInv, UnderGIL, Calling
    <2>4. CASE th[t].pc = "lock"
      <3>1. CASE mtx = None
        BY <2>1, <2>4, <3>1 DEF Unblocked
      <3>2. CASE mtx \in Threads
        <4>1. th[mtx].pc = "locked" /\ Unblocked(mtx)
          BY <2>2, <3>2
        <4>2. QED  BY <2>4, <3>2, <4>1
      <3>3. QED  BY <2>2, <3>1, <3>2
    <2>5. CASE th[t].pc # "lock"
      BY <2>1, <2>2, <2>3, <2>5 DEF Unblocked
    <2>6. QED  BY <2>4, <2>5
  <1>2. QED  BY <1>1, CacheIInv, PTL

\* The use_count that isInUse compares, through copies, shared Python objects,
\* clears and destructors half way: the shared pointers there are.
THEOREM UseCountIsExact == Spec => []UsesExact
  <1>1. Counted => UsesExact
    BY DEF Counted
  <1>2. QED  BY <1>1, CacheIInv, PTL

\* While a call is inside fetch or removes, only it goes on, and threads end.
LEMMA OnlySectionGoesOn ==
  ASSUME IInv, Next, NEW t \in Threads, th[t].pc = "locked", th[t].op \in {"fetch", "remove"}
  PROVE  fetch(t) \/ removeAllNotInUseMatching(t) \/ \E u \in Threads : u # t /\ ThreadEnds(u)
  <1>1. /\ gil = t /\ mtx = t /\ t # None /\ \A u \in Threads : th[u].pc = "locked" => u = t
    <2>1. mtx = t /\ \A u \in Threads : th[u].pc = "locked" => mtx = u
      BY DEF IInv, MutexInside
    <2>2. gil = t
      BY DEF IInv, UnderGIL, Calling
    <2>3. QED  BY <2>1, <2>2, ItemsAssumption
  <1>2. PICK u \in Threads : Python(u) \/ Step(u) \/ Switch(u) \/ TakeGIL(u) \/ ThreadEnds(u)
    BY DEF Next
  <1>3. ~ Python(u)
    <2>1. gil # None
      BY <1>1
    <2>2. QED  BY <2>1 DEF Python, Create, SetLimit, CallClearAll, clear, Forget, Share, Calls
  <1>4. ~ (Lock(u) \/ Drop(u) \/ Construct(u) \/ Return(u) \/ Switch(u) \/ TakeGIL(u))
    <2>1. ~ Lock(u) /\ ~ TakeGIL(u)
      BY <1>1 DEF Lock, TakeGIL
    <2>2. ASSUME gil = u, th[u].pc = "drop" PROVE FALSE
      BY <1>1, <2>2
    <2>3. QED  BY <2>1, <2>2 DEF Drop, Construct, Return, Switch
  <1>5. CASE Section(u)
    <2>1. u = t
      BY <1>1, <1>5 DEF Section, fetch, removeAllNotInUseMatching, add, setCacheLimit, ClearAll, CacheDtor, Locked
    <2>2. QED  BY <1>5, <2>1 DEF Section, add, setCacheLimit, ClearAll, CacheDtor, Locked
  <1>6. CASE ThreadEnds(u)
    <2>1. th[u].pc = "idle"
      BY <1>6, CallForms DEF ThreadEnds
    <2>2. QED  BY <1>6, <2>1
  <1>7. QED  BY <1>2, <1>3, <1>4, <1>5, <1>6 DEF Step

\* Cache::fetch and removeAllNotInUseMatching take use_count() > 2 for use:
\* fetch hands out an object that no thread's code and no call refers to, and
\* none only if there is none; removing takes all of those and no other.
THEOREM FetchedIsExclusive == Spec => FetchedExclusive
  <1> DEFINE A == \A t \in Threads: th[t].pc = "locked" /\ th'[t] # th[t] =>
                    /\ th[t].op = "fetch" =>
                          IF Free(t) = {} THEN held' = held /\ th'[t].new = th[t].new
                                          ELSE \E i \in Free(t): held' = [held EXCEPT ![t] = @ \cup {i}]
                    /\ th[t].op = "remove" => items' = [items EXCEPT ![t] = @ \ Free(t)]
  <1>1. ASSUME IInv, Counted, Next
        PROVE  A
    <2>1. SUFFICES ASSUME NEW t \in Threads, th[t].pc = "locked", th'[t] # th[t]
                   PROVE  /\ th[t].op = "fetch" =>
                                IF Free(t) = {} THEN held' = held /\ th'[t].new = th[t].new
                                                ELSE \E i \in Free(t) : held' = [held EXCEPT ![t] = @ \cup {i}]
                          /\ th[t].op = "remove" => items' = [items EXCEPT ![t] = @ \ Free(t)]
      OBVIOUS
    <2>2. Unused(t, th[t].key) = Free(t)
      BY <1>1, UnusedIs DEF Free
    <2>3. ASSUME th[t].op \in {"fetch", "remove"}
          PROVE  fetch(t) \/ removeAllNotInUseMatching(t)
      <3>1. ASSUME NEW u \in Threads, u # t, ThreadEnds(u) PROVE FALSE
        <4>1. th'[t] = th[t]
          BY <1>1, <3>1 DEF ThreadEnds, IInv, TypeOK
        <4>2. QED  BY <2>1, <4>1
      <3>2. QED  BY <1>1, <2>1, <2>3, <3>1, OnlySectionGoesOn
    <2>4. ASSUME th[t].op = "fetch"
          PROVE  IF Free(t) = {} THEN held' = held /\ th'[t].new = th[t].new
                                 ELSE \E i \in Free(t) : held' = [held EXCEPT ![t] = @ \cup {i}]
      <3>1. fetch(t)
        BY <2>3, <2>4 DEF removeAllNotInUseMatching, Locked
      <3>2. \/ \E i \in Free(t) : held' = [held EXCEPT ![t] = @ \cup {i}]
            \/ Free(t) = {} /\ held' = held /\ th' = [th EXCEPT ![t] = Dropping(@.new)]
        BY <2>2, <3>1 DEF fetch
      <3>3. CASE Free(t) = {} /\ held' = held /\ th' = [th EXCEPT ![t] = Dropping(@.new)]
        <4>1. th[t].new \in Items \cup {None} /\ th' = [th EXCEPT ![t] = Dropping(th[t].new)]
          BY <1>1, <3>3 DEF IInv, TypeOK, CallType
        <4>2. th'[t].new = th[t].new
          BY <1>1, <4>1, SectionEnds
        <4>3. QED  BY <3>3, <4>2
      <3>4. QED  BY <3>2, <3>3
    <2>5. ASSUME th[t].op = "remove"
          PROVE  items' = [items EXCEPT ![t] = @ \ Free(t)]
      <3>1. removeAllNotInUseMatching(t)
        BY <2>3, <2>5 DEF fetch, Locked
      <3>2. QED  BY <2>2, <3>1 DEF removeAllNotInUseMatching
    <2>6. QED  BY <2>4, <2>5
  <1>2. IInv /\ Counted /\ [Next]_vars => [A]_vars
    BY <1>1
  <1>3. Spec => [][A]_vars
    BY <1>2, CacheIInv, PTL DEF Spec
  <1>4. QED  BY <1>3 DEF FetchedExclusive
==============================================================================
