--------------------------- MODULE WorkspaceProofs ---------------------------
(***************************************************************************)
(* Workspaces, for any number of blocks, streams, threads, requirements    *)
(* and jobs, and for each kind of memory: a leased block is in one place   *)
(* and used by one job at a time, only blocks out of use are shared or     *)
(* freed, and a new block is allocated only if no cached one would do.     *)
(* Inside a workspace, for all sizes, addresses and alignments of which    *)
(* each divides the larger ones: buffers do not overlap, and a call that   *)
(* keeps to its estimate never finds the workspace too small.              *)
(***************************************************************************)
EXTENDS WorkspaceCache, WorkspaceAllocator, FiniteSetTheorems, SequenceTheorems, WellFoundedInduction, TLAPS

-----------------------------------------------------------------------------
(* Searching a list *)

\* The binary search ends between an item that is not ready and one that is,
\* whether or not the list is in order.
LEMMA BisectFacts ==
  ASSUME NEW l, Len(l) \in Nat, Len(l) >= 1
  PROVE  /\ bisect(l) \in 0 .. Len(l) - 1
         /\ bisect(l) # Len(l) - 1 => Ready(tmp(l, bisect(l)))
         /\ bisect(l) # 0 => ~ Ready(tmp(l, bisect(l) - 1))
  <1> DEFINE n == Len(l)
             D == (0 .. n) \X (0 .. n)
             Mid(r) == (r[1] + r[2]) \div 2
             Body(f, r) == IF r[1] >= r[2] THEN Mid(r)
                           ELSE IF Ready(tmp(l, Mid(r))) THEN f[<<r[1], Mid(r)>>] ELSE f[<<Mid(r) + 1, r[2]>>]
             Good(f, k) == \A r \in D : r[2] - r[1] <= k => f[r] = Body(f, r)
             Bad == {k \in Nat : ~ \E f : Good(f, k)}
  <1>1. \A r \in D : r[1] \in 0 .. n /\ r[2] \in 0 .. n
    OBVIOUS
  <1>2. \A r \in D : r[1] < r[2] => /\ Mid(r) \in 0 .. n /\ r[1] <= Mid(r) /\ Mid(r) < r[2] /\ Mid(r) + 1 \in 0 .. n
                                    /\ <<r[1], Mid(r)>> \in D /\ <<Mid(r) + 1, r[2]>> \in D
    <2> SUFFICES ASSUME NEW r \in D, r[1] < r[2]
                 PROVE  /\ Mid(r) \in 0 .. n /\ r[1] <= Mid(r) /\ Mid(r) < r[2] /\ Mid(r) + 1 \in 0 .. n
                        /\ <<r[1], Mid(r)>> \in D /\ <<Mid(r) + 1, r[2]>> \in D
      OBVIOUS
    <2>1. r[1] \in Nat /\ r[2] \in Nat /\ r[2] <= n
      BY <1>1
    <2>2. \A a, b \in Nat : a < b => (a + b) \div 2 \in Nat /\ a <= (a + b) \div 2 /\ (a + b) \div 2 < b
      OBVIOUS
    <2>3. Mid(r) \in Nat /\ r[1] <= Mid(r) /\ Mid(r) < r[2]
      BY <2>1, <2>2
    <2> HIDE DEF Mid
    <2>4. Mid(r) \in 0 .. n /\ Mid(r) + 1 \in 0 .. n
      BY <2>1, <2>3
    <2>5. QED  BY <1>1, <2>3, <2>4
  <1>3. \A r \in D : r[1] = r[2] => Mid(r) = r[1]
    <2>1. \A a \in Nat : (a + a) \div 2 = a
      OBVIOUS
    <2>2. QED  BY <1>1, <2>1
  <1> HIDE DEF Mid, D
  <1>4. Bad = {}
    <2> SUFFICES ASSUME Bad # {} PROVE FALSE
      OBVIOUS
    <2>1. PICK k \in Bad : \A j \in Bad : ~ (<<j, k>> \in OpToRel(<, Nat))
      BY WFMin, NatLessThanWellFounded
    <2>2. k \in Nat /\ \A j \in Nat : j < k => j \notin Bad
      BY <2>1 DEF OpToRel
    <2>3. CASE k = 0
      <3> DEFINE f == [r \in D |-> Mid(r)]
      <3>1. ASSUME NEW r \in D, r[2] - r[1] <= 0 PROVE f[r] = Body(f, r)
        <4>1. r[1] \in 0 .. n /\ r[2] \in 0 .. n
          BY <1>1
        <4>2. r[1] >= r[2]
          <5>1. \A a, b \in 0 .. n : b - a <= 0 => a >= b
            OBVIOUS
          <5>2. QED  BY <3>1, <4>1, <5>1
        <4>3. QED  BY <4>2
      <3>2. QED  BY <2>2, <2>3, <3>1
    <2>4. CASE k # 0
      <3>1. k - 1 \in Nat /\ k - 1 < k
        BY <2>2, <2>4
      <3>2. PICK g : Good(g, k - 1)
        BY <2>2, <3>1
      <3> DEFINE f == [r \in D |-> Body(g, r)]
      <3>3. \A r \in D : f[r] = Body(g, r)
        OBVIOUS
      <3>4. \A r \in D : r[2] - r[1] <= k - 1 => f[r] = g[r]
        BY <3>2, <3>3
      <3> HIDE DEF f, Good
      <3>5. ASSUME NEW r \in D, r[2] - r[1] <= k PROVE f[r] = Body(f, r)
        <4>1. CASE r[1] >= r[2]
          BY <3>3, <4>1
        <4>2. CASE r[1] < r[2]
          <5>1. /\ <<r[1], Mid(r)>> \in D /\ <<Mid(r) + 1, r[2]>> \in D
                /\ Mid(r) - r[1] <= k - 1 /\ r[2] - (Mid(r) + 1) <= k - 1
            <6>1. /\ r[1] \in 0 .. n /\ r[2] \in 0 .. n /\ Mid(r) \in 0 .. n /\ r[1] <= Mid(r) /\ Mid(r) < r[2]
                  /\ <<r[1], Mid(r)>> \in D /\ <<Mid(r) + 1, r[2]>> \in D
              BY <1>1, <1>2, <4>2
            <6>2. r[1] \in Nat /\ r[2] \in Nat /\ Mid(r) \in Nat
              BY <6>1
            <6>3. QED  BY <2>2, <3>5, <6>1, <6>2, SMTT(60)
          <5>2. f[<<r[1], Mid(r)>>] = g[<<r[1], Mid(r)>>] /\ f[<<Mid(r) + 1, r[2]>>] = g[<<Mid(r) + 1, r[2]>>]
            BY <3>4, <5>1
          <5>3. QED  BY <3>3, <5>2
        <4>3. QED  BY <1>1, <4>1, <4>2
      <3>6. Good(f, k)
        BY <3>5 DEF Good
      <3>7. QED  BY <2>2, <3>6
    <2>5. QED  BY <2>3, <2>4
  <1> DEFINE F == CHOOSE f : f = [r \in D |-> Body(f, r)]
  <1>5. F = [r \in D |-> Body(F, r)]
    <2>1. PICK f : Good(f, n)
      BY <1>4
    <2> DEFINE g == [r \in D |-> f[r]]
    <2>2. ASSUME NEW r \in D PROVE g[r] = Body(g, r)
      <3>1. f[r] = Body(f, r)
        BY <1>1, <2>1
      <3>2. r[1] < r[2] => <<r[1], Mid(r)>> \in D /\ <<Mid(r) + 1, r[2]>> \in D
        BY <1>2
      <3>3. r[1] >= r[2] \/ r[1] < r[2]
        BY <1>1
      <3>4. QED  BY <3>1, <3>2, <3>3
    <2>3. g = [r \in D |-> Body(g, r)]
      <3>1. g = [r \in D |-> g[r]]
        OBVIOUS
      <3> HIDE DEF g
      <3>2. QED  BY <2>2, <3>1
    <2>4. \E f2 : f2 = [r \in D |-> Body(f2, r)]
      BY <2>3
    <2>5. QED  BY <2>4
  <1>6. bisect(l) = F[<<0, n - 1>>]
    BY DEF bisect, D, Mid
  <1>7. \A r \in D : F[r] = Body(F, r)
    BY <1>5
  <1> HIDE DEF F, Bad, Good
  <1> DEFINE Right(r, v) == /\ v \in r[1] .. r[2]
                            /\ v # r[2] => Ready(tmp(l, v))
                            /\ v # r[1] => ~ Ready(tmp(l, v - 1))
             Wrong == {k \in Nat : \E r \in D : r[1] <= r[2] /\ r[2] - r[1] = k /\ ~ Right(r, F[r])}
  <1>8. Wrong = {}
    <2> SUFFICES ASSUME Wrong # {} PROVE FALSE
      OBVIOUS
    <2>1. PICK k \in Wrong : \A j \in Wrong : ~ (<<j, k>> \in OpToRel(<, Nat))
      BY WFMin, NatLessThanWellFounded
    <2>2. k \in Nat /\ \A j \in Nat : j < k => j \notin Wrong
      BY <2>1 DEF OpToRel
    <2>3. PICK r \in D : r[1] <= r[2] /\ r[2] - r[1] = k /\ ~ Right(r, F[r])
      OBVIOUS
    <2>4. r[1] \in Nat /\ r[2] \in Nat /\ r[2] <= n
      BY <1>1
    <2>5. r[1] < r[2]
      <3>1. CASE r[1] = r[2]
        <4>1. F[r] = Mid(r) /\ Mid(r) = r[1]
          <5>1. F[r] = Body(F, r)
            BY <1>7
          <5>2. r[1] >= r[2]
            BY <2>4, <3>1
          <5>3. QED  BY <1>3, <3>1, <5>1, <5>2
        <4>2. Right(r, F[r])
          BY <2>4, <3>1, <4>1
        <4>3. QED  BY <2>3, <4>2
      <3>2. QED  BY <2>3, <2>4, <3>1
    <2>6. /\ Mid(r) \in Nat /\ r[1] <= Mid(r) /\ Mid(r) < r[2]
          /\ <<r[1], Mid(r)>> \in D /\ <<Mid(r) + 1, r[2]>> \in D
      BY <1>2, <2>5
    <2>7. CASE Ready(tmp(l, Mid(r)))
      <3> DEFINE q == <<r[1], Mid(r)>>
      <3>1. F[r] = F[q]
        <4>1. F[r] = Body(F, r) /\ ~ (r[1] >= r[2])
          BY <1>7, <2>4, <2>5
        <4>2. QED  BY <2>7, <4>1
      <3>2. q \in D /\ q[1] = r[1] /\ q[2] = Mid(r)
        BY <2>6
      <3>3. q[1] <= q[2] /\ q[2] - q[1] \in Nat /\ q[2] - q[1] < k
        BY <2>3, <2>4, <2>6
      <3> HIDE DEF q
      <3>4. Right(q, F[q])
        BY <2>2, <3>2, <3>3
      <3>5. Right(r, F[r])
        BY <2>4, <2>6, <2>7, <3>1, <3>2, <3>4
      <3>6. QED  BY <2>3, <3>5
    <2>8. CASE ~ Ready(tmp(l, Mid(r)))
      <3> DEFINE q == <<Mid(r) + 1, r[2]>>
      <3>1. F[r] = F[q]
        <4>1. F[r] = Body(F, r) /\ ~ (r[1] >= r[2])
          BY <1>7, <2>4, <2>5
        <4>2. QED  BY <2>8, <4>1
      <3>2. q \in D /\ q[1] = Mid(r) + 1 /\ q[2] = r[2]
        BY <2>6
      <3>3. q[1] <= q[2] /\ q[2] - q[1] \in Nat /\ q[2] - q[1] < k
        BY <2>3, <2>4, <2>6
      <3> HIDE DEF q
      <3>4. Right(q, F[q])
        BY <2>2, <3>2, <3>3
      <3>5. F[q] = q[1] => F[q] - 1 = Mid(r)
        BY <2>6, <3>2
      <3>6. Right(r, F[r])
        BY <2>4, <2>6, <2>8, <3>1, <3>2, <3>4, <3>5
      <3>7. QED  BY <2>3, <3>6
    <2>9. QED  BY <2>7, <2>8
  <1>9. <<0, n - 1>> \in D
    BY DEF D
  <1>10. Right(<<0, n - 1>>, F[<<0, n - 1>>])
    <2>1. n - 1 \in Nat /\ 0 <= n - 1 /\ (n - 1) - 0 \in Nat
      OBVIOUS
    <2>2. QED  BY <1>8, <1>9, <2>1
  <1>11. QED  BY <1>6, <1>10

\* The item found is ready and the one after it is not.
LEMMA FindFacts ==
  ASSUME NEW l \in Seq(Mems)
  PROVE  /\ findNewestReady(l) \in 0 .. Len(l)
         /\ findNewestReady(l) # 0 => Ready(l[findNewestReady(l)])
         /\ findNewestReady(l) # Len(l) => ~ Ready(l[findNewestReady(l) + 1])
  <1> DEFINE n == Len(l)
             f == findNewestReady(l)
  <1>1. n \in Nat /\ (l = << >> <=> n = 0)
    BY LenProperties, EmptySeq
  <1>2. CASE l = << >>
    <2>1. f = 0
      BY <1>2 DEF findNewestReady
    <2>2. QED  BY <1>1, <1>2, <2>1
  <1>3. CASE l # << >> /\ Ready(l[n])
    <2>1. f = n
      BY <1>3 DEF findNewestReady
    <2>2. QED  BY <1>1, <1>3, <2>1
  <1>4. CASE l # << >> /\ ~ Ready(l[n]) /\ ~ Ready(l[1])
    <2>1. f = 0
      BY <1>4 DEF findNewestReady
    <2>2. QED  BY <1>1, <1>4, <2>1
  <1>5. CASE l # << >> /\ ~ Ready(l[n]) /\ Ready(l[1])
    <2>1. f = n - 1 - bisect(l)
      BY <1>5 DEF findNewestReady
    <2>2. n >= 1
      BY <1>1, <1>5
    <2>3. /\ bisect(l) \in 0 .. n - 1
          /\ bisect(l) # n - 1 => Ready(l[n - 1 - bisect(l)])
          /\ bisect(l) # 0 => ~ Ready(l[n - 1 - (bisect(l) - 1)])
      BY <1>1, <2>2, BisectFacts DEF tmp
    <2>4. n - 1 - (bisect(l) - 1) = f + 1 /\ f \in 0 .. n /\ (f # 0 => bisect(l) # n - 1)
          /\ (bisect(l) = 0 => f + 1 = n)
      BY <1>1, <2>1, <2>3
    <2> HIDE DEF f
    <2>5. f # 0 => Ready(l[f])
      BY <2>1, <2>3, <2>4
    <2>6. ~ Ready(l[f + 1])
      <3>1. CASE bisect(l) = 0
        BY <1>5, <2>4, <3>1
      <3>2. CASE bisect(l) # 0
        BY <2>3, <2>4, <3>2
      <3>3. QED  BY <3>1, <3>2
    <2>7. QED  BY <2>4, <2>5, <2>6 DEF f
  <1>6. QED  BY <1>2, <1>3, <1>4, <1>5

-----------------------------------------------------------------------------
(* Removing items from a list *)

\* s is l without some of its items.
Thinned(s, l) ==
    /\ \A a \in DOMAIN s : \E p \in DOMAIN l : s[a] = l[p]
    /\ \A a, b \in DOMAIN s : a < b => \E p, q \in DOMAIN l : p < q /\ s[a] = l[p] /\ s[b] = l[q]

\* Items that stay are still listed once, and in order.
LEMMA ThinnedKeeps ==
  ASSUME NEW l \in Seq(Mems), NEW s \in Seq(Mems), IsInjective(l), Thinned(s, l)
  PROVE  /\ IsInjective(s) /\ ToSet(s) \subseteq ToSet(l)
         /\ InOrder(l) => InOrder(s)
  <1>1. /\ DOMAIN l = 1 .. Len(l) /\ DOMAIN s = 1 .. Len(s) /\ Len(l) \in Nat /\ Len(s) \in Nat
    BY LenProperties
  <1>2. ToSet(s) \subseteq ToSet(l)
    BY DEF ToSet, Thinned
  <1>3. ASSUME NEW a \in DOMAIN s, NEW b \in DOMAIN s, a < b PROVE s[a] # s[b]
    <2>1. PICK p \in DOMAIN l, q \in DOMAIN l : p < q /\ s[a] = l[p] /\ s[b] = l[q]
      BY <1>3 DEF Thinned
    <2>2. p # q
      BY <1>1, <2>1
    <2>3. QED  BY <2>1, <2>2 DEF IsInjective
  <1>4. IsInjective(s)
    <2> SUFFICES ASSUME NEW a \in DOMAIN s, NEW b \in DOMAIN s, s[a] = s[b] PROVE a = b
      BY DEF IsInjective
    <2>1. a < b \/ b < a \/ a = b
      BY <1>1
    <2>2. QED  BY <1>3, <2>1
  <1>5. ASSUME InOrder(l) PROVE InOrder(s)
    BY <1>5 DEF InOrder, Thinned
  <1>6. QED  BY <1>2, <1>4, <1>5

LEMMA SubSeqThins ==
  ASSUME NEW l \in Seq(Mems), NEW f \in 0 .. Len(l)
  PROVE  LET s == SubSeq(l, f + 1, Len(l))
         IN  /\ s \in Seq(Mems) /\ Thinned(s, l)
             /\ \A i \in DOMAIN l : i > f => l[i] \in ToSet(s)
             /\ \A a \in DOMAIN s : \E p \in DOMAIN l : p > f /\ s[a] = l[p]
  <1> DEFINE s == SubSeq(l, f + 1, Len(l))
             n == Len(l)
  <1>1. n \in Nat /\ f \in Nat /\ f <= n /\ DOMAIN l = 1 .. n
    BY LenProperties
  <1>2. \A i \in f + 1 .. n : l[i] \in Mems
    BY <1>1, ElementOfSeq
  <1>3. /\ s \in Seq(Mems) /\ Len(s) = (IF f + 1 <= n THEN n - (f + 1) + 1 ELSE 0)
        /\ \A i \in 1 .. n - (f + 1) + 1 : s[i] = l[f + 1 + i - 1]
    <2>1. f + 1 \in Int /\ n \in Int
      BY <1>1
    <2>2. QED  BY <1>2, <2>1, SubSeqProperties
  <1> HIDE DEF s, n
  <1>4. Len(s) = n - f /\ DOMAIN s = 1 .. n - f
    <2>1. Len(s) = n - f
      <3>1. (IF f + 1 <= n THEN n - (f + 1) + 1 ELSE 0) = n - f
        BY <1>1
      <3>2. QED  BY <1>3, <3>1
    <2>2. DOMAIN s = 1 .. Len(s)
      BY <1>3, LenProperties
    <2>3. QED  BY <2>1, <2>2
  <1>5. \A a \in DOMAIN s : s[a] = l[f + a] /\ f + a \in DOMAIN l /\ f + a > f
    <2>1. \A a \in DOMAIN s : a \in 1 .. n - (f + 1) + 1 /\ f + 1 + a - 1 = f + a /\ f + a \in DOMAIN l /\ f + a > f
      BY <1>1, <1>4
    <2>2. QED  BY <1>3, <2>1
  <1>6. \A i \in DOMAIN l : i > f => i - f \in DOMAIN s /\ f + (i - f) = i
    BY <1>1, <1>4
  <1>7. Thinned(s, l)
    <2>1. \A a, b \in DOMAIN s : a < b => f + a < f + b
      BY <1>1, <1>4
    <2>2. QED  BY <1>5, <2>1 DEF Thinned
  <1>8. \A i \in DOMAIN l : i > f => l[i] \in ToSet(s)
    <2>1. \A i \in DOMAIN l : i > f => s[i - f] = l[i] /\ i - f \in DOMAIN s
      BY <1>5, <1>6
    <2>2. QED  BY <2>1 DEF ToSet
  <1>9. QED  BY <1>3, <1>5, <1>7, <1>8 DEF s, n

\* The walk removes the ready items and no others.
LEMMA WalkThins ==
  ASSUME NEW l \in Seq(Mems)
  PROVE  /\ walk(l) \in Seq(Mems) /\ Thinned(walk(l), l)
         /\ \A i \in DOMAIN l : ~ Ready(l[i]) => l[i] \in ToSet(walk(l))
         /\ \A a \in DOMAIN walk(l) : \E p \in DOMAIN l : ~ Ready(l[p]) /\ walk(l)[a] = l[p]
  <1> DEFINE n == Len(l)
             Body(f, i) == IF i = 0 THEN << >> ELSE IF Ready(l[i]) THEN f[i - 1] ELSE Append(f[i - 1], l[i])
             Good(f, k) == \A i \in 0 .. n : i <= k => f[i] = Body(f, i)
             Bad == {k \in Nat : ~ \E f : Good(f, k)}
  <1>1. n \in Nat /\ DOMAIN l = 1 .. n /\ \A i \in 1 .. n : l[i] \in Mems
    BY LenProperties, ElementOfSeq
  <1> HIDE DEF n
  <1>2. Bad = {}
    <2> SUFFICES ASSUME Bad # {} PROVE FALSE
      OBVIOUS
    <2>1. PICK k \in Bad : \A j \in Bad : ~ (<<j, k>> \in OpToRel(<, Nat))
      BY WFMin, NatLessThanWellFounded
    <2>2. k \in Nat /\ \A j \in Nat : j < k => j \notin Bad
      BY <2>1 DEF OpToRel
    <2>3. CASE k = 0
      <3> DEFINE f == [i \in 0 .. n |-> << >>]
      <3>1. \A i \in 0 .. n : i <= 0 => i = 0
        BY <1>1
      <3>2. Good(f, 0)
        BY <3>1
      <3>3. QED  BY <2>2, <2>3, <3>2
    <2>4. CASE k # 0
      <3>1. k - 1 \in Nat /\ k - 1 < k
        BY <2>2, <2>4
      <3>2. PICK g : Good(g, k - 1)
        BY <2>2, <3>1
      <3> DEFINE f == [i \in 0 .. n |-> Body(g, i)]
      <3>3. \A i \in 0 .. n : f[i] = Body(g, i)
        OBVIOUS
      <3>4. \A i \in 0 .. n : i <= k - 1 => f[i] = g[i]
        BY <3>2, <3>3
      <3> HIDE DEF f, Good
      <3>5. ASSUME NEW i \in 0 .. n, i <= k PROVE f[i] = Body(f, i)
        <4>1. CASE i = 0
          BY <3>3, <4>1
        <4>2. CASE i # 0
          <5>1. i - 1 \in 0 .. n /\ i - 1 <= k - 1
            BY <1>1, <2>2, <3>5, <4>2
          <5>2. f[i - 1] = g[i - 1]
            BY <3>4, <5>1, SMTT(60)
          <5>3. QED  BY <3>3, <5>2, SMTT(60)
        <4>3. QED  BY <4>1, <4>2
      <3>6. Good(f, k)
        BY <3>5, SMTT(60) DEF Good
      <3>7. QED  BY <2>2, <3>6
    <2>5. QED  BY <2>3, <2>4
  <1> DEFINE F == CHOOSE f : f = [i \in 0 .. n |-> Body(f, i)]
  <1>3. F = [i \in 0 .. n |-> Body(F, i)]
    <2>1. PICK f : Good(f, n)
      BY <1>1, <1>2
    <2> DEFINE g == [i \in 0 .. n |-> f[i]]
    <2>2. ASSUME NEW i \in 0 .. n PROVE g[i] = Body(g, i)
      <3>1. f[i] = Body(f, i)
        BY <1>1, <2>1
      <3>2. i # 0 => i - 1 \in 0 .. n
        BY <1>1
      <3>3. QED  BY <3>1, <3>2
    <2>3. g = [i \in 0 .. n |-> Body(g, i)]
      <3>1. g = [i \in 0 .. n |-> g[i]]
        OBVIOUS
      <3> HIDE DEF g
      <3>2. QED  BY <2>2, <3>1
    <2>4. \E f2 : f2 = [i \in 0 .. n |-> Body(f2, i)]
      BY <2>3
    <2>5. QED  BY <2>4
  <1>4. walk(l) = F[n]
    BY DEF walk, n
  <1>5. \A i \in 0 .. n : F[i] = Body(F, i)
    BY <1>3
  <1> HIDE DEF F, Bad, Good
  <1> DEFINE Right(s, i) ==
               /\ s \in Seq(Mems)
               /\ \A a \in DOMAIN s : \E p \in 1 .. i : ~ Ready(l[p]) /\ s[a] = l[p]
               /\ \A a, b \in DOMAIN s : a < b => \E p, q \in 1 .. i : p < q /\ s[a] = l[p] /\ s[b] = l[q]
               /\ \A p \in 1 .. i : ~ Ready(l[p]) => \E a \in DOMAIN s : s[a] = l[p]
             Wrong == {i \in Nat : i <= n /\ ~ Right(F[i], i)}
  <1>6. Wrong = {}
    <2> SUFFICES ASSUME Wrong # {} PROVE FALSE
      OBVIOUS
    <2>1. PICK i \in Wrong : \A j \in Wrong : ~ (<<j, i>> \in OpToRel(<, Nat))
      BY WFMin, NatLessThanWellFounded
    <2>2. i \in Nat /\ i <= n /\ ~ Right(F[i], i) /\ \A j \in Nat : j < i => j \notin Wrong
      BY <2>1 DEF OpToRel
    <2>3. i # 0
      <3>1. CASE i = 0
        <4>1. F[i] = << >> /\ 1 .. i = {}
          BY <1>1, <1>5, <2>2, <3>1
        <4>2. << >> \in Seq(Mems) /\ DOMAIN << >> = {}
          OBVIOUS
        <4>3. Right(F[i], i)
          BY <4>1, <4>2
        <4>4. QED  BY <2>2, <4>3
      <3>2. QED  BY <3>1
    <2>4. i - 1 \in Nat /\ i - 1 < i /\ i - 1 <= n /\ i \in 0 .. n /\ i \in 1 .. n
          /\ 1 .. i = 1 .. (i - 1) \cup {i} /\ \A p \in 1 .. (i - 1) : p < i /\ p \in 1 .. i
      BY <1>1, <2>2, <2>3
    <2> DEFINE s == F[i - 1]
               v == F[i]
    <2>5. Right(s, i - 1)
      BY <2>2, <2>4
    <2>6. v = IF Ready(l[i]) THEN s ELSE Append(s, l[i])
      BY <1>5, <2>3, <2>4
    <2> HIDE DEF s, v
    <2>7. CASE Ready(l[i])
      <3>1. v = s
        BY <2>6, <2>7
      <3>2. Right(s, i)
        BY <2>4, <2>5, <2>7
      <3>3. QED  BY <2>2, <3>1, <3>2 DEF v
    <2>8. CASE ~ Ready(l[i])
      <3>1. v = Append(s, l[i]) /\ l[i] \in Mems /\ s \in Seq(Mems)
        BY <1>1, <2>4, <2>5, <2>6, <2>8
      <3>2. /\ v \in Seq(Mems) /\ Len(v) = Len(s) + 1
            /\ \A a \in 1 .. Len(s) : v[a] = s[a]
            /\ v[Len(s) + 1] = l[i]
        BY <3>1, AppendProperties
      <3>3. DOMAIN s = 1 .. Len(s) /\ DOMAIN v = 1 .. Len(v) /\ Len(s) \in Nat
        BY <3>1, <3>2, LenProperties
      <3> DEFINE z == Len(s) + 1
      <3>4. /\ \A a \in DOMAIN v : a \in DOMAIN s \/ a = z
            /\ \A a \in DOMAIN s : a \in DOMAIN v /\ v[a] = s[a] /\ a < z
            /\ z \in DOMAIN v /\ v[z] = l[i]
        BY <3>2, <3>3
      <3>5. \A a, b \in DOMAIN v : a < b => a \in DOMAIN s
        BY <3>2, <3>3
      <3> HIDE DEF z
      <3>6. \A a \in DOMAIN v : \E p \in 1 .. i : ~ Ready(l[p]) /\ v[a] = l[p]
        <4> SUFFICES ASSUME NEW a \in DOMAIN v PROVE \E p \in 1 .. i : ~ Ready(l[p]) /\ v[a] = l[p]
          OBVIOUS
        <4>1. CASE a = z
          BY <2>4, <2>8, <3>4, <4>1
        <4>2. CASE a \in DOMAIN s
          <5>1. PICK p \in 1 .. (i - 1) : ~ Ready(l[p]) /\ s[a] = l[p]
            BY <2>5, <4>2
          <5>2. p \in 1 .. i /\ v[a] = s[a]
            BY <2>4, <3>4, <4>2
          <5>3. QED  BY <5>1, <5>2
        <4>3. QED  BY <3>4, <4>1, <4>2
      <3>7. ASSUME NEW a \in DOMAIN v, NEW b \in DOMAIN v, a < b
            PROVE  \E p, q \in 1 .. i : p < q /\ v[a] = l[p] /\ v[b] = l[q]
        <4>1. a \in DOMAIN s
          BY <3>5, <3>7
        <4>2. CASE b \in DOMAIN s
          <5>1. PICK p \in 1 .. (i - 1), q \in 1 .. (i - 1) : p < q /\ s[a] = l[p] /\ s[b] = l[q]
            BY <2>5, <3>7, <4>1, <4>2
          <5>2. p \in 1 .. i /\ q \in 1 .. i /\ v[a] = s[a] /\ v[b] = s[b]
            BY <2>4, <3>4, <4>1, <4>2
          <5>3. QED  BY <5>1, <5>2
        <4>3. CASE b = z
          <5>1. PICK p \in 1 .. (i - 1) : s[a] = l[p]
            BY <2>5, <4>1
          <5>2. p \in 1 .. i /\ i \in 1 .. i /\ p < i
            BY <2>4
          <5>3. v[a] = l[p] /\ v[b] = l[i]
            BY <3>4, <4>1, <4>3, <5>1
          <5>4. QED  BY <5>2, <5>3
        <4>4. QED  BY <3>4, <4>2, <4>3
      <3>8. \A p \in 1 .. i : ~ Ready(l[p]) => \E a \in DOMAIN v : v[a] = l[p]
        <4>1. \A p \in 1 .. (i - 1) : ~ Ready(l[p]) => \E a \in DOMAIN s : s[a] = l[p]
          BY <2>5
        <4>2. QED  BY <2>4, <3>4, <4>1
      <3>9. Right(v, i)
        BY <3>2, <3>6, <3>7, <3>8
      <3>10. QED  BY <2>2, <3>9 DEF v
    <2>9. QED  BY <2>7, <2>8
  <1>7. Right(walk(l), n)
    BY <1>1, <1>4, <1>6
  <1> DEFINE w == walk(l)
  <1>8. /\ w \in Seq(Mems)
        /\ \A a \in DOMAIN w : \E p \in 1 .. n : ~ Ready(l[p]) /\ w[a] = l[p]
        /\ \A a, b \in DOMAIN w : a < b => \E p, q \in 1 .. n : p < q /\ w[a] = l[p] /\ w[b] = l[q]
        /\ \A p \in 1 .. n : ~ Ready(l[p]) => \E a \in DOMAIN w : w[a] = l[p]
    BY <1>7
  <1> HIDE DEF w
  <1>9. Thinned(w, l)
    <2>1. \A a \in DOMAIN w : \E p \in DOMAIN l : w[a] = l[p]
      BY <1>1, <1>8
    <2>2. ASSUME NEW a \in DOMAIN w, NEW b \in DOMAIN w, a < b
          PROVE  \E p, q \in DOMAIN l : p < q /\ w[a] = l[p] /\ w[b] = l[q]
      <3>1. PICK p \in 1 .. n, q \in 1 .. n : p < q /\ w[a] = l[p] /\ w[b] = l[q]
        BY <1>8, <2>2
      <3>2. QED  BY <1>1, <3>1
    <2>3. QED  BY <2>1, <2>2 DEF Thinned
  <1>10. \A i \in DOMAIN l : ~ Ready(l[i]) => l[i] \in ToSet(w)
    BY <1>1, <1>8 DEF ToSet
  <1>11. QED  BY <1>1, <1>8, <1>9, <1>10 DEF w

\* What removeAllReady leaves of a list; in a list in order, and where ids are
\* ambiguous in any list, these are the items that are not ready.
LEMMA RemoveAllReadyThins ==
  ASSUME NEW l \in Seq(Mems), IsInjective(l), precise \in BOOLEAN
  PROVE  LET s == removeAllReady(l)
         IN  /\ s \in Seq(Mems) /\ Thinned(s, l)
             /\ ~ precise \/ InOrder(l) => \A i \in DOMAIN l : l[i] \in ToSet(s) <=> ~ Ready(l[i])
  <1> DEFINE s == removeAllReady(l)
             f == findNewestReady(l)
             n == Len(l)
  <1>1. CASE ~ precise
    <2>1. s = walk(l)
      BY <1>1 DEF removeAllReady
    <2>2. \A i \in DOMAIN l : l[i] \in ToSet(walk(l)) <=> ~ Ready(l[i])
      <3>1. ASSUME NEW i \in DOMAIN l, l[i] \in ToSet(walk(l)) PROVE ~ Ready(l[i])
        <4>1. PICK a \in DOMAIN walk(l) : walk(l)[a] = l[i]
          BY <3>1 DEF ToSet
        <4>2. QED  BY <4>1, WalkThins
      <3>2. QED  BY <3>1, WalkThins
    <2>3. QED  BY <2>1, <2>2, WalkThins
  <1>2. CASE precise
    <2>1. s = SubSeq(l, f + 1, n)
      BY <1>2 DEF removeAllReady
    <2>2. /\ f \in 0 .. n /\ (f # 0 => Ready(l[f])) /\ (f # n => ~ Ready(l[f + 1]))
      BY FindFacts
    <2> HIDE DEF s, f
    <2>3. /\ s \in Seq(Mems) /\ Thinned(s, l)
          /\ \A i \in DOMAIN l : i > f => l[i] \in ToSet(s)
          /\ \A a \in DOMAIN s : \E p \in DOMAIN l : p > f /\ s[a] = l[p]
      BY <2>1, <2>2, SubSeqThins
    <2>4. DOMAIN l = 1 .. n /\ n \in Nat
      BY LenProperties
    <2> HIDE DEF n
    <2>5. ASSUME InOrder(l), NEW i \in DOMAIN l PROVE l[i] \in ToSet(s) <=> ~ Ready(l[i])
      <3>1. CASE i > f
        <4>1. f + 1 \in DOMAIN l /\ ~ Ready(l[f + 1])
          BY <2>2, <2>4, <3>1
        <4>2. f + 1 < i \/ f + 1 = i
          BY <2>2, <2>4, <3>1
        <4>3. ~ Ready(l[i])
          BY <2>5, <4>1, <4>2 DEF InOrder
        <4>4. QED  BY <2>3, <3>1, <4>3
      <3>2. CASE ~ (i > f)
        <4>1. f \in DOMAIN l /\ Ready(l[f]) /\ (i < f \/ i = f)
          BY <2>2, <2>4, <3>2
        <4>2. Ready(l[i])
          BY <2>5, <4>1 DEF InOrder
        <4>3. l[i] \notin ToSet(s)
          <5> SUFFICES ASSUME l[i] \in ToSet(s) PROVE FALSE
            OBVIOUS
          <5>1. PICK a \in DOMAIN s : s[a] = l[i]
            BY DEF ToSet
          <5>2. PICK p \in DOMAIN l : p > f /\ s[a] = l[p]
            BY <2>3
          <5>3. p = i
            BY <5>1, <5>2 DEF IsInjective
          <5>4. QED  BY <3>2, <5>2, <5>3
        <4>4. QED  BY <4>2, <4>3
      <3>3. QED  BY <3>1, <3>2
    <2>6. QED  BY <1>2, <2>3, <2>5 DEF s
  <1>3. QED  BY <1>1, <1>2

LEMMA RemoveFirstThins ==
  ASSUME NEW l \in Seq(Mems), IsInjective(l), NEW m \in ToSet(l)
  PROVE  LET s == RemoveFirst(l, m)
         IN  s \in Seq(Mems) /\ Thinned(s, l) /\ ToSet(s) = ToSet(l) \ {m}
  <1> DEFINE n == Len(l)
             s == RemoveFirst(l, m)
  <1>1. n \in Nat /\ DOMAIN l = 1 .. n /\ \A i \in 1 .. n : l[i] \in Mems
    BY LenProperties, ElementOfSeq
  <1>2. PICK p \in 1 .. n : l[p] = m
    BY <1>1 DEF ToSet
  <1>3. \A i \in 1 .. n : l[i] = m => i = p
    BY <1>1, <1>2 DEF IsInjective
  <1>4. SelectInSeq(l, LAMBDA v : v = m) = p
    <2> DEFINE I == {i \in 1 .. Len(l) : l[i] = m}
    <2>1. I = {p}
      BY <1>2, <1>3
    <2>2. Min({p}) = p
      BY DEF Min
    <2>3. SelectInSeq(l, LAMBDA v : v = m) = IF I # {} THEN Min(I) ELSE 0
      BY DEF SelectInSeq
    <2>4. QED  BY <2>1, <2>2, <2>3
  <1>5. s = SubSeq(l, 1, p - 1) \o SubSeq(l, p + 1, n)
    <2>1. \E i \in 1 .. Len(l) : l[i] = m
      BY <1>2
    <2>2. s = RemoveAt(l, SelectInSeq(l, LAMBDA v : v = m))
      BY <2>1 DEF RemoveFirst
    <2>3. QED  BY <1>4, <2>2 DEF RemoveAt
  <1> DEFINE x == SubSeq(l, 1, p - 1)
             y == SubSeq(l, p + 1, n)
  <1>6. p \in Nat /\ 1 <= p /\ p <= n
    BY <1>1
  <1> HIDE DEF n
  <1>7. x \in Seq(Mems) /\ Len(x) = p - 1 /\ \A i \in 1 .. p - 1 : x[i] = l[i]
    <2>1. \A i \in 1 .. p - 1 : l[i] \in Mems
      BY <1>1, <1>6
    <2>2. 1 \in Int /\ p - 1 \in Int
      BY <1>6
    <2>3. /\ x \in Seq(Mems) /\ Len(x) = (IF 1 <= p - 1 THEN (p - 1) - 1 + 1 ELSE 0)
          /\ \A i \in 1 .. (p - 1) - 1 + 1 : x[i] = l[1 + i - 1]
      BY <2>1, <2>2, SubSeqProperties
    <2>4. (IF 1 <= p - 1 THEN (p - 1) - 1 + 1 ELSE 0) = p - 1 /\ (p - 1) - 1 + 1 = p - 1
          /\ \A i \in 1 .. p - 1 : 1 + i - 1 = i
      BY <1>6
    <2> HIDE DEF x
    <2>5. QED  BY <2>3, <2>4
  <1>8. y \in Seq(Mems) /\ Len(y) = n - p /\ \A i \in 1 .. n - p : y[i] = l[p + i]
    <2>1. \A i \in p + 1 .. n : l[i] \in Mems
      BY <1>1, <1>6
    <2>2. p + 1 \in Int /\ n \in Int
      BY <1>1, <1>6
    <2>3. /\ y \in Seq(Mems) /\ Len(y) = (IF p + 1 <= n THEN n - (p + 1) + 1 ELSE 0)
          /\ \A i \in 1 .. n - (p + 1) + 1 : y[i] = l[p + 1 + i - 1]
      BY <2>1, <2>2, SubSeqProperties
    <2>4. (IF p + 1 <= n THEN n - (p + 1) + 1 ELSE 0) = n - p /\ n - (p + 1) + 1 = n - p
          /\ \A i \in 1 .. n - p : p + 1 + i - 1 = p + i
      BY <1>1, <1>6
    <2> HIDE DEF y
    <2>5. QED  BY <2>3, <2>4
  <1> HIDE DEF x, y
  <1>9. /\ s \in Seq(Mems) /\ Len(s) = n - 1 /\ DOMAIN s = 1 .. n - 1
        /\ \A a \in 1 .. n - 1 : s[a] = l[IF a < p THEN a ELSE a + 1]
    <2>1. s = x \o y
      BY <1>5 DEF x, y
    <2>2. /\ x \o y \in Seq(Mems) /\ Len(x \o y) = Len(x) + Len(y)
          /\ \A i \in 1 .. Len(x) + Len(y) : (x \o y)[i] = IF i <= Len(x) THEN x[i] ELSE y[i - Len(x)]
      BY <1>7, <1>8, ConcatProperties
    <2>3. Len(s) = n - 1 /\ Len(x) + Len(y) = n - 1
      BY <1>1, <1>6, <1>7, <1>8, <2>1, <2>2
    <2>4. ASSUME NEW a \in 1 .. n - 1 PROVE s[a] = l[IF a < p THEN a ELSE a + 1]
      <3>1. s[a] = IF a <= Len(x) THEN x[a] ELSE y[a - Len(x)]
        BY <2>1, <2>2, <2>3
      <3>2. CASE a < p
        <4>1. a \in 1 .. p - 1 /\ a <= Len(x)
          BY <1>6, <1>7, <3>2
        <4>2. QED  BY <1>7, <3>1, <3>2, <4>1
      <3>3. CASE ~ (a < p)
        <4>1. a - Len(x) \in 1 .. n - p /\ ~ (a <= Len(x)) /\ p + (a - Len(x)) = a + 1
          BY <1>1, <1>6, <1>7, <3>3
        <4>2. y[a - Len(x)] = l[p + (a - Len(x))]
          BY <1>8, <4>1
        <4>3. QED  BY <3>1, <3>3, <4>1, <4>2
      <3>4. QED  BY <3>2, <3>3
    <2>5. s \in Seq(Mems) /\ DOMAIN s = 1 .. n - 1
      <3>1. s \in Seq(Mems)
        BY <2>1, <2>2
      <3>2. DOMAIN s = 1 .. Len(s)
        BY <3>1, LenProperties
      <3>3. QED  BY <2>3, <3>1, <3>2
    <2>6. QED  BY <2>3, <2>4, <2>5
  <1> HIDE DEF s
  <1> DEFINE At(a) == IF a < p THEN a ELSE a + 1
  <1>10. /\ \A a \in 1 .. n - 1 : At(a) \in 1 .. n /\ At(a) # p
         /\ \A a, b \in 1 .. n - 1 : a < b => At(a) < At(b)
         /\ \A i \in 1 .. n : i # p => \E a \in 1 .. n - 1 : At(a) = i
    <2>1. \A a \in 1 .. n - 1 : At(a) \in 1 .. n /\ At(a) # p
      BY <1>1, <1>6
    <2>2. \A a, b \in 1 .. n - 1 : a < b => At(a) < At(b)
      BY <1>1, <1>6
    <2>3. ASSUME NEW i \in 1 .. n, i # p PROVE \E a \in 1 .. n - 1 : At(a) = i
      <3>1. CASE i < p
        <4>1. i \in 1 .. n - 1 /\ At(i) = i
          BY <1>1, <1>6, <3>1
        <4>2. QED  BY <4>1
      <3>2. CASE i > p
        <4>1. i - 1 \in 1 .. n - 1 /\ At(i - 1) = i
          BY <1>1, <1>6, <3>2
        <4>2. QED  BY <4>1
      <3>3. QED  BY <1>1, <1>6, <2>3, <3>1, <3>2
    <2>4. QED  BY <2>1, <2>2, <2>3
  <1>11. \A a \in 1 .. n - 1 : s[a] = l[At(a)]
    BY <1>9
  <1> HIDE DEF At
  <1>12. Thinned(s, l)
    BY <1>1, <1>9, <1>10, <1>11 DEF Thinned
  <1>13. ToSet(s) = ToSet(l) \ {m}
    <2>1. \A z \in ToSet(s) : z \in ToSet(l) /\ z # m
      BY <1>1, <1>3, <1>9, <1>10, <1>11 DEF ToSet
    <2>2. \A z \in ToSet(l) : z # m => z \in ToSet(s)
      <3> SUFFICES ASSUME NEW z \in ToSet(l), z # m PROVE z \in ToSet(s)
        OBVIOUS
      <3>1. PICK i \in 1 .. n : l[i] = z
        BY <1>1 DEF ToSet
      <3>2. i # p
        BY <1>2, <3>1
      <3>3. PICK a \in 1 .. n - 1 : At(a) = i
        BY <1>10, <3>2
      <3>4. QED  BY <1>9, <1>11, <3>1, <3>3 DEF ToSet
    <2>3. QED  BY <2>1, <2>2
  <1>14. QED  BY <1>9, <1>12, <1>13 DEF s

-----------------------------------------------------------------------------
(* Where blocks are *)

\* The blocks in lists L and global cache G, and that each is in there once.
In(L, G) == G \cup UNION {ToSet(L[k]) : k \in Keys}
Filed(L, G) ==
    /\ L \in [Keys -> Seq(Mems)] /\ G \subseteq Mems
    /\ \A k \in Keys : IsInjective(L[k]) /\ ToSet(L[k]) \cap G = {}
    /\ \A k, l \in Keys : k # l => ToSet(L[k]) \cap ToSet(L[l]) = {}

\* OnePlace for requirements R, threads h, lists L and global cache G.
Placed(R, h, L, G) ==
    /\ \A m \in Mems : R[m] # NoReq <=> m \in In(L, G) \/ \E t \in Threads : h[t].mem = m
    /\ \A t, u \in Threads : h[t].mem # NoMem /\ h[t].mem = h[u].mem => t = u
    /\ \A t \in Threads : h[t].mem # NoMem => h[t].mem \notin In(L, G)
    /\ Filed(L, G)

LEMMA PlacedFacts ==
  ASSUME TypeOK
  PROVE  /\ OnePlace <=> Placed(req, th, lists, global)
         /\ Cached = In(lists, global)
  BY DEF TypeOK, OnePlace, Placed, Leased, Cached, In, Filed

LEMMA PlacedNext ==
  ASSUME Placed(req', th', lists', global')
  PROVE  OnePlace'
  BY DEF OnePlace, Placed, Leased, Cached, In, Filed

\* A thread takes block m out of the cache.
LEMMA PlacedTake ==
  ASSUME NEW R, NEW h, NEW g, NEW L, NEW G, NEW M, NEW H, NEW t \in Threads, NEW m \in Mems,
         Placed(R, h, L, G), Filed(M, H), m \in In(L, G), In(M, H) = In(L, G) \ {m},
         h[t].mem = NoMem, g[t].mem = m, \A u \in Threads : u # t => g[u].mem = h[u].mem
  PROVE  Placed(R, g, M, H)
  <1>1. \A u \in Threads : h[u].mem # m
    BY NoMemAssumption DEF Placed
  <1>2. \A n \in Mems : R[n] # NoReq <=> n \in In(M, H) \/ \E u \in Threads : g[u].mem = n
    <2> SUFFICES ASSUME NEW n \in Mems
                 PROVE  R[n] # NoReq <=> n \in In(M, H) \/ \E u \in Threads : g[u].mem = n
      OBVIOUS
    <2>1. R[n] # NoReq <=> n \in In(L, G) \/ \E u \in Threads : h[u].mem = n
      BY DEF Placed
    <2>2. (\E u \in Threads : g[u].mem = n) <=> n = m \/ \E u \in Threads : h[u].mem = n
      BY NoMemAssumption
    <2>3. QED  BY <2>1, <2>2
  <1>3. \A u, v \in Threads : g[u].mem # NoMem /\ g[u].mem = g[v].mem => u = v
    BY <1>1 DEF Placed
  <1>4. \A u \in Threads : g[u].mem # NoMem => g[u].mem \notin In(M, H)
    BY DEF Placed
  <1>5. QED  BY <1>2, <1>3, <1>4 DEF Placed

\* Blocks move within the cache.
LEMMA PlacedMove ==
  ASSUME NEW R, NEW h, NEW g, NEW L, NEW G, NEW M, NEW H,
         Placed(R, h, L, G), Filed(M, H), In(M, H) = In(L, G), \A u \in Threads : g[u].mem = h[u].mem
  PROVE  Placed(R, g, M, H)
  BY DEF Placed

\* A thread puts its block m into the cache.
LEMMA PlacedPut ==
  ASSUME NEW R, NEW h, NEW g, NEW L, NEW G, NEW M, NEW H, NEW t \in Threads, NEW m \in Mems,
         Placed(R, h, L, G), Filed(M, H), In(M, H) = In(L, G) \cup {m},
         h[t].mem = m, g[t].mem = NoMem, \A u \in Threads : u # t => g[u].mem = h[u].mem
  PROVE  Placed(R, g, M, H)
  <1>1. \A u \in Threads : u # t => g[u].mem # m
    BY NoMemAssumption DEF Placed
  <1>2. \A n \in Mems : R[n] # NoReq <=> n \in In(M, H) \/ \E u \in Threads : g[u].mem = n
    <2> SUFFICES ASSUME NEW n \in Mems
                 PROVE  R[n] # NoReq <=> n \in In(M, H) \/ \E u \in Threads : g[u].mem = n
      OBVIOUS
    <2>1. R[n] # NoReq <=> n \in In(L, G) \/ \E u \in Threads : h[u].mem = n
      BY DEF Placed
    <2>2. (\E u \in Threads : h[u].mem = n) <=> n = m \/ \E u \in Threads : g[u].mem = n
      BY NoMemAssumption
    <2>3. QED  BY <2>1, <2>2
  <1>3. \A u, v \in Threads : g[u].mem # NoMem /\ g[u].mem = g[v].mem => u = v
    BY DEF Placed
  <1>4. \A u \in Threads : g[u].mem # NoMem => g[u].mem \notin In(M, H)
    BY <1>1 DEF Placed
  <1>5. QED  BY <1>2, <1>3, <1>4 DEF Placed

\* A thread creates block m.
LEMMA PlacedCreate ==
  ASSUME NEW R, NEW Q, NEW h, NEW g, NEW L, NEW G, NEW t \in Threads, NEW m \in Mems,
         Placed(R, h, L, G), R[m] = NoReq, Q[m] # NoReq, \A n \in Mems : n # m => Q[n] = R[n],
         h[t].mem = NoMem, g[t].mem = m, \A u \in Threads : u # t => g[u].mem = h[u].mem
  PROVE  Placed(Q, g, L, G)
  <1>1. m \notin In(L, G) /\ \A u \in Threads : h[u].mem # m
    BY DEF Placed
  <1>2. \A n \in Mems : Q[n] # NoReq <=> n \in In(L, G) \/ \E u \in Threads : g[u].mem = n
    <2> SUFFICES ASSUME NEW n \in Mems
                 PROVE  Q[n] # NoReq <=> n \in In(L, G) \/ \E u \in Threads : g[u].mem = n
      OBVIOUS
    <2>1. R[n] # NoReq <=> n \in In(L, G) \/ \E u \in Threads : h[u].mem = n
      BY DEF Placed
    <2>2. (\E u \in Threads : g[u].mem = n) <=> n = m \/ \E u \in Threads : h[u].mem = n
      BY NoMemAssumption
    <2>3. QED  BY <2>1, <2>2
  <1>3. \A u, v \in Threads : g[u].mem # NoMem /\ g[u].mem = g[v].mem => u = v
    BY <1>1 DEF Placed
  <1>4. \A u \in Threads : g[u].mem # NoMem => g[u].mem \notin In(L, G)
    BY <1>1 DEF Placed
  <1>5. QED  BY <1>2, <1>3, <1>4 DEF Placed

\* The block m of a thread is freed.
LEMMA PlacedDrop ==
  ASSUME NEW R, NEW Q, NEW h, NEW g, NEW L, NEW G, NEW t \in Threads, NEW m \in Mems,
         Placed(R, h, L, G), Q[m] = NoReq, \A n \in Mems : n # m => Q[n] = R[n],
         h[t].mem = m, g[t].mem = NoMem, \A u \in Threads : u # t => g[u].mem = h[u].mem
  PROVE  Placed(Q, g, L, G)
  <1>1. m \notin In(L, G) /\ \A u \in Threads : g[u].mem # m
    BY NoMemAssumption DEF Placed
  <1>2. \A n \in Mems : Q[n] # NoReq <=> n \in In(L, G) \/ \E u \in Threads : g[u].mem = n
    <2> SUFFICES ASSUME NEW n \in Mems
                 PROVE  Q[n] # NoReq <=> n \in In(L, G) \/ \E u \in Threads : g[u].mem = n
      OBVIOUS
    <2>1. R[n] # NoReq <=> n \in In(L, G) \/ \E u \in Threads : h[u].mem = n
      BY DEF Placed
    <2>2. (\E u \in Threads : h[u].mem = n) <=> n = m \/ \E u \in Threads : g[u].mem = n
      BY NoMemAssumption
    <2>3. QED  BY <1>1, <2>1, <2>2
  <1>3. \A u, v \in Threads : g[u].mem # NoMem /\ g[u].mem = g[v].mem => u = v
    BY DEF Placed
  <1>4. \A u \in Threads : g[u].mem # NoMem => g[u].mem \notin In(L, G)
    BY DEF Placed
  <1>5. QED  BY <1>2, <1>3, <1>4 DEF Placed

\* The blocks of S are freed from the cache.
LEMMA PlacedPurge ==
  ASSUME NEW R, NEW Q, NEW h, NEW L, NEW G, NEW M, NEW H, NEW S,
         Placed(R, h, L, G), Filed(M, H), S \subseteq In(L, G), In(M, H) = In(L, G) \ S,
         \A n \in Mems : Q[n] = IF n \in S THEN NoReq ELSE R[n]
  PROVE  Placed(Q, h, M, H)
  <1>1. \A u \in Threads : h[u].mem # NoMem => h[u].mem \notin S
    BY DEF Placed
  <1>2. \A n \in Mems : Q[n] # NoReq <=> n \in In(M, H) \/ \E u \in Threads : h[u].mem = n
    <2> SUFFICES ASSUME NEW n \in Mems
                 PROVE  Q[n] # NoReq <=> n \in In(M, H) \/ \E u \in Threads : h[u].mem = n
      OBVIOUS
    <2>1. R[n] # NoReq <=> n \in In(L, G) \/ \E u \in Threads : h[u].mem = n
      BY DEF Placed
    <2>2. n \in S => ~ \E u \in Threads : h[u].mem = n
      BY <1>1, NoMemAssumption
    <2>3. QED  BY <2>1, <2>2
  <1>3. \A u \in Threads : h[u].mem # NoMem => h[u].mem \notin In(M, H)
    BY DEF Placed
  <1>4. QED  BY <1>2, <1>3 DEF Placed

-----------------------------------------------------------------------------
(* What the cache does *)

\* moveReadyToGlobal: no block is lost or doubled, lists in order stay in order,
\* and what is moved is ready unless a list is searched by an order it has not.
LEMMA MoveFacts ==
  ASSUME IInv
  PROVE  /\ Filed(Left, Moved) /\ In(Left, Moved) = Cached
         /\ \A k \in Keys : InOrder(lists[k]) => InOrder(Left[k])
         /\ ~ precise \/ (\A k \in Keys : InOrder(lists[k])) =>
              \A k \in Keys : \A i \in DOMAIN lists[k] : lists[k][i] \in ToSet(Left[k]) <=> ~ Ready(lists[k][i])
  <1>1. /\ lists \in [Keys -> Seq(Mems)] /\ precise \in BOOLEAN /\ global \subseteq Mems
        /\ Filed(lists, global) /\ Cached = In(lists, global)
    BY PlacedFacts DEF IInv, TypeOK, Placed
  <1>2. ASSUME NEW k \in Keys
        PROVE  /\ Left[k] = removeAllReady(lists[k])
               /\ Left[k] \in Seq(Mems) /\ Thinned(Left[k], lists[k])
               /\ IsInjective(Left[k]) /\ ToSet(Left[k]) \subseteq ToSet(lists[k])
               /\ InOrder(lists[k]) => InOrder(Left[k])
               /\ ~ precise \/ InOrder(lists[k]) =>
                    \A i \in DOMAIN lists[k] : lists[k][i] \in ToSet(Left[k]) <=> ~ Ready(lists[k][i])
    <2>1. lists[k] \in Seq(Mems) /\ IsInjective(lists[k])
      BY <1>1 DEF Filed
    <2>2. Left[k] = removeAllReady(lists[k])
      BY DEF Left
    <2>3. /\ Left[k] \in Seq(Mems) /\ Thinned(Left[k], lists[k])
          /\ ~ precise \/ InOrder(lists[k]) =>
               \A i \in DOMAIN lists[k] : lists[k][i] \in ToSet(Left[k]) <=> ~ Ready(lists[k][i])
      BY <1>1, <2>1, <2>2, RemoveAllReadyThins
    <2>4. QED  BY <2>1, <2>2, <2>3, ThinnedKeeps
  <1>3. \A k \in Keys : ToSet(lists[k]) \subseteq Mems
    <2> SUFFICES ASSUME NEW k \in Keys PROVE ToSet(lists[k]) \subseteq Mems
      OBVIOUS
    <2>1. lists[k] \in Seq(Mems)
      BY <1>1
    <2>2. DOMAIN lists[k] = 1 .. Len(lists[k]) /\ \A i \in 1 .. Len(lists[k]) : lists[k][i] \in Mems
      BY <2>1, LenProperties, ElementOfSeq
    <2>3. QED  BY <2>2 DEF ToSet
  <1>4. Left \in [Keys -> Seq(Mems)]
    <2>1. Left = [k \in Keys |-> Left[k]]
      BY DEF Left
    <2>2. QED  BY <1>2, <2>1
  <1> HIDE DEF Left
  <1>5. \A x : x \in Moved <=> x \in global \/ \E k \in Keys : x \in ToSet(lists[k]) /\ x \notin ToSet(Left[k])
    BY DEF Moved
  <1>6. Moved \subseteq Mems
    BY <1>1, <1>3, <1>5
  <1>7. \A k \in Keys : ToSet(Left[k]) \cap Moved = {}
    <2> SUFFICES ASSUME NEW k \in Keys, NEW x \in ToSet(Left[k]), x \in Moved PROVE FALSE
      OBVIOUS
    <2>1. x \in ToSet(lists[k]) /\ x \notin global
      BY <1>1, <1>2 DEF Filed
    <2>2. PICK l \in Keys : x \in ToSet(lists[l]) /\ x \notin ToSet(Left[l])
      BY <1>5, <2>1
    <2>3. l # k
      BY <2>2
    <2>4. QED  BY <1>1, <2>1, <2>2, <2>3 DEF Filed
  <1>8. \A k, l \in Keys : k # l => ToSet(Left[k]) \cap ToSet(Left[l]) = {}
    BY <1>1, <1>2 DEF Filed
  <1>9. Filed(Left, Moved)
    BY <1>2, <1>4, <1>6, <1>7, <1>8 DEF Filed
  <1>10. In(Left, Moved) = In(lists, global)
    <2>1. \A x : x \in In(lists, global) <=> x \in global \/ \E k \in Keys : x \in ToSet(lists[k])
      BY DEF In
    <2>2. \A x : x \in In(Left, Moved) <=> x \in Moved \/ \E k \in Keys : x \in ToSet(Left[k])
      BY DEF In
    <2>3. \A x \in In(Left, Moved) : x \in In(lists, global)
      BY <1>2, <1>5, <2>1, <2>2
    <2>4. \A x \in In(lists, global) : x \in In(Left, Moved)
      BY <1>5, <2>1, <2>2
    <2>5. QED  BY <2>3, <2>4
  <1>11. QED  BY <1>1, <1>2, <1>9, <1>10

\* No job is left that uses a block that is ready.
LEMMA ReadyUnused ==
  ASSUME IInv, NEW m \in Mems, Ready(m)
  PROVE  Users(m) = {}
  BY DEF IInv, UsersOrdered, Ready

LEMMA MovedUnused ==
  ASSUME IInv
  PROVE  (disorder /\ precise) \/ \A m \in Moved : Users(m) = {}
  <1> SUFFICES ASSUME ~ (disorder /\ precise), NEW m \in Moved PROVE Users(m) = {}
    OBVIOUS
  <1>1. CASE m \in global
    BY <1>1 DEF IInv, GlobalReady
  <1>2. CASE m \notin global
    <2>1. PICK k \in Keys : m \in ToSet(lists[k]) /\ m \notin ToSet(Left[k])
      BY <1>2 DEF Moved
    <2>2. PICK i \in DOMAIN lists[k] : lists[k][i] = m
      BY <2>1 DEF ToSet
    <2>3. ~ precise \/ \A l \in Keys : InOrder(lists[l])
      BY DEF IInv, ListsInOrder
    <2>4. lists[k][i] \in ToSet(Left[k]) <=> ~ Ready(lists[k][i])
      BY <2>3, MoveFacts
    <2>5. Ready(m) /\ m \in Mems
      <3>1. Moved \subseteq Mems
        BY MoveFacts DEF Filed
      <3>2. QED  BY <2>1, <2>2, <2>4, <3>1
    <2>6. QED  BY <2>5, ReadyUnused
  <1>3. QED  BY <1>1, <1>2

\* A hit takes one block out of the cache and keeps what is said of the rest.
LEMMA HitFacts ==
  ASSUME IInv, NEW s \in Keys, NEW r \in Reqs, NEW m \in Mems, Hit(s, r, m)
  PROVE  /\ m \in Cached /\ Filed(lists', global') /\ In(lists', global') = Cached \ {m}
         /\ disorder \/ \A k \in Keys : InOrder(lists'[k])
         /\ (disorder /\ precise) \/ \A x \in global' : Users(x) = {}
  <1>1. /\ lists \in [Keys -> Seq(Mems)] /\ precise \in BOOLEAN /\ global \subseteq Mems
        /\ hint \in [Streams -> Streams]
        /\ Filed(lists, global) /\ Cached = In(lists, global)
    BY PlacedFacts DEF IInv, TypeOK, Placed
  <1>2. /\ disorder \/ \A k \in Keys : InOrder(lists[k])
        /\ (disorder /\ precise) \/ \A x \in global : Users(x) = {}
    BY DEF IInv, ListsInOrder, GlobalReady
  <1>3. CASE s # NoStream /\ tryGetPerStream(s, r, m)
    <2> DEFINE k == Key(s)
    <2>1. k \in Keys
      BY <1>1, <1>3 DEF Key, Keys
    <2>2. m \in ToSet(lists[k]) /\ global' = global /\ lists' = [lists EXCEPT ![k] = RemoveFirst(lists[k], m)]
      BY <1>3 DEF tryGetPerStream, Candidates
    <2> HIDE DEF k
    <2>3. lists[k] \in Seq(Mems) /\ IsInjective(lists[k])
      BY <1>1, <2>1 DEF Filed
    <2>4. /\ lists'[k] = RemoveFirst(lists[k], m) /\ \A l \in Keys : l # k => lists'[l] = lists[l]
          /\ DOMAIN lists' = Keys /\ lists' = [l \in Keys |-> lists'[l]]
      BY <1>1, <2>1, <2>2
    <2>5. lists'[k] \in Seq(Mems) /\ Thinned(lists'[k], lists[k]) /\ ToSet(lists'[k]) = ToSet(lists[k]) \ {m}
      BY <2>2, <2>3, <2>4, RemoveFirstThins
    <2>6. IsInjective(lists'[k]) /\ (InOrder(lists[k]) => InOrder(lists'[k]))
      BY <2>3, <2>5, ThinnedKeeps
    <2>7. \A l \in Keys : ToSet(lists'[l]) = ToSet(lists[l]) \ {m}
      <3>1. \A l \in Keys : l # k => m \notin ToSet(lists[l])
        BY <1>1, <2>1, <2>2 DEF Filed
      <3>2. QED  BY <2>4, <2>5, <3>1
    <2>8. \A l \in Keys : lists'[l] \in Seq(Mems) /\ IsInjective(lists'[l])
      BY <1>1, <2>4, <2>5, <2>6 DEF Filed
    <2>9. Filed(lists', global')
      <3>1. lists' \in [Keys -> Seq(Mems)]
        BY <2>4, <2>8
      <3>2. \A l \in Keys : ToSet(lists'[l]) \cap global' = {}
        BY <1>1, <2>2, <2>7 DEF Filed
      <3>3. \A l, j \in Keys : l # j => ToSet(lists'[l]) \cap ToSet(lists'[j]) = {}
        BY <1>1, <2>7 DEF Filed
      <3>4. QED  BY <1>1, <2>2, <2>8, <3>1, <3>2, <3>3 DEF Filed
    <2>10. In(lists', global') = Cached \ {m} /\ m \in Cached
      <3>1. \A x : x \in In(lists, global) <=> x \in global \/ \E l \in Keys : x \in ToSet(lists[l])
        BY DEF In
      <3>2. \A x : x \in In(lists', global') <=> x \in global' \/ \E l \in Keys : x \in ToSet(lists'[l])
        BY DEF In
      <3>3. m \notin global
        BY <1>1, <2>1, <2>2 DEF Filed
      <3>4. \A x : x \in In(lists', global') <=> x \in In(lists, global) /\ x # m
        <4> SUFFICES ASSUME NEW x PROVE x \in In(lists', global') <=> x \in In(lists, global) /\ x # m
          OBVIOUS
        <4>1. (\E l \in Keys : x \in ToSet(lists'[l])) <=> x # m /\ \E l \in Keys : x \in ToSet(lists[l])
          BY <2>7
        <4>2. x \in global' <=> x \in global /\ x # m
          BY <2>2, <3>3
        <4>3. QED  BY <3>1, <3>2, <4>1, <4>2
      <3>5. m \in In(lists, global)
        BY <2>1, <2>2, <3>1
      <3>6. QED  BY <1>1, <3>4, <3>5
    <2>11. disorder \/ \A l \in Keys : InOrder(lists'[l])
      BY <1>2, <2>1, <2>4, <2>6
    <2>12. QED  BY <1>2, <2>2, <2>9, <2>10, <2>11
  <1>4. CASE tryGetGlobal(r, m)
    <2>1. m \in global /\ global' = global \ {m} /\ lists' = lists
      BY <1>4 DEF tryGetGlobal, Candidates
    <2>2. Filed(lists', global') /\ In(lists', global') = Cached \ {m}
      <3>1. Filed(lists, global') /\ In(lists, global') = In(lists, global) \ {m}
        <4>1. m \in global /\ global' = global \ {m} /\ Filed(lists, global)
          BY <1>1, <2>1
        <4>2. Filed(lists, global') /\ \A k \in Keys : m \notin ToSet(lists[k])
          BY <4>1 DEF Filed
        <4>3. \A x : x \in In(lists, global) <=> x \in global \/ \E k \in Keys : x \in ToSet(lists[k])
          BY DEF In
        <4>4. \A x : x \in In(lists, global') <=> x \in global' \/ \E k \in Keys : x \in ToSet(lists[k])
          BY DEF In
        <4>5. \A x : x \in In(lists, global') <=> x \in In(lists, global) \ {m}
          BY <4>1, <4>2, <4>3, <4>4
        <4>6. QED  BY <4>2, <4>5
      <3>2. QED  BY <1>1, <2>1, <3>1
    <2>3. m \in Cached
      BY <2>1 DEF Cached
    <2>4. QED  BY <1>2, <2>1, <2>2, <2>3
  <1>5. CASE moveReadyAndGet(r, m)
    <2>1. m \in Moved /\ global' = Moved \ {m} /\ lists' = Left
      BY <1>5 DEF moveReadyAndGet, Candidates
    <2>2. Filed(Left, Moved) /\ In(Left, Moved) = Cached
      BY MoveFacts
    <2>3. Filed(lists', global') /\ In(lists', global') = Cached \ {m}
      <3>1. Filed(Left, global') /\ In(Left, global') = In(Left, Moved) \ {m}
        <4>1. m \in Moved /\ global' = Moved \ {m} /\ Filed(Left, Moved)
          BY <2>1, <2>2
        <4>2. Filed(Left, global') /\ \A k \in Keys : m \notin ToSet(Left[k])
          BY <4>1 DEF Filed
        <4>3. \A x : x \in In(Left, Moved) <=> x \in Moved \/ \E k \in Keys : x \in ToSet(Left[k])
          BY DEF In
        <4>4. \A x : x \in In(Left, global') <=> x \in global' \/ \E k \in Keys : x \in ToSet(Left[k])
          BY DEF In
        <4>5. \A x : x \in In(Left, global') <=> x \in In(Left, Moved) \ {m}
          BY <4>1, <4>2, <4>3, <4>4
        <4>6. QED  BY <4>2, <4>5
      <3>2. QED  BY <2>1, <2>2, <3>1
    <2>4. m \in Cached
      BY <2>1, <2>2 DEF In
    <2>5. disorder \/ \A k \in Keys : InOrder(lists'[k])
      BY <1>2, <2>1, MoveFacts
    <2>6. (disorder /\ precise) \/ \A x \in global' : Users(x) = {}
      BY <2>1, MovedUnused
    <2>7. QED  BY <2>3, <2>4, <2>5, <2>6
  <1>6. QED  BY <1>3, <1>4, <1>5 DEF Hit

LEMMA MissFacts ==
  ASSUME IInv, NEW s, NEW r, Miss(s, r)
  PROVE  /\ Filed(lists', global') /\ In(lists', global') = Cached
         /\ disorder \/ \A k \in Keys : InOrder(lists'[k])
         /\ (disorder /\ precise) \/ \A x \in global' : Users(x) = {}
  <1>1. lists' = Left /\ global' = Moved
    BY DEF Miss, moveReadyToGlobal
  <1>2. disorder \/ \A k \in Keys : InOrder(lists'[k])
    BY <1>1, MoveFacts DEF IInv, ListsInOrder
  <1>3. QED  BY <1>1, <1>2, MoveFacts, MovedUnused

\* put files a block that was not in the cache.
LEMMA PutFacts ==
  ASSUME IInv, NEW m \in Mems, NEW s \in Keys, NEW perStream \in BOOLEAN, m \notin Cached,
         put(m, s, perStream)
  PROVE  Filed(lists', global') /\ In(lists', global') = Cached \cup {m}
  <1>1. /\ lists \in [Keys -> Seq(Mems)] /\ global \subseteq Mems /\ hint \in [Streams -> Streams]
        /\ Filed(lists, global) /\ Cached = In(lists, global)
    BY PlacedFacts DEF IInv, TypeOK, Placed
  <1>2. m \notin global /\ \A k \in Keys : m \notin ToSet(lists[k])
    BY DEF Cached
  <1>3. \A x : x \in In(lists, global) <=> x \in global \/ \E l \in Keys : x \in ToSet(lists[l])
    BY DEF In
  <1>4. \A x : x \in In(lists', global') <=> x \in global' \/ \E l \in Keys : x \in ToSet(lists'[l])
    BY DEF In
  <1>5. CASE ~ perStream
    <2>1. lists' = lists /\ global' = global \cup {m}
      BY <1>5 DEF put
    <2>2. Filed(lists', global')
      BY <1>1, <1>2, <2>1 DEF Filed
    <2>3. \A x : x \in In(lists', global') <=> x \in In(lists, global) \/ x = m
      BY <1>3, <1>4, <2>1
    <2>4. QED  BY <1>1, <2>2, <2>3
  <1>6. CASE perStream
    <2> DEFINE k == Key(s)
    <2>1. k \in Keys
      BY <1>1 DEF Key, Keys
    <2>2. global' = global /\ lists' = [lists EXCEPT ![k] = Append(lists[k], m)]
      BY <1>6 DEF put
    <2> HIDE DEF k
    <2>3. lists[k] \in Seq(Mems) /\ IsInjective(lists[k])
      BY <1>1, <2>1 DEF Filed
    <2>4. /\ lists'[k] = Append(lists[k], m) /\ \A l \in Keys : l # k => lists'[l] = lists[l]
          /\ lists' = [l \in Keys |-> lists'[l]]
      BY <1>1, <2>1, <2>2
    <2> DEFINE o == lists[k]
               v == lists'[k]
    <2>5. /\ v \in Seq(Mems) /\ Len(v) = Len(o) + 1
          /\ \A i \in 1 .. Len(o) : v[i] = o[i]
          /\ v[Len(o) + 1] = m
      BY <2>3, <2>4, AppendProperties
    <2>6. Len(o) \in Nat /\ DOMAIN o = 1 .. Len(o) /\ DOMAIN v = 1 .. Len(v)
      BY <2>3, <2>5, LenProperties
    <2> HIDE DEF o, v
    <2>7. /\ \A i \in DOMAIN v : i \in DOMAIN o \/ i = Len(o) + 1
          /\ \A i \in DOMAIN o : i \in DOMAIN v /\ v[i] = o[i]
          /\ Len(o) + 1 \in DOMAIN v
      BY <2>5, <2>6
    <2>8. ToSet(v) = ToSet(o) \cup {m}
      BY <2>5, <2>7 DEF ToSet
    <2>9. IsInjective(v)
      <3>1. m \notin ToSet(o) /\ IsInjective(o)
        BY <1>2, <2>1, <2>3 DEF o
      <3>2. QED  BY <2>5, <2>7, <3>1 DEF IsInjective, ToSet
    <2>10. \A l \in Keys : /\ lists'[l] \in Seq(Mems) /\ IsInjective(lists'[l])
                           /\ ToSet(lists'[l]) = ToSet(lists[l]) \cup {x \in {m} : l = k}
      BY <1>1, <2>4, <2>5, <2>8, <2>9 DEF Filed, o, v
    <2>11. Filed(lists', global')
      <3>1. lists' \in [Keys -> Seq(Mems)]
        BY <2>4, <2>10
      <3>2. \A l \in Keys : ToSet(lists'[l]) \cap global' = {}
        BY <1>1, <1>2, <2>2, <2>10 DEF Filed
      <3>3. \A l, j \in Keys : l # j => ToSet(lists'[l]) \cap ToSet(lists'[j]) = {}
        <4> SUFFICES ASSUME NEW l \in Keys, NEW j \in Keys, l # j,
                            NEW x \in ToSet(lists'[l]), x \in ToSet(lists'[j])
                     PROVE  FALSE
          OBVIOUS
        <4>1. CASE x = m
          BY <1>2, <2>10, <4>1
        <4>2. CASE x # m
          <5>1. x \in ToSet(lists[l]) /\ x \in ToSet(lists[j])
            BY <2>10, <4>2
          <5>2. QED  BY <1>1, <5>1 DEF Filed
        <4>3. QED  BY <4>1, <4>2
      <3>4. QED  BY <1>1, <2>2, <2>10, <3>1, <3>2, <3>3 DEF Filed
    <2>12. \A x : x \in In(lists', global') <=> x \in In(lists, global) \/ x = m
      <3> SUFFICES ASSUME NEW x PROVE x \in In(lists', global') <=> x \in In(lists, global) \/ x = m
        OBVIOUS
      <3>1. (\E l \in Keys : x \in ToSet(lists'[l])) <=> x = m \/ \E l \in Keys : x \in ToSet(lists[l])
        BY <2>1, <2>10
      <3>2. QED  BY <1>3, <1>4, <2>2, <3>1
    <2>13. QED  BY <1>1, <2>11, <2>12
  <1>7. QED  BY <1>5, <1>6

-----------------------------------------------------------------------------
(* Threads *)

PCs == {"idle", "create", "leased", "acquired", "release", "put"}

\* What TypeOK, LeasesHeld and EventsSeen say of one thread x.
ThreadType == [pc : PCs, mem : Mems \cup {NoMem}, on : Keys, req : Reqs \cup {NoReq},
               wait : SUBSET DOMAIN job, perStream : BOOLEAN]
Holds(x) ==
    /\ x.mem # NoMem <=> x.pc \in {"leased", "acquired", "release", "put"}
    /\ x.pc = "create" => x.req # NoReq
    /\ x.pc # "idle" => x.on # NoStream
Sees(x) ==
    /\ x.pc = "acquired" => event[x.mem] \in x.wait \cup {0}
    /\ x.pc = "acquired" /\ kind # "cuda" => Ready(x.mem)
    /\ x.pc = "put" /\ ~x.perStream => Ready(x.mem)

LEMMA ThreadFacts ==
  ASSUME IInv
  PROVE  /\ th \in [Threads -> ThreadType]
         /\ \A t \in Threads : Holds(th[t]) /\ Sees(th[t])
  BY DEF IInv, TypeOK, LeasesHeld, EventsSeen, ThreadType, PCs, Holds, Sees

LEMMA IdleFacts ==
  /\ Idle.pc = "idle" /\ Idle.mem = NoMem /\ Idle.on = NoStream /\ Idle.req = NoReq
  /\ Idle \in ThreadType /\ Holds(Idle) /\ Sees(Idle)
  BY DEF Idle, ThreadType, PCs, Keys, Holds, Sees

\* A step of one thread that leaves the GPU alone.
LEMMA OneThread ==
  ASSUME IInv, UNCHANGED <<job, event, kind>>, NEW t \in Threads,
         th' \in [Threads -> ThreadType], \A u \in Threads : u # t => th'[u] = th[u],
         Holds(th'[t]), Sees(th'[t])
  PROVE  th' \in [Threads -> ThreadType'] /\ LeasesHeld' /\ EventsSeen' /\ UsersOrdered'
  <1>1. ThreadType' = ThreadType
    BY DEF ThreadType
  <1>2. \A u \in Threads : Holds(th'[u]) /\ Sees(th'[u])
    BY ThreadFacts
  <1>3. LeasesHeld'
    BY <1>2 DEF LeasesHeld, Holds
  <1>4. EventsSeen'
    BY <1>2 DEF EventsSeen, Sees, Ready
  <1>5. UsersOrdered'
    BY DEF IInv, UsersOrdered, Users
  <1>6. QED  BY <1>1, <1>3, <1>4, <1>5

\* The threads that hold a block or create one.
Busy(h) == {t \in Threads : h[t].pc # "idle"}

LEMMA BusyCount ==
  ASSUME NEW h, NEW g, NEW t \in Threads, \A u \in Threads : u # t => g[u].pc = h[u].pc
  PROVE  /\ Cardinality(Busy(h)) \in Nat /\ Cardinality(Busy(g)) \in Nat
         /\ h[t].pc = "idle" /\ g[t].pc # "idle" => Cardinality(Busy(g)) = Cardinality(Busy(h)) + 1
         /\ h[t].pc # "idle" /\ g[t].pc = "idle" => Cardinality(Busy(h)) = Cardinality(Busy(g)) + 1
         /\ h[t].pc # "idle" /\ g[t].pc # "idle" => Cardinality(Busy(g)) = Cardinality(Busy(h))
  <1>1. IsFiniteSet(Busy(h)) /\ IsFiniteSet(Busy(g))
    <2>1. Busy(h) \subseteq Threads /\ Busy(g) \subseteq Threads
      BY DEF Busy
    <2>2. QED  BY <2>1, ThreadsAssumption, FS_Subset
  <1>2. h[t].pc = "idle" /\ g[t].pc # "idle" => Busy(g) = Busy(h) \cup {t} /\ t \notin Busy(h)
    BY DEF Busy
  <1>3. h[t].pc # "idle" /\ g[t].pc = "idle" => Busy(h) = Busy(g) \cup {t} /\ t \notin Busy(g)
    BY DEF Busy
  <1>4. h[t].pc # "idle" /\ g[t].pc # "idle" => Busy(g) = Busy(h)
    BY DEF Busy
  <1>5. /\ Cardinality(Busy(h)) \in Nat /\ Cardinality(Busy(g)) \in Nat
    BY <1>1, FS_CardinalityType
  <1>6. /\ t \notin Busy(h) => Cardinality(Busy(h) \cup {t}) = Cardinality(Busy(h)) + 1
        /\ t \notin Busy(g) => Cardinality(Busy(g) \cup {t}) = Cardinality(Busy(g)) + 1
    BY <1>1, FS_AddElement
  <1>7. QED  BY <1>2, <1>3, <1>4, <1>5, <1>6

\* The count of outstanding allocations follows the threads.
LEMMA CountStep ==
  ASSUME IInv, NEW t \in Threads, th' \in [Threads -> ThreadType'], LeasesHeld',
         \A u \in Threads : u # t => th'[u].pc = th[u].pc,
         \/ th[t].pc = "idle" /\ th'[t].pc # "idle" /\ outstanding' = outstanding + 1 /\ lost' = lost
         \/ th[t].pc # "idle" /\ th'[t].pc = "idle" /\ outstanding' = outstanding - 1 /\ lost' = lost
         \/ th[t].pc # "idle" /\ th'[t].pc = "idle" /\ outstanding' = outstanding /\ lost' = lost + 1
         \/ th[t].pc # "idle" /\ th'[t].pc # "idle" /\ outstanding' = outstanding /\ lost' = lost
  PROVE  OutstandingExact' /\ outstanding' \in Nat
  <1>1. Leased \cup Creating = Busy(th)
    <2>1. \A u \in Threads : th[u].pc \in PCs /\ Holds(th[u])
      BY ThreadFacts DEF ThreadType
    <2>2. QED  BY <2>1 DEF Leased, Creating, Busy, PCs, Holds
  <1>2. (Leased \cup Creating)' = Busy(th')
    <2>1. \A u \in Threads : th'[u].pc \in PCs /\ Holds(th'[u])
      BY DEF ThreadType, LeasesHeld, Holds
    <2>2. QED  BY <2>1 DEF Leased, Creating, Busy, PCs, Holds
  <1>3. outstanding = Cardinality(Busy(th)) + lost /\ outstanding \in Nat /\ lost \in Nat
    <2>1. lost \in 0 .. MaxLost /\ outstanding \in Nat
      BY DEF IInv, TypeOK
    <2>2. lost \in Nat
      BY <2>1, LostAssumption
    <2>3. outstanding = Cardinality(Leased \cup Creating) + lost
      BY DEF IInv, OutstandingExact
    <2>4. QED  BY <1>1, <2>1, <2>2, <2>3
  <1> DEFINE a == Cardinality(Busy(th))
             b == Cardinality(Busy(th'))
  <1>4. /\ a \in Nat /\ b \in Nat
        /\ th[t].pc = "idle" /\ th'[t].pc # "idle" => b = a + 1
        /\ th[t].pc # "idle" /\ th'[t].pc = "idle" => a = b + 1
        /\ th[t].pc # "idle" /\ th'[t].pc # "idle" => a = b
    BY BusyCount
  <1> HIDE DEF a, b
  <1>5. outstanding' = b + lost' /\ outstanding' \in Nat
    BY <1>3, <1>4 DEF a
  <1>6. QED  BY <1>2, <1>5 DEF OutstandingExact, b

-----------------------------------------------------------------------------
(* The steps *)

\* The parts of TypeOK that steps of threads leave alone.
LEMMA SameTypes ==
  ASSUME IInv, UNCHANGED <<job, event, hint, precise, kind>>
  PROVE  /\ DOMAIN job' \subseteq Jobs
         /\ job' \in [DOMAIN job' -> [on : Streams, mem : Mems, before : SUBSET DOMAIN job']]
         /\ event' \in [Mems -> DOMAIN job' \cup {0}]
         /\ hint' \in [Streams -> Streams] /\ precise' \in BOOLEAN /\ kind' \in Kinds
  BY DEF IInv, TypeOK

\* What is said of lists and the global cache, where the GPU does nothing.
LEMMA SameOrder ==
  ASSUME UNCHANGED <<job, event, precise>>,
         disorder' \/ \A k \in Keys : InOrder(lists'[k]),
         (disorder' /\ precise) \/ \A x \in global' : Users(x) = {}
  PROVE  ListsInOrder' /\ GlobalReady'
  <1>1. disorder' \/ \A k \in Keys : InOrder(lists[k])'
    BY DEF InOrder, Ready
  <1>2. (disorder' /\ precise') \/ \A x \in global' : Users(x)' = {}
    BY DEF Users
  <1>3. ListsInOrder'
    BY <1>1 DEF ListsInOrder
  <1>4. QED  BY <1>2, <1>3 DEF GlobalReady

LEMMA GetHitKeepsInv ==
  ASSUME IInv, NEW t \in Threads, NEW s \in Streams, NEW r \in Reqs, GetHit(t, s, r)
  PROVE  IInv'
  <1>1. PICK m \in Mems : /\ Hit(AcquireStream(s), r, m)
                          /\ th' = [th EXCEPT ![t].pc = "leased", ![t].mem = m, ![t].on = s]
    BY Zenon DEF GetHit
  <1>2. /\ th[t] = Idle /\ outstanding' = outstanding + 1
        /\ UNCHANGED <<job, event, req, hint, precise, kind, purging, lost, abandoned, disorder>>
    BY DEF GetHit, fixed, ghosts
  <1>3. AcquireStream(s) \in Keys
    BY DEF AcquireStream, Keys
  <1>4. /\ m \in Cached /\ Filed(lists', global') /\ In(lists', global') = Cached \ {m}
        /\ disorder \/ \A k \in Keys : InOrder(lists'[k])
        /\ (disorder /\ precise) \/ \A x \in global' : Users(x) = {}
    BY <1>1, <1>3, HitFacts
  <1>5. /\ th'[t].pc = "leased" /\ th'[t].mem = m /\ th'[t].on = s /\ th'[t] \in ThreadType
        /\ th' \in [Threads -> ThreadType] /\ \A u \in Threads : u # t => th'[u] = th[u]
    <2>1. th \in [Threads -> ThreadType]
      BY ThreadFacts
    <2>2. th'[t] = [pc |-> "leased", mem |-> m, on |-> s, req |-> th[t].req, wait |-> th[t].wait,
                    perStream |-> th[t].perStream]
      BY <1>1, <2>1, ZenonT(60) DEF ThreadType
    <2>3. /\ th' = [u \in Threads |-> th'[u]] /\ \A u \in Threads : u # t => th'[u] = th[u]
      BY <1>1, <2>1, Zenon DEF ThreadType
    <2>4. th'[t] \in ThreadType
      BY <2>1, <2>2 DEF ThreadType, PCs, Keys
    <2>5. QED  BY <2>1, <2>2, <2>3, <2>4
  <1>6. Holds(th'[t]) /\ Sees(th'[t])
    BY <1>5, NoMemAssumption, StreamsAssumption DEF Holds, Sees
  <1>7. th' \in [Threads -> ThreadType'] /\ LeasesHeld' /\ EventsSeen' /\ UsersOrdered'
    BY <1>2, <1>5, <1>6, OneThread
  <1>8. OutstandingExact' /\ outstanding' \in Nat
    <2>1. th[t].pc = "idle" /\ th'[t].pc # "idle"
      BY <1>2, <1>5, IdleFacts
    <2>2. QED  BY <1>2, <1>5, <1>7, <2>1, CountStep
  <1>9. OnePlace'
    <2>1. Placed(req, th, lists, global) /\ Cached = In(lists, global)
      BY PlacedFacts DEF IInv
    <2>2. th[t].mem = NoMem /\ \A u \in Threads : u # t => th'[u].mem = th[u].mem
      BY <1>2, <1>5, IdleFacts
    <2>3. Placed(req', th', lists', global')
      BY <1>2, <1>4, <1>5, <2>1, <2>2, PlacedTake
    <2>4. QED  BY <2>3, PlacedNext
  <1>10. ListsInOrder' /\ GlobalReady'
    BY <1>2, <1>4, SameOrder
  <1>11. TypeOK'
    <2>1. /\ req' \in [Mems -> Reqs \cup {NoReq}] /\ purging' \in BOOLEAN /\ disorder' \in BOOLEAN
          /\ lost' \in 0 .. MaxLost /\ abandoned' \subseteq Mems
      BY <1>2 DEF IInv, TypeOK
    <2>2. lists' \in [Keys -> Seq(Mems)] /\ global' \subseteq Mems
      BY <1>4 DEF Filed
    <2>3. QED  BY <1>2, <1>7, <1>8, <2>1, <2>2, SameTypes DEF TypeOK, ThreadType, PCs
  <1>12. FreedUnused'
    BY <1>2 DEF IInv, FreedUnused
  <1>13. QED  BY <1>7, <1>8, <1>9, <1>10, <1>11, <1>12 DEF IInv

LEMMA GetMissKeepsInv ==
  ASSUME IInv, NEW t \in Threads, NEW s \in Streams, NEW r \in Reqs, GetMiss(t, s, r)
  PROVE  IInv'
  <1>1. Miss(AcquireStream(s), r) /\ th' = [th EXCEPT ![t].pc = "create", ![t].on = s, ![t].req = r]
    BY Zenon DEF GetMiss
  <1>2. /\ th[t] = Idle /\ outstanding' = outstanding + 1
        /\ UNCHANGED <<job, event, req, hint, precise, kind, purging, lost, abandoned, disorder>>
    BY DEF GetMiss, fixed, ghosts
  <1>4. /\ Filed(lists', global') /\ In(lists', global') = Cached
        /\ disorder \/ \A k \in Keys : InOrder(lists'[k])
        /\ (disorder /\ precise) \/ \A x \in global' : Users(x) = {}
    BY <1>1, MissFacts
  <1>5. /\ th'[t].pc = "create" /\ th'[t].mem = NoMem /\ th'[t].on = s /\ th'[t].req = r
        /\ th' \in [Threads -> ThreadType] /\ \A u \in Threads : u # t => th'[u] = th[u]
    <2>1. th \in [Threads -> ThreadType] /\ th[t].mem = NoMem
      BY <1>2, ThreadFacts, IdleFacts
    <2>2. th'[t] = [pc |-> "create", mem |-> th[t].mem, on |-> s, req |-> r, wait |-> th[t].wait,
                    perStream |-> th[t].perStream]
      BY <1>1, <2>1, ZenonT(60) DEF ThreadType
    <2>3. /\ th' = [u \in Threads |-> th'[u]] /\ \A u \in Threads : u # t => th'[u] = th[u]
      BY <1>1, <2>1, Zenon DEF ThreadType
    <2>4. th'[t] \in ThreadType
      BY <2>1, <2>2 DEF ThreadType, PCs, Keys
    <2>5. QED  BY <2>1, <2>2, <2>3, <2>4
  <1>6. Holds(th'[t]) /\ Sees(th'[t])
    BY <1>5, BlocksAssumption, StreamsAssumption DEF Holds, Sees
  <1>7. th' \in [Threads -> ThreadType'] /\ LeasesHeld' /\ EventsSeen' /\ UsersOrdered'
    BY <1>2, <1>5, <1>6, OneThread
  <1>8. OutstandingExact' /\ outstanding' \in Nat
    <2>1. th[t].pc = "idle" /\ th'[t].pc # "idle"
      BY <1>2, <1>5, IdleFacts
    <2>2. QED  BY <1>2, <1>5, <1>7, <2>1, CountStep
  <1>9. OnePlace'
    <2>1. Placed(req, th, lists, global) /\ Cached = In(lists, global)
      BY PlacedFacts DEF IInv
    <2>2. \A u \in Threads : th'[u].mem = th[u].mem
      BY <1>2, <1>5, IdleFacts
    <2>3. Placed(req', th', lists', global')
      BY <1>2, <1>4, <1>5, <2>1, <2>2, PlacedMove
    <2>4. QED  BY <2>3, PlacedNext
  <1>10. ListsInOrder' /\ GlobalReady'
    BY <1>2, <1>4, SameOrder
  <1>11. TypeOK'
    <2>1. /\ req' \in [Mems -> Reqs \cup {NoReq}] /\ purging' \in BOOLEAN /\ disorder' \in BOOLEAN
          /\ lost' \in 0 .. MaxLost /\ abandoned' \subseteq Mems
      BY <1>2 DEF IInv, TypeOK
    <2>2. lists' \in [Keys -> Seq(Mems)] /\ global' \subseteq Mems
      BY <1>4 DEF Filed
    <2>3. QED  BY <1>2, <1>7, <1>8, <2>1, <2>2, SameTypes DEF TypeOK, ThreadType, PCs
  <1>12. FreedUnused'
    BY <1>2 DEF IInv, FreedUnused
  <1>13. QED  BY <1>7, <1>8, <1>9, <1>10, <1>11, <1>12 DEF IInv

\* A step of one thread that keeps its block, or its want of one, and leaves the
\* cache and the GPU alone.
LEMMA ThreadOnly ==
  ASSUME IInv, NEW t \in Threads, th' \in [Threads -> ThreadType], \A u \in Threads : u # t => th'[u] = th[u],
         UNCHANGED <<job, event, req, lists, global, hint, precise, kind, purging, outstanding,
                     abandoned, disorder>>,
         Holds(th'[t]), Sees(th'[t]), th'[t].mem = th[t].mem, lost' \in 0 .. MaxLost,
         \/ th[t].pc # "idle" /\ th'[t].pc = "idle" /\ lost' = lost + 1
         \/ th[t].pc # "idle" /\ th'[t].pc # "idle" /\ lost' = lost
  PROVE  IInv'
  <1>1. th' \in [Threads -> ThreadType'] /\ LeasesHeld' /\ EventsSeen' /\ UsersOrdered'
    BY OneThread
  <1>2. OutstandingExact' /\ outstanding' \in Nat
    BY <1>1, CountStep
  <1>3. OnePlace'
    <2>1. Placed(req, th, lists, global)
      BY PlacedFacts DEF IInv
    <2>2. (\A u \in Threads : th'[u].mem = th[u].mem) /\ Filed(lists', global')
          /\ In(lists', global') = In(lists, global)
      BY <2>1 DEF Placed
    <2>3. Placed(req', th', lists', global')
      BY <2>1, <2>2, PlacedMove
    <2>4. QED  BY <2>3, PlacedNext
  <1>4. ListsInOrder' /\ GlobalReady'
    <2>1. /\ disorder' \/ \A k \in Keys : InOrder(lists'[k])
          /\ (disorder' /\ precise) \/ \A x \in global' : Users(x) = {}
      BY DEF IInv, ListsInOrder, GlobalReady
    <2>2. QED  BY <2>1, SameOrder
  <1>5. TypeOK'
    <2>1. /\ req' \in [Mems -> Reqs \cup {NoReq}] /\ purging' \in BOOLEAN /\ disorder' \in BOOLEAN
          /\ abandoned' \subseteq Mems /\ lists' \in [Keys -> Seq(Mems)] /\ global' \subseteq Mems
      BY DEF IInv, TypeOK
    <2>2. QED  BY <1>1, <1>2, <2>1, SameTypes DEF TypeOK, ThreadType, PCs
  <1>6. FreedUnused'
    BY DEF IInv, FreedUnused
  <1>7. QED  BY <1>1, <1>2, <1>3, <1>4, <1>5, <1>6 DEF IInv

LEMMA LostStep ==
  ASSUME IInv, lost < MaxLost, lost' = lost + 1
  PROVE  lost' \in 0 .. MaxLost
  <1>1. lost \in 0 .. MaxLost
    BY DEF IInv, TypeOK
  <1>2. QED  BY <1>1, LostAssumption

LEMMA CreateFailsKeepsInv ==
  ASSUME IInv, NEW t \in Threads, CreateFails(t)
  PROVE  IInv'
  <1>1. /\ th[t].pc = "create" /\ lost < MaxLost /\ lost' = lost + 1 /\ th' = [th EXCEPT ![t] = Idle]
        /\ UNCHANGED <<job, event, req, lists, global, hint, precise, kind, purging, outstanding,
                       abandoned, disorder>>
    BY DEF CreateFails, fixed, cache
  <1>2. /\ th' \in [Threads -> ThreadType] /\ th'[t] = Idle /\ \A u \in Threads : u # t => th'[u] = th[u]
    BY <1>1, ThreadFacts, IdleFacts
  <1>3. Holds(th'[t]) /\ Sees(th'[t]) /\ th'[t].mem = th[t].mem /\ th'[t].pc = "idle"
    <2>1. th[t].mem = NoMem
      BY <1>1, ThreadFacts DEF Holds
    <2>2. QED  BY <1>2, <2>1, IdleFacts
  <1>4. lost' \in 0 .. MaxLost
    BY <1>1, LostStep
  <1>5. QED  BY <1>1, <1>2, <1>3, <1>4, ThreadOnly

LEMMA AcquireKeepsInv ==
  ASSUME IInv, NEW t \in Threads, Acquire(t)
  PROVE  IInv'
  <1>1. /\ th[t].pc = "leased" /\ (kind = "cuda" \/ Ready(th[t].mem))
        /\ UNCHANGED <<job, event, req, lists, global, hint, precise, kind, purging, outstanding,
                       lost, abandoned, disorder>>
    BY DEF Acquire, fixed, cache, ghosts
  <1> DEFINE m == th[t].mem
             w == {event[m]} \ {0}
  <1>2. th \in [Threads -> ThreadType] /\ Holds(th[t])
    BY ThreadFacts
  <1>3. m \in Mems /\ m # NoMem /\ th[t].on # NoStream
    BY <1>1, <1>2 DEF Holds, ThreadType
  <1>4. w \in SUBSET DOMAIN job
    BY <1>3 DEF IInv, TypeOK
  <1>5. th'[t] = [pc |-> "acquired", mem |-> m, on |-> th[t].on, req |-> th[t].req, wait |-> w,
                  perStream |-> th[t].perStream]
    BY <1>2, ZenonT(60) DEF Acquire, ThreadType
  <1>6. th' = [u \in Threads |-> th'[u]] /\ \A u \in Threads : u # t => th'[u] = th[u]
    BY <1>2, Zenon DEF Acquire, ThreadType
  <1> HIDE DEF w
  <1>7. th'[t] \in ThreadType
    BY <1>2, <1>4, <1>5 DEF ThreadType, PCs, Keys
  <1>8. th' \in [Threads -> ThreadType]
    BY <1>2, <1>6, <1>7
  <1>9. /\ th'[t].pc = "acquired" /\ th'[t].mem = m /\ th'[t].wait = w /\ th'[t].on = th[t].on
    BY <1>5
  <1>10. Holds(th'[t]) /\ Sees(th'[t])
    BY <1>1, <1>3, <1>9 DEF Holds, Sees, w
  <1>11. lost' \in 0 .. MaxLost
    BY <1>1 DEF IInv, TypeOK
  <1>12. QED  BY <1>1, <1>6, <1>8, <1>9, <1>10, <1>11, ThreadOnly

LEMMA UseFailsKeepsInv ==
  ASSUME IInv, NEW t \in Threads, UseFails(t)
  PROVE  IInv'
  <1>1. /\ th[t].pc \in {"leased", "acquired"}
        /\ UNCHANGED <<job, event, req, lists, global, hint, precise, kind, purging, outstanding,
                       lost, abandoned, disorder>>
    BY DEF UseFails, fixed, cache, ghosts
  <1>2. th \in [Threads -> ThreadType] /\ Holds(th[t])
    BY ThreadFacts
  <1>3. th[t].mem # NoMem /\ th[t].on # NoStream
    BY <1>1, <1>2 DEF Holds
  <1>4. th'[t] = [pc |-> "release", mem |-> th[t].mem, on |-> th[t].on, req |-> th[t].req, wait |-> {},
                  perStream |-> th[t].perStream]
    BY <1>2, ZenonT(60) DEF UseFails, ThreadType
  <1>5. th' = [u \in Threads |-> th'[u]] /\ \A u \in Threads : u # t => th'[u] = th[u]
    BY <1>2, Zenon DEF UseFails, ThreadType
  <1>6. th'[t] \in ThreadType
    BY <1>2, <1>4 DEF ThreadType, PCs, Keys
  <1>7. th' \in [Threads -> ThreadType]
    BY <1>2, <1>5, <1>6
  <1>8. /\ th'[t].pc = "release" /\ th'[t].mem = th[t].mem /\ th'[t].on = th[t].on
    BY <1>4
  <1>9. Holds(th'[t]) /\ Sees(th'[t])
    BY <1>3, <1>8 DEF Holds, Sees
  <1>10. lost' \in 0 .. MaxLost
    BY <1>1 DEF IInv, TypeOK
  <1>11. QED  BY <1>1, <1>5, <1>7, <1>8, <1>9, <1>10, ThreadOnly

LEMMA PutQueryKeepsInv ==
  ASSUME IInv, NEW t \in Threads, PutQuery(t)
  PROVE  IInv'
  <1>1. /\ th[t].pc = "release"
        /\ UNCHANGED <<job, event, req, lists, global, hint, precise, kind, purging, outstanding,
                       lost, abandoned, disorder>>
    BY DEF PutQuery, fixed, cache, ghosts
  <1> DEFINE p == ~Ready(th[t].mem)
  <1>2. th \in [Threads -> ThreadType] /\ Holds(th[t])
    BY ThreadFacts
  <1>3. th[t].mem # NoMem /\ th[t].on # NoStream
    BY <1>1, <1>2 DEF Holds
  <1>4. th'[t] = [pc |-> "put", mem |-> th[t].mem, on |-> th[t].on, req |-> th[t].req, wait |-> th[t].wait,
                  perStream |-> p]
    BY <1>2, ZenonT(60) DEF PutQuery, ThreadType
  <1>5. th' = [u \in Threads |-> th'[u]] /\ \A u \in Threads : u # t => th'[u] = th[u]
    BY <1>2, Zenon DEF PutQuery, ThreadType
  <1>6. p \in BOOLEAN
    BY Zenon
  <1> HIDE DEF p
  <1>7. th'[t].perStream = p
    BY <1>4
  <1>8. ~ th'[t].perStream => Ready(th[t].mem)
    BY <1>7, Zenon DEF p
  <1>9. th'[t] \in ThreadType
    BY <1>2, <1>4, <1>6 DEF ThreadType, PCs, Keys
  <1>10. th' \in [Threads -> ThreadType]
    BY <1>2, <1>5, <1>9
  <1>11. /\ th'[t].pc = "put" /\ th'[t].mem = th[t].mem /\ th'[t].on = th[t].on
    BY <1>4
  <1>12. Holds(th'[t])
    BY <1>3, <1>11 DEF Holds
  <1>13. Sees(th'[t])
    BY <1>8, <1>11, Zenon DEF Sees
  <1>14. lost' \in 0 .. MaxLost
    BY <1>1 DEF IInv, TypeOK
  <1>15. QED  BY <1>1, <1>5, <1>10, <1>11, <1>12, <1>13, <1>14, ThreadOnly

\* A block that a failed get drops is freed; it counts as abandoned if in use.
LEMMA OtherKindFailsKeepsInv ==
  ASSUME IInv, NEW t \in Threads, OtherKindFails(t)
  PROVE  IInv'
  <1> DEFINE m == th[t].mem
  <1>1. /\ th[t].pc = "leased" /\ lost < MaxLost /\ lost' = lost + 1 /\ th' = [th EXCEPT ![t] = Idle]
        /\ req' = [req EXCEPT ![m] = NoReq]
        /\ abandoned' = abandoned \cup {n \in {m} : Users(n) # {}}
        /\ UNCHANGED <<job, event, lists, global, hint, precise, kind, purging, outstanding, disorder>>
    BY DEF OtherKindFails, fixed, cache
  <1>2. m \in Mems
    BY <1>1, ThreadFacts DEF Holds, ThreadType
  <1>3. /\ th' \in [Threads -> ThreadType] /\ th'[t] = Idle /\ \A u \in Threads : u # t => th'[u] = th[u]
    BY <1>1, ThreadFacts, IdleFacts
  <1>4. Holds(th'[t]) /\ Sees(th'[t]) /\ th'[t].mem = NoMem /\ th'[t].pc = "idle"
    BY <1>3, IdleFacts
  <1>5. lost' \in 0 .. MaxLost
    BY <1>1, LostStep
  <1>6. th' \in [Threads -> ThreadType'] /\ LeasesHeld' /\ EventsSeen' /\ UsersOrdered'
    BY <1>1, <1>3, <1>4, OneThread
  <1>7. OutstandingExact' /\ outstanding' \in Nat
    BY <1>1, <1>3, <1>4, <1>6, CountStep
  <1>8. /\ req' \in [Mems -> Reqs \cup {NoReq}] /\ req'[m] = NoReq
        /\ \A n \in Mems : n # m => req'[n] = req[n]
    BY <1>1, <1>2 DEF IInv, TypeOK
  <1> HIDE DEF m
  <1>9. OnePlace'
    <2>1. Placed(req, th, lists, global)
      BY PlacedFacts DEF IInv
    <2>2. th[t].mem = m /\ \A u \in Threads : u # t => th'[u].mem = th[u].mem
      BY <1>3 DEF m
    <2>3. Placed(req', th', lists, global)
      BY <1>2, <1>4, <1>8, <2>1, <2>2, PlacedDrop
    <2>4. QED  BY <1>1, <2>3, PlacedNext
  <1>10. ListsInOrder' /\ GlobalReady'
    <2>1. /\ disorder' \/ \A k \in Keys : InOrder(lists'[k])
          /\ (disorder' /\ precise) \/ \A x \in global' : Users(x) = {}
      BY <1>1 DEF IInv, ListsInOrder, GlobalReady
    <2>2. QED  BY <1>1, <2>1, SameOrder
  <1>11. TypeOK'
    <2>1. /\ purging' \in BOOLEAN /\ disorder' \in BOOLEAN
          /\ abandoned' \subseteq Mems /\ lists' \in [Keys -> Seq(Mems)] /\ global' \subseteq Mems
      BY <1>1, <1>2 DEF IInv, TypeOK
    <2>2. QED  BY <1>1, <1>5, <1>6, <1>7, <1>8, <2>1, SameTypes DEF TypeOK, ThreadType, PCs
  <1>12. FreedUnused'
    <2> SUFFICES ASSUME NEW j \in DOMAIN job, req'[job[j].mem] = NoReq, job[j].mem \notin abandoned', ~ disorder
                 PROVE  FALSE
      BY <1>1 DEF FreedUnused
    <2>1. job[j].mem \in Mems
      BY DEF IInv, TypeOK
    <2>2. CASE job[j].mem = m
      BY <1>1, <2>2 DEF Users
    <2>3. CASE job[j].mem # m
      BY <1>1, <1>8, <2>1, <2>3 DEF IInv, FreedUnused
    <2>4. QED  BY <2>2, <2>3
  <1>13. QED  BY <1>6, <1>7, <1>9, <1>10, <1>11, <1>12 DEF IInv

LEMMA PutKeepsInv ==
  ASSUME IInv, NEW t \in Threads, Put(t)
  PROVE  IInv'
  <1> DEFINE m == th[t].mem
             s == ReleaseStream(th[t].on)
             p == th[t].perStream
  <1>1. /\ th[t].pc = "put" /\ put(m, s, p) /\ th' = [th EXCEPT ![t] = Idle]
        /\ outstanding' = outstanding - 1
        /\ UNCHANGED <<job, event, req, hint, precise, kind, purging, lost, abandoned>>
    BY DEF Put, fixed, CountLowered
  <1>2. disorder' = (disorder \/ \E k \in Keys : ~ InOrder(lists'[k]))
    BY DEF Put
  <1>3. m \in Mems /\ s \in Keys /\ p \in BOOLEAN
    <2>1. th[t] \in ThreadType /\ Holds(th[t])
      BY ThreadFacts
    <2>2. m \in Mems \cup {NoMem} /\ th[t].on \in Keys /\ p \in BOOLEAN
      BY <2>1 DEF ThreadType
    <2>3. m # NoMem
      BY <1>1, <2>1 DEF Holds
    <2>4. QED  BY <2>2, <2>3 DEF ReleaseStream, Keys
  <1>4. Placed(req, th, lists, global) /\ Cached = In(lists, global)
    BY PlacedFacts DEF IInv
  <1>5. m \notin Cached
    BY <1>3, <1>4, NoMemAssumption DEF Placed
  <1>6. ~ p => Users(m) = {}
    <2>1. Sees(th[t])
      BY ThreadFacts
    <2>2. ~ p => Ready(m)
      BY <1>1, <2>1, Zenon DEF Sees
    <2>3. QED  BY <1>3, <2>2, ReadyUnused
  <1>7. th[t].mem = m /\ th[t].pc # "idle"
    BY <1>1
  <1>8. global' \subseteq global \cup {x \in {m} : ~ p}
    BY <1>1 DEF put
  <1> HIDE DEF m, s, p
  <1>9. Filed(lists', global') /\ In(lists', global') = Cached \cup {m}
    BY <1>1, <1>3, <1>5, PutFacts
  <1>10. /\ th' \in [Threads -> ThreadType] /\ th'[t] = Idle /\ \A u \in Threads : u # t => th'[u] = th[u]
    BY <1>1, ThreadFacts, IdleFacts
  <1>11. Holds(th'[t]) /\ Sees(th'[t]) /\ th'[t].mem = NoMem /\ th'[t].pc = "idle"
    BY <1>10, IdleFacts
  <1>12. th' \in [Threads -> ThreadType'] /\ LeasesHeld' /\ EventsSeen' /\ UsersOrdered'
    BY <1>1, <1>10, <1>11, OneThread
  <1>13. OutstandingExact' /\ outstanding' \in Nat
    BY <1>1, <1>7, <1>10, <1>11, <1>12, CountStep
  <1>14. OnePlace'
    <2>1. \A u \in Threads : u # t => th'[u].mem = th[u].mem
      BY <1>10
    <2>2. In(lists', global') = In(lists, global) \cup {m}
      BY <1>4, <1>9
    <2>3. Placed(req, th', lists', global')
      BY <1>3, <1>4, <1>7, <1>9, <1>11, <2>1, <2>2, PlacedPut
    <2>4. QED  BY <1>1, <2>3, PlacedNext
  <1>15. disorder' \in BOOLEAN /\ (disorder => disorder') /\ (disorder' \/ \A k \in Keys : InOrder(lists'[k]))
    BY <1>2, Zenon
  <1>16. ListsInOrder' /\ GlobalReady'
    <2>1. (disorder' /\ precise) \/ \A x \in global' : Users(x) = {}
      BY <1>6, <1>8, <1>15 DEF IInv, GlobalReady
    <2>2. QED  BY <1>1, <1>15, <2>1, SameOrder
  <1>17. TypeOK'
    <2>1. /\ req' \in [Mems -> Reqs \cup {NoReq}] /\ purging' \in BOOLEAN
          /\ lost' \in 0 .. MaxLost /\ abandoned' \subseteq Mems
      BY <1>1 DEF IInv, TypeOK
    <2>2. lists' \in [Keys -> Seq(Mems)] /\ global' \subseteq Mems
      BY <1>9 DEF Filed
    <2>3. QED  BY <1>1, <1>12, <1>13, <1>15, <2>1, <2>2, SameTypes DEF TypeOK, ThreadType, PCs
  <1>18. FreedUnused'
    BY <1>1, <1>15 DEF IInv, FreedUnused
  <1>19. QED  BY <1>12, <1>13, <1>14, <1>16, <1>17, <1>18 DEF IInv

\* A list is in order as long as its blocks keep their events, and the events
\* their jobs.
LEMMA OrderKept ==
  ASSUME NEW l \in Seq(Mems), NEW E, NEW J, InOrder(l),
         \A x \in ToSet(l) : E[x] = event[x] /\ (event[x] # 0 => J[event[x]].before = job[event[x]].before)
  PROVE  \A i, j \in DOMAIN l : i < j /\ E[l[i]] # 0 => E[l[j]] # 0 /\ E[l[i]] \in J[E[l[j]]].before
  <1> SUFFICES ASSUME NEW i \in DOMAIN l, NEW j \in DOMAIN l, i < j, E[l[i]] # 0
               PROVE  E[l[j]] # 0 /\ E[l[i]] \in J[E[l[j]]].before
    OBVIOUS
  <1>1. l[i] \in ToSet(l) /\ l[j] \in ToSet(l)
    BY DEF ToSet
  <1>2. event[l[i]] # 0
    BY <1>1
  <1>3. event[l[j]] # 0 /\ event[l[i]] \in job[event[l[j]]].before
    BY <1>2 DEF InOrder, Ready
  <1>4. QED  BY <1>1, <1>3

\* A new block has no job, and no list its event.
LEMMA CreateKeepsInv ==
  ASSUME IInv, NEW t \in Threads, Create(t)
  PROVE  IInv'
  <1>1. PICK m \in Fresh : /\ req' = [req EXCEPT ![m] = th[t].req]
                           /\ event' = [event EXCEPT ![m] = 0]
                           /\ th' = [th EXCEPT ![t].pc = "leased", ![t].mem = m, ![t].req = NoReq]
                           /\ abandoned' = abandoned \ {m}
    BY Zenon DEF Create
  <1>2. /\ th[t].pc = "create"
        /\ UNCHANGED <<job, lists, global, hint, precise, kind, purging, outstanding, lost, disorder>>
    BY DEF Create, fixed, cache
  <1>3. m \in Mems /\ req[m] = NoReq /\ Users(m) = {}
    BY DEF Fresh
  <1>4. th \in [Threads -> ThreadType] /\ \A u \in Threads : Holds(th[u]) /\ Sees(th[u])
    BY ThreadFacts
  <1>5. th[t].mem = NoMem /\ th[t].on # NoStream /\ th[t].req # NoReq /\ th[t].req \in Reqs
    BY <1>2, <1>4 DEF Holds, ThreadType
  <1>6. /\ th'[t].pc = "leased" /\ th'[t].mem = m /\ th'[t].on = th[t].on
        /\ th' \in [Threads -> ThreadType] /\ \A u \in Threads : u # t => th'[u] = th[u]
    <2>2. th'[t] = [pc |-> "leased", mem |-> m, on |-> th[t].on, req |-> NoReq, wait |-> th[t].wait,
                    perStream |-> th[t].perStream]
      BY <1>1, <1>4, ZenonT(60) DEF ThreadType
    <2>3. /\ th' = [u \in Threads |-> th'[u]] /\ \A u \in Threads : u # t => th'[u] = th[u]
      BY <1>1, <1>4, Zenon DEF ThreadType
    <2>4. th'[t] \in ThreadType
      BY <1>3, <1>4, <2>2 DEF ThreadType, PCs, Keys
    <2>5. QED  BY <1>4, <2>2, <2>3, <2>4
  <1>7. /\ event \in [Mems -> DOMAIN job \cup {0}] /\ req \in [Mems -> Reqs \cup {NoReq}]
        /\ lists \in [Keys -> Seq(Mems)]
    BY DEF IInv, TypeOK
  <1>8. /\ event' \in [Mems -> DOMAIN job \cup {0}] /\ event'[m] = 0
        /\ \A n \in Mems : n # m => event'[n] = event[n]
    BY <1>1, <1>3, <1>7
  <1>9. /\ req' \in [Mems -> Reqs \cup {NoReq}] /\ req'[m] # NoReq
        /\ \A n \in Mems : n # m => req'[n] = req[n]
    BY <1>1, <1>3, <1>5, <1>7
  <1>10. Placed(req, th, lists, global) /\ Cached = In(lists, global)
    BY PlacedFacts DEF IInv
  <1>11. \A u \in Threads : th[u].mem # m
    BY <1>3, <1>10 DEF Placed
  <1>12. m \notin Cached
    BY <1>3, <1>10 DEF Placed
  <1>13. LeasesHeld'
    <2>1. Holds(th'[t])
      BY <1>3, <1>5, <1>6, NoMemAssumption DEF Holds
    <2>2. \A u \in Threads : Holds(th'[u])
      BY <1>4, <1>6, <2>1
    <2>3. QED  BY <2>2 DEF LeasesHeld, Holds
  <1>14. EventsSeen'
    <2> SUFFICES ASSUME NEW u \in Threads
                 PROVE  /\ th'[u].pc = "acquired" => event'[th'[u].mem] \in th'[u].wait \cup {0}
                        /\ th'[u].pc = "acquired" /\ kind # "cuda" => event'[th'[u].mem] = 0
                        /\ th'[u].pc = "put" /\ ~ th'[u].perStream => event'[th'[u].mem] = 0
      BY <1>2 DEF EventsSeen, Ready
    <2>1. CASE u = t
      BY <1>6, <2>1
    <2>2. CASE u # t
      <3>1. th'[u] = th[u] /\ Holds(th[u]) /\ Sees(th[u]) /\ th[u].mem # m /\ th[u].mem \in Mems \cup {NoMem}
        BY <1>4, <1>6, <1>11, <2>2 DEF ThreadType
      <3>2. th[u].pc \in {"acquired", "put"} => event'[th[u].mem] = event[th[u].mem]
        BY <1>8, <3>1 DEF Holds
      <3>3. QED  BY <3>1, <3>2 DEF Sees, Ready
    <2>3. QED  BY <2>1, <2>2
  <1>15. UsersOrdered'
    <2>1. \A n \in Mems : /\ \A i, j \in Users(n) : i = j \/ i \in job[j].before \/ j \in job[i].before
                          /\ \A j \in Users(n) : event[n] # 0 /\ (j = event[n] \/ j \in job[event[n]].before)
      BY DEF IInv, UsersOrdered
    <2>2. \A n \in Mems : \A j \in Users(n) : event'[n] = event[n]
      BY <1>3, <1>8
    <2>3. \A n \in Mems : Users(n)' = Users(n)
      BY <1>2 DEF Users
    <2>4. QED  BY <1>2, <2>1, <2>2, <2>3 DEF UsersOrdered
  <1>16. OutstandingExact' /\ outstanding' \in Nat /\ th' \in [Threads -> ThreadType']
    <2>1. th' \in [Threads -> ThreadType']
      BY <1>2, <1>6 DEF ThreadType
    <2>2. QED  BY <1>2, <1>6, <1>13, <2>1, CountStep
  <1>17. OnePlace'
    <2>1. \A u \in Threads : u # t => th'[u].mem = th[u].mem
      BY <1>6
    <2>2. Placed(req', th', lists, global)
      BY <1>3, <1>5, <1>6, <1>9, <1>10, <2>1, PlacedCreate
    <2>3. QED  BY <1>2, <2>2, PlacedNext
  <1>18. ListsInOrder'
    <2> SUFFICES ASSUME ~ disorder, NEW k \in Keys PROVE InOrder(lists[k])'
      BY <1>2 DEF ListsInOrder
    <2>1. InOrder(lists[k]) /\ lists[k] \in Seq(Mems)
      BY <1>7 DEF IInv, ListsInOrder
    <2>2. \A x \in ToSet(lists[k]) : event'[x] = event[x]
      <3>1. m \notin ToSet(lists[k])
        BY <1>12 DEF Cached
      <3>2. ToSet(lists[k]) \subseteq Mems
        BY <2>1, LenProperties, ElementOfSeq DEF ToSet
      <3>3. QED  BY <1>8, <3>1, <3>2
    <2>3. \A i, j \in DOMAIN lists[k] : i < j /\ event'[lists[k][i]] # 0 =>
            event'[lists[k][j]] # 0 /\ event'[lists[k][i]] \in job[event'[lists[k][j]]].before
      BY <2>1, <2>2, OrderKept
    <2>4. QED  BY <1>2, <2>3 DEF InOrder, Ready
  <1>19. GlobalReady'
    BY <1>2 DEF IInv, GlobalReady, Users
  <1>20. TypeOK'
    <2>1. /\ DOMAIN job' \subseteq Jobs
          /\ job' \in [DOMAIN job' -> [on : Streams, mem : Mems, before : SUBSET DOMAIN job']]
          /\ hint' \in [Streams -> Streams] /\ precise' \in BOOLEAN /\ kind' \in Kinds
      BY <1>2 DEF IInv, TypeOK
    <2>2. /\ purging' \in BOOLEAN /\ disorder' \in BOOLEAN /\ lists' \in [Keys -> Seq(Mems)]
          /\ lost' \in 0 .. MaxLost /\ abandoned' \subseteq Mems /\ global' \subseteq Mems
      BY <1>1, <1>2 DEF IInv, TypeOK
    <2>3. event' \in [Mems -> DOMAIN job' \cup {0}]
      BY <1>2, <1>8
    <2>4. QED  BY <1>9, <1>16, <2>1, <2>2, <2>3 DEF TypeOK, ThreadType, PCs
  <1>21. FreedUnused'
    <2> SUFFICES ASSUME NEW j \in DOMAIN job, req'[job[j].mem] = NoReq, job[j].mem \notin abandoned', ~ disorder
                 PROVE  FALSE
      BY <1>2 DEF FreedUnused
    <2>1. job[j].mem \in Mems /\ job[j].mem # m
      BY <1>3 DEF IInv, TypeOK, Users
    <2>2. QED  BY <1>1, <1>9, <2>1 DEF IInv, FreedUnused
  <1>22. QED  BY <1>13, <1>14, <1>15, <1>16, <1>17, <1>18, <1>19, <1>20, <1>21 DEF IInv

\* The new job follows every job that uses the block, and the event stands
\* behind it.
LEMMA UseKeepsInv ==
  ASSUME IInv, NEW t \in Threads, Use(t)
  PROVE  IInv'
  <1> DEFINE m == th[t].mem
             W == th[t].wait
             s == th[t].on
  <1>1. PICK j \in Jobs : Launch(j, s, m, W) /\ event' = [event EXCEPT ![m] = j]
    BY DEF Use
  <1>2. /\ th[t].pc = "acquired"
        /\ UNCHANGED <<req, lists, global, hint, precise, kind, purging, outstanding, lost, abandoned, disorder>>
    BY DEF Use, fixed, cache, ghosts
  <1>3. th \in [Threads -> ThreadType] /\ \A u \in Threads : Holds(th[u]) /\ Sees(th[u])
    BY ThreadFacts
  <1>4. m \in Mems /\ m # NoMem /\ s \in Streams /\ W \subseteq DOMAIN job
    BY <1>2, <1>3 DEF Holds, ThreadType, Keys
  <1>5. event[m] \in W \cup {0}
    BY <1>2, <1>3 DEF Sees
  <1>6. /\ th'[t].pc = "release" /\ th'[t].mem = m /\ th'[t].on = s
        /\ th' \in [Threads -> ThreadType] /\ \A u \in Threads : u # t => th'[u] = th[u]
    <2> th' = [th EXCEPT ![t].pc = "release", ![t].wait = {}]
      BY Zenon DEF Use
    <2>1. th'[t] = [pc |-> "release", mem |-> m, on |-> s, req |-> th[t].req, wait |-> {},
                    perStream |-> th[t].perStream]
      BY <1>3, ZenonT(60) DEF ThreadType
    <2>2. /\ th' = [u \in Threads |-> th'[u]] /\ \A u \in Threads : u # t => th'[u] = th[u]
      BY <1>3, Zenon DEF ThreadType
    <2>3. th'[t] \in ThreadType
      BY <1>3, <2>1 DEF ThreadType, PCs, Keys
    <2>4. QED  BY <1>3, <2>1, <2>2, <2>3
  <1>7. /\ DOMAIN job \subseteq Jobs
        /\ job \in [DOMAIN job -> [on : Streams, mem : Mems, before : SUBSET DOMAIN job]]
        /\ event \in [Mems -> DOMAIN job \cup {0}] /\ lists \in [Keys -> Seq(Mems)]
    BY DEF IInv, TypeOK
  <1>8. 0 \notin Jobs /\ j \notin DOMAIN job /\ j # 0
    BY <1>1, JobsAssumption DEF Jobs, Launch
  <1>9. th[t].mem = m
    OBVIOUS
  <1> DEFINE B == Before(s, W)
  <1>10. /\ job' = [k \in DOMAIN job \cup {j} |-> IF k = j THEN [on |-> s, mem |-> m, before |-> B] ELSE job[k]]
    BY <1>1 DEF Launch
  <1>11. B \subseteq DOMAIN job
    BY <1>4, <1>7 DEF Before
  <1>12. \A i \in W : i \in B /\ job[i].before \subseteq B
    BY DEF Before
  <1> HIDE DEF m, W, s, B
  <1>13. /\ DOMAIN job' = DOMAIN job \cup {j} /\ job'[j] = [on |-> s, mem |-> m, before |-> B]
         /\ \A k \in DOMAIN job : job'[k] = job[k]
    BY <1>8, <1>10
  <1>14. job'[j].mem = m /\ job'[j].before = B
    BY <1>13
  <1>15. /\ event' \in [Mems -> DOMAIN job' \cup {0}] /\ event'[m] = j
         /\ \A n \in Mems : n # m => event'[n] = event[n]
    BY <1>1, <1>4, <1>7, <1>13
  <1>16. /\ DOMAIN job' \subseteq Jobs
         /\ job' \in [DOMAIN job' -> [on : Streams, mem : Mems, before : SUBSET DOMAIN job']]
    <2>1. \A k \in DOMAIN job' : job'[k] \in [on : Streams, mem : Mems, before : SUBSET DOMAIN job']
      <3> SUFFICES ASSUME NEW k \in DOMAIN job'
                   PROVE  job'[k] \in [on : Streams, mem : Mems, before : SUBSET DOMAIN job']
        OBVIOUS
      <3>1. CASE k = j
        BY <1>4, <1>11, <1>13, <3>1
      <3>2. CASE k # j
        <4>1. k \in DOMAIN job /\ job'[k] = job[k] /\ DOMAIN job \subseteq DOMAIN job'
          BY <1>13, <3>2
        <4>2. job[k] \in [on : Streams, mem : Mems, before : SUBSET DOMAIN job]
          BY <1>7, <4>1
        <4>3. QED  BY <4>1, <4>2
      <3>3. QED  BY <3>1, <3>2
    <2>2. job' = [k \in DOMAIN job' |-> job'[k]]
      BY <1>10, <1>13
    <2>3. DOMAIN job' \subseteq Jobs
      BY <1>7, <1>13
    <2>4. QED  BY <2>1, <2>2, <2>3
  <1>17. \A n \in Mems : Users(n)' = Users(n) \cup {i \in {j} : n = m}
    <2> SUFFICES ASSUME NEW n \in Mems, NEW i PROVE i \in Users(n)' <=> i \in Users(n) \/ (i = j /\ n = m)
      OBVIOUS
    <2>1. i \in Users(n)' <=> i \in DOMAIN job' /\ job'[i].mem = n
      BY DEF Users
    <2>2. i \in Users(n) <=> i \in DOMAIN job /\ job[i].mem = n
      BY DEF Users
    <2>3. QED  BY <1>8, <1>13, <1>14, <2>1, <2>2
  <1>18. Users(m) \subseteq B
    <2>1. \A i \in Users(m) : event[m] # 0 /\ (i = event[m] \/ i \in job[event[m]].before)
      BY <1>4 DEF IInv, UsersOrdered
    <2>2. QED  BY <1>5, <1>12, <2>1
  <1>19. UsersOrdered'
    <2> SUFFICES ASSUME NEW n \in Mems
                 PROVE  /\ \A i, k \in Users(n)' : i = k \/ i \in job'[k].before \/ k \in job'[i].before
                        /\ \A k \in Users(n)' : event'[n] # 0 /\ (k = event'[n] \/ k \in job'[event'[n]].before)
      BY DEF UsersOrdered
    <2>1. /\ \A i, k \in Users(n) : i = k \/ i \in job[k].before \/ k \in job[i].before
          /\ \A k \in Users(n) : event[n] # 0 /\ (k = event[n] \/ k \in job[event[n]].before)
      BY DEF IInv, UsersOrdered
    <2>2. Users(n) \subseteq DOMAIN job
      BY DEF Users
    <2>3. \A i, k \in Users(n) : i = k \/ i \in job'[k].before \/ k \in job'[i].before
      BY <1>13, <2>1, <2>2
    <2>4. CASE n = m
      BY <1>8, <1>14, <1>15, <1>17, <1>18, <2>3, <2>4
    <2>5. CASE n # m
      <3>1. event'[n] = event[n] /\ Users(n)' = Users(n)
        BY <1>15, <1>17, <2>5
      <3>2. event[n] # 0 => job'[event[n]] = job[event[n]]
        BY <1>7, <1>13
      <3>3. QED  BY <2>1, <2>3, <3>1, <3>2
    <2>6. QED  BY <2>4, <2>5
  <1>20. LeasesHeld'
    <2>1. Holds(th'[t])
      BY <1>4, <1>6, StreamsAssumption DEF Holds
    <2>2. \A u \in Threads : Holds(th'[u])
      BY <1>3, <1>6, <2>1
    <2>3. QED  BY <2>2 DEF LeasesHeld, Holds
  <1>21. Placed(req, th, lists, global) /\ Cached = In(lists, global)
    BY PlacedFacts DEF IInv
  <1>22. m \notin Cached /\ req[m] # NoReq /\ \A u \in Threads : u # t => th[u].mem # m
    BY <1>4, <1>9, <1>21 DEF Placed
  <1>23. EventsSeen'
    <2> SUFFICES ASSUME NEW u \in Threads
                 PROVE  /\ th'[u].pc = "acquired" => event'[th'[u].mem] \in th'[u].wait \cup {0}
                        /\ th'[u].pc = "acquired" /\ kind # "cuda" => event'[th'[u].mem] = 0
                        /\ th'[u].pc = "put" /\ ~ th'[u].perStream => event'[th'[u].mem] = 0
      BY <1>2 DEF EventsSeen, Ready
    <2>1. CASE u = t
      BY <1>6, <2>1
    <2>2. CASE u # t
      <3>1. th'[u] = th[u] /\ Holds(th[u]) /\ Sees(th[u]) /\ th[u].mem # m /\ th[u].mem \in Mems \cup {NoMem}
        BY <1>3, <1>6, <1>22, <2>2 DEF ThreadType
      <3>2. th[u].pc \in {"acquired", "put"} => event'[th[u].mem] = event[th[u].mem]
        BY <1>15, <3>1 DEF Holds
      <3>3. QED  BY <3>1, <3>2 DEF Sees, Ready
    <2>3. QED  BY <2>1, <2>2
  <1>24. OutstandingExact' /\ outstanding' \in Nat /\ th' \in [Threads -> ThreadType']
    <2>1. ThreadType \subseteq ThreadType'
      BY <1>13 DEF ThreadType
    <2>2. th' \in [Threads -> ThreadType']
      BY <1>6, <2>1
    <2>3. QED  BY <1>2, <1>6, <1>20, <2>2, CountStep
  <1>25. OnePlace'
    <2>1. (\A u \in Threads : th'[u].mem = th[u].mem) /\ Filed(lists, global)
      BY <1>6, <1>9, <1>21 DEF Placed
    <2>2. Placed(req, th', lists, global)
      BY <1>21, <2>1, PlacedMove
    <2>3. QED  BY <1>2, <2>2, PlacedNext
  <1>26. ListsInOrder'
    <2> SUFFICES ASSUME ~ disorder, NEW k \in Keys PROVE InOrder(lists[k])'
      BY <1>2 DEF ListsInOrder
    <2>1. InOrder(lists[k]) /\ lists[k] \in Seq(Mems)
      BY <1>7 DEF IInv, ListsInOrder
    <2>2. \A x \in ToSet(lists[k]) : /\ event'[x] = event[x]
                                     /\ event[x] # 0 => job'[event[x]].before = job[event[x]].before
      <3>1. m \notin ToSet(lists[k])
        BY <1>22 DEF Cached
      <3>2. ToSet(lists[k]) \subseteq Mems
        BY <2>1, LenProperties, ElementOfSeq DEF ToSet
      <3>3. QED  BY <1>7, <1>13, <1>15, <3>1, <3>2
    <2>3. \A i, n \in DOMAIN lists[k] : i < n /\ event'[lists[k][i]] # 0 =>
            event'[lists[k][n]] # 0 /\ event'[lists[k][i]] \in job'[event'[lists[k][n]]].before
      BY <2>1, <2>2, OrderKept
    <2>4. QED  BY <1>2, <2>3 DEF InOrder, Ready
  <1>27. GlobalReady'
    <2>1. m \notin global /\ global \subseteq Mems
      BY <1>22 DEF Cached, IInv, TypeOK
    <2>2. (disorder /\ precise) \/ \A x \in global : Users(x)' = {}
      BY <1>17, <2>1 DEF IInv, GlobalReady
    <2>3. QED  BY <1>2, <2>2 DEF GlobalReady
  <1>28. TypeOK'
    <2>1. /\ hint' \in [Streams -> Streams] /\ precise' \in BOOLEAN /\ kind' \in Kinds
          /\ req' \in [Mems -> Reqs \cup {NoReq}] /\ lists' \in [Keys -> Seq(Mems)] /\ global' \subseteq Mems
      BY <1>2 DEF IInv, TypeOK
    <2>2. /\ purging' \in BOOLEAN /\ disorder' \in BOOLEAN
          /\ lost' \in 0 .. MaxLost /\ abandoned' \subseteq Mems
      BY <1>2 DEF IInv, TypeOK
    <2>3. QED  BY <1>15, <1>16, <1>24, <2>1, <2>2 DEF TypeOK, ThreadType, PCs
  <1>29. FreedUnused'
    BY <1>2, <1>13, <1>14, <1>22 DEF IInv, FreedUnused
  <1>30. QED  BY <1>19, <1>20, <1>23, <1>24, <1>25, <1>26, <1>27, <1>28, <1>29 DEF IInv

\* A job that completes has no job before it, so an event it carries is not one
\* that others wait behind.
LEMMA GPUKeepsInv ==
  ASSUME IInv, GPU
  PROVE  IInv'
  <1>1. PICK j \in DOMAIN job : Complete(j) /\ th' = [t \in Threads |-> [th[t] EXCEPT !.wait = @ \ {j}]]
    BY Zenon DEF GPU
  <1>2. UNCHANGED <<req, lists, global, hint, precise, kind, purging, outstanding, lost, abandoned, disorder>>
    BY DEF GPU, fixed, cache, ghosts
  <1>3. th \in [Threads -> ThreadType] /\ \A u \in Threads : Holds(th[u]) /\ Sees(th[u])
    BY ThreadFacts
  <1>4. /\ DOMAIN job \subseteq Jobs
        /\ job \in [DOMAIN job -> [on : Streams, mem : Mems, before : SUBSET DOMAIN job]]
        /\ event \in [Mems -> DOMAIN job \cup {0}] /\ lists \in [Keys -> Seq(Mems)]
    BY DEF IInv, TypeOK
  <1>5. job[j].before = {} /\ event' = [m \in Mems |-> IF event[m] = j THEN 0 ELSE event[m]]
    BY <1>1 DEF Complete, Running
  <1>6. 0 \notin Jobs /\ j # 0
    BY <1>4, JobsAssumption DEF Jobs
  <1>7. /\ DOMAIN job' = DOMAIN job \ {j} /\ job' = [k \in DOMAIN job' |-> job'[k]]
        /\ \A k \in DOMAIN job' : job'[k] = [job[k] EXCEPT !.before = @ \ {j}]
    BY <1>1, Zenon DEF Complete
  <1>8. \A k \in DOMAIN job' : job'[k] = [on |-> job[k].on, mem |-> job[k].mem, before |-> job[k].before \ {j}]
    <2> SUFFICES ASSUME NEW k \in DOMAIN job'
                 PROVE  job'[k] = [on |-> job[k].on, mem |-> job[k].mem, before |-> job[k].before \ {j}]
      OBVIOUS
    <2>1. job[k] \in [on : Streams, mem : Mems, before : SUBSET DOMAIN job] /\ job'[k] = [job[k] EXCEPT !.before = @ \ {j}]
      BY <1>4, <1>7
    <2>2. QED  BY <2>1, Zenon
  <1>9. \A k \in DOMAIN job' : k \in DOMAIN job /\ k # j /\ job'[k].mem = job[k].mem /\ job'[k].before = job[k].before \ {j}
    BY <1>7, <1>8
  <1>10. /\ DOMAIN job' \subseteq Jobs
         /\ job' \in [DOMAIN job' -> [on : Streams, mem : Mems, before : SUBSET DOMAIN job']]
    <2>1. \A k \in DOMAIN job' : job'[k] \in [on : Streams, mem : Mems, before : SUBSET DOMAIN job']
      <3> SUFFICES ASSUME NEW k \in DOMAIN job'
                   PROVE  job'[k] \in [on : Streams, mem : Mems, before : SUBSET DOMAIN job']
        OBVIOUS
      <3>1. job[k].on \in Streams /\ job[k].mem \in Mems /\ job[k].before \subseteq DOMAIN job
        BY <1>4, <1>9
      <3>2. job[k].before \ {j} \in SUBSET DOMAIN job'
        BY <1>7, <3>1
      <3>3. QED  BY <1>8, <3>1, <3>2
    <2>2. QED  BY <1>4, <1>7, <2>1
  <1>11. /\ event' \in [Mems -> DOMAIN job' \cup {0}]
         /\ \A m \in Mems : event'[m] = IF event[m] = j THEN 0 ELSE event[m]
    BY <1>4, <1>5, <1>7
  <1>12. \A n \in Mems : Users(n)' \subseteq Users(n) /\ Users(n)' \subseteq DOMAIN job'
    BY <1>9 DEF Users
  <1>13. UsersOrdered'
    <2> SUFFICES ASSUME NEW n \in Mems
                 PROVE  /\ \A i, k \in Users(n)' : i = k \/ i \in job'[k].before \/ k \in job'[i].before
                        /\ \A k \in Users(n)' : event'[n] # 0 /\ (k = event'[n] \/ k \in job'[event'[n]].before)
      BY DEF UsersOrdered
    <2>1. /\ \A i, k \in Users(n) : i = k \/ i \in job[k].before \/ k \in job[i].before
          /\ \A k \in Users(n) : event[n] # 0 /\ (k = event[n] \/ k \in job[event[n]].before)
      BY DEF IInv, UsersOrdered
    <2>2. \A i, k \in Users(n)' : i = k \/ i \in job'[k].before \/ k \in job'[i].before
      BY <1>9, <1>12, <2>1
    <2>3. ASSUME NEW k \in Users(n)'
          PROVE  event'[n] # 0 /\ (k = event'[n] \/ k \in job'[event'[n]].before)
      <3>1. k \in Users(n) /\ k # j
        BY <1>9, <1>12
      <3>2. event[n] # 0 /\ (k = event[n] \/ k \in job[event[n]].before)
        BY <2>1, <3>1
      <3>3. event[n] # j
        BY <1>5, <3>1, <3>2
      <3>4. event'[n] = event[n] /\ event[n] \in DOMAIN job'
        BY <1>4, <1>7, <1>11, <3>2, <3>3
      <3>5. QED  BY <1>9, <3>1, <3>2, <3>4
    <2>4. QED  BY <2>2, <2>3
  <1>14. /\ th' \in [Threads -> ThreadType']
         /\ \A u \in Threads : /\ th'[u].pc = th[u].pc /\ th'[u].mem = th[u].mem /\ th'[u].on = th[u].on
                               /\ th'[u].req = th[u].req /\ th'[u].wait = th[u].wait \ {j}
                               /\ th'[u].perStream = th[u].perStream
    <2>1. ASSUME NEW u \in Threads
          PROVE  th'[u] = [pc |-> th[u].pc, mem |-> th[u].mem, on |-> th[u].on, req |-> th[u].req,
                           wait |-> th[u].wait \ {j}, perStream |-> th[u].perStream]
      <3>1. th'[u] = [th[u] EXCEPT !.wait = @ \ {j}]
        BY <1>1, Zenon
      <3>2. th[u] \in ThreadType
        BY <1>3
      <3>3. QED  BY <3>1, <3>2, Zenon DEF ThreadType
    <2>2. ASSUME NEW u \in Threads PROVE th'[u] \in ThreadType'
      <3>1. th[u] \in ThreadType
        BY <1>3
      <3>2. /\ th[u].pc \in PCs /\ th[u].mem \in Mems \cup {NoMem} /\ th[u].on \in Keys
            /\ th[u].req \in Reqs \cup {NoReq} /\ th[u].wait \subseteq DOMAIN job
        BY <3>1 DEF ThreadType
      <3>3. th[u].perStream \in BOOLEAN
        BY <3>1 DEF ThreadType
      <3>4. th[u].wait \ {j} \in SUBSET DOMAIN job'
        BY <1>7, <3>2
      <3>5. ThreadType' = [pc : PCs, mem : Mems \cup {NoMem}, on : Keys, req : Reqs \cup {NoReq},
                           wait : SUBSET DOMAIN job', perStream : BOOLEAN]
        BY DEF ThreadType
      <3> DEFINE p == th[u].perStream
                 w == th[u].wait \ {j}
      <3> HIDE DEF p, w
      <3>6. /\ p \in BOOLEAN /\ w \in SUBSET DOMAIN job'
            /\ th'[u] = [pc |-> th[u].pc, mem |-> th[u].mem, on |-> th[u].on, req |-> th[u].req,
                         wait |-> w, perStream |-> p]
        BY <2>1, <3>3, <3>4 DEF p, w
      <3>7. QED  BY <3>2, <3>5, <3>6
    <2>3. th' = [u \in Threads |-> th'[u]]
      BY <1>1, Zenon
    <2>4. th' \in [Threads -> ThreadType']
      BY <2>2, <2>3
    <2>5. \A u \in Threads : /\ th'[u].pc = th[u].pc /\ th'[u].mem = th[u].mem /\ th'[u].on = th[u].on
                             /\ th'[u].req = th[u].req /\ th'[u].wait = th[u].wait \ {j}
                             /\ th'[u].perStream = th[u].perStream
      <3> SUFFICES ASSUME NEW u \in Threads
                   PROVE  /\ th'[u].pc = th[u].pc /\ th'[u].mem = th[u].mem /\ th'[u].on = th[u].on
                          /\ th'[u].req = th[u].req /\ th'[u].wait = th[u].wait \ {j}
                          /\ th'[u].perStream = th[u].perStream
        OBVIOUS
      <3> DEFINE p == th[u].perStream
      <3> HIDE DEF p
      <3>1. th'[u] = [pc |-> th[u].pc, mem |-> th[u].mem, on |-> th[u].on, req |-> th[u].req,
                      wait |-> th[u].wait \ {j}, perStream |-> p]
        BY <2>1 DEF p
      <3>2. th'[u].perStream = p
        BY <3>1
      <3>3. /\ th'[u].pc = th[u].pc /\ th'[u].mem = th[u].mem /\ th'[u].on = th[u].on
            /\ th'[u].req = th[u].req /\ th'[u].wait = th[u].wait \ {j}
        BY <3>1
      <3>4. QED  BY <3>2, <3>3 DEF p
    <2>6. QED  BY <2>4, <2>5
  <1>15. LeasesHeld'
    BY <1>3, <1>14 DEF LeasesHeld, Holds
  <1>16. EventsSeen'
    <2> SUFFICES ASSUME NEW u \in Threads
                 PROVE  /\ th'[u].pc = "acquired" => event'[th'[u].mem] \in th'[u].wait \cup {0}
                        /\ th'[u].pc = "acquired" /\ kind # "cuda" => event'[th'[u].mem] = 0
                        /\ th'[u].pc = "put" /\ ~ th'[u].perStream => event'[th'[u].mem] = 0
      BY <1>2 DEF EventsSeen, Ready
    <2>1. th[u].pc \in {"acquired", "put"} => th[u].mem \in Mems
      BY <1>3 DEF Holds, ThreadType
    <2>2. th[u].mem \in Mems => event'[th[u].mem] = IF event[th[u].mem] = j THEN 0 ELSE event[th[u].mem]
      BY <1>11
    <2>3. Sees(th[u])
      BY <1>3
    <2>4. QED  BY <1>14, <2>1, <2>2, <2>3 DEF Sees, Ready
  <1>17. OutstandingExact' /\ outstanding' \in Nat
    <2>1. Leased' = Leased /\ Creating' = Creating
      BY <1>14 DEF Leased, Creating
    <2>2. QED  BY <1>2, <2>1 DEF IInv, TypeOK, OutstandingExact
  <1>18. OnePlace'
    <2>1. Placed(req, th, lists, global)
      BY PlacedFacts DEF IInv
    <2>2. (\A u \in Threads : th'[u].mem = th[u].mem) /\ Filed(lists, global)
      BY <1>14, <2>1 DEF Placed
    <2>3. Placed(req, th', lists, global)
      BY <2>1, <2>2, PlacedMove
    <2>4. QED  BY <1>2, <2>3, PlacedNext
  <1>19. ListsInOrder'
    <2> SUFFICES ASSUME ~ disorder, NEW k \in Keys PROVE InOrder(lists[k])'
      BY <1>2 DEF ListsInOrder
    <2>1. InOrder(lists[k]) /\ lists[k] \in Seq(Mems)
      BY <1>4 DEF IInv, ListsInOrder
    <2>2. \A i \in DOMAIN lists[k] : lists[k][i] \in Mems
      BY <2>1, LenProperties, ElementOfSeq
    <2> SUFFICES ASSUME NEW i \in DOMAIN lists[k], NEW n \in DOMAIN lists[k], i < n, event'[lists[k][i]] # 0
                 PROVE  event'[lists[k][n]] # 0 /\ event'[lists[k][i]] \in job'[event'[lists[k][n]]].before
      BY <1>2 DEF InOrder, Ready
    <2> DEFINE x == lists[k][i]
               y == lists[k][n]
    <2>3. event[x] # 0 /\ event[x] # j /\ event'[x] = event[x]
      BY <1>11, <2>2
    <2>4. event[y] # 0 /\ event[x] \in job[event[y]].before
      BY <2>1, <2>3 DEF InOrder, Ready
    <2>5. event[y] # j
      BY <1>5, <2>4
    <2>6. event'[y] = event[y] /\ event[y] \in DOMAIN job'
      BY <1>4, <1>7, <1>11, <2>2, <2>4, <2>5
    <2>7. QED  BY <1>9, <2>3, <2>4, <2>6
  <1>20. GlobalReady'
    <2>1. global \subseteq Mems
      BY DEF IInv, TypeOK
    <2>2. (disorder /\ precise) \/ \A x \in global : Users(x)' = {}
      BY <1>12, <2>1 DEF IInv, GlobalReady
    <2>3. QED  BY <1>2, <2>2 DEF GlobalReady
  <1>21. TypeOK'
    <2>1. /\ hint' \in [Streams -> Streams] /\ precise' \in BOOLEAN /\ kind' \in Kinds
          /\ req' \in [Mems -> Reqs \cup {NoReq}] /\ lists' \in [Keys -> Seq(Mems)] /\ global' \subseteq Mems
      BY <1>2 DEF IInv, TypeOK
    <2>2. /\ purging' \in BOOLEAN /\ disorder' \in BOOLEAN
          /\ lost' \in 0 .. MaxLost /\ abandoned' \subseteq Mems
      BY <1>2 DEF IInv, TypeOK
    <2>3. QED  BY <1>10, <1>11, <1>14, <1>17, <2>1, <2>2 DEF TypeOK, ThreadType, PCs
  <1>22. FreedUnused'
    BY <1>2, <1>9 DEF IInv, FreedUnused
  <1>23. QED  BY <1>13, <1>14, <1>15, <1>16, <1>17, <1>18, <1>19, <1>20, <1>21, <1>22 DEF IInv

\* Steps that leave the threads and the GPU alone.
LEMMA CacheOnly ==
  ASSUME IInv, UNCHANGED <<job, event, hint, precise, kind, th, outstanding, lost, abandoned, disorder>>,
         purging' \in BOOLEAN, req' \in [Mems -> Reqs \cup {NoReq}],
         Placed(req', th, lists', global'), FreedUnused',
         disorder \/ \A k \in Keys : InOrder(lists'[k]),
         (disorder /\ precise) \/ \A x \in global' : Users(x) = {}
  PROVE  IInv'
  <1>1. LeasesHeld' /\ UsersOrdered' /\ OutstandingExact'
    BY DEF IInv, LeasesHeld, UsersOrdered, Users, OutstandingExact, Leased, Creating
  <1>2. EventsSeen'
    BY DEF IInv, EventsSeen, Ready
  <1>3. OnePlace'
    BY PlacedNext
  <1>4. ListsInOrder' /\ GlobalReady'
    BY SameOrder
  <1>5. TypeOK'
    <2>1. lists' \in [Keys -> Seq(Mems)] /\ global' \subseteq Mems
      BY DEF Placed, Filed
    <2>2. th' \in [Threads -> [pc: {"idle", "create", "leased", "acquired", "release", "put"},
                               mem: Mems \cup {NoMem}, on: Keys, req: Reqs \cup {NoReq},
                               wait: SUBSET DOMAIN job', perStream: BOOLEAN]]
      BY DEF IInv, TypeOK
    <2>3. /\ disorder' \in BOOLEAN /\ outstanding' \in Nat /\ lost' \in 0 .. MaxLost /\ abandoned' \subseteq Mems
      BY DEF IInv, TypeOK
    <2>4. QED  BY <2>1, <2>2, <2>3, SameTypes DEF TypeOK
  <1>6. QED  BY <1>1, <1>2, <1>3, <1>4, <1>5 DEF IInv

LEMMA PurgingOnly ==
  ASSUME IInv, purging' \in BOOLEAN,
         UNCHANGED <<job, event, req, lists, global, hint, precise, kind, th, outstanding, lost, abandoned, disorder>>
  PROVE  IInv'
  <1>1. Placed(req', th, lists', global')
    BY PlacedFacts DEF IInv
  <1>2. req' \in [Mems -> Reqs \cup {NoReq}] /\ FreedUnused'
    BY DEF IInv, TypeOK, FreedUnused
  <1>3. /\ disorder \/ \A k \in Keys : InOrder(lists'[k])
        /\ (disorder /\ precise) \/ \A x \in global' : Users(x) = {}
    BY DEF IInv, ListsInOrder, GlobalReady
  <1>4. QED  BY <1>1, <1>2, <1>3, CacheOnly

\* The blocks of S, which no job uses, are freed.
LEMMA FreeUnused ==
  ASSUME IInv, UNCHANGED <<job, abandoned, disorder>>, NEW S,
         req' = [m \in Mems |-> IF m \in S THEN NoReq ELSE req[m]],
         disorder \/ \A m \in S : Users(m) = {}
  PROVE  req' \in [Mems -> Reqs \cup {NoReq}] /\ FreedUnused'
  <1>1. req' \in [Mems -> Reqs \cup {NoReq}]
    BY DEF IInv, TypeOK
  <1>2. FreedUnused'
    <2> SUFFICES ASSUME NEW j \in DOMAIN job, req'[job[j].mem] = NoReq, job[j].mem \notin abandoned, ~ disorder
                 PROVE  FALSE
      BY DEF FreedUnused
    <2>1. job[j].mem \in Mems /\ j \in Users(job[j].mem)
      BY DEF IInv, TypeOK, Users
    <2>2. job[j].mem \notin S
      BY <2>1
    <2>3. req[job[j].mem] = NoReq
      BY <2>1, <2>2
    <2>4. QED  BY <2>3 DEF IInv, FreedUnused
  <1>3. QED  BY <1>1, <1>2

\* In a list in order, all items are ready once the newest one is.
LEMMA PurgeListKeepsInv ==
  ASSUME IInv, PurgeList
  PROVE  IInv'
  <1>1. PICK k \in Keys : waitAndPurge(k)
    BY DEF PurgeList
  <1>2. UNCHANGED <<job, event, hint, precise, kind, th, purging, outstanding, lost, abandoned, disorder>>
    BY DEF PurgeList, fixed, ghosts
  <1> DEFINE S == ToSet(lists[k])
  <1>3. /\ lists[k] # << >> /\ Ready(lists[k][Len(lists[k])]) /\ lists' = [lists EXCEPT ![k] = << >>]
        /\ req' = [m \in Mems |-> IF m \in S THEN NoReq ELSE req[m]] /\ global' = global
    BY <1>1 DEF waitAndPurge
  <1>4. Placed(req, th, lists, global) /\ Cached = In(lists, global) /\ Filed(lists, global)
        /\ lists \in [Keys -> Seq(Mems)]
    BY PlacedFacts DEF IInv, Placed, TypeOK
  <1>5. lists[k] \in Seq(Mems) /\ DOMAIN lists[k] = 1 .. Len(lists[k]) /\ Len(lists[k]) \in Nat
    BY <1>4, LenProperties
  <1>6. disorder \/ \A m \in S : Users(m) = {}
    <2> SUFFICES ASSUME ~ disorder, NEW m \in S PROVE Users(m) = {}
      OBVIOUS
    <2>1. PICK i \in DOMAIN lists[k] : lists[k][i] = m
      BY DEF ToSet
    <2>2. m \in Mems
      BY <1>5, <2>1, ElementOfSeq
    <2>3. InOrder(lists[k])
      BY DEF IInv, ListsInOrder
    <2>4. i = Len(lists[k]) \/ (i < Len(lists[k]) /\ Len(lists[k]) \in DOMAIN lists[k])
      BY <1>5
    <2>5. Ready(m)
      BY <1>3, <2>1, <2>3, <2>4 DEF InOrder
    <2>6. QED  BY <2>2, <2>5, ReadyUnused
  <1>7. req' \in [Mems -> Reqs \cup {NoReq}] /\ FreedUnused'
    BY <1>2, <1>3, <1>6, FreeUnused
  <1>8. /\ lists'[k] = << >> /\ (\A l \in Keys : l # k => lists'[l] = lists[l]) /\ lists' = [l \in Keys |-> lists'[l]]
    BY <1>3, <1>4
  <1>9. << >> \in Seq(Mems) /\ DOMAIN << >> = {} /\ ToSet(<< >>) = {} /\ IsInjective(<< >>)
    <2>1. << >> \in Seq(Mems) /\ Len(<< >>) = 0
      BY EmptySeq
    <2>2. DOMAIN << >> = {}
      BY <2>1, LenProperties
    <2>3. QED  BY <2>1, <2>2 DEF ToSet, IsInjective
  <1>10. \A l \in Keys : ToSet(lists'[l]) = IF l = k THEN {} ELSE ToSet(lists[l])
    BY <1>8, <1>9
  <1>11. Filed(lists', global')
    <2>1. lists' \in [Keys -> Seq(Mems)]
      BY <1>4, <1>8, <1>9
    <2>2. \A l \in Keys : IsInjective(lists'[l]) /\ ToSet(lists'[l]) \cap global' = {}
      BY <1>3, <1>4, <1>8, <1>9, <1>10 DEF Filed
    <2>3. \A l, n \in Keys : l # n => ToSet(lists'[l]) \cap ToSet(lists'[n]) = {}
      BY <1>4, <1>10 DEF Filed
    <2>4. QED  BY <1>3, <1>4, <2>1, <2>2, <2>3 DEF Filed
  <1>12. S \subseteq In(lists, global) /\ In(lists', global') = In(lists, global) \ S
    <2>1. \A x : x \in In(lists, global) <=> x \in global \/ \E l \in Keys : x \in ToSet(lists[l])
      BY DEF In
    <2>2. \A x : x \in In(lists', global') <=> x \in global' \/ \E l \in Keys : x \in ToSet(lists'[l])
      BY DEF In
    <2>3. S \cap global = {} /\ \A l \in Keys : l # k => ToSet(lists[l]) \cap S = {}
      BY <1>4 DEF Filed
    <2>4. \A x : x \in In(lists', global') <=> x \in In(lists, global) \ S
      <3> SUFFICES ASSUME NEW x PROVE x \in In(lists', global') <=> x \in In(lists, global) \ S
        OBVIOUS
      <3>1. (\E l \in Keys : x \in ToSet(lists'[l])) <=> x \notin S /\ \E l \in Keys : x \in ToSet(lists[l])
        BY <1>10, <2>3
      <3>2. x \in global' <=> x \in global /\ x \notin S
        BY <1>3, <2>3
      <3>3. QED  BY <2>1, <2>2, <3>1, <3>2
    <2>5. S \subseteq In(lists, global)
      BY <2>1
    <2>6. QED  BY <2>4, <2>5
  <1> HIDE DEF S
  <1>13. Placed(req', th, lists', global')
    <2>1. \A n \in Mems : req'[n] = IF n \in S THEN NoReq ELSE req[n]
      BY <1>3
    <2>2. QED  BY <1>4, <1>11, <1>12, <2>1, PlacedPurge, ZenonT(60)
  <1>14. /\ disorder \/ \A l \in Keys : InOrder(lists'[l])
         /\ (disorder /\ precise) \/ \A x \in global' : Users(x) = {}
    <2>1. InOrder(<< >>)
      BY <1>9 DEF InOrder
    <2>2. disorder \/ \A l \in Keys : InOrder(lists'[l])
      BY <1>8, <2>1 DEF IInv, ListsInOrder
    <2>3. QED  BY <1>3, <2>2 DEF IInv, GlobalReady
  <1>15. purging' \in BOOLEAN
    BY <1>2 DEF IInv, TypeOK
  <1>16. QED  BY <1>2, <1>7, <1>13, <1>14, <1>15, CacheOnly

LEMMA PurgeGlobalKeepsInv ==
  ASSUME IInv, PurgeGlobal
  PROVE  IInv'
  <1>1. /\ purging' = FALSE
        /\ UNCHANGED <<job, event, hint, precise, kind, th, outstanding, lost, abandoned, disorder>>
    BY DEF PurgeGlobal, fixed, ghosts
  <1>2. /\ \A k \in Keys : lists[k] = << >>
        /\ req' = [m \in Mems |-> IF m \in global THEN NoReq ELSE req[m]] /\ global' = {} /\ lists' = lists
    BY DEF PurgeGlobal, clearGlobal
  <1>3. Placed(req, th, lists, global) /\ Filed(lists, global)
    BY PlacedFacts DEF IInv, Placed
  <1>4. req' \in [Mems -> Reqs \cup {NoReq}] /\ FreedUnused'
    <2>1. disorder \/ \A m \in global : Users(m) = {}
      BY DEF IInv, GlobalReady
    <2>2. QED  BY <1>1, <1>2, <2>1, FreeUnused
  <1>5. Filed(lists', global') /\ global \subseteq In(lists, global) /\ In(lists', global') = In(lists, global) \ global
    <2>1. Filed(lists', global')
      BY <1>2, <1>3 DEF Filed
    <2>2. \A x : x \in In(lists, global) <=> x \in global \/ \E l \in Keys : x \in ToSet(lists[l])
      BY DEF In
    <2>3. \A x : x \in In(lists', global') <=> x \in global' \/ \E l \in Keys : x \in ToSet(lists[l])
      BY <1>2 DEF In
    <2>4. \A l \in Keys : ToSet(lists[l]) \cap global = {}
      BY <1>3 DEF Filed
    <2>5. \A x : x \in In(lists', global') <=> x \in In(lists, global) \ global
      BY <1>2, <2>2, <2>3, <2>4
    <2>6. QED  BY <2>1, <2>2, <2>5
  <1>6. Placed(req', th, lists', global')
    <2>1. \A n \in Mems : req'[n] = IF n \in global THEN NoReq ELSE req[n]
      BY <1>2
    <2>2. QED  BY <1>3, <1>5, <2>1, PlacedPurge
  <1>7. /\ disorder \/ \A l \in Keys : InOrder(lists'[l])
        /\ (disorder /\ precise) \/ \A x \in global' : Users(x) = {}
    BY <1>2 DEF IInv, ListsInOrder
  <1>8. QED  BY <1>1, <1>4, <1>6, <1>7, CacheOnly

-----------------------------------------------------------------------------
(* The inductive invariant *)

LEMMA InitEstablishesInv == WInit => IInv
  <1> SUFFICES ASSUME WInit PROVE IInv
    OBVIOUS
  <1>1. /\ job = << >> /\ event = [m \in Mems |-> 0] /\ req = [m \in Mems |-> NoReq]
        /\ lists = [k \in Keys |-> << >>] /\ global = {}
        /\ hint \in [Streams -> Streams] /\ precise \in BOOLEAN /\ kind \in Kinds
        /\ th = [t \in Threads |-> Idle] /\ purging = FALSE
        /\ outstanding = 0 /\ lost = 0 /\ abandoned = {} /\ disorder = FALSE
    BY DEF WInit, Init
  <1>2. DOMAIN job = {} /\ job = [j \in {} |-> 0]
    BY <1>1
  <1>3. << >> \in Seq(Mems) /\ DOMAIN << >> = {} /\ ToSet(<< >>) = {} /\ IsInjective(<< >>)
    <2>1. << >> \in Seq(Mems) /\ Len(<< >>) = 0
      BY EmptySeq
    <2>2. DOMAIN << >> = {}
      BY <2>1, LenProperties
    <2>3. QED  BY <2>1, <2>2 DEF ToSet, IsInjective
  <1>4. \A t \in Threads : th[t] = Idle
    BY <1>1
  <1>5. th \in [Threads -> ThreadType]
    BY <1>1, IdleFacts
  <1>6. TypeOK
    <2>1. job \in [DOMAIN job -> [on : Streams, mem : Mems, before : SUBSET DOMAIN job]]
      BY <1>2
    <2>2. /\ DOMAIN job \subseteq Jobs /\ event \in [Mems -> DOMAIN job \cup {0}] /\ req \in [Mems -> Reqs \cup {NoReq}]
          /\ lists \in [Keys -> Seq(Mems)] /\ global \subseteq Mems /\ abandoned \subseteq Mems
      BY <1>1, <1>2, <1>3
    <2>3. outstanding \in Nat /\ lost \in 0 .. MaxLost
      BY <1>1, LostAssumption
    <2>4. purging \in BOOLEAN /\ disorder \in BOOLEAN
      BY <1>1
    <2>5. QED  BY <1>1, <1>5, <2>1, <2>2, <2>3, <2>4 DEF TypeOK, ThreadType, PCs
  <1>7. LeasesHeld
    BY <1>4, IdleFacts DEF LeasesHeld
  <1>8. OnePlace
    <2>1. \A k \in Keys : ToSet(lists[k]) = {} /\ IsInjective(lists[k])
      BY <1>1, <1>3
    <2>2. \A x : x \in In(lists, global) <=> x \in global \/ \E k \in Keys : x \in ToSet(lists[k])
      BY DEF In
    <2>3. In(lists, global) = {}
      BY <1>1, <2>1, <2>2
    <2>4. Filed(lists, global)
      BY <1>6, <1>1, <2>1 DEF Filed, TypeOK
    <2>5. \A t \in Threads : th[t].mem = NoMem
      BY <1>4, IdleFacts
    <2>6. Placed(req, th, lists, global)
      BY <1>1, <2>3, <2>4, <2>5, NoMemAssumption DEF Placed
    <2>7. QED  BY <1>6, <2>6, PlacedFacts
  <1>9. UsersOrdered /\ GlobalReady /\ FreedUnused
    BY <1>1, <1>2 DEF UsersOrdered, Users, GlobalReady, FreedUnused
  <1>10. EventsSeen
    BY <1>4, IdleFacts DEF EventsSeen
  <1>11. ListsInOrder
    BY <1>1, <1>3 DEF ListsInOrder, InOrder
  <1>12. OutstandingExact
    <2>1. Leased \cup Creating = {}
      BY <1>4, IdleFacts DEF Leased, Creating
    <2>2. Cardinality({}) = 0
      BY FS_EmptySet
    <2>3. outstanding = 0 /\ lost = 0 /\ 0 = 0 + 0
      BY <1>1
    <2>4. outstanding = Cardinality(Leased \cup Creating) + lost
      BY <2>1, <2>2, <2>3
    <2>5. QED  BY <2>4 DEF OutstandingExact
  <1>13. QED  BY <1>6, <1>7, <1>8, <1>9, <1>10, <1>11, <1>12 DEF IInv

LEMMA NextKeepsInv == IInv /\ [Next]_vars => IInv'
  <1> SUFFICES ASSUME IInv, [Next]_vars PROVE IInv'
    OBVIOUS
  <1>1. CASE GPU
    BY <1>1, GPUKeepsInv
  <1>2. CASE Clear
    <2>1. /\ UNCHANGED <<job, event, req, lists, global, hint, precise, kind, th, outstanding, lost, abandoned, disorder>>
          /\ purging' \in BOOLEAN
      BY <1>2 DEF Clear, cache, fixed, ghosts
    <2>2. QED  BY <2>1, PurgingOnly
  <1>3. CASE Purge
    BY <1>3, PurgeListKeepsInv, PurgeGlobalKeepsInv DEF Purge
  <1>4. ASSUME NEW t \in Threads, Thread(t) PROVE IInv'
    <2>1. CASE \E s \in Streams, r \in Reqs : GetHit(t, s, r) \/ GetMiss(t, s, r)
      BY <2>1, GetHitKeepsInv, GetMissKeepsInv
    <2>2. CASE Create(t)
      BY <2>2, CreateKeepsInv
    <2>3. CASE CreateFails(t)
      BY <2>3, CreateFailsKeepsInv
    <2>4. CASE OtherKindFails(t)
      BY <2>4, OtherKindFailsKeepsInv
    <2>5. CASE Acquire(t)
      BY <2>5, AcquireKeepsInv
    <2>6. CASE Use(t)
      BY <2>6, UseKeepsInv
    <2>7. CASE UseFails(t)
      BY <2>7, UseFailsKeepsInv
    <2>8. CASE PutQuery(t)
      BY <2>8, PutQueryKeepsInv
    <2>9. CASE Put(t)
      BY <2>9, PutKeepsInv
    <2>10. QED
      BY <1>4, <2>1, <2>2, <2>3, <2>4, <2>5, <2>6, <2>7, <2>8, <2>9 DEF Thread
  <1>5. CASE UNCHANGED vars
    <2>1. /\ UNCHANGED <<job, event, req, lists, global, hint, precise, kind, th, outstanding, lost, abandoned, disorder>>
          /\ purging' = purging
      BY <1>5 DEF vars, cache, fixed, ghosts
    <2>2. purging' \in BOOLEAN
      BY <2>1 DEF IInv, TypeOK
    <2>3. QED  BY <2>1, <2>2, PurgingOnly
  <1>6. QED  BY <1>1, <1>2, <1>3, <1>4, <1>5 DEF Next

LEMMA InvAlways == Spec => []IInv
  <1>1. QED  BY InitEstablishesInv, NextKeepsInv, PTL DEF Spec

-----------------------------------------------------------------------------
(* What the cache guarantees *)

\* The cache is well typed; in particular m_outstandingAllocs never falls below
\* zero, and an event stands behind work that is not complete or is completed.
THEOREM CacheTyping == Spec => []TypeOK
  <1>1. IInv => TypeOK
    BY DEF IInv
  <1>2. QED  BY <1>1, InvAlways, PTL

\* A block is allocated exactly as long as one thread leases it, or one list or
\* the global cache holds it once: get and put neither lose nor double a block.
THEOREM BlocksAreInOnePlace == Spec => []OnePlace
  <1>1. IInv => OnePlace
    BY DEF IInv
  <1>2. QED  BY <1>1, InvAlways, PTL

\* Work with one block never overlaps, whatever streams and threads lease it in
\* turn, and even where the cache takes a block for ready too early.
THEOREM WorkNeverOverlaps == Spec => []NoOverlap
  <1>1. ASSUME IInv PROVE NoOverlap
    <2>1. ASSUME NEW i \in DOMAIN job, NEW j \in DOMAIN job, Running(i), Running(j), job[i].mem = job[j].mem
          PROVE  i = j
      <3>1. job[i].mem \in Mems
        BY <1>1 DEF IInv, TypeOK
      <3>2. i \in Users(job[i].mem) /\ j \in Users(job[i].mem)
        BY <2>1 DEF Users
      <3>3. i = j \/ i \in job[j].before \/ j \in job[i].before
        BY <1>1, <3>1, <3>2 DEF IInv, UsersOrdered
      <3>4. QED  BY <2>1, <3>3 DEF Running
    <2>2. ASSUME NEW t \in Threads, kind # "cuda", th[t].pc = "acquired" PROVE Users(th[t].mem) = {}
      <3>1. Ready(th[t].mem) /\ th[t].mem \in Mems
        BY <1>1, <2>2, ThreadFacts DEF Holds, Sees, ThreadType
      <3>2. QED  BY <1>1, <3>1, ReadyUnused
    <2>3. QED  BY <2>1, <2>2 DEF NoOverlap
  <1>2. QED  BY <1>1, InvAlways, PTL

\* The global cache, from which any stream takes blocks, holds none that the GPU
\* still uses, unless a list that is searched by order got out of order.
THEOREM GlobalBlocksAreUnused == Spec => []GlobalReady
  <1>1. IInv => GlobalReady
    BY DEF IInv
  <1>2. QED  BY <1>1, InvAlways, PTL

\* purge frees no block that a job still uses, as long as the lists are in order.
THEOREM PurgeFreesUnused == Spec => []FreedUnused
  <1>1. IInv => FreedUnused
    BY DEF IInv
  <1>2. QED  BY <1>1, InvAlways, PTL

\* m_outstandingAllocs counts the leases, the gets under way and those that
\* failed, so that the assertion of clear holds when no lease is left and no get
\* has failed.
THEOREM OutstandingIsExact == Spec => []OutstandingExact
  <1>1. IInv => OutstandingExact
    BY DEF IInv
  <1>2. QED  BY <1>1, InvAlways, PTL

LEMMA LeastNumber ==
  ASSUME NEW Z \in SUBSET Nat, Z # {}
  PROVE  \E n \in Z : \A k \in Z : n <= k
  <1>1. PICK n \in Z : \A k \in Z : ~ (<<k, n>> \in OpToRel(<, Nat))
    BY WFMin, NatLessThanWellFounded
  <1>2. \A k \in Z : ~ (k < n)
    BY <1>1 DEF OpToRel
  <1>3. QED  BY <1>2

\* Where get finds no candidate, nothing fits.
LEMMA NoCandidate ==
  ASSUME NEW S, NEW r, \A m \in S : req[m].size \in Nat, Candidates(S, r) = {}
  PROVE  \A m \in S : ~ Fits(m, r)
  <1> DEFINE Z == {n \in Nat : \E m \in S : Fits(m, r) /\ req[m].size = n}
  <1> SUFFICES ASSUME NEW m \in S, Fits(m, r) PROVE FALSE
    OBVIOUS
  <1>1. Z \subseteq Nat /\ Z # {}
    BY Zenon
  <1> HIDE DEF Z
  <1>2. PICK n \in Z : \A k \in Z : n <= k
    BY <1>1, LeastNumber
  <1>4. PICK x \in S : Fits(x, r) /\ req[x].size = n
    BY DEF Z
  <1>5. \A k \in S : Fits(k, r) => req[k].size \in Z /\ req[k].size \in Nat
    BY Zenon DEF Z
  <1>6. \A k \in S : Fits(k, r) => req[x].size <= req[k].size
    BY <1>2, <1>4, <1>5
  <1>7. x \in Candidates(S, r)
    BY <1>4, <1>6 DEF Candidates
  <1>8. QED  BY <1>7

\* A thread begins to create a block only in a miss.
LEMMA CreateAfterMiss ==
  ASSUME IInv, Next, NEW t \in Threads, th[t].pc = "idle", th'[t].pc = "create"
  PROVE  \E s \in Streams, r \in Reqs : /\ Miss(AcquireStream(s), r)
                                        /\ th'[t].on = s /\ th'[t].req = r
  <1>1. th \in [Threads -> ThreadType]
    BY ThreadFacts
  <1>2. CASE GPU
    <2>1. PICK j \in DOMAIN job : th' = [u \in Threads |-> [th[u] EXCEPT !.wait = @ \ {j}]]
      BY <1>2, Zenon DEF GPU
    <2>2. th'[t] = [th[t] EXCEPT !.wait = @ \ {j}] /\ th[t] \in ThreadType
      BY <1>1, <2>1, Zenon
    <2>3. th'[t].pc = th[t].pc
      BY <2>2, Zenon DEF ThreadType
    <2>4. QED  BY <2>3
  <1>3. CASE Clear \/ Purge
    BY <1>3 DEF Clear, Purge, PurgeList, PurgeGlobal
  <1>4. ASSUME NEW u \in Threads, Thread(u)
        PROVE  \E s \in Streams, r \in Reqs : Miss(AcquireStream(s), r) /\ th'[t].on = s /\ th'[t].req = r
    <2>1. ASSUME NEW s \in Streams, NEW r \in Reqs, GetHit(u, s, r) PROVE FALSE
      <3>1. PICK m \in Mems : th' = [th EXCEPT ![u].pc = "leased", ![u].mem = m, ![u].on = s]
        BY <2>1, Zenon DEF GetHit
      <3>2. u # t => th'[t] = th[t]
        BY <1>1, <3>1, Zenon DEF ThreadType
      <3>3. th'[u].pc = "leased"
        BY <1>1, <3>1, ZenonT(60) DEF ThreadType
      <3>4. QED  BY <3>2, <3>3
    <2>2. ASSUME NEW s \in Streams, NEW r \in Reqs, GetMiss(u, s, r)
          PROVE  Miss(AcquireStream(s), r) /\ th'[t].on = s /\ th'[t].req = r
      <3>1. Miss(AcquireStream(s), r) /\ th' = [th EXCEPT ![u].pc = "create", ![u].on = s, ![u].req = r]
        BY <2>2, Zenon DEF GetMiss
      <3>2. u # t => th'[t] = th[t]
        BY <1>1, <3>1, Zenon DEF ThreadType
      <3>3. th'[u].on = s /\ th'[u].req = r
        BY <1>1, <3>1, ZenonT(60) DEF ThreadType
      <3>4. QED  BY <3>1, <3>2, <3>3
    <2>3. ASSUME Create(u) PROVE FALSE
      <3>1. th[u].pc = "create" /\ \E m \in Fresh : th' = [th EXCEPT ![u].pc = "leased", ![u].mem = m, ![u].req = NoReq]
        BY <2>3, Zenon DEF Create
      <3>2. u # t => th'[t] = th[t]
        BY <1>1, <3>1, Zenon DEF ThreadType
      <3>3. QED  BY <3>1, <3>2
    <2>4. ASSUME CreateFails(u) \/ OtherKindFails(u) \/ Put(u) PROVE FALSE
      <3>1. th[u].pc # "idle" /\ th' = [th EXCEPT ![u] = Idle]
        BY <2>4 DEF CreateFails, OtherKindFails, Put
      <3>2. QED  BY <1>1, <3>1
    <2>5. ASSUME Acquire(u) PROVE FALSE
      <3>1. th[u].pc = "leased" /\ th' = [th EXCEPT ![u].pc = "acquired", ![u].wait = {event[th[u].mem]} \ {0}]
        BY <2>5, Zenon DEF Acquire
      <3>2. u # t => th'[t] = th[t]
        BY <1>1, <3>1, Zenon DEF ThreadType
      <3>3. QED  BY <3>1, <3>2
    <2>6. ASSUME Use(u) \/ UseFails(u) PROVE FALSE
      <3>1. th[u].pc \in {"leased", "acquired"} /\ th' = [th EXCEPT ![u].pc = "release", ![u].wait = {}]
        BY <2>6, Zenon DEF Use, UseFails
      <3>2. u # t => th'[t] = th[t]
        BY <1>1, <3>1, Zenon DEF ThreadType
      <3>3. QED  BY <3>1, <3>2
    <2>7. ASSUME PutQuery(u) PROVE FALSE
      <3>1. th[u].pc = "release" /\ th' = [th EXCEPT ![u].pc = "put", ![u].perStream = ~Ready(th[u].mem)]
        BY <2>7, Zenon DEF PutQuery
      <3>2. u # t => th'[t] = th[t]
        BY <1>1, <3>1, Zenon DEF ThreadType
      <3>3. QED  BY <3>1, <3>2
    <2>8. QED  BY <1>4, <2>1, <2>2, <2>3, <2>4, <2>5, <2>6, <2>7 DEF Thread
  <1>5. QED  BY <1>2, <1>3, <1>4 DEF Next

\* A miss means that no block in the cache would do.
LEMMA MissMeansNone ==
  ASSUME IInv, ~ disorder, NEW s \in Streams, NEW r \in Reqs, Miss(AcquireStream(s), r),
         NEW m \in Cached, Fits(m, r)
  PROVE  ~ Ready(m) /\ (kind = "cuda" => m \notin ToSet(lists[hint[s]]))
  <1>1. /\ Placed(req, th, lists, global) /\ Cached = In(lists, global)
        /\ req \in [Mems -> Reqs \cup {NoReq}] /\ global \subseteq Mems /\ hint \in [Streams -> Streams]
    BY PlacedFacts DEF IInv, TypeOK
  <1>2. Cached \subseteq Mems
    <2>1. Filed(lists, global) /\ Cached = In(lists, global)
      BY <1>1 DEF Placed
    <2>2. \A k \in Keys : ToSet(lists[k]) \subseteq Mems
      <3> SUFFICES ASSUME NEW k \in Keys PROVE ToSet(lists[k]) \subseteq Mems
        OBVIOUS
      <3>1. lists[k] \in Seq(Mems)
        BY <2>1 DEF Filed
      <3>2. QED  BY <3>1, LenProperties, ElementOfSeq DEF ToSet
    <2>3. QED  BY <1>1, <2>2 DEF Cached
  <1>3. \A x \in Cached : req[x].size \in Nat
    <2>1. \A x \in Cached : req[x] \in Reqs
      BY <1>1, <1>2 DEF Placed
    <2>2. QED  BY <2>1, ReqsAssumption
  <1>4. /\ Filed(Left, Moved) /\ In(Left, Moved) = Cached
        /\ \A k \in Keys : \A i \in DOMAIN lists[k] : lists[k][i] \in ToSet(Left[k]) <=> ~ Ready(lists[k][i])
    <2>1. \A k \in Keys : InOrder(lists[k])
      BY DEF IInv, ListsInOrder
    <2>2. QED  BY <2>1, MoveFacts
  <1>5. ~ Ready(m)
    <2>1. Moved \subseteq Cached
      BY <1>4 DEF In
    <2>2. Candidates(Moved, r) = {}
      BY DEF Miss, moveReadyToGlobal
    <2>3. m \notin Moved
      BY <1>3, <2>1, <2>2, NoCandidate
    <2>4. PICK k \in Keys : m \in ToSet(lists[k]) /\ m \in ToSet(Left[k])
      BY <2>3 DEF Cached, Moved
    <2>5. PICK i \in DOMAIN lists[k] : lists[k][i] = m
      BY <2>4 DEF ToSet
    <2>6. QED  BY <1>4, <2>4, <2>5
  <1>6. ASSUME kind = "cuda", m \in ToSet(lists[hint[s]]) PROVE FALSE
    <2>1. AcquireStream(s) = s /\ s # NoStream /\ Key(s) = hint[s] /\ hint[s] \in Keys
      BY <1>1, <1>6, StreamsAssumption DEF AcquireStream, Key, Keys
    <2>2. Candidates(ToSet(lists[hint[s]]), r) = {}
      BY <2>1 DEF Miss, NonePerStream
    <2>3. ToSet(lists[hint[s]]) \subseteq Cached
      BY <2>1 DEF Cached
    <2>4. QED  BY <1>3, <1>6, <2>2, <2>3, NoCandidate
  <1>7. QED  BY <1>5, <1>6

\* A new block is allocated only if no block in the cache would do: none that
\* fits is ready, and none is in the list of the stream it is for.
THEOREM MissesAreReal == Spec => MissIsReal
  <1>1. ASSUME IInv, [Next]_vars
        PROVE  [\A t \in Threads: th[t].pc = "idle" /\ th'[t].pc = "create" /\ ~disorder =>
                  \A m \in Cached: Fits(m, th'[t].req) =>
                      ~Ready(m) /\ (kind = "cuda" => m \notin ToSet(lists[hint[th'[t].on]]))]_vars
    <2> SUFFICES ASSUME Next, NEW t \in Threads, th[t].pc = "idle", th'[t].pc = "create", ~ disorder,
                        NEW m \in Cached, Fits(m, th'[t].req)
                 PROVE  ~ Ready(m) /\ (kind = "cuda" => m \notin ToSet(lists[hint[th'[t].on]]))
      BY <1>1
    <2>1. PICK s \in Streams, r \in Reqs : Miss(AcquireStream(s), r) /\ th'[t].on = s /\ th'[t].req = r
      BY <1>1, CreateAfterMiss
    <2>2. QED  BY <1>1, <2>1, MissMeansNone
  <1>2. QED  BY <1>1, InvAlways, PTL DEF Spec, MissIsReal

-----------------------------------------------------------------------------
(* Buffers inside a workspace: estimate and allocation *)

\* Divisibility, with the quotient named.
LEMMA Divides ==
  ASSUME NEW x \in Nat, NEW a \in Nat \ {0}
  PROVE  x % a = 0 <=> \E k \in Nat : x = k * a
  <1>1. ASSUME x % a = 0 PROVE \E k \in Nat : x = k * a
    <2>1. x \div a \in Nat
      BY a > 0
    <2>2. x = a * (x \div a)
      BY <1>1
    <2>3. x = (x \div a) * a
      BY <2>1, <2>2
    <2>4. QED  BY <2>1, <2>3
  <1>2. ASSUME NEW k \in Nat, x = k * a PROVE x % a = 0
    BY <1>2
  <1>3. QED  BY <1>1, <1>2

LEMMA DividesTransitive ==
  ASSUME NEW x \in Nat, NEW b \in Nat \ {0}, NEW a \in Nat \ {0}, x % b = 0, b % a = 0
  PROVE  x % a = 0
  <1>1. PICK k \in Nat : x = k * b
    BY Divides
  <1>2. PICK l \in Nat : b = l * a
    BY Divides
  <1>3. k * l \in Nat /\ x = (k * l) * a
    BY <1>1, <1>2
  <1>4. QED  BY <1>3, Divides

LEMMA DividesSum ==
  ASSUME NEW x \in Nat, NEW y \in Nat, NEW a \in Nat \ {0}, x % a = 0, y % a = 0
  PROVE  (x + y) % a = 0
  <1>1. PICK k \in Nat : x = k * a
    BY Divides
  <1>2. PICK l \in Nat : y = l * a
    BY Divides
  <1>3. k + l \in Nat /\ x + y = (k + l) * a /\ x + y \in Nat
    BY <1>1, <1>2
  <1>4. QED  BY <1>3, Divides

\* AlignUp gives the least multiple of a that is at least v.
LEMMA AlignUpFacts ==
  ASSUME NEW v \in Nat, NEW a \in Nat \ {0}
  PROVE  /\ AlignUp(v, a) \in Nat /\ AlignUp(v, a) % a = 0
         /\ v <= AlignUp(v, a)
         /\ \A m \in Nat : m % a = 0 /\ v <= m => AlignUp(v, a) <= m
  <1> DEFINE w == v + (a - 1)
             q == w \div a
  <1>1. w \in Nat
    OBVIOUS
  <1>2. q \in Nat /\ a * q <= w /\ w < a * q + a
    <2> HIDE DEF w
    <2>1. q \in Nat
      BY <1>1, a > 0
    <2>2. a * q <= w
      BY <1>1, a > 0
    <2>3. w < a * q + a
      BY <1>1, a > 0
    <2>4. QED  BY <2>1, <2>2, <2>3
  <1>3. q * a \in Nat /\ q * a = a * q
    BY <1>2
  <1>4. AlignUp(v, a) = q * a
    BY DEF AlignUp
  <1>5. AlignUp(v, a) % a = 0
    BY <1>2, <1>3, <1>4, Divides
  <1>6. v <= q * a
    BY <1>2, <1>3
  <1>7. ASSUME NEW m \in Nat, m % a = 0, v <= m PROVE q * a <= m
    <2>1. PICK k \in Nat : m = k * a
      BY <1>7, Divides
    <2>2. CASE q <= k
      <3>1. q * a <= k * a
        BY <1>2, <2>2
      <3>2. QED  BY <2>1, <3>1
    <2>3. CASE k + 1 <= q
      <3>1. (k + 1) * a <= q * a /\ (k + 1) * a = k * a + a
        BY <1>2, <2>3
      <3>2. QED  BY <1>2, <1>3, <1>7, <2>1, <3>1
    <2>4. QED  BY <1>2, <2>2, <2>3
  <1>8. QED  BY <1>3, <1>4, <1>5, <1>6, <1>7

LEMMA RequestFacts ==
  ASSUME NEW r \in Requests
  PROVE  /\ r.size \in Sizes /\ r.size \in Nat
         /\ r.alignment \in Alignments /\ r.alignment \in Nat \ {0}
  BY SizesAssumption, AlignmentsAssumption DEF Requests

\* A buffer needs no less room if it is put further behind, is larger or is
\* aligned more strictly.
LEMMA EndFromMonotone ==
  ASSUME NEW o \in Nat, NEW u \in Nat, o <= u, NEW r \in Requests, NEW q \in Requests,
         r.size <= q.size, r.alignment <= q.alignment
  PROVE  /\ EndFrom(o, r) \in Nat /\ o <= EndFrom(o, r) /\ EndFrom(o, r) <= EndFrom(u, q)
         /\ AlignUp(o, r.alignment) + r.size <= EndFrom(o, r)
  <1> DEFINE a == r.alignment
             b == q.alignment
  <1>1. /\ a \in Nat \ {0} /\ b \in Nat \ {0} /\ r.size \in Nat /\ q.size \in Nat
        /\ a \in Alignments /\ b \in Alignments
    BY RequestFacts
  <1>2. b % a = 0
    BY <1>1, AlignmentsAssumption
  <1> HIDE DEF a, b
  <1>3. ASSUME NEW x \in Nat, NEW y \in Nat, x <= y PROVE AlignUp(x, a) <= AlignUp(y, b)
    <2>1. AlignUp(y, b) \in Nat /\ AlignUp(y, b) % b = 0 /\ y <= AlignUp(y, b)
      BY <1>1, AlignUpFacts
    <2>2. AlignUp(y, b) % a = 0
      BY <1>1, <1>2, <2>1, DividesTransitive
    <2>3. x <= AlignUp(y, b)
      BY <1>3, <2>1
    <2>4. QED  BY <1>1, <2>1, <2>2, <2>3, AlignUpFacts
  <1>4. AlignUp(o, a) <= AlignUp(u, b) /\ AlignUp(r.size, a) <= AlignUp(q.size, b)
    BY <1>1, <1>3
  <1>5. /\ AlignUp(o, a) \in Nat /\ AlignUp(r.size, a) \in Nat /\ o <= AlignUp(o, a) /\ r.size <= AlignUp(r.size, a)
        /\ AlignUp(u, b) \in Nat /\ AlignUp(q.size, b) \in Nat
    BY <1>1, AlignUpFacts
  <1>6. EndFrom(o, r) = AlignUp(o, a) + AlignUp(r.size, a) /\ EndFrom(u, q) = AlignUp(u, b) + AlignUp(q.size, b)
    BY DEF EndFrom, a, b
  <1>7. AlignUp(o, r.alignment) = AlignUp(o, a)
    BY DEF a
  <1>8. QED  BY <1>1, <1>4, <1>5, <1>6, <1>7

LEMMA EndFromFacts ==
  ASSUME NEW o \in Nat, NEW u \in Nat, o <= u, NEW r \in Requests
  PROVE  EndFrom(o, r) \in Nat /\ EndFrom(u, r) \in Nat /\ EndFrom(o, r) <= EndFrom(u, r)
  <1>1. r.size <= r.size /\ r.alignment <= r.alignment /\ u <= u
    BY RequestFacts
  <1>2. QED  BY <1>1, EndFromMonotone

LEMMA MaxOfTwo ==
  ASSUME NEW x \in Nat, NEW y \in Nat
  PROVE  Max({x, y}) \in {x, y} /\ x <= Max({x, y}) /\ y <= Max({x, y})
  <1>1. \E m \in {x, y} : \A n \in {x, y} : m >= n
    <2>1. CASE x >= y
      BY <2>1
    <2>2. CASE y >= x
      BY <2>2
    <2>3. QED  BY <2>1, <2>2
  <1>2. Max({x, y}) \in {x, y} /\ \A n \in {x, y} : Max({x, y}) >= n
    BY <1>1 DEF Max
  <1>3. QED  BY <1>2

\* An alignment divides what a larger one divides.
LEMMA AlignedFor ==
  ASSUME NEW a \in Alignments \cup {BaseAlignment}, NEW b \in Alignments \cup {BaseAlignment},
         a <= b, NEW x \in Nat, x % b = 0
  PROVE  x % a = 0
  <1>1. a \in Nat \ {0} /\ b \in Nat \ {0} /\ b % a = 0
    BY AlignmentsAssumption
  <1>2. QED  BY <1>1, DividesTransitive

-----------------------------------------------------------------------------
(* Room *)

LEMMA NoRoomNeeded == ASSUME NEW n \in Nat PROVE Room(<< >>, n, n)
  <1> DEFINE o == [i \in 1..1 |-> n]
  <1>1. o \in [1 .. Len(<< >>) + 1 -> n .. n]
    OBVIOUS
  <1>2. \A i, j \in 1 .. Len(<< >>) + 1 : o[i] <= o[j]
    OBVIOUS
  <1>3. \A i \in 1 .. Len(<< >>) : EndFrom(o[i], << >>[i]) <= o[i + 1]
    OBVIOUS
  <1> HIDE DEF o
  <1>4. QED  BY <1>1, <1>2, <1>3 DEF Room

\* The estimator makes room for a buffer behind the others.
LEMMA RoomAppended ==
  ASSUME NEW p \in Seq(Requests), NEW n \in Nat, Room(p, 0, n), NEW r \in Requests
  PROVE  Room(Append(p, r), 0, EndFrom(n, r))
  <1> DEFINE l == Len(p) + 1
             p2 == Append(p, r)
             m == EndFrom(n, r)
  <1>1. PICK o \in [1 .. l -> 0 .. n] :
          /\ \A i, j \in 1 .. l : i <= j => o[i] <= o[j]
          /\ \A i \in 1 .. Len(p) : EndFrom(o[i], p[i]) <= o[i + 1]
    BY DEF Room
  <1>2. m \in Nat /\ n <= m
    BY EndFromMonotone, RequestFacts
  <1>3. Len(p) \in Nat /\ l \in Nat /\ Len(p2) = l /\ p2[l] = r /\ \A i \in 1 .. Len(p) : p2[i] = p[i]
    OBVIOUS
  <1> HIDE DEF p2, m
  <1> DEFINE o2 == [i \in 1 .. l + 1 |-> IF i <= l THEN o[i] ELSE m]
  <1>4. o2 \in [1 .. Len(p2) + 1 -> 0 .. m]
    BY <1>1, <1>2, <1>3
  <1>5. \A i, j \in 1 .. Len(p2) + 1 : i <= j => o2[i] <= o2[j]
    BY <1>1, <1>2, <1>3, SMTT(60)
  <1>6. \A i \in 1 .. Len(p2) : EndFrom(o2[i], p2[i]) <= o2[i + 1]
    <2> SUFFICES ASSUME NEW i \in 1 .. l PROVE EndFrom(o2[i], p2[i]) <= o2[i + 1]
      BY <1>3
    <2>1. CASE i <= Len(p)
      <3>1. i \in 1 .. Len(p) /\ o2[i] = o[i] /\ o2[i + 1] = o[i + 1] /\ p2[i] = p[i]
        BY <1>3, <2>1
      <3>2. QED  BY <1>1, <3>1
    <2>2. CASE i = l
      <3>1. o2[i] = o[l] /\ o2[i + 1] = m /\ p2[i] = r /\ o[l] \in Nat /\ o[l] <= n
        BY <1>1, <1>3, <2>2
      <3>2. EndFrom(o[l], r) <= EndFrom(n, r)
        BY <3>1, EndFromFacts
      <3>3. QED  BY <3>1, <3>2 DEF m
    <2>3. QED  BY <1>3, <2>1, <2>2
  <1> HIDE DEF o2
  <1>7. Room(p2, 0, m)
    BY <1>4, <1>5, <1>6 DEF Room
  <1>8. QED  BY <1>7 DEF p2, m

\* Room is kept by more memory, ...
LEMMA RoomExtended ==
  ASSUME NEW p \in Seq(Requests), NEW f \in Nat, NEW n \in Nat, NEW m \in Nat, n <= m, Room(p, f, n)
  PROVE  Room(p, f, m)
  <1>1. \A o : o \in [1 .. Len(p) + 1 -> f .. n] => o \in [1 .. Len(p) + 1 -> f .. m]
    OBVIOUS
  <1>2. QED  BY <1>1 DEF Room

\* ... and when the first buffer is taken, or one no larger in its place, or none.
LEMMA RoomAfterFirst ==
  ASSUME NEW p \in Seq(Requests), p # << >>, NEW f \in Nat, NEW n \in Nat, Room(p, f, n),
         NEW g \in Nat, g <= EndFrom(f, Head(p))
  PROVE  g <= n /\ Room(Tail(p), g, n)
  <1> DEFINE l == Len(p)
             p2 == Tail(p)
  <1>1. PICK o \in [1 .. l + 1 -> f .. n] :
          /\ \A i, j \in 1 .. l + 1 : i <= j => o[i] <= o[j]
          /\ \A i \in 1 .. l : EndFrom(o[i], p[i]) <= o[i + 1]
    BY DEF Room
  <1>2. /\ l \in Nat /\ l > 0 /\ Head(p) = p[1] /\ p[1] \in Requests
        /\ p2 \in Seq(Requests) /\ Len(p2) = l - 1 /\ \A i \in 1 .. (l - 1) : p2[i] = p[i + 1]
    BY HeadTailProperties
  <1>3. o[1] \in Nat /\ f <= o[1] /\ o[2] \in Nat /\ o[2] <= n
    BY <1>1, <1>2
  <1>4. EndFrom(f, p[1]) <= EndFrom(o[1], p[1]) /\ EndFrom(o[1], p[1]) <= o[2] /\ EndFrom(o[1], p[1]) \in Nat /\ EndFrom(f, p[1]) \in Nat
    <2>1. EndFrom(f, p[1]) <= EndFrom(o[1], p[1]) /\ EndFrom(f, p[1]) \in Nat /\ EndFrom(o[1], p[1]) \in Nat
      BY <1>2, <1>3, EndFromFacts
    <2>2. EndFrom(o[1], p[1]) <= o[1 + 1]
      BY <1>1, <1>2
    <2>3. QED  BY <2>1, <2>2
  <1>5. g <= o[2]
    BY <1>2, <1>3, <1>4
  <1> HIDE DEF p2
  <1> DEFINE o2 == [i \in 1 .. l |-> o[i + 1]]
  <1>6. \A i \in 1 .. l : i + 1 \in 1 .. l + 1 /\ o[i + 1] \in Nat /\ o[2] <= o[i + 1] /\ o[i + 1] <= n
    <2> SUFFICES ASSUME NEW i \in 1 .. l
                 PROVE  i + 1 \in 1 .. l + 1 /\ o[i + 1] \in Nat /\ o[2] <= o[i + 1] /\ o[i + 1] <= n
      OBVIOUS
    <2>1. i + 1 \in 1 .. l + 1 /\ 2 \in 1 .. l + 1 /\ 2 <= i + 1
      BY <1>2
    <2>2. o[i + 1] \in f .. n
      BY <1>1, <2>1
    <2>3. o[2] <= o[i + 1]
      BY <1>1, <2>1
    <2>4. QED  BY <2>1, <2>2, <2>3
  <1>7. o2 \in [1 .. Len(p2) + 1 -> g .. n]
    BY <1>2, <1>3, <1>5, <1>6, SMTT(60)
  <1>8. \A i, j \in 1 .. Len(p2) + 1 : i <= j => o2[i] <= o2[j]
    <2> SUFFICES ASSUME NEW i \in 1 .. l, NEW j \in 1 .. l, i <= j PROVE o2[i] <= o2[j]
      BY <1>2
    <2>1. i + 1 \in 1 .. l + 1 /\ j + 1 \in 1 .. l + 1 /\ i + 1 <= j + 1
      BY <1>2
    <2>2. QED  BY <1>1, <2>1
  <1>9. \A i \in 1 .. Len(p2) : EndFrom(o2[i], p2[i]) <= o2[i + 1]
    <2> SUFFICES ASSUME NEW i \in 1 .. (l - 1) PROVE EndFrom(o2[i], p2[i]) <= o2[i + 1]
      BY <1>2
    <2>1. i + 1 \in 1 .. l /\ o2[i] = o[i + 1] /\ o2[i + 1] = o[i + 1 + 1] /\ p2[i] = p[i + 1]
      BY <1>2
    <2>2. QED  BY <1>1, <2>1
  <1> HIDE DEF o2
  <1>10. Room(p2, g, n)
    BY <1>7, <1>8, <1>9 DEF Room
  <1>11. QED  BY <1>3, <1>5, <1>10 DEF p2

-----------------------------------------------------------------------------
(* The steps *)

\* A buffer is estimated.
LEMMA AddStep == ASSUME AllocIInv, NEW c \in Calls, NEW r \in Requests, add(c, r) PROVE AllocIInv'
  <1> DEFINE size == AlignUp(est[c].size, r.alignment) + AlignUp(r.size, r.alignment)
             alignment == Max({est[c].alignment, r.alignment})
  <1>1. /\ call = 0 /\ plan' = [plan EXCEPT ![c] = Append(@, r)]
        /\ est' = [est EXCEPT ![c] = [size |-> size, alignment |-> alignment]]
        /\ UNCHANGED <<call, mem, offset, acquired, released, blocks, strayed, failed>>
    BY DEF add, memory, allocator
  <1>2. /\ plan[c] \in Seq(Requests) /\ est[c].size \in Nat /\ est[c].alignment \in Alignments \cup {BaseAlignment}
        /\ est[c].alignment \in Nat /\ Room(plan[c], 0, est[c].size)
        /\ \A i \in DOMAIN plan[c] : plan[c][i].alignment <= est[c].alignment
    BY <1>1, AlignmentsAssumption DEF AllocIInv, AllocTypeOK, Estimated
  <1>3. /\ alignment \in Alignments \cup {BaseAlignment} /\ alignment \in Nat
        /\ est[c].alignment <= alignment /\ r.alignment <= alignment
    BY <1>2, RequestFacts, MaxOfTwo, AlignmentsAssumption
  <1>4. size = EndFrom(est[c].size, r) /\ size \in Nat
    BY <1>2, EndFromFacts DEF EndFrom
  <1> HIDE DEF size, alignment
  <1>5. Append(plan[c], r) \in Seq(Requests) /\ [size |-> size, alignment |-> alignment] \in [size: Nat, alignment: Alignments \cup {BaseAlignment}]
    BY <1>2, <1>3, <1>4
  <1>6. AllocTypeOK'
    BY <1>1, <1>5 DEF AllocIInv, AllocTypeOK
  <1>7. NothingYet' /\ BelowOffset' /\ BlocksDisjoint' /\ RoomLeft'
    BY <1>1 DEF AllocIInv, NothingYet, BelowOffset, BlocksDisjoint, RoomLeft
  <1>8. Estimated'
    <2> SUFFICES ASSUME NEW d \in Calls
                 PROVE  /\ Room(plan'[d], 0, est'[d].size)
                        /\ \A i \in DOMAIN plan'[d] : plan'[d][i].alignment <= est'[d].alignment
      BY DEF Estimated, Room
    <2>1. CASE d # c
      <3>1. plan'[d] = plan[d] /\ est'[d] = est[d]
        BY <1>1, <2>1 DEF AllocIInv, AllocTypeOK
      <3>2. QED  BY <1>1, <3>1 DEF AllocIInv, Estimated
    <2>2. CASE d = c
      <3>1. plan'[d] = Append(plan[c], r) /\ est'[d].size = size /\ est'[d].alignment = alignment
        BY <1>1, <2>2 DEF AllocIInv, AllocTypeOK
      <3>2. Room(Append(plan[c], r), 0, size)
        BY <1>2, <1>4, RoomAppended
      <3>3. ASSUME NEW i \in DOMAIN Append(plan[c], r) PROVE Append(plan[c], r)[i].alignment <= alignment
        <4>1. CASE i \in DOMAIN plan[c]
          <5>1. Append(plan[c], r)[i] = plan[c][i] /\ plan[c][i] \in Requests
            BY <1>2, <4>1
          <5>2. plan[c][i].alignment \in Nat /\ plan[c][i].alignment <= est[c].alignment
            BY <1>2, <4>1, <5>1, RequestFacts
          <5>3. QED  BY <1>2, <1>3, <5>1, <5>2
        <4>2. CASE i \notin DOMAIN plan[c]
          <5>1. Append(plan[c], r)[i] = r
            BY <1>2, <4>2
          <5>2. QED  BY <1>3, <5>1
        <4>3. QED  BY <4>1, <4>2
      <3>4. QED  BY <3>1, <3>2, <3>3
    <2>3. QED  BY <2>1, <2>2
  <1>9. QED  BY <1>6, <1>7, <1>8 DEF AllocIInv

\* Memory for both calls is provided to one of them.
LEMMA ProvideStep == ASSUME AllocIInv, NEW c \in Calls, Provide(c) PROVE AllocIInv'
  <1> DEFINE need == MaxWorkspaceReq(est[1], est[2])
  <1>1. PICK data \in Bases : data % need.alignment = 0 /\ mem' = [data |-> data, size |-> need.size]
    BY DEF Provide
  <1>2. /\ call = 0 /\ call' = c /\ UNCHANGED <<offset, acquired, released, blocks, strayed, failed>>
        /\ plan' = [d \in Calls |-> IF d = c THEN plan[c] ELSE << >>]
        /\ est' = [d \in Calls |-> NewEstimator]
    BY DEF Provide, allocator
  <1>3. offset = 0 /\ blocks = << >> /\ ~ strayed /\ ~ failed
    BY <1>2 DEF AllocIInv, NothingYet
  <1>4. \A d \in Calls : /\ plan[d] \in Seq(Requests) /\ est[d].size \in Nat /\ est[d].alignment \in Nat \ {0}
                         /\ est[d].alignment \in Alignments \cup {BaseAlignment}
                         /\ Room(plan[d], 0, est[d].size)
                         /\ \A i \in DOMAIN plan[d] : plan[d][i].alignment <= est[d].alignment
    BY <1>2, AlignmentsAssumption DEF AllocIInv, AllocTypeOK, Estimated
  <1>5. /\ need.alignment \in Alignments \cup {BaseAlignment} /\ need.alignment \in Nat \ {0}
        /\ \A d \in Calls : est[d].alignment <= need.alignment
    <2>1. need.alignment = Max({est[1].alignment, est[2].alignment})
      BY DEF MaxWorkspaceReq
    <2>2. 1 \in Calls /\ 2 \in Calls
      BY DEF Calls
    <2>3. est[1].alignment \in Nat /\ est[2].alignment \in Nat
      BY <1>4, <2>2
    <2>4. need.alignment \in {est[1].alignment, est[2].alignment} /\ est[1].alignment <= need.alignment /\ est[2].alignment <= need.alignment
      BY <2>1, <2>3, MaxOfTwo
    <2>5. QED  BY <1>4, <2>2, <2>4 DEF Calls
  <1>6. need.size \in Nat /\ \A d \in Calls : est[d].size <= need.size
    <2> DEFINE m == Max({est[1].size, est[2].size})
    <2>1. need.size = AlignUp(m, need.alignment)
      BY DEF MaxWorkspaceReq
    <2>2. 1 \in Calls /\ 2 \in Calls
      BY DEF Calls
    <2>3. est[1].size \in Nat /\ est[2].size \in Nat
      BY <1>4, <2>2
    <2>4. m \in Nat /\ est[1].size <= m /\ est[2].size <= m
      BY <2>3, MaxOfTwo
    <2> HIDE DEF m, need
    <2>5. need.size \in Nat /\ m <= need.size
      BY <1>5, <2>1, <2>4, AlignUpFacts
    <2>6. \A d \in Calls : d = 1 \/ d = 2
      BY DEF Calls
    <2>7. QED  BY <2>3, <2>4, <2>5, <2>6
  <1> HIDE DEF need
  <1>7. data \in Nat /\ mem' \in [data: Nat, size: Nat] /\ mem'.data = data /\ mem'.size = need.size
    BY <1>1, <1>6, SizesAssumption
  <1>8. NewEstimator \in [size: Nat, alignment: Alignments \cup {BaseAlignment}] /\ << >> \in Seq(Requests)
    BY DEF NewEstimator
  <1>9. AllocTypeOK'
    <2>1. plan' \in [Calls -> Seq(Requests)] /\ est' \in [Calls -> [size: Nat, alignment: Alignments \cup {BaseAlignment}]]
      BY <1>2, <1>4, <1>8
    <2>2. offset' \in 0 .. mem'.size /\ call' \in {0} \cup Calls
      BY <1>2, <1>3, <1>6, <1>7
    <2>3. QED  BY <1>2, <1>7, <2>1, <2>2 DEF AllocIInv, AllocTypeOK
  <1>10. call' # 0
    BY <1>2 DEF Calls
  <1>11. NothingYet' /\ Estimated'
    BY <1>10 DEF NothingYet, Estimated
  <1>12. BelowOffset' /\ BlocksDisjoint'
    <2>1. DOMAIN blocks' = {}
      BY <1>2, <1>3
    <2>2. QED  BY <2>1 DEF BelowOffset, BlocksDisjoint
  <1>13. RoomLeft'
    <2>1. plan'[call'] = plan[c] /\ plan[c] \in Seq(Requests) /\ offset' = 0
      BY <1>2, <1>3, <1>4
    <2>2. Room(plan[c], 0, need.size)
      BY <1>4, <1>6, RoomExtended
    <2>3. ASSUME NEW i \in DOMAIN plan[c] PROVE data % plan[c][i].alignment = 0
      <3>1. plan[c][i] \in Requests
        BY <1>4
      <3>2. plan[c][i].alignment \in Alignments /\ plan[c][i].alignment \in Nat /\ plan[c][i].alignment <= est[c].alignment
        BY <1>4, <3>1, RequestFacts
      <3>3. plan[c][i].alignment <= need.alignment
        BY <1>4, <1>5, <3>2
      <3>4. QED  BY <1>1, <1>5, <1>7, <3>2, <3>3, AlignedFor
    <2>4. ~ failed'
      BY <1>2, <1>3
    <2>5. QED  BY <1>7, <2>1, <2>2, <2>3, <2>4 DEF RoomLeft, Room
  <1>14. QED  BY <1>9, <1>11, <1>12, <1>13 DEF AllocIInv

\* get puts a buffer behind the others, or fails and changes nothing of them.
LEMMA GetStep ==
  ASSUME AllocIInv, NEW r \in Requests, get(r)
  PROVE  /\ UNCHANGED <<est, call, mem, released>> /\ acquired' \in BOOLEAN /\ failed' \in BOOLEAN
         /\ offset' \in 0 .. mem.size /\ offset <= offset'
         /\ offset' \in {offset, EndFrom(offset, r)}
         /\ failed' = (failed \/ mem.data % r.alignment # 0 \/ EndFrom(offset, r) > mem.size)
         /\ blocks' \in Seq([at: Nat, size: Sizes, alignment: Alignments])
         /\ BelowOffset' /\ BlocksDisjoint'
  <1> DEFINE fails == mem.data % r.alignment # 0 \/ EndFrom(offset, r) > mem.size
             a == r.alignment
             at == AlignUp(offset, a)
             b == [at |-> mem.data + at, size |-> r.size, alignment |-> a]
  <1>1. /\ UNCHANGED <<est, call, mem, released>>
        /\ acquired' = (acquired \/ MustAcquire(r))
        /\ failed' = (failed \/ fails)
        /\ offset' = IF fails THEN offset ELSE EndFrom(offset, r)
        /\ blocks' = IF fails THEN blocks ELSE Append(blocks, b)
    BY DEF get, memory, TooSmall, Begin, End, EndFrom
  <1>0. acquired \in BOOLEAN /\ failed \in BOOLEAN
    BY DEF AllocIInv, AllocTypeOK
  <1>2. mem.data \in Nat /\ mem.size \in Nat /\ offset \in Nat /\ offset <= mem.size
    BY DEF AllocIInv, AllocTypeOK
  <1>7. blocks \in Seq([at: Nat, size: Sizes, alignment: Alignments])
    BY DEF AllocIInv, AllocTypeOK
  <1>3. acquired' \in BOOLEAN /\ failed' \in BOOLEAN /\ failed' = (failed \/ mem.data % r.alignment # 0 \/ EndFrom(offset, r) > mem.size)
    BY <1>0, <1>1 DEF MustAcquire
  <1>4. CASE fails
    <2>1. offset' = offset /\ blocks' = blocks /\ mem' = mem
      BY <1>1, <1>4
    <2>2. BelowOffset' /\ BlocksDisjoint'
      BY <2>1 DEF AllocIInv, BelowOffset, BlocksDisjoint
    <2>3. QED  BY <1>1, <1>2, <1>3, <1>7, <2>1, <2>2
  <1>5. CASE ~ fails
    <2>1. /\ EndFrom(offset, r) \in Nat /\ offset <= EndFrom(offset, r) /\ EndFrom(offset, r) <= mem.size
          /\ at + r.size <= EndFrom(offset, r)
      <3>1. r.size <= r.size /\ r.alignment <= r.alignment
        BY RequestFacts
      <3>2. EndFrom(offset, r) \in Nat /\ offset <= EndFrom(offset, r) /\ at + r.size <= EndFrom(offset, r)
        BY <1>2, <3>1, EndFromMonotone
      <3>3. QED  BY <1>2, <1>5, <3>2
    <2>2. a \in Nat \ {0} /\ a \in Alignments /\ r.size \in Nat /\ r.size \in Sizes
      BY RequestFacts
    <2>3. at \in Nat /\ at % a = 0 /\ offset <= at
      BY <1>2, <2>2, AlignUpFacts
    <2>4. (mem.data + at) % a = 0
      BY <1>2, <1>5, <2>2, <2>3, DividesSum
    <2> HIDE DEF at, a, fails
    <2>5. b.at = mem.data + at /\ b.size = r.size /\ b.alignment = a
      OBVIOUS
    <2>6. b \in [at: Nat, size: Sizes, alignment: Alignments]
      BY <1>2, <2>2, <2>3
    <2> HIDE DEF b
    <2>7. /\ b.at % b.alignment = 0 /\ b.at \in Nat /\ b.size \in Nat
          /\ mem.data + offset <= b.at /\ b.at + b.size <= mem.data + EndFrom(offset, r)
      <3>1. b.at % b.alignment = 0
        BY <2>4, <2>5
      <3>2. b.at \in Nat /\ b.size \in Nat /\ mem.data + offset <= b.at
        BY <1>2, <2>2, <2>3, <2>5
      <3>3. b.at + b.size <= mem.data + EndFrom(offset, r)
        BY <1>2, <2>1, <2>2, <2>3, <2>5
      <3>4. QED  BY <3>1, <3>2, <3>3
    <2>8. /\ offset' = EndFrom(offset, r) /\ blocks' = Append(blocks, b) /\ mem' = mem
      BY <1>1, <1>5
    <2> DEFINE n == Len(blocks)
    <2>9. /\ n \in Nat /\ DOMAIN blocks = 1 .. n /\ DOMAIN blocks' = 1 .. n + 1
          /\ blocks'[n + 1] = b /\ \A i \in 1 .. n : blocks'[i] = blocks[i]
          /\ blocks' \in Seq([at: Nat, size: Sizes, alignment: Alignments])
      BY <1>7, <2>6, <2>8
    <2>10. \A i \in 1 .. n : /\ blocks[i].at \in Nat /\ blocks[i].size \in Nat
                             /\ blocks[i].at % blocks[i].alignment = 0
                             /\ mem.data <= blocks[i].at
                             /\ blocks[i].at + blocks[i].size <= mem.data + offset
                             /\ blocks[i].at + blocks[i].size <= mem.data + mem.size
      <3> SUFFICES ASSUME NEW i \in 1 .. n
                   PROVE  /\ blocks[i].at \in Nat /\ blocks[i].size \in Nat
                          /\ blocks[i].at % blocks[i].alignment = 0
                          /\ mem.data <= blocks[i].at
                          /\ blocks[i].at + blocks[i].size <= mem.data + offset
                          /\ blocks[i].at + blocks[i].size <= mem.data + mem.size
        OBVIOUS
      <3>1. blocks[i] \in [at: Nat, size: Sizes, alignment: Alignments]
        BY <1>7, ElementOfSeq
      <3>2. blocks[i].at \in Nat /\ blocks[i].size \in Nat
        BY <3>1, SizesAssumption
      <3>3. QED  BY <2>9, <3>2 DEF AllocIInv, BelowOffset, BlocksDisjoint
    <2>11. BelowOffset'
      <3> SUFFICES ASSUME NEW i \in 1 .. n + 1 PROVE blocks'[i].at + blocks'[i].size <= mem.data + offset'
        BY <2>8, <2>9 DEF BelowOffset
      <3>1. CASE i = n + 1
        BY <2>7, <2>8, <2>9, <3>1
      <3>2. CASE i \in 1 .. n
        <4>1. blocks'[i] = blocks[i]
          BY <2>9, <3>2
        <4>2. /\ blocks[i].at \in Nat /\ blocks[i].size \in Nat
              /\ blocks[i].at + blocks[i].size <= mem.data + offset
          BY <2>10, <3>2
        <4>3. offset <= offset' /\ offset' \in Nat
          BY <1>2, <2>1, <2>8
        <4> DEFINE x == blocks[i].at + blocks[i].size
                   d == mem.data
                   o == offset
                   p == offset'
        <4>4. x \in Nat
          BY <4>2
        <4>5. x <= d + o
          BY <4>2
        <4>6. d \in Nat /\ o \in Nat /\ p \in Nat /\ o <= p
          BY <1>2, <4>3
        <4> HIDE DEF x, d, o, p
        <4>7. x <= d + p
          BY <4>4, <4>5, <4>6
        <4>8. QED  BY <4>1, <4>7 DEF x, d, p
      <3>3. QED  BY <2>9, <3>1, <3>2
    <2>12. BlocksDisjoint'
      <3>1. ASSUME NEW i \in 1 .. n + 1
            PROVE  /\ blocks'[i].at % blocks'[i].alignment = 0
                   /\ mem.data <= blocks'[i].at /\ blocks'[i].at + blocks'[i].size <= mem.data + mem.size
        <4>1. CASE i = n + 1
          <5>1. blocks'[i] = b
            BY <2>9, <4>1
          <5>2. mem.data <= b.at /\ b.at + b.size <= mem.data + mem.size
            <6>1. mem.data <= b.at
              BY <1>2, <2>7
            <6>2. mem.data + EndFrom(offset, r) <= mem.data + mem.size /\ EndFrom(offset, r) \in Nat
              BY <1>2, <2>1
            <6> DEFINE x == b.at + b.size
                       y == mem.data + EndFrom(offset, r)
                       z == mem.data + mem.size
            <6>3. x \in Nat /\ x <= y
              BY <2>7
            <6>4. y \in Nat /\ z \in Nat /\ y <= z
              BY <1>2, <6>2
            <6> HIDE DEF x, y, z
            <6>5. x <= z
              BY <6>3, <6>4
            <6>6. QED  BY <6>1, <6>5 DEF x, z
          <5>3. QED  BY <2>7, <5>1, <5>2
        <4>2. CASE i \in 1 .. n
          BY <2>9, <2>10, <4>2
        <4>3. QED  BY <2>9, <4>1, <4>2
      <3>2. ASSUME NEW i \in 1 .. n + 1, NEW j \in 1 .. n + 1, i < j
            PROVE  blocks'[i].at + blocks'[i].size <= blocks'[j].at
        <4>1. i \in 1 .. n /\ blocks'[i] = blocks[i]
          BY <2>9, <3>2
        <4>2. CASE j = n + 1
          <5>1. blocks'[j] = b
            BY <2>9, <4>2
          <5>2. /\ blocks[i].at \in Nat /\ blocks[i].size \in Nat
                /\ blocks[i].at + blocks[i].size <= mem.data + offset
            BY <2>10, <4>1
          <5> DEFINE x == blocks[i].at + blocks[i].size
                     y == mem.data + offset
                     z == b.at
          <5>3. x \in Nat /\ x <= y
            BY <5>2
          <5>4. y \in Nat
            BY <1>2
          <5>5. z \in Nat /\ y <= z
            BY <2>7
          <5> HIDE DEF x, y, z
          <5>6. x <= z
            BY <5>3, <5>4, <5>5
          <5>7. QED  BY <4>1, <5>1, <5>6 DEF x, z
        <4>3. CASE j \in 1 .. n
          <5>1. blocks'[j] = blocks[j]
            BY <2>9, <4>3
          <5>2. QED  BY <2>9, <3>2, <4>1, <4>3, <5>1 DEF AllocIInv, BlocksDisjoint
        <4>4. QED  BY <2>9, <4>2, <4>3
      <3>3. QED  BY <2>8, <2>9, <3>1, <3>2 DEF BlocksDisjoint
    <2>13. offset' \in 0 .. mem.size /\ offset <= offset'
      BY <1>2, <2>1, <2>8
    <2>14. QED  BY <1>1, <1>3, <2>8, <2>9, <2>11, <2>12, <2>13
  <1>6. QED  BY <1>4, <1>5

LEMMA GetPlannedStep == ASSUME AllocIInv, GetPlanned PROVE AllocIInv'
  <1> DEFINE p == plan[call]
             h == Head(p)
  <1>1. PICK r \in Requests : r.size <= h.size /\ r.alignment <= h.alignment /\ get(r)
    BY DEF GetPlanned
  <1>2. call \in Calls /\ call # 0 /\ p # << >> /\ p \in Seq(Requests)
    BY DEF GetPlanned, Planned, AllocIInv, AllocTypeOK
  <1>3. plan' = [plan EXCEPT ![call] = Tail(p)] /\ strayed' = strayed
    BY DEF GetPlanned, TakeNext
  <1>4. /\ h = p[1] /\ h \in Requests /\ Tail(p) \in Seq(Requests) /\ 1 \in DOMAIN p
        /\ DOMAIN Tail(p) = 1 .. (Len(p) - 1) /\ \A i \in 1 .. (Len(p) - 1) : Tail(p)[i] = p[i + 1] /\ i + 1 \in DOMAIN p
    <2>1. h \in Requests /\ Tail(p) \in Seq(Requests) /\ Len(Tail(p)) = Len(p) - 1
          /\ \A i \in 1 .. Len(Tail(p)) : Tail(p)[i] = p[i + 1]
      BY <1>2, HeadTailProperties
    <2>2. Len(p) \in Nat /\ Len(p) > 0 /\ DOMAIN p = 1 .. Len(p) /\ h = p[1] /\ DOMAIN Tail(p) = 1 .. Len(Tail(p))
      BY <1>2, <2>1
    <2>3. QED  BY <2>1, <2>2
  <1>5. /\ UNCHANGED <<est, call, mem, released>> /\ acquired' \in BOOLEAN /\ failed' \in BOOLEAN
        /\ offset' \in 0 .. mem.size /\ offset <= offset'
        /\ offset' \in {offset, EndFrom(offset, r)}
        /\ failed' = (failed \/ mem.data % r.alignment # 0 \/ EndFrom(offset, r) > mem.size)
        /\ blocks' \in Seq([at: Nat, size: Sizes, alignment: Alignments])
        /\ BelowOffset' /\ BlocksDisjoint'
    BY <1>1, GetStep
  <1>6. plan' \in [Calls -> Seq(Requests)] /\ plan'[call] = Tail(p)
    BY <1>2, <1>3, <1>4 DEF AllocIInv, AllocTypeOK
  <1>7. AllocTypeOK'
    BY <1>3, <1>5, <1>6 DEF AllocIInv, AllocTypeOK
  <1>8. NothingYet' /\ Estimated'
    BY <1>2, <1>5 DEF NothingYet, Estimated
  <1>9. RoomLeft'
    <2> SUFFICES ASSUME ~ strayed
                 PROVE  /\ ~ failed' /\ Room(Tail(p), offset', mem.size)
                        /\ \A i \in DOMAIN Tail(p) : mem.data % Tail(p)[i].alignment = 0
      BY <1>3, <1>5, <1>6 DEF RoomLeft, Room
    <2>1. /\ ~ failed /\ Room(p, offset, mem.size)
          /\ \A i \in DOMAIN p : mem.data % p[i].alignment = 0
      BY <1>2 DEF AllocIInv, RoomLeft
    <2>2. mem.data \in Nat /\ mem.size \in Nat /\ offset \in Nat
      BY DEF AllocIInv, AllocTypeOK
    <2>3. EndFrom(offset, r) \in Nat /\ offset <= EndFrom(offset, r) /\ EndFrom(offset, r) <= EndFrom(offset, h)
      <3>1. offset <= offset
        BY <2>2
      <3>2. QED  BY <1>1, <1>4, <2>2, <3>1, EndFromMonotone
    <2>4. EndFrom(offset, r) <= mem.size
      BY <1>2, <2>1, <2>2, <2>3, RoomAfterFirst
    <2>5. mem.data % r.alignment = 0
      <3>1. mem.data % h.alignment = 0
        BY <1>4, <2>1
      <3>2. r.alignment \in Alignments /\ h.alignment \in Alignments
        BY <1>4, RequestFacts
      <3>3. QED  BY <1>1, <2>2, <3>1, <3>2, AlignedFor
    <2>6. ~ failed'
      <3>1. ~ (EndFrom(offset, r) > mem.size)
        BY <2>2, <2>3, <2>4
      <3>2. QED  BY <1>5, <2>1, <2>5, <3>1
    <2>7. offset' \in Nat /\ offset' <= EndFrom(offset, h)
      <3>1. EndFrom(offset, h) \in Nat
        <4>1. offset <= offset
          BY <2>2
        <4>2. QED  BY <1>4, <2>2, <4>1, EndFromFacts
      <3>2. QED  BY <1>5, <2>2, <2>3, <3>1
    <2>8. Room(Tail(p), offset', mem.size)
      BY <1>2, <2>1, <2>2, <2>7, RoomAfterFirst
    <2>9. \A i \in DOMAIN Tail(p) : mem.data % Tail(p)[i].alignment = 0
      BY <1>4, <2>1
    <2>10. QED  BY <2>6, <2>8, <2>9
  <1>10. QED  BY <1>5, <1>7, <1>8, <1>9 DEF AllocIInv

LEMMA SkipStep == ASSUME AllocIInv, Skip PROVE AllocIInv'
  <1> DEFINE p == plan[call]
  <1>1. call \in Calls /\ call # 0 /\ p # << >> /\ p \in Seq(Requests)
    BY DEF Skip, Planned, AllocIInv, AllocTypeOK
  <1>2. /\ plan' = [plan EXCEPT ![call] = Tail(p)]
        /\ UNCHANGED <<est, call, mem, offset, acquired, released, blocks, strayed, failed>>
    BY DEF Skip, TakeNext, memory, allocator
  <1>3. /\ Head(p) \in Requests /\ Tail(p) \in Seq(Requests)
        /\ \A i \in DOMAIN Tail(p) : i + 1 \in DOMAIN p /\ Tail(p)[i] = p[i + 1]
    <2>1. Head(p) \in Requests /\ Tail(p) \in Seq(Requests) /\ Len(Tail(p)) = Len(p) - 1
          /\ \A i \in 1 .. Len(Tail(p)) : Tail(p)[i] = p[i + 1]
      BY <1>1, HeadTailProperties
    <2>2. Len(p) \in Nat /\ DOMAIN p = 1 .. Len(p) /\ DOMAIN Tail(p) = 1 .. Len(Tail(p))
      BY <1>1, <2>1
    <2>3. QED  BY <2>1, <2>2
  <1>4. plan' \in [Calls -> Seq(Requests)] /\ plan'[call] = Tail(p)
    BY <1>1, <1>2, <1>3 DEF AllocIInv, AllocTypeOK
  <1>5. AllocTypeOK'
    BY <1>2, <1>4 DEF AllocIInv, AllocTypeOK
  <1>6. NothingYet' /\ Estimated' /\ BelowOffset' /\ BlocksDisjoint'
    BY <1>1, <1>2 DEF AllocIInv, NothingYet, Estimated, BelowOffset, BlocksDisjoint
  <1>7. RoomLeft'
    <2> SUFFICES ASSUME ~ strayed
                 PROVE  /\ ~ failed /\ Room(Tail(p), offset, mem.size)
                        /\ \A i \in DOMAIN Tail(p) : mem.data % Tail(p)[i].alignment = 0
      BY <1>2, <1>4 DEF RoomLeft, Room
    <2>1. /\ ~ failed /\ Room(p, offset, mem.size)
          /\ \A i \in DOMAIN p : mem.data % p[i].alignment = 0
      BY <1>1 DEF AllocIInv, RoomLeft
    <2>2. mem.size \in Nat /\ offset \in Nat
      BY DEF AllocIInv, AllocTypeOK
    <2>3. offset <= EndFrom(offset, Head(p))
      <3>1. Head(p).size <= Head(p).size /\ Head(p).alignment <= Head(p).alignment
        BY <1>3, RequestFacts
      <3>2. QED  BY <1>3, <2>2, <3>1, EndFromMonotone
    <2>4. Room(Tail(p), offset, mem.size)
      BY <1>1, <2>1, <2>2, <2>3, RoomAfterFirst
    <2>5. QED  BY <1>3, <2>1, <2>4
  <1>8. QED  BY <1>5, <1>6, <1>7 DEF AllocIInv

LEMMA GetOtherStep == ASSUME AllocIInv, GetOther PROVE AllocIInv'
  <1>1. PICK r \in Requests : get(r)
    BY DEF GetOther
  <1>2. strayed' = TRUE /\ plan' = plan /\ call # 0
    BY <1>1 DEF GetOther, get
  <1>3. /\ UNCHANGED <<est, call, mem, released>> /\ acquired' \in BOOLEAN /\ failed' \in BOOLEAN
        /\ offset' \in 0 .. mem.size /\ blocks' \in Seq([at: Nat, size: Sizes, alignment: Alignments])
        /\ BelowOffset' /\ BlocksDisjoint'
    BY <1>1, GetStep
  <1>4. AllocTypeOK'
    BY <1>2, <1>3 DEF AllocIInv, AllocTypeOK
  <1>5. NothingYet' /\ Estimated' /\ RoomLeft'
    BY <1>2, <1>3 DEF NothingYet, Estimated, RoomLeft
  <1>6. QED  BY <1>3, <1>4, <1>5 DEF AllocIInv

\* acquire and release change nothing the invariant depends on.
LEMMA HoldStep == ASSUME AllocIInv, acquire \/ release PROVE AllocIInv'
  <1>1. /\ UNCHANGED <<plan, est, call, mem, offset, blocks, strayed, failed>>
        /\ acquired' \in BOOLEAN /\ released' \in BOOLEAN
    BY DEF acquire, release, memory, AllocIInv, AllocTypeOK
  <1>2. AllocTypeOK'
    BY <1>1 DEF AllocIInv, AllocTypeOK
  <1>3. NothingYet' /\ Estimated' /\ RoomLeft' /\ BelowOffset' /\ BlocksDisjoint'
    BY <1>1 DEF AllocIInv, NothingYet, Estimated, RoomLeft, BelowOffset, BlocksDisjoint
  <1>4. QED  BY <1>2, <1>3 DEF AllocIInv

-----------------------------------------------------------------------------

LEMMA InitIInv == AllocInit => AllocIInv
  <1> SUFFICES ASSUME AllocInit PROVE AllocIInv
    OBVIOUS
  <1>1. NewEstimator \in [size: Nat, alignment: Alignments \cup {BaseAlignment}] /\ << >> \in Seq(Requests)
    BY DEF NewEstimator
  <1>2. AllocTypeOK
    <2>1. plan \in [Calls -> Seq(Requests)] /\ est \in [Calls -> [size: Nat, alignment: Alignments \cup {BaseAlignment}]]
      BY <1>1 DEF AllocInit
    <2>2. call \in {0} \cup Calls /\ mem \in [data: Nat, size: Nat] /\ offset \in 0 .. mem.size
      BY DEF AllocInit
    <2>3. acquired \in BOOLEAN /\ released \in BOOLEAN /\ strayed \in BOOLEAN /\ failed \in BOOLEAN
      BY DEF AllocInit
    <2>4. blocks \in Seq([at: Nat, size: Sizes, alignment: Alignments])
      BY DEF AllocInit
    <2>5. QED  BY <2>1, <2>2, <2>3, <2>4 DEF AllocTypeOK
  <1>3. NothingYet /\ BelowOffset /\ BlocksDisjoint /\ RoomLeft
    BY DEF AllocInit, NothingYet, BelowOffset, BlocksDisjoint, RoomLeft
  <1>4. Estimated
    <2> SUFFICES ASSUME NEW c \in Calls
                 PROVE  /\ Room(plan[c], 0, est[c].size)
                        /\ \A i \in DOMAIN plan[c] : plan[c][i].alignment <= est[c].alignment
      BY DEF Estimated
    <2>1. plan[c] = << >> /\ est[c].size = 0
      BY DEF AllocInit, NewEstimator
    <2>2. Room(<< >>, 0, 0)
      BY NoRoomNeeded
    <2>3. QED  BY <2>1, <2>2
  <1>5. QED  BY <1>2, <1>3, <1>4 DEF AllocIInv

LEMMA NextIInv == AllocIInv /\ [AllocNext]_allocVars => AllocIInv'
  <1> SUFFICES ASSUME AllocIInv, [AllocNext]_allocVars PROVE AllocIInv'
    OBVIOUS
  <1>1. CASE UNCHANGED allocVars
    BY <1>1 DEF allocVars, memory, allocator, AllocIInv, AllocTypeOK, NothingYet, BelowOffset, BlocksDisjoint, Estimated, RoomLeft
  <1>2. CASE Estimate
    BY <1>2, AddStep DEF Estimate
  <1>3. QED  BY <1>1, <1>2, HoldStep, GetPlannedStep, SkipStep, GetOtherStep, ProvideStep DEF AllocNext

LEMMA AllocatorIInv == AllocSpec => []AllocIInv
  <1>1. QED  BY InitIInv, NextIInv, PTL DEF AllocSpec

\* The offset of the allocator never passes the end of the memory.
THEOREM AllocatorTyping == AllocSpec => []AllocTypeOK
  <1>1. AllocIInv => AllocTypeOK
    BY DEF AllocIInv
  <1>2. QED  BY <1>1, AllocatorIInv, PTL

\* The buffers that get hands out are aligned, in the memory, and disjoint, for
\* all requests and whichever of them failed.
THEOREM BuffersAreDisjoint == AllocSpec => []BlocksDisjoint
  <1>1. AllocIInv => BlocksDisjoint
    BY DEF AllocIInv
  <1>2. QED  BY <1>1, AllocatorIInv, PTL

\* MaxWorkspaceReq of two estimates is enough for each call: get never throws
\* to one that takes what was estimated, or less, in the order of the estimate.
THEOREM EstimateSuffices == AllocSpec => []Covered
  <1>1. AllocIInv => Covered
    BY DEF AllocIInv, NothingYet, RoomLeft, Covered
  <1>2. QED  BY <1>1, AllocatorIInv, PTL
==============================================================================
