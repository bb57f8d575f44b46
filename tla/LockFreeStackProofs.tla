------------------------- MODULE LockFreeStackProofs -------------------------
(***************************************************************************)
(* The links of the stack are right, every node has one owner, and the     *)
(* stack implements FreeList, for any threads and any finite set of nodes. *)
(***************************************************************************)
EXTENDS LockFreeStack, FiniteSetTheorems, TLAPS

LEMMA NodeCount == Cardinality(Nodes) \in Nat
  BY NodesAssumption, FS_CardinalityType

LEMMA RangeFacts ==
  ASSUME NEW S, NEW s \in Seq(S)
  PROVE  /\ Range(s) \subseteq S
         /\ \A i \in 1..Len(s) : s[i] \in Range(s)
         /\ \A x \in Range(s) : \E i \in 1..Len(s) : x = s[i]
  BY DEF Range

LEMMA TailRange ==
  ASSUME NEW S, NEW s \in Seq(S), s # <<>>,
         \A i, j \in DOMAIN s : i # j => s[i] # s[j]
  PROVE  Range(Tail(s)) = Range(s) \ {s[1]}
  <1>1. /\ Tail(s) \in Seq(S) /\ Len(Tail(s)) = Len(s) - 1 /\ Len(s) \in Nat \ {0}
        /\ \A i \in 1..(Len(s) - 1) : Tail(s)[i] = s[i + 1]
    OBVIOUS
  <1>2. ASSUME NEW x \in Range(Tail(s)) PROVE x \in Range(s) \ {s[1]}
    <2>1. PICK i \in 1..(Len(s) - 1) : x = s[i + 1]
      <3>1. PICK i \in DOMAIN Tail(s) : x = Tail(s)[i]
        BY DEF Range
      <3>2. i \in 1..(Len(s) - 1) /\ x = s[i + 1]
        BY <1>1, <3>1
      <3>3. QED  BY <3>2
    <2>2. i + 1 \in 1..Len(s) /\ 1 \in 1..Len(s) /\ i + 1 # 1
      BY <1>1
    <2>3. QED  BY <2>1, <2>2, RangeFacts
  <1>3. ASSUME NEW x \in Range(s), x # s[1] PROVE x \in Range(Tail(s))
    <2>1. PICK i \in 1..Len(s) : x = s[i]
      BY RangeFacts
    <2>2. i - 1 \in 1..Len(Tail(s)) /\ (i - 1) + 1 = i
      BY <1>1, <1>3, <2>1
    <2>3. Tail(s)[i - 1] = x
      BY <1>1, <2>1, <2>2
    <2>4. QED  BY <1>1, <2>2, <2>3, RangeFacts
  <1>4. QED  BY <1>2, <1>3

LEMMA ConcatRange ==
  ASSUME NEW S, NEW s \in Seq(S), NEW u \in Seq(S)
  PROVE  Range(s \o u) = Range(s) \cup Range(u)
  <1>1. /\ s \o u \in Seq(S) /\ Len(s \o u) = Len(s) + Len(u) /\ Len(s) \in Nat /\ Len(u) \in Nat
        /\ \A i \in 1..Len(s) : i \in 1..Len(s \o u) /\ (s \o u)[i] = s[i]
        /\ \A i \in 1..Len(u) : Len(s) + i \in 1..Len(s \o u) /\ (s \o u)[Len(s) + i] = u[i]
    OBVIOUS
  <1>2. ASSUME NEW x \in Range(s \o u) PROVE x \in Range(s) \cup Range(u)
    <2>1. PICK i \in 1..Len(s \o u) : x = (s \o u)[i]
      BY <1>1, RangeFacts
    <2>2. CASE i \in 1..Len(s)
      <3>1. x = s[i]
        BY <1>1, <2>1, <2>2
      <3>2. QED  BY <2>2, <3>1, RangeFacts
    <2>3. CASE i \notin 1..Len(s)
      <3>1. i - Len(s) \in 1..Len(u) /\ Len(s) + (i - Len(s)) = i
        BY <1>1, <2>3
      <3>2. x = u[i - Len(s)]
        BY <1>1, <2>1, <3>1
      <3>3. QED  BY <3>1, <3>2, RangeFacts
    <2>4. QED  BY <2>2, <2>3
  <1>3. ASSUME NEW x \in Range(s) PROVE x \in Range(s \o u)
    <2>1. PICK i \in 1..Len(s) : x = s[i]
      BY RangeFacts
    <2>2. i \in 1..Len(s \o u) /\ (s \o u)[i] = x
      BY <1>1, <2>1
    <2>3. QED  BY <1>1, <2>2, RangeFacts
  <1>4. ASSUME NEW x \in Range(u) PROVE x \in Range(s \o u)
    <2>1. PICK i \in 1..Len(u) : x = u[i]
      BY RangeFacts
    <2>2. Len(s) + i \in 1..Len(s \o u) /\ (s \o u)[Len(s) + i] = x
      BY <1>1, <2>1, SMTT(60)
    <2>3. QED  BY <1>1, <2>2, RangeFacts
  <1>5. QED  BY <1>2, <1>3, <1>4

-----------------------------------------------------------------------------
(* One lemma per kind of step: it preserves the inductive invariant. *)

\* The steps that write only the program counter and the locals.
LEMMA LocalSteps ==
  ASSUME NEW t \in Threads, IInv,
         \/ PopCall(t) \/ PopEmpty(t) \/ PopLoad(t) \/ PopLockFail(t) \/ PopRead(t)
         \/ PopSwapFail(t) \/ PushSwapFail(t)
         \/ ReleaseCall(t) \/ ReleaseLoad(t) \/ ReleaseSwapFail(t)
  PROVE  IInv'
  <1> USE NodesAssumption DEF IInv, TypeOK, ContentLinked, OneOwner, LockProtectsHead,
          LocalsInv, LinkedTo, Range, Ptr, Unlocked, Locked, Popping, HoldsLock,
          Pushing, Releasing, Goto, Return
  <1>1. CASE PopCall(t)  BY <1>1 DEF PopCall
  <1>2. CASE PopEmpty(t)  BY <1>2 DEF PopEmpty
  <1>3. CASE PopLoad(t)  BY <1>3 DEF PopLoad
  <1>4. CASE PopLockFail(t)  BY <1>4 DEF PopLockFail
  <1>5. CASE PopRead(t)  BY <1>5 DEF PopRead
  <1>6. CASE PopSwapFail(t)  BY <1>6 DEF PopSwapFail
  <1>7. CASE PushSwapFail(t)  BY <1>7 DEF PushSwapFail
  <1>8. CASE ReleaseCall(t)  BY <1>8 DEF ReleaseCall
  <1>9. CASE ReleaseLoad(t)  BY <1>9 DEF ReleaseLoad
  <1>10. CASE ReleaseSwapFail(t)  BY <1>10 DEF ReleaseSwapFail
  <1>11. QED  BY <1>1, <1>2, <1>3, <1>4, <1>5, <1>6, <1>7, <1>8, <1>9, <1>10

\* Setting the lock bit.
LEMMA LockStep == ASSUME NEW t \in Threads, IInv, PopLock(t) PROVE IInv'
  BY NodesAssumption DEF IInv, TypeOK, ContentLinked, OneOwner, LockProtectsHead,
     LocalsInv, LinkedTo, Range, Ptr, Unlocked, Locked, Popping, HoldsLock,
     Pushing, Releasing, Goto, PopLock

\* Removing the head and clearing the lock bit.
LEMMA PopStep == ASSUME NEW t \in Threads, IInv, PopSwap(t) PROVE IInv'
  <1> USE DEF IInv, TypeOK, Range
  <1>1. /\ content # <<>> /\ head.node = content[1]
        /\ old[t].node = content[1] /\ new[t] = next[content[1]]
    BY NodesAssumption DEF PopSwap, ContentLinked, LockProtectsHead, HoldsLock, LocalsInv
  <1>2. /\ content' \in Seq(Nodes) /\ Len(content') = Len(content) - 1
        /\ \A i \in 1..Len(content') : content'[i] = content[i + 1]
    BY <1>1 DEF PopSwap
  <1>3. TypeOK'
    BY <1>1, <1>2 DEF PopSwap, Return, Unlocked, Ptr
  <1>4. ContentLinked'
    <2>1. next' = next /\ head'.node = new[t]
      BY DEF PopSwap, Unlocked
    <2>2. LinkedTo(content, Null)'
      <3>1. ASSUME NEW i \in 1..(Len(content') - 1) PROVE next[content'[i]] = content'[i + 1]
        <4>1. i + 1 \in 1..(Len(content) - 1) /\ i \in 1..Len(content') /\ i + 1 \in 1..Len(content')
          BY <1>2
        <4>2. next[content[i + 1]] = content[(i + 1) + 1]
          BY <4>1 DEF ContentLinked, LinkedTo
        <4>3. QED  BY <1>2, <4>1, <4>2
      <3>2. Len(content') > 0 => next[content'[Len(content')]] = Null
        <4> HAVE Len(content') > 0
        <4>1. Len(content') \in 1..Len(content') /\ Len(content') + 1 = Len(content)
          BY <1>2
        <4>2. content'[Len(content')] = content[Len(content)]
          BY <1>2, <4>1
        <4>3. Len(content) > 0
          BY <1>2, <4>1
        <4>4. QED  BY <4>2, <4>3 DEF ContentLinked, LinkedTo
      <3>3. QED  BY <2>1, <3>1, <3>2 DEF LinkedTo
    <2>3. CASE Len(content) = 1
      BY <1>1, <1>2, <2>1, <2>2, <2>3 DEF ContentLinked, LinkedTo
    <2>4. CASE Len(content) # 1
      <3>1. 1 \in 1..(Len(content) - 1) /\ 1 \in 1..Len(content') /\ content' # <<>>
        BY <1>1, <1>2, <2>4
      <3>2. next[content[1]] = content[1 + 1] /\ content'[1] = content[1 + 1]
        BY <1>2, <3>1 DEF ContentLinked, LinkedTo
      <3>3. QED  BY <1>1, <2>1, <2>2, <3>1, <3>2 DEF ContentLinked
    <2>5. QED  BY <2>3, <2>4
  <1>5. OneOwner'
    <2>1. \A i \in DOMAIN content' : i + 1 \in DOMAIN content /\ content'[i] = content[i + 1]
      BY <1>2
    <2>2. \A i, j \in DOMAIN content' : i # j => content'[i] # content'[j]
      <3> SUFFICES ASSUME NEW i \in DOMAIN content', NEW j \in DOMAIN content', i # j
                   PROVE  content'[i] # content'[j]
        OBVIOUS
      <3>1. i + 1 # j + 1
        BY <1>2
      <3>2. QED  BY <2>1, <3>1 DEF OneOwner
    <2>3. \A i \in DOMAIN content' : content'[i] # content[1]
      <3> SUFFICES ASSUME NEW i \in DOMAIN content' PROVE content'[i] # content[1]
        OBVIOUS
      <3>1. i + 1 # 1 /\ 1 \in DOMAIN content
        BY <1>1, <1>2
      <3>2. QED  BY <2>1, <3>1 DEF OneOwner
    <2>4. owned' = [owned EXCEPT ![t] = @ \cup {content[1]}]
      BY <1>1 DEF PopSwap
    <2>5. \A u \in Threads : content[1] \notin owned[u]
      BY <1>1 DEF OneOwner
    <2>6. Range(content)' \subseteq Range(content) \ {content[1]}
      BY <2>1, <2>3
    <2>7. \A u \in Threads : Range(content)' \cap owned'[u] = {}
      <3>1. \A u \in Threads : owned'[u] \subseteq owned[u] \cup {content[1]}
        BY <2>4
      <3>2. QED  BY <2>6, <3>1 DEF OneOwner
    <2>8. \A u, v \in Threads : u # v => owned'[u] \cap owned'[v] = {}
      BY <2>4, <2>5 DEF OneOwner
    <2>9. QED  BY <2>2, <2>7, <2>8 DEF OneOwner
  <1>6. LockProtectsHead'
    BY DEF LockProtectsHead, HoldsLock, PopSwap, Return, Unlocked
  <1>7. LocalsInv'
    BY DEF LocalsInv, Pushing, Popping, Releasing, PopSwap, Return, Unlocked
  <1>8. QED  BY <1>3, <1>4, <1>5, <1>6, <1>7

\* push and pushStack write the link of a node that only their thread holds.
LEMMA LinkStep == ASSUME NEW t \in Threads, IInv, PushLoad(t) PROVE IInv'
  <1> DEFINE last == chain[t][Len(chain[t])]
  <1> USE DEF IInv, TypeOK, Range
  <1>1. Pushing(t) /\ Len(chain[t]) \in 1..Len(chain[t]) /\ last \in owned[t] /\ last \in Nodes
    BY DEF PushLoad, Pushing, LocalsInv
  <1>2. /\ next'[last] = head.node
        /\ \A n \in Nodes : n # last => next'[n] = next[n]
    BY <1>1 DEF PushLoad
  <1>3. \A i \in DOMAIN content : content[i] # last
    BY <1>1 DEF OneOwner
  <1>4. \A u \in Threads : Pushing(u) /\ u # t =>
           \A i \in DOMAIN chain[u] : chain[u][i] # last
    BY <1>1 DEF OneOwner, LocalsInv
  <1>5. TypeOK'
    BY <1>1 DEF PushLoad, Goto, Unlocked, Ptr
  <1>6. ContentLinked'
    <2>1. head' = head /\ content' = content
      BY DEF PushLoad
    <2>2. \A i \in 1..Len(content) : content[i] \in Nodes /\ next'[content[i]] = next[content[i]]
      BY <1>2, <1>3
    <2>3. QED  BY <2>1, <2>2 DEF ContentLinked, LinkedTo
  <1>7. OneOwner'
    BY DEF OneOwner, PushLoad
  <1>8. LockProtectsHead'
    <2>1. \A u \in Threads : pc[u] = "popSwap" => next'[head.node] = next[head.node]
      BY <1>2, <1>3, NodesAssumption DEF ContentLinked, LockProtectsHead, HoldsLock, LocalsInv
    <2>2. QED  BY <2>1 DEF LockProtectsHead, HoldsLock, PushLoad, Goto
  <1>9. LocalsInv'
    <2>1. \A u \in Threads : Pushing(u) => Pushing(u)' /\ chain'[u] = chain[u] /\ owned'[u] = owned[u]
      BY DEF Pushing, PushLoad, Goto
    <2>2. ASSUME NEW u \in Threads, Pushing(u), u # t
          PROVE  \A i \in DOMAIN chain[u] : next'[chain[u][i]] = next[chain[u][i]]
      BY <1>2, <1>4, <2>2
    <2>3. \A i \in 1..(Len(chain[t]) - 1) : next'[chain[t][i]] = next[chain[t][i]]
      BY <1>1, <1>2 DEF LocalsInv
    <2>4. \A u \in Threads : Pushing(u)' => Pushing(u)
      BY DEF Pushing, PushLoad, Goto
    <2>5. \A u \in Threads : pc'[u] = "pushSwap" =>
             old'[u].locked = FALSE /\ next'[chain'[u][Len(chain'[u])]] = old'[u].node
      <3> SUFFICES ASSUME NEW u \in Threads, pc'[u] = "pushSwap"
                   PROVE  old'[u].locked = FALSE /\ next'[chain'[u][Len(chain'[u])]] = old'[u].node
        OBVIOUS
      <3>1. CASE u = t  BY <3>1, <1>2 DEF PushLoad, Unlocked
      <3>2. CASE u # t  BY <3>2, <2>2 DEF PushLoad, Goto, LocalsInv, Pushing
      <3>3. QED  BY <3>1, <3>2
    <2>6. \A u \in Threads : Pushing(u)' =>
             \A i \in 1..(Len(chain'[u]) - 1) : next'[chain'[u][i]] = chain'[u][i + 1]
      <3> SUFFICES ASSUME NEW u \in Threads, Pushing(u)', NEW i \in 1..(Len(chain'[u]) - 1)
                   PROVE  next'[chain'[u][i]] = chain'[u][i + 1]
        OBVIOUS
      <3>1. /\ Pushing(u) /\ chain'[u] = chain[u] /\ i \in 1..(Len(chain[u]) - 1)
            /\ i \in DOMAIN chain[u] /\ next[chain[u][i]] = chain[u][i + 1]
        BY <2>1, <2>4 DEF LocalsInv
      <3>2. next'[chain[u][i]] = next[chain[u][i]]
        <4>1. CASE u = t  BY <3>1, <2>3, <4>1
        <4>2. CASE u # t  BY <3>1, <2>2, <4>2
        <4>3. QED  BY <4>1, <4>2
      <3>3. QED  BY <3>1, <3>2
    <2>7. QED  BY <2>1, <2>4, <2>5, <2>6 DEF LocalsInv, Popping, Releasing, Pushing, PushLoad, Goto
  <1>10. QED  BY <1>5, <1>6, <1>7, <1>8, <1>9

\* Publishing the pushed nodes: their links already lead to the old head.
LEMMA PushStep == ASSUME NEW t \in Threads, IInv, PushSwap(t) PROVE IInv'
  <1> DEFINE c == chain[t]
  <1> USE DEF IInv, TypeOK
  <1>1. /\ Pushing(t) /\ c \in Seq(Nodes) /\ Len(c) \in Nat \ {0} /\ Len(content) \in Nat
        /\ Range(c) \subseteq owned[t]
        /\ next[c[Len(c)]] = head.node /\ head.locked = FALSE
        /\ \A i \in 1..(Len(c) - 1) : next[c[i]] = c[i + 1]
    BY DEF PushSwap, Pushing, LocalsInv
  <1>2. /\ content' \in Seq(Nodes) /\ Len(content') = Len(c) + Len(content)
        /\ \A i \in 1..Len(c) : content'[i] = c[i]
        /\ \A i \in 1..Len(content) : content'[Len(c) + i] = content[i]
    BY <1>1 DEF PushSwap
  <1>3. next' = next /\ head' = Unlocked(c[1]) /\ owned' = [owned EXCEPT ![t] = @ \ Range(c)]
    BY DEF PushSwap
  <1>4. \A i \in 1..Len(content') : \/ i \in 1..Len(c)
                                    \/ i - Len(c) \in 1..Len(content) /\ Len(c) + (i - Len(c)) = i
    BY <1>1, <1>2
  <1>5. TypeOK'
    BY <1>1, <1>2, <1>3 DEF PushSwap, Return, Unlocked, Ptr
  <1>6. ContentLinked'
    <2>1. ASSUME NEW i \in 1..(Len(content') - 1) PROVE next[content'[i]] = content'[i + 1]
      <3>1. CASE i < Len(c)
        <4>1. i \in 1..(Len(c) - 1) /\ i \in 1..Len(c) /\ i + 1 \in 1..Len(c)
          BY <1>1, <2>1, <3>1
        <4>2. QED  BY <1>1, <1>2, <4>1
      <3>2. CASE i = Len(c)
        <4>1. i \in 1..Len(c) /\ 1 \in 1..Len(content) /\ content # <<>>
          BY <1>1, <1>2, <2>1, <3>2
        <4>2. QED  BY <1>1, <1>2, <3>2, <4>1 DEF ContentLinked
      <3>3. CASE i > Len(c)
        <4> DEFINE j == i - Len(c)
        <4>1. /\ j \in 1..(Len(content) - 1) /\ j \in 1..Len(content) /\ j + 1 \in 1..Len(content)
              /\ Len(c) + j = i /\ Len(c) + (j + 1) = i + 1
          BY <1>1, <1>2, <2>1, <3>3
        <4> HIDE DEF j
        <4>2. content'[i] = content[j] /\ content'[i + 1] = content[j + 1]
          BY <1>2, <4>1
        <4>3. QED  BY <4>1, <4>2 DEF ContentLinked, LinkedTo
      <3>4. QED  BY <1>1, <2>1, <3>1, <3>2, <3>3
    <2>2. next[content'[Len(content')]] = Null
      <3>1. CASE content = <<>>
        <4>1. Len(content') = Len(c) /\ Len(c) \in 1..Len(c)
          BY <1>1, <1>2, <3>1
        <4>2. QED  BY <1>1, <1>2, <3>1, <4>1 DEF ContentLinked
      <3>2. CASE content # <<>>
        <4>1. Len(content) \in 1..Len(content) /\ Len(content) > 0
          BY <1>1, <3>2
        <4>2. QED  BY <1>2, <4>1 DEF ContentLinked, LinkedTo
      <3>3. QED  BY <3>1, <3>2
    <2>3. content' # <<>> /\ content'[1] = c[1] /\ head'.node = c[1]
      BY <1>1, <1>2, <1>3 DEF Unlocked
    <2>4. QED  BY <1>3, <2>1, <2>2, <2>3 DEF ContentLinked, LinkedTo
  <1>7. OneOwner'
    <2>1. \A i \in 1..Len(content), j \in 1..Len(c) : content[i] # c[j]
      BY <1>1, RangeFacts DEF OneOwner
    <2>2. \A i, j \in 1..Len(c) : i # j => c[i] # c[j]
      BY <1>1 DEF LocalsInv
    <2> \A i \in 1..Len(content') : i \notin 1..Len(c) =>
          i - Len(c) \in 1..Len(content) /\ content'[i] = content[i - Len(c)]
      <3> SUFFICES ASSUME NEW i \in 1..Len(content'), i \notin 1..Len(c)
                   PROVE  i - Len(c) \in 1..Len(content) /\ content'[i] = content[i - Len(c)]
        OBVIOUS
      <3>1. i - Len(c) \in 1..Len(content) /\ Len(c) + (i - Len(c)) = i
        BY <1>4
      <3>2. content'[Len(c) + (i - Len(c))] = content[i - Len(c)]
        BY <1>2, <3>1
      <3>3. QED  BY <3>1, <3>2
    <2>3. ASSUME NEW i \in DOMAIN content', NEW j \in DOMAIN content', i # j
          PROVE  content'[i] # content'[j]
      <3>1. i - Len(c) # j - Len(c) /\ i \in 1..Len(content') /\ j \in 1..Len(content')
        BY <1>1, <1>2, <2>3
      <3>2. CASE i \in 1..Len(c) /\ j \in 1..Len(c)
        BY <1>2, <2>2, <2>3, <3>2
      <3>3. CASE i \in 1..Len(c) /\ j \notin 1..Len(c)
        BY <1>2, <2>1, <3>1, <3>3, SMTT(60)
      <3>4. CASE i \notin 1..Len(c) /\ j \in 1..Len(c)
        <4>1. content'[j] = c[j] /\ content'[i] = content[i - Len(c)] /\ i - Len(c) \in 1..Len(content)
          BY <1>2, <3>1, <3>4
        <4>2. QED  BY <2>1, <3>4, <4>1
      <3>5. CASE i \notin 1..Len(c) /\ j \notin 1..Len(c)
        <4>1. /\ i - Len(c) \in DOMAIN content /\ content'[i] = content[i - Len(c)]
              /\ j - Len(c) \in DOMAIN content /\ content'[j] = content[j - Len(c)]
          BY <3>1, <3>5
        <4>2. QED  BY <3>1, <4>1 DEF OneOwner
      <3>6. QED  BY <3>2, <3>3, <3>4, <3>5
    <2>4. Range(content)' = Range(c) \cup Range(content)
      BY <1>1, ConcatRange DEF PushSwap
    <2>5. \A u \in Threads : Range(content)' \cap owned'[u] = {}
      BY <1>1, <1>3, <2>4 DEF OneOwner
    <2>6. QED  BY <1>3, <2>3, <2>5 DEF OneOwner
  <1>8. LockProtectsHead'
    BY <1>1 DEF LockProtectsHead, HoldsLock, PushSwap, Return, Unlocked
  <1>9. LocalsInv'
    <2>1. \A u \in Threads : Pushing(u)' => u # t /\ Pushing(u) /\ chain'[u] = chain[u] /\ owned'[u] = owned[u]
      BY DEF Pushing, PushSwap, Return
    <2>2. head'.locked = FALSE
      BY <1>3 DEF Unlocked
    <2>3. QED  BY <2>1, <2>2, <1>3 DEF LocalsInv, Pushing, Popping, Releasing, PushSwap, Return
  <1>10. QED  BY <1>5, <1>6, <1>7, <1>8, <1>9

\* Taking the whole list.
LEMMA ReleaseStep == ASSUME NEW t \in Threads, IInv, ReleaseSwap(t) \/ Clear(t) PROVE IInv'
  <1> USE NodesAssumption DEF IInv, TypeOK, ContentLinked, OneOwner, LockProtectsHead,
          LocalsInv, LinkedTo, Range, Ptr, Unlocked, Popping, HoldsLock,
          Pushing, Releasing, Return
  <1>1. CASE ReleaseSwap(t)  BY <1>1 DEF ReleaseSwap
  <1>2. CASE Clear(t)  BY <1>2 DEF Clear
  <1>3. QED  BY <1>1, <1>2

\* A push links the nodes its thread holds and intends to publish.
LEMMA PushCallStep ==
  ASSUME NEW t \in Threads, IInv, NEW c \in Seq(owned[t]), PushCall(t, c)
  PROVE  IInv'
  <1> DEFINE inner == {c[i] : i \in 1..(Len(c) - 1)}
  <1> USE DEF IInv, TypeOK
  <1>1. c \in Seq(Nodes) /\ Len(c) \in Nat \ {0} /\ Range(c) \subseteq owned[t]
    BY DEF PushCall
  <1>2. \A i \in 1..(Len(c) - 1) : next'[c[i]] = c[i + 1]
    <2> SUFFICES ASSUME NEW i \in 1..(Len(c) - 1) PROVE next'[c[i]] = c[i + 1]
      OBVIOUS
    <2> DEFINE k == CHOOSE j \in 1..(Len(c) - 1) : c[j] = c[i]
    <2>1. k \in 1..(Len(c) - 1) /\ c[k] = c[i]
      OBVIOUS
    <2>2. k = i
      BY <1>1, <2>1 DEF PushCall
    <2>3. next'[c[i]] = c[k + 1]
      <3>1. c[i] \in Nodes
        BY <1>1
      <3>2. \E j \in 1..(Len(c) - 1) : c[j] = c[i]
        OBVIOUS
      <3>3. QED  BY <3>1, <3>2 DEF PushCall
    <2> HIDE DEF k
    <2>4. QED  BY <2>2, <2>3
  <1>3. \A n \in Nodes : n \notin inner => next'[n] = next[n]
    BY DEF PushCall
  <1>4. inner \subseteq owned[t] /\ inner \subseteq Nodes
    BY <1>1
  <1>5. next' \in [Nodes -> Ptr]
    <2>1. \A n \in Nodes : next'[n] \in Ptr
      <3> SUFFICES ASSUME NEW n \in Nodes PROVE next'[n] \in Ptr
        OBVIOUS
      <3>1. CASE n \in inner
        <4>1. PICK i \in 1..(Len(c) - 1) : n = c[i]
          BY <3>1
        <4>2. c[i + 1] \in Nodes
          BY <1>1
        <4>3. QED  BY <1>2, <4>1, <4>2 DEF Ptr
      <3>2. CASE n \notin inner  BY <1>3, <3>2
      <3>3. QED  BY <3>1, <3>2
    <2>2. QED  BY <2>1 DEF PushCall
  <1> HIDE DEF inner
  <1>6. TypeOK'
    BY <1>1, <1>5 DEF PushCall, Goto
  <1>7. ContentLinked'
    <2>1. \A i \in 1..Len(content) : content[i] \in Nodes /\ next'[content[i]] = next[content[i]]
      BY <1>3, <1>4, RangeFacts DEF OneOwner
    <2>2. head' = head /\ content' = content
      BY DEF PushCall
    <2>3. QED  BY <2>1, <2>2 DEF ContentLinked, LinkedTo
  <1>8. OneOwner'
    BY DEF OneOwner, PushCall
  <1>9. LockProtectsHead'
    <2>1. \A u \in Threads : pc[u] = "popSwap" => next'[head.node] = next[head.node]
      <3> SUFFICES ASSUME NEW u \in Threads, pc[u] = "popSwap"
                   PROVE  next'[head.node] = next[head.node]
        OBVIOUS
      <3>1. content # <<>> /\ head.node = content[1] /\ 1 \in 1..Len(content)
        BY DEF ContentLinked, LockProtectsHead, HoldsLock, LocalsInv
      <3>2. content[1] \in Nodes /\ content[1] \in Range(content)
        BY <3>1, RangeFacts
      <3>3. QED  BY <1>3, <1>4, <3>1, <3>2 DEF OneOwner
    <2>2. QED  BY <2>1, ZenonT(60) DEF LockProtectsHead, HoldsLock, PushCall, Goto
  <1>10. LocalsInv'
    <2>1. ASSUME NEW u \in Threads, Pushing(u)', u # t
          PROVE  /\ Pushing(u) /\ chain'[u] = chain[u]
                 /\ \A i \in DOMAIN chain[u] : next'[chain[u][i]] = next[chain[u][i]]
      <3>1. Pushing(u) /\ chain'[u] = chain[u]
        BY <2>1 DEF Pushing, PushCall, Goto
      <3>2. Range(chain[u]) \cap inner = {}
        BY <1>4, <2>1, <3>1 DEF OneOwner, LocalsInv
      <3>3. QED  BY <1>3, <3>1, <3>2, RangeFacts
    <2>2. chain'[t] = c /\ owned' = owned /\ head' = head /\ old' = old
      BY DEF PushCall
    <2>3. \A u \in Threads : Pushing(u)' =>
             \A i \in 1..(Len(chain'[u]) - 1) : next'[chain'[u][i]] = chain'[u][i + 1]
      <3> SUFFICES ASSUME NEW u \in Threads, Pushing(u)', NEW i \in 1..(Len(chain'[u]) - 1)
                   PROVE  next'[chain'[u][i]] = chain'[u][i + 1]
        OBVIOUS
      <3>1. CASE u = t  BY <1>2, <2>2, <3>1
      <3>2. CASE u # t
        <4>1. Pushing(u) /\ chain'[u] = chain[u] /\ i \in DOMAIN chain[u] /\ i \in 1..(Len(chain[u]) - 1)
          BY <2>1, <3>2
        <4>2. next[chain[u][i]] = chain[u][i + 1]
          BY <4>1 DEF LocalsInv
        <4>3. QED  BY <2>1, <3>2, <4>1, <4>2
      <3>3. QED  BY <3>1, <3>2
    <2>4. \A u \in Threads : pc'[u] = "pushSwap" =>
             u # t /\ pc[u] = "pushSwap" /\ Pushing(u)' /\ Len(chain[u]) \in DOMAIN chain[u]
      BY DEF PushCall, Goto, Pushing, LocalsInv
    <2>5. \A u \in Threads : Pushing(u)' =>
             /\ chain'[u] # <<>>
             /\ Range(chain'[u]) \subseteq owned'[u]
             /\ \A i, j \in DOMAIN chain'[u] : i # j => chain'[u][i] # chain'[u][j]
      <3> SUFFICES ASSUME NEW u \in Threads, Pushing(u)'
                   PROVE  /\ chain'[u] # <<>>
                          /\ Range(chain'[u]) \subseteq owned'[u]
                          /\ \A i, j \in DOMAIN chain'[u] : i # j => chain'[u][i] # chain'[u][j]
        OBVIOUS
      <3>1. CASE u = t  BY <3>1, <2>2 DEF PushCall
      <3>2. CASE u # t  BY <3>2, <2>1, <2>2 DEF LocalsInv
      <3>3. QED  BY <3>1, <3>2
    <2>6. \A u \in Threads : pc'[u] = "pushSwap" =>
             old'[u].locked = FALSE /\ next'[chain'[u][Len(chain'[u])]] = old'[u].node
      BY <2>1, <2>2, <2>4 DEF LocalsInv
    <2>7. \A u, v \in Threads : ~ (Popping(u)' /\ Releasing(v)')
      BY DEF LocalsInv, Popping, Releasing, PushCall, Goto
    <2>8. \A u \in Threads : pc'[u] = "popLock" => old'[u].locked = FALSE /\ old'[u].node # Null
      BY DEF LocalsInv, PushCall, Goto
    <2>9. QED  BY <2>2, <2>3, <2>5, <2>6, <2>7, <2>8 DEF LocalsInv, Pushing, Popping, Releasing
  <1>11. QED  BY <1>6, <1>7, <1>8, <1>9, <1>10

-----------------------------------------------------------------------------
(* The theorems *)

LEMMA InitInv == Init => IInv
  BY NodesAssumption DEF Init, IInv, TypeOK, ContentLinked, OneOwner, LockProtectsHead,
     LocalsInv, LinkedTo, Range, Ptr, Unlocked, Popping, HoldsLock, Pushing, Releasing

LEMMA NextInv == IInv /\ [Next]_vars => IInv'
  <1> SUFFICES ASSUME IInv, [Next]_vars PROVE IInv'
    OBVIOUS
  <1>1. ASSUME NEW t \in Threads, Step(t) PROVE IInv'
    BY <1>1, LocalSteps, LockStep, PopStep, LinkStep, PushStep, ReleaseStep DEF Step
  <1>2. ASSUME NEW t \in Threads, Retry(t) PROVE IInv'
    BY <1>2, LocalSteps DEF Retry
  <1>3. ASSUME NEW t \in Threads, Call(t) PROVE IInv'
    <2>1. ASSUME NEW k \in 1..Cardinality(Nodes), NEW c \in [1..k -> owned[t]], PushCall(t, c)
          PROVE  IInv'
      <3>1. c \in Seq(owned[t])
        BY NodeCount
      <3>2. QED  BY <2>1, <3>1, PushCallStep
    <2>2. QED  BY <1>3, <2>1, LocalSteps, ReleaseStep DEF Call
  <1>4. CASE UNCHANGED vars
    BY <1>4 DEF vars, IInv, TypeOK, ContentLinked, OneOwner, LockProtectsHead,
       LocalsInv, LinkedTo, Range, Popping, HoldsLock, Pushing, Releasing
  <1>5. QED  BY <1>1, <1>2, <1>3, <1>4 DEF Next

LEMMA Invariance == Spec => []IInv
  BY InitInv, NextInv, PTL DEF Spec

\* m_head, the links and the locals of pop, push, pushStack and release keep
\* their types, whatever the threads interleave.
THEOREM Typing == Spec => []TypeOK
  BY Invariance, PTL DEF IInv

\* Following the links from m_head visits the pushed and not yet popped nodes.
THEOREM ListIsContent == Spec => []ContentLinked
  BY Invariance, PTL DEF IInv

\* No two pops return the same node unless it was pushed in between.
THEOREM NodesHaveOneOwner == Spec => []OneOwner
  BY Invariance, PTL DEF IInv

\* Between the two exchanges of pop nobody else changes the head or its link.
THEOREM HeadIsProtected == Spec => []LockProtectsHead
  BY Invariance, PTL DEF IInv

\* Every step of the stack is a Take, a Give or a TakeAll of the abstract pool
\* or leaves it unchanged, so the stack implements FreeList.
THEOREM StackImplementsFreeList == Spec => ImplementsFreeList
  <1>1. Init => Pool!Init
    BY DEF Init, Pool!Init, Range
  <1>2. IInv /\ [Next]_vars => [Pool!Next]_(Pool!freeVars)
    <2> SUFFICES ASSUME IInv, [Next]_vars PROVE [Pool!Next]_(Pool!freeVars)
      OBVIOUS
    <2> USE DEF Pool!freeVars
    <2>1. ASSUME NEW t \in Threads, PopSwap(t) PROVE Pool!Take(t)
      <3>1. /\ content # <<>> /\ content \in Seq(Nodes) /\ old[t].node = content[1]
            /\ \A i, j \in DOMAIN content : i # j => content[i] # content[j]
        BY <2>1 DEF PopSwap, IInv, TypeOK, ContentLinked, LockProtectsHead, HoldsLock, LocalsInv, OneOwner
      <3>2. Range(content') = Range(content) \ {content[1]}
        BY <2>1, <3>1, TailRange DEF PopSwap
      <3>3. content[1] \in Range(content)
        BY <3>1, RangeFacts
      <3>4. QED  BY <2>1, <3>1, <3>2, <3>3 DEF PopSwap, Pool!Take
    <2>2. ASSUME NEW t \in Threads, PushSwap(t) PROVE Pool!Give(t)
      <3>1. /\ chain[t] \in Seq(Nodes) /\ content \in Seq(Nodes) /\ chain[t] # <<>>
            /\ Range(chain[t]) \subseteq owned[t]
        BY <2>2 DEF PushSwap, IInv, TypeOK, LocalsInv, Pushing
      <3>2. Range(content') = Range(content) \cup Range(chain[t])
        BY <2>2, <3>1, ConcatRange DEF PushSwap
      <3>3. Range(chain[t]) # {}
        <4>1. 1 \in 1..Len(chain[t])
          BY <3>1
        <4>2. QED  BY <3>1, <4>1, RangeFacts
      <3>4. owned' = [owned EXCEPT ![t] = @ \ Range(chain[t])]
        BY <2>2 DEF PushSwap
      <3>5. Range(chain[t]) \in (SUBSET owned[t]) \ {{}}
        BY <3>1, <3>3
      <3>6. QED  BY <3>2, <3>4, <3>5 DEF Pool!Give
    <2>3. ASSUME NEW t \in Threads, ReleaseSwap(t) \/ Clear(t) PROVE Pool!TakeAll(t)
      BY <2>3 DEF ReleaseSwap, Clear, Pool!TakeAll, Range
    <2>4. ASSUME NEW t \in Threads, Step(t) \/ Retry(t) \/ Call(t)
          PROVE  \/ UNCHANGED <<content, owned>>
                 \/ PopSwap(t) \/ PushSwap(t) \/ ReleaseSwap(t) \/ Clear(t)
      BY <2>4 DEF Step, Retry, Call, PopLoad, PopEmpty, PopLock, PopRead, PushLoad, ReleaseLoad,
         PopLockFail, PopSwapFail, PushSwapFail, ReleaseSwapFail, PopCall, ReleaseCall, PushCall
    <2>5. CASE UNCHANGED <<content, owned>>
      BY <2>5
    <2>6. CASE UNCHANGED vars
      BY <2>6 DEF vars
    <2>7. QED  BY <2>1, <2>2, <2>3, <2>4, <2>5, <2>6 DEF Next, Pool!Next
  <1>3. QED  BY <1>1, <1>2, Invariance, PTL DEF Spec, ImplementsFreeList, Pool!Spec
=============================================================================
