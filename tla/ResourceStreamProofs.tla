------------------------ MODULE ResourceStreamProofs ------------------------
(***************************************************************************)
(* For any number of threads, streams, resources, jobs and closures: work  *)
(* on a resource is ordered, what the GPU uses is held, alive and not      *)
(* reused, the auxiliary stream outlives its closures, and the cleanup at  *)
(* exit leaves nothing behind.                                             *)
(***************************************************************************)
EXTENDS ResourceStream, SequenceTheorems, WellFoundedInduction, TLAPS

\* The types of the records.
PCs == {"idle", "submit", "commit", "hold", "sync", "exitSync", "exit", "exited"}
ThreadType == [pc : PCs, on : Streams \cup {None}, res : SUBSET Objects]
JobType == [on : Streams, uses : SUBSET Resources, before : SUBSET Jobs]
ClosureType == [on : Streams, res : SUBSET Resources, after : SUBSET Jobs]

\* The work j is held by a closure of a, or by a call of h.
HeldBy(J, a, h, j) ==
    \/ \E c \in ToSet(a) : j \in c.after /\ c.on = J[j].on /\ J[j].uses \subseteq c.res
    \/ \E t \in Threads : h[t].pc \in {"commit", "hold"} /\ h[t].on = J[j].on /\ J[j].uses \subseteq h[t].res

\* Each piece of work is held.
LEMMA HeldFacts ==
  ASSUME UsedIsHeld
  PROVE  \A j \in DOMAIN job : HeldBy(job, aux, th, j)
  BY DEF UsedIsHeld, HeldBy

\* What holds work keeps what it uses alive.
LEMMA HeldNext ==
  ASSUME TypeOK', RefsLive', \A j \in DOMAIN job' : HeldBy(job', aux', th', j)
  PROVE  UsedIsHeld'
  <1> SUFFICES ASSUME NEW j \in DOMAIN job'
               PROVE  /\ job'[j].uses \cup {job'[j].on} \subseteq live'
                      /\ \/ \E c \in ToSet(aux') : j \in c.after /\ c.on = job'[j].on /\ job'[j].uses \subseteq c.res
                         \/ \E t \in Threads : th'[t].pc \in {"commit", "hold"} /\ th'[t].on = job'[j].on
                                               /\ job'[j].uses \subseteq th'[t].res
    BY DEF UsedIsHeld
  <1>1. HeldBy(job', aux', th', j)
    OBVIOUS
  <1>2. /\ \A c \in ToSet(aux') : c.on \in live' /\ c.res \subseteq live'
        /\ \A t \in Threads : th'[t].on \in live' \cup {None} /\ th'[t].res \subseteq live'
    BY DEF RefsLive
  <1>3. job'[j].on # None
    <2>1. job' \in Seq(JobType)
      BY DEF TypeOK, JobType
    <2>2. job'[j] \in JobType
      BY <2>1, LenProperties, ElementOfSeq
    <2>3. QED  BY <2>2, ObjectsAssumption DEF JobType, Objects
  <1>4. QED  BY <1>1, <1>2, <1>3 DEF HeldBy

\* What refers to an object in use.
LEMMA InUseMember ==
  ASSUME NEW x
  PROVE  x \in InUse <=> \/ x \in py
                         \/ \E t \in Threads : x = th[t].on \/ x \in th[t].res
                         \/ \E c \in ToSet(aux) \cup bag : x = c.on \/ x \in c.res
                         \/ \E r \in live \cap Resources : x = last[r]
                         \/ \E t \in Threads : x \in ToSet(entered[t])
  <1> DEFINE A == UNION {{th[t].on} \cup th[t].res : t \in Threads}
             B == UNION {{c.on} \cup c.res : c \in ToSet(aux) \cup bag}
             C == {last[r] : r \in live \cap Resources}
             D == UNION {ToSet(entered[t]) : t \in Threads}
  <1>1. x \in A <=> \E t \in Threads : x = th[t].on \/ x \in th[t].res
    OBVIOUS
  <1>2. x \in B <=> \E c \in ToSet(aux) \cup bag : x = c.on \/ x \in c.res
    OBVIOUS
  <1>3. x \in C <=> \E r \in live \cap Resources : x = last[r]
    OBVIOUS
  <1>4. x \in D <=> \E t \in Threads : x \in ToSet(entered[t])
    OBVIOUS
  <1>5. InUse = py \cup A \cup B \cup C \cup D
    BY DEF InUse
  <1> HIDE DEF A, B, C, D
  <1>6. x \in InUse <=> x \in py \/ x \in A \/ x \in B \/ x \in C \/ x \in D
    BY <1>5
  <1>7. QED  BY <1>1, <1>2, <1>3, <1>4, <1>6

\* What the GPU uses is referred to.
LEMMA UsedInUse ==
  ASSUME UsedIsHeld, NEW j \in DOMAIN job, NEW x \in job[j].uses \cup {job[j].on}
  PROVE  x \in InUse
  <1>1. \/ \E c \in ToSet(aux) \cup bag : x = c.on \/ x \in c.res
        \/ \E t \in Threads : x = th[t].on \/ x \in th[t].res
    BY DEF UsedIsHeld
  <1>2. QED  BY <1>1, InUseMember

\* What is not in use is referred to by nothing.
LEMMA NotInUse ==
  ASSUME NEW o, o \notin InUse
  PROVE  /\ o \notin py
         /\ \A t \in Threads : o # th[t].on /\ o \notin th[t].res
         /\ \A c \in ToSet(aux) \cup bag : o # c.on /\ o \notin c.res
         /\ \A r \in live \cap Resources : o # last[r]
         /\ \A t \in Threads : o \notin ToSet(entered[t])
  BY InUseMember

\* A thread that is inside a call holds the GIL.
LEMMA GilFree ==
  ASSUME IInv, NEW u, gil = u, NEW t \in Threads, t # u
  PROVE  th[t].pc \notin {"submit", "commit", "hold", "exit", "exited"}
  BY DEF IInv, GilHeld

-----------------------------------------------------------------------------
(* Steps that leave the threads' calls, the GPU and the closures alone *)

\* The GIL may be taken and given back, objects made and dropped; a resource that
\* is used, or about to be, keeps its stream.
LEMMA QuietStep ==
  ASSUME IInv, UNCHANGED <<th, job, waits, aux, bag>>,
         \/ gil' = gil
         \/ gil = None /\ gil' \in Threads
         \/ gil' = None /\ gil \in Threads /\ th[gil].pc = "idle",
         live' \subseteq Objects, py' \subseteq live', cacheOf' \in [Objects -> Threads \cup {None}],
         last' \in [Resources -> Streams \cup {None}], auxStream' \in BOOLEAN, instances' \in Int,
         stack' \in Seq(Streams), entered' \in [Threads -> Seq(Streams)], RefsLive', AuxKept',
         \A r \in Resources : r \in InUse => last'[r] = last[r]
  PROVE  IInv'
  <1>1. GilHeld'
    <2>1. \A t \in Threads : th[t].pc \in {"submit", "commit", "hold", "exit", "exited"} => gil' = t
      BY ObjectsAssumption DEF IInv, GilHeld
    <2>2. QED  BY <2>1 DEF IInv, GilHeld
  <1>2. gil' \in Threads \cup {None}
    BY DEF IInv, TypeOK
  <1>3. TypeOK'
    BY <1>2 DEF IInv, TypeOK
  <1>4. UsesPending'
    <2>1. \A j \in DOMAIN job : job[j].uses \subseteq Resources
      <3>1. job \in Seq(JobType)
        BY DEF IInv, TypeOK, JobType
      <3>2. \A j \in DOMAIN job : job[j] \in JobType
        BY <3>1, LenProperties, ElementOfSeq
      <3>3. QED  BY <3>2 DEF JobType
    <2>2. \A j \in DOMAIN job : \A r \in job[j].uses : last'[r] = last[r]
      BY <2>1, UsedInUse DEF IInv
    <2>3. \A t \in Threads : th[t].pc = "submit" => \A r \in th[t].res : last'[r] = last[r]
      <3> SUFFICES ASSUME NEW t \in Threads, th[t].pc = "submit", NEW r \in th[t].res PROVE last'[r] = last[r]
        OBVIOUS
      <3>1. r \in Resources
        BY DEF IInv, GilHeld
      <3>2. r \in InUse
        BY InUseMember
      <3>3. QED  BY <3>1, <3>2
    <2>4. \A s : Pending(s)' = Pending(s)
      BY DEF Pending
    <2>5. ASSUME NEW j \in DOMAIN job, NEW r \in job[j].uses
          PROVE  last'[r] # None /\ j \in Pending(last[r])'
      <3>1. last[r] # None /\ j \in Pending(last[r])
        BY DEF IInv, UsesPending
      <3>2. Pending(last[r])' = Pending(last'[r])
        BY DEF Pending
      <3>3. QED  BY <2>2, <3>1, <3>2
    <2>6. QED  BY <2>3, <2>5 DEF IInv, UsesPending
  <1>5. UsesOrdered' /\ CleanupComplete'
    BY DEF IInv, UsesOrdered, CleanupComplete
  <1>6. UsedIsHeld'
    <2>1. \A j \in DOMAIN job' : HeldBy(job', aux', th', j)
      BY HeldFacts DEF IInv
    <2>2. QED  BY <1>3, <2>1, HeldNext
  <1>7. QED  BY <1>1, <1>3, <1>4, <1>5, <1>6 DEF IInv

\* What is in use lives.
LEMMA InUseLive ==
  ASSUME IInv, NEW x \in InUse, x # None
  PROVE  x \in live
  BY InUseMember, ZenonT(60) DEF IInv, RefsLive, TypeOK

\* Removing the last element adds none.
LEMMA FrontFacts ==
  ASSUME NEW S, NEW q \in Seq(S)
  PROVE  Front(q) \in Seq(S) /\ ToSet(Front(q)) \subseteq ToSet(q)
  <1>1. /\ Front(q) \in Seq(S) /\ Len(Front(q)) = (IF 1 <= Len(q) - 1 THEN Len(q) - 1 ELSE 0)
        /\ \A i \in 1..Len(Front(q)) : Front(q)[i] = q[i]
    <2>1. \A i \in 1..(Len(q) - 1) : q[i] \in S
      BY ElementOfSeq, LenProperties
    <2>2. QED  BY <2>1, SubSeqProperties, LenProperties DEF Front
  <1>2. DOMAIN Front(q) = 1..Len(Front(q)) /\ DOMAIN q = 1..Len(q) /\ Len(q) \in Nat
    BY <1>1, LenProperties
  <1>3. ASSUME NEW i \in DOMAIN Front(q)
        PROVE  i \in DOMAIN q /\ Front(q)[i] = q[i]
    <2>1. Front(q)[i] = q[i] /\ i \in 1..Len(Front(q))
      BY <1>1, <1>2, ZenonT(60)
    <2> DEFINE n == Len(q)
               m == Len(Front(q))
    <2>2. n \in Nat /\ m = (IF 1 <= n - 1 THEN n - 1 ELSE 0) /\ i \in 1..m
      BY <1>1, <1>2, <2>1
    <2> HIDE DEF n, m
    <2>3. i \in 1..n
      BY <2>2
    <2>4. QED  BY <1>2, <2>1, <2>3, SMTT(60) DEF n
  <1>4. QED  BY <1>1, <1>3 DEF ToSet

\* What appending does to length, indices and elements.
LEMMA AppendFacts ==
  ASSUME NEW S, NEW q \in Seq(S), NEW e \in S
  PROVE  /\ Append(q, e) \in Seq(S) /\ Len(Append(q, e)) = Len(q) + 1
         /\ DOMAIN Append(q, e) = DOMAIN q \cup {Len(q) + 1} /\ DOMAIN q = 1..Len(q) /\ Len(q) \in Nat
         /\ \A i \in DOMAIN q : Append(q, e)[i] = q[i]
         /\ Append(q, e)[Len(q) + 1] = e
         /\ ToSet(Append(q, e)) = ToSet(q) \cup {e}
  <1>1. /\ Append(q, e) \in Seq(S) /\ Len(Append(q, e)) = Len(q) + 1
        /\ \A i \in 1..Len(q) : Append(q, e)[i] = q[i]
        /\ Append(q, e)[Len(q) + 1] = e
    BY AppendProperties
  <1>2. DOMAIN Append(q, e) = 1..(Len(q) + 1) /\ DOMAIN q = 1..Len(q) /\ Len(q) \in Nat
    BY <1>1, LenProperties
  <1>3. DOMAIN Append(q, e) = DOMAIN q \cup {Len(q) + 1}
    BY <1>2
  <1>4. ToSet(Append(q, e)) = ToSet(q) \cup {e}
    BY <1>1, <1>2, <1>3 DEF ToSet
  <1>5. QED  BY <1>1, <1>2, <1>3, <1>4

\* The GIL is given back by a thread that is in no call.
LEMMA ReleaseStep ==
  ASSUME IInv, NEW t \in Threads, Release(t)
  PROVE  IInv'
  <1>1. UNCHANGED <<th, live, last, py, cacheOf, entered, stack, job, waits, aux, auxStream, instances, bag>>
    BY DEF Release, python, gpu, auxs
  <1>2. gil' = None /\ gil \in Threads /\ th[gil].pc = "idle"
    BY DEF Release, GoesOn
  <1>3. RefsLive' /\ AuxKept'
    BY <1>1 DEF IInv, RefsLive, AuxKept
  <1>4. QED  BY <1>1, <1>2, <1>3, QuietStep DEF IInv, TypeOK

\* What is taken from the cache lives.
LEMMA ReuseStep ==
  ASSUME IInv, NEW t \in Threads, Reuse(t)
  PROVE  IInv'
  <1>1. UNCHANGED <<th, live, last, cacheOf, entered, stack, job, waits, aux, auxStream, instances, bag>>
    BY DEF Reuse, gpu, auxs
  <1>2. gil = None /\ gil' \in Threads /\ py \subseteq py' /\ py' \subseteq live'
    BY DEF Reuse, Enters, Unused, IInv, TypeOK
  <1>3. RefsLive' /\ AuxKept'
    BY <1>1, <1>2 DEF IInv, RefsLive, AuxKept
  <1>4. QED  BY <1>1, <1>2, <1>3, QuietStep DEF IInv, TypeOK

\* Dropping a variable keeps the default stream.
LEMMA DropStep ==
  ASSUME IInv, NEW t \in Threads, Drop(t)
  PROVE  IInv'
  <1>1. UNCHANGED <<th, live, last, cacheOf, entered, stack, job, waits, aux, auxStream, instances, bag>>
    BY DEF Drop, gpu, auxs
  <1>2. gil = None /\ gil' \in Threads /\ py' \subseteq live' /\ Default \in py'
    BY <1>1 DEF Drop, Enters, IInv, TypeOK, RefsLive
  <1>3. RefsLive' /\ AuxKept'
    BY <1>1, <1>2 DEF IInv, RefsLive, AuxKept
  <1>4. QED  BY <1>1, <1>2, <1>3, QuietStep DEF IInv, TypeOK

\* Clearing caches only drops references.
LEMMA ClearCacheStep ==
  ASSUME IInv, NEW t \in Threads, ClearCache(t)
  PROVE  IInv'
  <1>1. UNCHANGED <<th, live, last, py, entered, stack, job, waits, aux, auxStream, instances, bag>>
    BY DEF ClearCache, gpu, auxs
  <1>2. gil = None /\ gil' \in Threads
    BY DEF ClearCache, Enters
  <1>3. cacheOf' \in [Objects -> Threads \cup {None}] /\ \A o \in Objects : cacheOf'[o] # None => cacheOf[o] # None
    BY DEF ClearCache, IInv, TypeOK
  <1>4. RefsLive' /\ AuxKept'
    BY <1>1, <1>3 DEF IInv, RefsLive, AuxKept
  <1>5. QED  BY <1>1, <1>2, <1>3, <1>4, QuietStep DEF IInv, TypeOK

\* A failed constructor destroys the auxiliary stream only when it is empty.
LEMMA NewStreamFailsStep ==
  ASSUME IInv, NEW t \in Threads, NewStreamFails(t)
  PROVE  IInv'
  <1>1. UNCHANGED <<th, live, last, py, cacheOf, entered, stack, job, waits, aux, bag>>
    BY DEF NewStreamFails, python, gpu
  <1>2. gil = None /\ gil' \in Threads
    BY DEF NewStreamFails, Enters
  <1>3. PICK counted \in {0, 1}, made \in BOOLEAN :
          /\ made # auxStream => made /\ counted = 1
          /\ instances' = instances + counted - (IF made THEN 1 ELSE 0)
          /\ made /\ instances' = 0 => AuxSynced
          /\ auxStream' = (made /\ instances' # 0)
    BY DEF NewStreamFails
  <1>4. instances \in Int /\ auxStream \in BOOLEAN
    BY DEF IInv, TypeOK
  <1>5. instances' \in Int
    BY <1>3, <1>4
  <1>6. auxStream' \in BOOLEAN
    BY <1>3
  <1>7. aux # << >> => auxStream'
    BY <1>3, <1>4 DEF AuxSynced, IInv, AuxKept
  <1>8. RefsLive' /\ AuxKept'
    BY <1>1, <1>7 DEF IInv, RefsLive, AuxKept
  <1>9. QED  BY <1>1, <1>2, <1>5, <1>6, <1>8, QuietStep DEF IInv, TypeOK

\* A with block refers to a stream that a variable refers to.
LEMMA activateStep ==
  ASSUME IInv, NEW t \in Threads, activate(t)
  PROVE  IInv'
  <1>1. UNCHANGED <<th, live, last, py, cacheOf, job, waits, aux, auxStream, instances, bag>>
    BY DEF activate, gpu, auxs
  <1>2. gil = None /\ gil' \in Threads
    BY DEF activate, Enters
  <1>3. PICK s \in py \cap Streams :
          stack' = Append(stack, s) /\ entered' = [entered EXCEPT ![t] = Append(@, s)]
    BY DEF activate
  <1>4. stack' \in Seq(Streams)
    BY <1>3, AppendFacts DEF IInv, TypeOK
  <1>5. entered \in [Threads -> Seq(Streams)]
    BY DEF IInv, TypeOK
  <1>6. Append(entered[t], s) \in Seq(Streams) /\ ToSet(Append(entered[t], s)) = ToSet(entered[t]) \cup {s}
    BY <1>5, AppendFacts
  <1>7. entered' \in [Threads -> Seq(Streams)] /\ \A u \in Threads : ToSet(entered'[u]) \subseteq ToSet(entered[u]) \cup {s}
    BY <1>3, <1>5, <1>6
  <1>8. RefsLive' /\ AuxKept'
    BY <1>1, <1>7 DEF IInv, RefsLive, AuxKept, TypeOK
  <1>9. QED  BY <1>1, <1>2, <1>4, <1>7, <1>8, QuietStep DEF IInv, TypeOK

\* The end of a with block only drops a reference.
LEMMA deactivateStep ==
  ASSUME IInv, NEW t \in Threads, deactivate(t)
  PROVE  IInv'
  <1>1. UNCHANGED <<th, live, last, py, cacheOf, job, waits, aux, auxStream, instances, bag>>
    BY DEF deactivate, gpu, auxs
  <1>2. gil = None /\ gil' \in Threads
    BY DEF deactivate, Enters
  <1>3. stack' = Front(stack) /\ entered' = [entered EXCEPT ![t] = Front(@)]
    BY DEF deactivate
  <1>4. stack' \in Seq(Streams)
    BY <1>3, FrontFacts DEF IInv, TypeOK
  <1>5. entered \in [Threads -> Seq(Streams)]
    BY DEF IInv, TypeOK
  <1>6. Front(entered[t]) \in Seq(Streams) /\ ToSet(Front(entered[t])) \subseteq ToSet(entered[t])
    BY <1>5, FrontFacts
  <1>7. entered' \in [Threads -> Seq(Streams)] /\ \A u \in Threads : ToSet(entered'[u]) \subseteq ToSet(entered[u])
    BY <1>3, <1>5, <1>6
  <1>8. RefsLive' /\ AuxKept'
    BY <1>1, <1>7 DEF IInv, RefsLive, AuxKept, TypeOK
  <1>9. QED  BY <1>1, <1>2, <1>4, <1>7, <1>8, QuietStep DEF IInv, TypeOK

\* A resource that did not live was used by nothing.
LEMMA NewResourceStep ==
  ASSUME IInv, NEW t \in Threads, NewResource(t)
  PROVE  IInv'
  <1>1. UNCHANGED <<th, entered, stack, job, waits, aux, auxStream, instances, bag>>
    BY DEF NewResource, gpu, auxs
  <1>2. gil = None /\ gil' \in Threads
    BY DEF NewResource, Enters
  <1>3. PICK r \in Resources \ live, c \in {t, None} :
          /\ live' = live \cup {r} /\ py' = py \cup {r}
          /\ cacheOf' = [cacheOf EXCEPT ![r] = c]
          /\ last' = [last EXCEPT ![r] = None]
    BY DEF NewResource
  <1>4. live' \subseteq Objects /\ py' \subseteq live' /\ r \in Objects
    BY <1>3 DEF IInv, TypeOK, Objects
  <1>5. cacheOf' \in [Objects -> Threads \cup {None}] /\ \A o \in Objects : o # r => cacheOf'[o] = cacheOf[o]
    BY <1>3, <1>4 DEF IInv, TypeOK
  <1>6. last' \in [Resources -> Streams \cup {None}] /\ last'[r] = None /\ \A q \in Resources : q # r => last'[q] = last[q]
    BY <1>3 DEF IInv, TypeOK
  <1>7. r # None
    BY <1>4, ObjectsAssumption
  <1>8. r \notin InUse
    BY <1>3, <1>7, InUseLive
  <1>9. AuxKept'
    BY <1>1 DEF IInv, AuxKept
  <1>10. RefsLive'
    BY <1>1, <1>3, <1>5, <1>6 DEF IInv, RefsLive
  <1>11. QED  BY <1>1, <1>2, <1>4, <1>5, <1>6, <1>8, <1>9, <1>10, QuietStep DEF IInv, TypeOK

\* A new stream adds to what lives.
LEMMA NewStreamStep ==
  ASSUME IInv, NEW t \in Threads, NewStream(t)
  PROVE  IInv'
  <1>1. UNCHANGED <<th, last, entered, stack, job, waits, aux, bag>>
    BY DEF NewStream, gpu
  <1>2. gil = None /\ gil' \in Threads
    BY DEF NewStream, Enters
  <1>3. PICK s \in Streams \ live :
          /\ live' = live \cup {s} /\ py' = py \cup {s}
          /\ cacheOf' = [cacheOf EXCEPT ![s] = IF s \in Owned THEN t ELSE None]
    BY DEF NewStream
  <1>4. live' \subseteq Objects /\ py' \subseteq live' /\ s \in Objects
    BY <1>3 DEF IInv, TypeOK, Objects
  <1>5. cacheOf' \in [Objects -> Threads \cup {None}] /\ \A o \in Objects : o # s => cacheOf'[o] = cacheOf[o]
    BY <1>3, <1>4 DEF IInv, TypeOK
  <1>6. auxStream' \in BOOLEAN /\ instances' \in Int /\ AuxKept'
    BY DEF NewStream, IInv, TypeOK, AuxKept
  <1>7. s \notin Resources
    BY ObjectsAssumption
  <1>8. RefsLive'
    BY <1>1, <1>3, <1>5, <1>7 DEF IInv, RefsLive
  <1>9. QED  BY <1>1, <1>2, <1>4, <1>5, <1>6, <1>8, QuietStep DEF IInv, TypeOK

\* What is destroyed is referred to by nothing.
LEMMA DestroyRefs ==
  ASSUME IInv, NEW o \in Garbage, live' = live \ {o},
         UNCHANGED <<th, last, py, cacheOf, entered, aux, bag>>
  PROVE  RefsLive' /\ py' \subseteq live' /\ live' \subseteq Objects
  <1>1. o \notin InUse /\ cacheOf[o] = None
    BY DEF Garbage
  <1>2. /\ o \notin py
        /\ \A t \in Threads : o # th[t].on /\ o \notin th[t].res
        /\ \A c \in ToSet(aux) \cup bag : o # c.on /\ o \notin c.res
        /\ \A r \in live \cap Resources : o # last[r]
        /\ \A t \in Threads : o \notin ToSet(entered[t])
    BY <1>1, NotInUse
  <1>3. py' \subseteq live' /\ live' \subseteq Objects
    BY <1>2 DEF IInv, TypeOK
  <1>4. RefsLive'
    BY <1>1, <1>2 DEF IInv, RefsLive
  <1>5. QED  BY <1>3, <1>4

\* Destroying a resource, ...
LEMMA DestroyResourceStep ==
  ASSUME IInv, NEW t \in Threads, DestroyResource(t)
  PROVE  IInv'
  <1>1. UNCHANGED <<gil, th, last, py, cacheOf, entered, stack, job, waits, aux, auxStream, instances, bag>>
    BY DEF DestroyResource, python, gpu, auxs
  <1>2. PICK r \in Garbage : live' = live \ {r}
    BY DEF DestroyResource
  <1>3. RefsLive' /\ py' \subseteq live' /\ live' \subseteq Objects
    BY <1>1, <1>2, DestroyRefs
  <1>4. AuxKept'
    BY <1>1 DEF IInv, AuxKept
  <1>5. QED  BY <1>1, <1>3, <1>4, QuietStep DEF IInv, TypeOK

\* ... or a stream, of which the last one finds no closures.
LEMMA DestroyStreamStep ==
  ASSUME IInv, NEW t \in Threads, DestroyStream(t)
  PROVE  IInv'
  <1>1. UNCHANGED <<gil, th, last, py, cacheOf, entered, stack, job, waits, aux, bag>>
    BY DEF DestroyStream, python, gpu
  <1>2. PICK s \in Garbage : live' = live \ {s}
    BY DEF DestroyStream
  <1>3. RefsLive' /\ py' \subseteq live' /\ live' \subseteq Objects
    BY <1>1, <1>2, DestroyRefs
  <1>4. instances \in Int /\ auxStream \in BOOLEAN
    BY DEF IInv, TypeOK
  <1>5. instances' \in Int
    BY <1>4 DEF DestroyStream
  <1>6. auxStream' \in BOOLEAN
    BY <1>4 DEF DestroyStream
  <1>7. AuxKept'
    BY <1>1, <1>4 DEF IInv, AuxKept, AuxSynced, DestroyStream
  <1>8. QED  BY <1>1, <1>3, <1>5, <1>6, <1>7, QuietStep DEF IInv, TypeOK

-----------------------------------------------------------------------------
(* Steps of a thread's call that leave the GPU and the closures alone *)

\* The records of the threads.
LEMMA ThreadTyped ==
  ASSUME IInv
  PROVE  th \in [Threads -> ThreadType]
  BY DEF IInv, TypeOK, ThreadType, PCs

\* What a thread's record is after the assignments to its fields.
LEMMA PcAssigned ==
  ASSUME IInv, NEW t \in Threads, NEW p, th' = [th EXCEPT ![t].pc = p]
  PROVE  th' = [th EXCEPT ![t] = [pc |-> p, on |-> th[t].on, res |-> th[t].res]]
  <1>1. th[t] = [pc |-> th[t].pc, on |-> th[t].on, res |-> th[t].res]
    BY ThreadTyped, Zenon DEF ThreadType
  <1>2. [th[t] EXCEPT !.pc = p] = [pc |-> p, on |-> th[t].on, res |-> th[t].res]
    BY <1>1
  <1>3. QED  BY <1>2

\* The same for the streams the cleanup still has to wait for.
LEMMA ResAssigned ==
  ASSUME IInv, NEW t \in Threads, NEW R, th' = [th EXCEPT ![t].res = R]
  PROVE  th' = [th EXCEPT ![t] = [pc |-> th[t].pc, on |-> th[t].on, res |-> R]]
  <1>1. th[t] = [pc |-> th[t].pc, on |-> th[t].on, res |-> th[t].res]
    BY ThreadTyped, Zenon DEF ThreadType
  <1>2. [th[t] EXCEPT !.res = R] = [pc |-> th[t].pc, on |-> th[t].on, res |-> R]
    BY <1>1
  <1>3. QED  BY <1>2

\* A call that holds work keeps it; one that starts to hold nothing is free to.
LEMMA ThreadStep ==
  ASSUME IInv, NEW t \in Threads, NEW e \in ThreadType, th' = [th EXCEPT ![t] = e],
         UNCHANGED <<live, last, py, cacheOf, entered, job, waits, aux, instances>>,
         gil' = gil \/ (gil = None /\ gil' = t),
         bag' \subseteq bag, stack' \in Seq(Streams), auxStream' \in BOOLEAN, AuxKept',
         e.pc \in {"commit", "hold", "exit", "exited"} => gil' = t,
         e.pc \in {"exitSync", "exit", "exited"} => t = Main,
         e.pc \in {"commit", "hold"} => e.on # None /\ e.res \subseteq Resources,
         e.pc # "submit", e.on \in live \cup {None}, e.res \subseteq live,
         th[t].pc \in {"commit", "hold"} => e.pc \in {"commit", "hold"} /\ e.on = th[t].on /\ e.res = th[t].res,
         e.pc = "exited" => aux = << >> /\ bag' = {} /\ job = << >>
  PROVE  IInv'
  <1>1. th' \in [Threads -> ThreadType] /\ th'[t] = e /\ \A u \in Threads : u # t => th'[u] = th[u]
    BY ThreadTyped
  <1>2. TypeOK'
    <2>1. gil' \in Threads \cup {None}
      BY DEF IInv, TypeOK
    <2>2. bag' \subseteq [on: Streams, res: SUBSET Resources, after: {{}}]
      BY DEF IInv, TypeOK
    <2>3. th' \in [Threads -> [pc: {"idle", "submit", "commit", "hold", "sync", "exitSync", "exit", "exited"},
                           on: Streams \cup {None}, res: SUBSET Objects]]
      BY <1>1 DEF ThreadType, PCs
    <2>4. QED  BY <2>1, <2>2, <2>3 DEF IInv, TypeOK
  <1>3. GilHeld'
    <2>1. ASSUME NEW u \in Threads
          PROVE  /\ th'[u].pc \in {"submit", "commit", "hold", "exit", "exited"} => gil' = u
                 /\ th'[u].pc \in {"exitSync", "exit", "exited"} => u = Main
                 /\ th'[u].pc \in {"submit", "commit", "hold"} => th'[u].on # None /\ th'[u].res \subseteq Resources
      <3>1. CASE u = t
        BY <1>1, <3>1
      <3>2. CASE u # t
        BY <1>1, <3>2, ObjectsAssumption DEF IInv, GilHeld
      <3>3. QED  BY <3>1, <3>2
    <2>2. QED  BY <2>1 DEF GilHeld
  <1>4. RefsLive'
    <2>1. \A u \in Threads : th'[u].on \in live \cup {None} /\ th'[u].res \subseteq live
      BY <1>1 DEF IInv, RefsLive
    <2>2. QED  BY <2>1 DEF IInv, RefsLive
  <1>5. UsesPending'
    <2>1. \A u \in Threads : th'[u].pc = "submit" => \A r \in th'[u].res : last[r] = th'[u].on
      BY <1>1 DEF IInv, UsesPending
    <2>2. ASSUME NEW j \in DOMAIN job, NEW r \in job[j].uses
          PROVE  last[r] # None /\ j \in Pending(last[r])'
      <3>1. Pending(last[r])' = Pending(last[r])
        BY DEF Pending
      <3>2. QED  BY <3>1 DEF IInv, UsesPending
    <2>3. QED  BY <2>1, <2>2 DEF UsesPending
  <1>6. UsesOrdered'
    BY DEF IInv, UsesOrdered
  <1>7. CleanupComplete'
    <2>1. th'[Main].pc = "exited" => aux = << >> /\ bag' = {} /\ job = << >>
      BY <1>1, MainAssumption DEF IInv, CleanupComplete
    <2>2. QED  BY <2>1 DEF CleanupComplete
  <1>8. UsedIsHeld'
    <2>1. ASSUME NEW j \in DOMAIN job, HeldBy(job, aux, th, j)
          PROVE  HeldBy(job, aux, th', j)
      BY <2>1, <1>1 DEF HeldBy
    <2>2. \A j \in DOMAIN job' : HeldBy(job', aux', th', j)
      BY <2>1, HeldFacts DEF IInv
    <2>3. QED  BY <1>2, <1>4, <2>2, HeldNext
  <1>9. QED  BY <1>2, <1>3, <1>4, <1>5, <1>6, <1>7, <1>8 DEF IInv

\* An operator that throws goes on to hold its resources.
LEMMA ThrowsStep ==
  ASSUME IInv, NEW t \in Threads, Throws(t)
  PROVE  IInv'
  <1> DEFINE e == [pc |-> "commit", on |-> th[t].on, res |-> th[t].res]
  <1>1. UNCHANGED <<gil, live, last, py, cacheOf, entered, stack, job, waits, aux, auxStream, instances, bag>>
    BY DEF Throws, python, gpu, auxs
  <1>2. gil = t /\ th[t].pc = "submit" /\ th' = [th EXCEPT ![t] = e]
    BY PcAssigned DEF Throws, GoesOn
  <1>3. th[t] \in ThreadType
    BY ThreadTyped
  <1>4. e \in ThreadType /\ e.pc = "commit" /\ e.on = th[t].on /\ e.res = th[t].res
    BY <1>3 DEF ThreadType, PCs
  <1>5. e.on # None /\ e.res \subseteq Resources /\ e.on \in live \cup {None} /\ e.res \subseteq live
    BY <1>2, <1>4 DEF IInv, GilHeld, RefsLive
  <1>6. AuxKept' /\ stack' \in Seq(Streams) /\ auxStream' \in BOOLEAN
    BY <1>1 DEF IInv, AuxKept, TypeOK
  <1> HIDE DEF e
  <1>7. QED  BY <1>1, <1>2, <1>4, <1>5, <1>6, ThreadStep

\* Emptying the bag drops closures that hold no work.
LEMMA CommitStep ==
  ASSUME IInv, NEW t \in Threads, Commit(t)
  PROVE  IInv'
  <1> DEFINE e == [pc |-> "hold", on |-> th[t].on, res |-> th[t].res]
  <1>1. UNCHANGED <<gil, live, last, py, cacheOf, entered, stack, job, waits, aux, auxStream, instances>>
    BY DEF Commit, python, gpu, auxs
  <1>2. gil = t /\ th[t].pc = "commit" /\ th' = [th EXCEPT ![t] = e] /\ bag' = {}
    BY PcAssigned DEF Commit, GoesOn, ClearGCBag
  <1>3. th[t] \in ThreadType
    BY ThreadTyped
  <1>4. e \in ThreadType /\ e.pc = "hold" /\ e.on = th[t].on /\ e.res = th[t].res
    BY <1>3 DEF ThreadType, PCs
  <1>5. e.on # None /\ e.res \subseteq Resources /\ e.on \in live \cup {None} /\ e.res \subseteq live
    BY <1>2, <1>4 DEF IInv, GilHeld, RefsLive
  <1>6. AuxKept' /\ stack' \in Seq(Streams) /\ auxStream' \in BOOLEAN
    BY <1>1 DEF IInv, AuxKept, TypeOK
  <1> HIDE DEF e
  <1>7. QED  BY <1>1, <1>2, <1>4, <1>5, <1>6, ThreadStep

\* A thread that is in no call refers to nothing.
LEMMA IdleTyped ==
  Idle \in ThreadType /\ Idle.pc = "idle" /\ Idle.on = None /\ Idle.res = {}
  BY DEF Idle, ThreadType, PCs

\* A thread that waits refers to its stream, ...
LEMMA SyncCallStep ==
  ASSUME IInv, NEW t \in Threads, SyncCall(t)
  PROVE  IInv'
  <1>1. UNCHANGED <<gil, live, last, py, cacheOf, entered, stack, job, waits, aux, auxStream, instances, bag>>
    BY DEF SyncCall, python, gpu, auxs
  <1>2. PICK s \in py \cap Streams : th' = [th EXCEPT ![t] = [pc |-> "sync", on |-> s, res |-> {}]]
    BY DEF SyncCall
  <1> DEFINE e == [pc |-> "sync", on |-> s, res |-> {}]
  <1>3. th[t].pc = "idle"
    BY IdleTyped DEF SyncCall
  <1>5. e \in ThreadType /\ e.pc = "sync" /\ e.on = s /\ e.res = {}
    BY DEF ThreadType, PCs
  <1>6. e.on \in live
    BY <1>5 DEF IInv, TypeOK
  <1>7. AuxKept' /\ stack' \in Seq(Streams) /\ auxStream' \in BOOLEAN
    BY <1>1 DEF IInv, AuxKept, TypeOK
  <1>8. th' = [th EXCEPT ![t] = e]
    BY <1>2
  <1> HIDE DEF e
  <1>9. QED  BY <1>1, <1>3, <1>5, <1>6, <1>7, <1>8, ThreadStep

\* ... and to nothing when it returns.
LEMMA SyncReturnStep ==
  ASSUME IInv, NEW t \in Threads, SyncReturn(t)
  PROVE  IInv'
  <1>1. UNCHANGED <<live, last, py, cacheOf, entered, stack, job, waits, aux, auxStream, instances, bag>>
    BY DEF SyncReturn, python, gpu, auxs
  <1>2. gil = None /\ gil' = t /\ th[t].pc = "sync" /\ th' = [th EXCEPT ![t] = Idle]
    BY DEF SyncReturn
  <1>3. AuxKept' /\ stack' \in Seq(Streams) /\ auxStream' \in BOOLEAN
    BY <1>1 DEF IInv, AuxKept, TypeOK
  <1>4. QED  BY <1>1, <1>2, <1>3, IdleTyped, ThreadStep

\* What the cleanup waits for lives, ...
LEMMA ExitCallStep ==
  ASSUME IInv, ExitCall
  PROVE  IInv'
  <1> DEFINE R == {s \in Streams : cacheOf[s] = Main}
             e == [pc |-> "exitSync", on |-> Default, res |-> R]
  <1>1. UNCHANGED <<gil, live, last, py, cacheOf, entered, stack, job, waits, aux, auxStream, instances, bag>>
    BY DEF ExitCall, python, gpu, auxs
  <1>2. th[Main].pc = "idle" /\ th' = [th EXCEPT ![Main] = e]
    BY IdleTyped DEF ExitCall
  <1>3. R \subseteq Objects /\ R \subseteq live /\ Default \in live
    BY ObjectsAssumption, MainAssumption DEF IInv, RefsLive, TypeOK, Objects
  <1>4. e \in ThreadType /\ e.pc = "exitSync" /\ e.on \in live /\ e.res \subseteq live
    BY <1>3, ObjectsAssumption DEF ThreadType, PCs
  <1>5. AuxKept' /\ stack' \in Seq(Streams) /\ auxStream' \in BOOLEAN
    BY <1>1 DEF IInv, AuxKept, TypeOK
  <1> HIDE DEF e
  <1>6. QED  BY <1>1, <1>2, <1>4, <1>5, MainAssumption, ThreadStep

\* ... and it refers to less and less of it.
LEMMA ExitSyncStep ==
  ASSUME IInv, ExitSync
  PROVE  IInv'
  <1>1. UNCHANGED <<live, last, py, cacheOf, entered, stack, job, waits, aux, auxStream, instances, bag>>
    BY DEF ExitSync, python, gpu, auxs
  <1>2. gil = None /\ th[Main].pc = "exitSync"
    BY DEF ExitSync
  <1>3. PICK s \in th[Main].res \cup {Default} :
          IF s = Default THEN th' = [th EXCEPT ![Main].pc = "exit"] /\ gil' = Main
                         ELSE th' = [th EXCEPT ![Main].res = @ \ {s}] /\ UNCHANGED gil
    BY DEF ExitSync
  <1>4. th[Main] \in ThreadType /\ th[Main].on \in live \cup {None} /\ th[Main].res \subseteq live
    BY ThreadTyped, MainAssumption DEF IInv, RefsLive
  <1>5. AuxKept' /\ stack' \in Seq(Streams) /\ auxStream' \in BOOLEAN
    BY <1>1 DEF IInv, AuxKept, TypeOK
  <1>6. CASE s = Default
    <2> DEFINE e == [pc |-> "exit", on |-> th[Main].on, res |-> th[Main].res]
    <2>1. th' = [th EXCEPT ![Main] = e] /\ gil' = Main
      BY <1>3, <1>6, PcAssigned, MainAssumption
    <2>2. e \in ThreadType /\ e.pc = "exit" /\ e.on = th[Main].on /\ e.res = th[Main].res
      BY <1>4 DEF ThreadType, PCs
    <2> HIDE DEF e
    <2>3. QED  BY <1>1, <1>2, <1>4, <1>5, <2>1, <2>2, MainAssumption, ThreadStep
  <1>7. CASE s # Default
    <2> DEFINE R == th[Main].res \ {s}
               e == [pc |-> th[Main].pc, on |-> th[Main].on, res |-> R]
    <2>1. th' = [th EXCEPT ![Main].res = R] /\ gil' = gil
      BY <1>3, <1>7
    <2>2. th' = [th EXCEPT ![Main] = e]
      BY <2>1, ResAssigned, MainAssumption
    <2>3. e \in ThreadType /\ e.pc = "exitSync" /\ e.on = th[Main].on /\ e.res \subseteq th[Main].res
      BY <1>2, <1>4 DEF ThreadType, PCs
    <2> HIDE DEF e
    <2>4. QED  BY <1>1, <1>2, <1>4, <1>5, <2>1, <2>2, <2>3, MainAssumption, ThreadStep
  <1>8. QED  BY <1>6, <1>7

\* A set of numbers below a bound has a maximum.
LEMMA GreatestNumber ==
  ASSUME NEW n \in Nat, NEW Z \in SUBSET (0..n), Z # {}
  PROVE  Max(Z) \in Z
  <1> DEFINE Y == {y \in Nat : n - y \in Z}
  <1>1. Y # {}
    <2>1. PICK z \in Z : TRUE
      OBVIOUS
    <2>2. n - z \in Nat /\ n - (n - z) = z
      OBVIOUS
    <2>3. QED  BY <2>1, <2>2
  <1>2. PICK m \in Y : \A k \in Y : ~ (<<k, m>> \in OpToRel(<, Nat))
    BY <1>1, WFMin, NatLessThanWellFounded
  <1>3. \A k \in Y : ~ (k < m)
    BY <1>2 DEF OpToRel
  <1>4. ASSUME NEW z \in Z
        PROVE  n - m >= z
    <2>1. n - z \in Nat /\ n - (n - z) = z
      OBVIOUS
    <2>2. ~ (n - z < m)
      BY <1>3, <2>1
    <2>3. QED  BY <2>2
  <1>5. \E x \in Z : \A y \in Z : x >= y
    BY <1>4
  <1>6. QED  BY <1>5, Zenon DEF Max

\* The stack that the cleanup leaves.
LEMMA EmptiedTyped ==
  ASSUME IInv
  PROVE  Emptied \in Seq(Streams)
  <1> DEFINE Z == {0} \cup {i \in DOMAIN stack : stack[i] \notin live}
             m == Max(Z)
  <1>1. stack \in Seq(Streams)
    BY DEF IInv, TypeOK
  <1>2. Len(stack) \in Nat /\ DOMAIN stack = 1..Len(stack)
    BY <1>1, LenProperties
  <1>3. m \in Z
    <2>1. Z \subseteq 0..Len(stack) /\ Z # {}
      BY <1>2
    <2> HIDE DEF Z
    <2>2. QED  BY <1>2, <2>1, GreatestNumber DEF m
  <1>4. m \in 0..Len(stack)
    BY <1>2, <1>3
  <1>5. Emptied = SubSeq(stack, 1, m)
    BY DEF Emptied
  <1> HIDE DEF m
  <1>6. \A i \in 1..m : stack[i] \in Streams
    BY <1>1, <1>2, <1>4, ElementOfSeq
  <1>7. QED  BY <1>1, <1>2, <1>4, <1>5, <1>6, SubSeqProperties

\* Only work of a call or of a closure is on the GPU.
LEMMA NothingHeld ==
  ASSUME IInv, aux = << >>, \A t \in Threads : th[t].pc \notin {"commit", "hold"}
  PROVE  job = << >>
  <1>1. job \in Seq(JobType)
    BY DEF IInv, TypeOK, JobType
  <1>2. DOMAIN aux = {}
    OBVIOUS
  <1>3. ToSet(aux) = {}
    BY <1>2 DEF ToSet
  <1>4. DOMAIN job = {}
    BY <1>3 DEF IInv, UsedIsHeld
  <1>5. Len(job) \in Nat /\ DOMAIN job = 1..Len(job)
    BY <1>1, LenProperties
  <1>6. Len(job) = 0
    BY <1>4, <1>5
  <1>7. QED  BY <1>1, <1>6, EmptySeq

\* Without closures and calls there is no work: the cleanup is complete.
LEMMA ExitCleanStep ==
  ASSUME IInv, ExitClean
  PROVE  IInv'
  <1> DEFINE e == [pc |-> "exited", on |-> th[Main].on, res |-> th[Main].res]
  <1>1. UNCHANGED <<gil, live, last, py, cacheOf, entered, job, waits, aux, instances>>
    BY DEF ExitClean, gpu
  <1>2. gil = Main /\ th[Main].pc = "exit" /\ th' = [th EXCEPT ![Main] = e] /\ bag' = {}
    BY PcAssigned, MainAssumption DEF ExitClean, GoesOn, ClearGCBag
  <1>3. th[Main] \in ThreadType
    BY ThreadTyped, MainAssumption
  <1>4. e \in ThreadType /\ e.pc = "exited" /\ e.on = th[Main].on /\ e.res = th[Main].res
    BY <1>3 DEF ThreadType, PCs
  <1>5. e.on \in live \cup {None} /\ e.res \subseteq live
    BY <1>4, MainAssumption DEF IInv, RefsLive
  <1>6. stack' \in Seq(Streams)
    BY EmptiedTyped DEF ExitClean
  <1>7. AuxKept' /\ auxStream' \in BOOLEAN
    BY DEF ExitClean, AuxKept
  <1>8. aux = << >>
    BY DEF ExitClean, AuxSynced
  <1>9. \A t \in Threads : th[t].pc \notin {"commit", "hold"}
    BY <1>2, GilFree
  <1>10. job = << >>
    BY <1>8, <1>9, NothingHeld
  <1> HIDE DEF e
  <1>11. QED  BY <1>1, <1>2, <1>4, <1>5, <1>6, <1>7, <1>8, <1>10, MainAssumption, ThreadStep

-----------------------------------------------------------------------------
(* What is in a stream *)

\* All that is in stream s, where J is the GPU's work and W what streams wait for.
Pend(J, W, s) ==
    LET direct == {j \in DOMAIN J : J[j].on = s} \cup W[s]
    IN  direct \cup UNION {J[j].before : j \in direct}

\* Pending and what the invariant says of it, in terms of Pend.
LEMMA PendingPend ==
  /\ \A s : Pending(s) = Pend(job, waits, s)
  /\ UsesPending' <=>
       /\ \A j \in DOMAIN job' : \A r \in job'[j].uses : last'[r] # None /\ j \in Pend(job', waits', last'[r])
       /\ \A t \in Threads : th'[t].pc = "submit" => \A r \in th'[t].res : last'[r] = th'[t].on
  BY DEF UsesPending, Pending, Pend

\* Job k is in stream s itself.
Direct(J, W, s, k) == (k \in DOMAIN J /\ J[k].on = s) \/ k \in W[s]

\* What is in a stream is in it itself or before what is.
LEMMA PendMember ==
  ASSUME NEW J, NEW W, NEW s, NEW x
  PROVE  x \in Pend(J, W, s) <=> Direct(J, W, s, x) \/ \E k : Direct(J, W, s, k) /\ x \in J[k].before
  <1> DEFINE D == {j \in DOMAIN J : J[j].on = s} \cup W[s]
  <1>1. \A k : k \in D <=> Direct(J, W, s, k)
    BY DEF Direct
  <1>2. Pend(J, W, s) = D \cup UNION {J[j].before : j \in D}
    BY DEF Pend
  <1> HIDE DEF D
  <1>3. x \in Pend(J, W, s) <=> x \in D \/ \E k \in D : x \in J[k].before
    BY <1>2
  <1>4. QED  BY <1>1, <1>3

\* The work on the GPU.
LEMMA JobsTyped ==
  ASSUME IInv
  PROVE  /\ job \in Seq(JobType) /\ Len(job) \in Nat /\ DOMAIN job = 1..Len(job)
         /\ \A j \in DOMAIN job : job[j] \in JobType
         /\ DOMAIN job \subseteq Jobs
  <1>1. job \in Seq(JobType) /\ Len(job) <= MaxJobs
    BY DEF IInv, TypeOK, JobType
  <1>2. Len(job) \in Nat /\ DOMAIN job = 1..Len(job)
    BY <1>1, LenProperties
  <1>3. \A j \in DOMAIN job : job[j] \in JobType
    BY <1>1, <1>2, ElementOfSeq
  <1>4. DOMAIN job \subseteq Jobs
    BY <1>1, <1>2, BoundsAssumption DEF Jobs
  <1>5. QED  BY <1>1, <1>2, <1>3, <1>4

\* What is in a stream is not complete.
LEMMA PendingTyped ==
  ASSUME IInv, NEW s \in Streams
  PROVE  Pending(s) \subseteq DOMAIN job
  <1> SUFFICES ASSUME NEW x \in Pend(job, waits, s) PROVE x \in DOMAIN job
    BY PendingPend
  <1>1. \A k : Direct(job, waits, s, k) => k \in DOMAIN job
    BY DEF Direct, IInv, TypeOK
  <1>2. \A k \in DOMAIN job : job[k].before \subseteq DOMAIN job
    BY DEF IInv, TypeOK
  <1>3. QED  BY <1>1, <1>2, PendMember

-----------------------------------------------------------------------------
(* An operator call *)

\* submitSync: the stream waits for all that used the resources, so that this is in the stream from now on.
LEMMA SubmitStep ==
  ASSUME IInv, NEW t \in Threads, Submit(t)
  PROVE  IInv'
  <1>1. UNCHANGED <<live, py, cacheOf, entered, stack, job, aux, auxStream, instances, bag>>
    BY DEF Submit, python, auxs
  <1>2. gil = None /\ gil' = t /\ th[t].pc = "idle"
    BY IdleTyped DEF Submit, Enters
  <1>3. PICK s \in py \cap Streams, R \in SUBSET (py \cap Resources) \ {{}} :
          /\ th' = [th EXCEPT ![t] = [pc |-> "submit", on |-> s, res |-> R]]
          /\ waits' = [waits EXCEPT ![s] = @ \cup UNION {Pending(last[r]): r \in {q \in R: last[q] \notin {None, s}}}]
          /\ SetLastStream(R, s)
    BY DEF Submit
  <1> DEFINE e == [pc |-> "submit", on |-> s, res |-> R]
             N == UNION {Pending(last[r]): r \in {q \in R: last[q] \notin {None, s}}}
  <1>4. R \subseteq Resources /\ R \subseteq live /\ s \in live /\ s # None /\ R \subseteq Objects
    BY ObjectsAssumption DEF IInv, TypeOK, Objects
  <1>5. e \in ThreadType /\ e.pc = "submit" /\ e.on = s /\ e.res = R
    BY <1>4 DEF ThreadType, PCs
  <1>6. th' \in [Threads -> ThreadType] /\ th'[t] = e /\ \A u \in Threads : u # t => th'[u] = th[u]
    BY <1>3, <1>5, ThreadTyped
  <1>7. \A r \in R : last[r] \notin {None, s} => Pending(last[r]) \subseteq N
    OBVIOUS
  <1>8. waits \in [Streams -> SUBSET DOMAIN job] /\ last \in [Resources -> Streams \cup {None}]
    BY DEF IInv, TypeOK
  <1>9. N \subseteq DOMAIN job
    BY <1>4, <1>8, PendingTyped
  <1>10. waits' = [waits EXCEPT ![s] = waits[s] \cup N]
    BY <1>3, <1>8
  <1> HIDE DEF N, e
  <1>11. /\ waits' \in [Streams -> SUBSET DOMAIN job] /\ N \subseteq waits'[s]
         /\ \A q \in Streams : waits[q] \subseteq waits'[q]
    BY <1>8, <1>9, <1>10
  <1>12. /\ last' \in [Resources -> Streams \cup {None}]
         /\ \A r \in R : last'[r] = s
         /\ \A r \in Resources : r \notin R => last'[r] = last[r]
    BY <1>3, <1>4, <1>8 DEF SetLastStream
  <1>13. TypeOK'
    <2>1. th' \in [Threads -> [pc: {"idle", "submit", "commit", "hold", "sync", "exitSync", "exit", "exited"},
                           on: Streams \cup {None}, res: SUBSET Objects]]
      BY <1>6 DEF ThreadType, PCs
    <2>2. QED  BY <1>1, <1>2, <1>11, <1>12, <2>1 DEF IInv, TypeOK
  <1>14. GilHeld'
    <2>1. ASSUME NEW u \in Threads
          PROVE  /\ th'[u].pc \in {"submit", "commit", "hold", "exit", "exited"} => gil' = u
                 /\ th'[u].pc \in {"exitSync", "exit", "exited"} => u = Main
                 /\ th'[u].pc \in {"submit", "commit", "hold"} => th'[u].on # None /\ th'[u].res \subseteq Resources
      <3>1. CASE u = t
        BY <1>2, <1>4, <1>5, <1>6, <3>1
      <3>2. CASE u # t
        BY <1>2, <1>6, <3>2, ObjectsAssumption DEF IInv, GilHeld
      <3>3. QED  BY <3>1, <3>2
    <2>2. QED  BY <2>1 DEF GilHeld
  <1>15. RefsLive'
    <2>1. \A u \in Threads : th'[u].on \in live \cup {None} /\ th'[u].res \subseteq live
      BY <1>4, <1>5, <1>6 DEF IInv, RefsLive
    <2>2. \A r \in live \cap Resources : last'[r] \in live \cup {None}
      BY <1>4, <1>12 DEF IInv, RefsLive
    <2>3. QED  BY <1>1, <2>1, <2>2 DEF IInv, RefsLive
  <1>16. UsesPending'
    <2>1. ASSUME NEW u \in Threads, th'[u].pc = "submit", NEW r \in th'[u].res
          PROVE  last'[r] = th'[u].on
      <3>1. u = t
        BY <1>2, <1>6, <2>1, ObjectsAssumption DEF IInv, GilHeld
      <3>2. QED  BY <1>5, <1>6, <1>12, <3>1
    <2>2. ASSUME NEW j \in DOMAIN job, NEW r \in job[j].uses
          PROVE  last'[r] # None /\ j \in Pend(job, waits', last'[r])
      <3>1. last[r] # None /\ j \in Pend(job, waits, last[r]) /\ r \in Resources /\ last[r] \in Streams
        BY <1>8, PendingPend, JobsTyped DEF IInv, UsesPending, JobType
      <3>2. j \in Pend(job, waits', last[r])
        <4>1. \A k : Direct(job, waits, last[r], k) => Direct(job, waits', last[r], k)
          BY <1>11, <3>1 DEF Direct
        <4>2. QED  BY <3>1, <4>1, PendMember
      <3>3. CASE r \in R /\ last[r] # s
        <4>1. j \in waits'[s]
          BY <1>7, <1>11, <3>1, <3>3, PendingPend
        <4>2. j \in Pend(job, waits', s)
          BY <4>1, PendMember DEF Direct
        <4>3. QED  BY <1>4, <1>12, <3>3, <4>2
      <3>4. CASE r \notin R \/ last[r] = s
        <4>1. last'[r] = last[r]
          BY <1>12, <3>1, <3>4
        <4>2. QED  BY <3>1, <3>2, <4>1
      <3>5. QED  BY <3>3, <3>4
    <2>3. QED  BY <1>1, <2>1, <2>2, PendingPend
  <1>17. UsesOrdered' /\ AuxKept'
    BY <1>1 DEF IInv, UsesOrdered, AuxKept
  <1>18. CleanupComplete'
    <2>1. th'[Main].pc = "exited" => aux = << >> /\ bag = {} /\ job = << >>
      BY <1>5, <1>6, MainAssumption DEF IInv, CleanupComplete
    <2>2. QED  BY <1>1, <2>1 DEF CleanupComplete
  <1>19. UsedIsHeld'
    <2>1. ASSUME NEW j \in DOMAIN job, HeldBy(job, aux, th, j)
          PROVE  HeldBy(job, aux, th', j)
      BY <1>2, <1>6, <2>1 DEF HeldBy
    <2>2. \A j \in DOMAIN job' : HeldBy(job', aux', th', j)
      BY <1>1, <2>1, HeldFacts DEF IInv
    <2>3. QED  BY <1>13, <1>15, <2>2, HeldNext
  <1>20. QED  BY <1>13, <1>14, <1>15, <1>16, <1>17, <1>18, <1>19 DEF IInv

\* A launch comes after all that is in its stream, so after all that uses its resources.
LEMMA LaunchStep ==
  ASSUME IInv, NEW t \in Threads, Launch(t)
  PROVE  IInv'
  <1> DEFINE s == th[t].on
             e == [pc |-> "commit", on |-> th[t].on, res |-> th[t].res]
             w == [on |-> s, uses |-> th[t].res, before |-> Pending(s)]
             n == Len(job) + 1
  <1>1. UNCHANGED <<gil, live, last, py, cacheOf, entered, stack, aux, auxStream, instances, bag>>
    BY DEF Launch, python, auxs
  <1>2. gil = t /\ th[t].pc = "submit" /\ th' = [th EXCEPT ![t] = e] /\ Len(job) < MaxJobs
    BY PcAssigned DEF Launch, GoesOn
  <1>3. job' = Append(job, w) /\ waits' = [waits EXCEPT ![s] = {}]
    BY DEF Launch
  <1>4. th[t] \in ThreadType
    BY ThreadTyped
  <1>5. e \in ThreadType /\ e.pc = "commit" /\ e.on = s /\ e.res = th[t].res
    BY <1>4 DEF ThreadType, PCs
  <1>6. th' \in [Threads -> ThreadType] /\ th'[t] = e /\ \A u \in Threads : u # t => th'[u] = th[u]
    BY <1>2, <1>5, ThreadTyped
  <1>7. s \in Streams /\ s # None /\ th[t].res \subseteq Resources /\ \A r \in th[t].res : last[r] = s
    <2>1. s # None /\ th[t].res \subseteq Resources
      BY <1>2 DEF IInv, GilHeld
    <2>2. s \in Streams \cup {None}
      BY <1>4 DEF ThreadType
    <2>3. \A r \in th[t].res : last[r] = s
      BY <1>2 DEF IInv, UsesPending
    <2>4. QED  BY <2>1, <2>2, <2>3
  <1> HIDE DEF s, e
  <1>8. Pending(s) \subseteq DOMAIN job /\ DOMAIN job \subseteq Jobs
    BY <1>7, PendingTyped, JobsTyped
  <1>9. w \in JobType /\ w.on = s /\ w.uses = th[t].res /\ w.before = Pending(s)
    BY <1>7, <1>8 DEF JobType
  <1> HIDE DEF w
  <1>10. /\ job' \in Seq(JobType) /\ Len(job') = n /\ DOMAIN job' = DOMAIN job \cup {n} /\ n \notin DOMAIN job
         /\ \A j \in DOMAIN job : job'[j] = job[j]
         /\ job'[n] = w
    <2>1. job \in Seq(JobType) /\ Len(job) \in Nat /\ DOMAIN job = 1..Len(job)
      BY JobsTyped
    <2>2. n \notin DOMAIN job
      BY <2>1
    <2>3. QED  BY <1>3, <1>9, <2>1, <2>2, AppendFacts
  <1>11. Len(job') <= MaxJobs
    BY <1>2, <1>10, JobsTyped, BoundsAssumption
  <1> HIDE DEF n
  <1>12. waits \in [Streams -> SUBSET DOMAIN job]
    BY DEF IInv, TypeOK
  <1>13. /\ waits' \in [Streams -> SUBSET DOMAIN job'] /\ waits'[s] = {}
         /\ \A q \in Streams : q # s => waits'[q] = waits[q]
    BY <1>3, <1>7, <1>10, <1>12
  <1>14. TypeOK'
    <2>1. th' \in [Threads -> [pc: {"idle", "submit", "commit", "hold", "sync", "exitSync", "exit", "exited"},
                           on: Streams \cup {None}, res: SUBSET Objects]]
      BY <1>6 DEF ThreadType, PCs
    <2>2. job' \in Seq([on: Streams, uses: SUBSET Resources, before: SUBSET Jobs]) /\ Len(job') <= MaxJobs
      BY <1>10, <1>11 DEF JobType
    <2>3. \A j \in DOMAIN job' : job'[j].before \subseteq DOMAIN job'
      BY <1>8, <1>9, <1>10 DEF IInv, TypeOK
    <2>4. \A i \in DOMAIN aux : aux[i].after \subseteq DOMAIN job'
      BY <1>10 DEF IInv, TypeOK
    <2>5. QED  BY <1>1, <1>13, <2>1, <2>2, <2>3, <2>4 DEF IInv, TypeOK
  <1>15. GilHeld'
    <2>1. ASSUME NEW u \in Threads
          PROVE  /\ th'[u].pc \in {"submit", "commit", "hold", "exit", "exited"} => gil' = u
                 /\ th'[u].pc \in {"exitSync", "exit", "exited"} => u = Main
                 /\ th'[u].pc \in {"submit", "commit", "hold"} => th'[u].on # None /\ th'[u].res \subseteq Resources
      <3>1. CASE u = t
        BY <1>1, <1>2, <1>5, <1>6, <1>7, <3>1
      <3>2. CASE u # t
        BY <1>1, <1>6, <3>2 DEF IInv, GilHeld
      <3>3. QED  BY <3>1, <3>2
    <2>2. QED  BY <2>1 DEF GilHeld
  <1>16. RefsLive'
    <2>1. \A u \in Threads : th'[u].on \in live \cup {None} /\ th'[u].res \subseteq live
      BY <1>5, <1>6 DEF IInv, RefsLive, s
    <2>2. QED  BY <1>1, <2>1 DEF IInv, RefsLive
  <1>17. UsesPending'
    <2>1. ASSUME NEW u \in Threads, th'[u].pc = "submit", NEW r \in th'[u].res
          PROVE  last'[r] = th'[u].on
      BY <1>1, <1>5, <1>6, <2>1 DEF IInv, UsesPending
    <2>2. Direct(job', waits', s, n)
      BY <1>9, <1>10 DEF Direct
    <2>3. ASSUME NEW j \in DOMAIN job, NEW r \in job[j].uses
          PROVE  last[r] # None /\ j \in Pend(job', waits', last[r])
      <3>1. last[r] # None /\ j \in Pend(job, waits, last[r]) /\ r \in Resources /\ last[r] \in Streams
        BY PendingPend, JobsTyped DEF IInv, UsesPending, JobType, TypeOK
      <3>2. CASE last[r] = s
        <4>1. j \in job'[n].before
          BY <1>9, <1>10, <3>1, <3>2, PendingPend
        <4>2. QED  BY <2>2, <3>1, <3>2, <4>1, PendMember
      <3>3. CASE last[r] # s
        <4>1. \A k : Direct(job, waits, last[r], k) => Direct(job', waits', last[r], k) /\ k \in DOMAIN job
          BY <1>10, <1>12, <1>13, <3>1, <3>3 DEF Direct
        <4>2. QED  BY <1>10, <3>1, <4>1, PendMember
      <3>4. QED  BY <3>2, <3>3
    <2>4. \A r \in job'[n].uses : last[r] # None /\ n \in Pend(job', waits', last[r])
      BY <1>7, <1>9, <1>10, <2>2, PendMember
    <2>5. \A j \in DOMAIN job' : \A r \in job'[j].uses : last'[r] # None /\ j \in Pend(job', waits', last'[r])
      BY <1>1, <1>10, <2>3, <2>4
    <2>6. QED  BY <2>1, <2>5, PendingPend
  <1>18. UsesOrdered'
    <2>1. ASSUME NEW i \in DOMAIN job, job[i].uses \cap w.uses # {}
          PROVE  i \in w.before
      <3>1. PICK r \in job[i].uses : r \in w.uses
        BY <2>1
      <3>2. i \in Pending(last[r])
        BY DEF IInv, UsesPending
      <3>3. QED  BY <1>7, <1>9, <3>1, <3>2
    <2>2. ASSUME NEW i \in DOMAIN job', NEW j \in DOMAIN job', i # j, job'[i].uses \cap job'[j].uses # {}
          PROVE  i \in job'[j].before \/ j \in job'[i].before
      <3>1. CASE i \in DOMAIN job /\ j \in DOMAIN job
        BY <1>10, <2>2, <3>1 DEF IInv, UsesOrdered
      <3>2. CASE i = n
        BY <1>10, <2>1, <2>2, <3>2
      <3>3. CASE j = n
        BY <1>10, <2>1, <2>2, <3>3
      <3>4. QED  BY <1>10, <3>1, <3>2, <3>3
    <2>3. QED  BY <2>2 DEF UsesOrdered
  <1>19. AuxKept' /\ CleanupComplete'
    <2>1. th'[Main].pc # "exited"
      <3>1. CASE t = Main
        BY <1>5, <1>6, <3>1
      <3>2. CASE t # Main
        BY <1>2, <1>6, <3>2, MainAssumption DEF IInv, GilHeld
      <3>3. QED  BY <3>1, <3>2
    <2>2. QED  BY <1>1, <2>1 DEF IInv, AuxKept, CleanupComplete
  <1>20. UsedIsHeld'
    <2>1. ASSUME NEW j \in DOMAIN job, HeldBy(job, aux, th, j)
          PROVE  HeldBy(job', aux, th', j)
      BY <1>2, <1>6, <1>10, <2>1 DEF HeldBy
    <2>2. HeldBy(job', aux, th', n)
      BY <1>5, <1>6, <1>9, <1>10 DEF HeldBy
    <2>3. \A j \in DOMAIN job' : HeldBy(job', aux', th', j)
      BY <1>1, <1>10, <2>1, <2>2, HeldFacts DEF IInv
    <2>4. QED  BY <1>14, <1>16, <2>3, HeldNext
  <1>21. QED  BY <1>14, <1>15, <1>16, <1>17, <1>18, <1>19, <1>20 DEF IInv

\* The closure waits for all that is in the stream, so for all that the call held.
LEMMA holdResourcesStep ==
  ASSUME IInv, NEW t \in Threads, holdResources(t)
  PROVE  IInv'
  <1> DEFINE c == [on |-> th[t].on, res |-> th[t].res, after |-> HoldUntil(th[t].on)]
  <1>1. UNCHANGED <<gil, live, last, py, cacheOf, entered, stack, job, waits, instances, bag>>
    BY DEF holdResources, python, gpu
  <1>2. gil = t /\ th[t].pc = "hold" /\ th' = [th EXCEPT ![t] = Idle] /\ aux' = Append(aux, c) /\ auxStream' = TRUE
    BY DEF holdResources, GoesOn
  <1>3. th' \in [Threads -> ThreadType] /\ th'[t] = Idle /\ \A u \in Threads : u # t => th'[u] = th[u]
    BY <1>2, IdleTyped, ThreadTyped
  <1>4. th[t].on \in Streams /\ th[t].res \subseteq Resources /\ th[t].on \in live /\ th[t].res \subseteq live
    <2>1. th[t].on # None /\ th[t].res \subseteq Resources
      BY <1>2 DEF IInv, GilHeld
    <2>2. th[t].on \in Streams \cup {None}
      BY ThreadTyped DEF ThreadType
    <2>3. QED  BY <2>1, <2>2 DEF IInv, RefsLive
  <1>5. Pending(th[t].on) \subseteq DOMAIN job /\ DOMAIN job \subseteq Jobs
    BY <1>4, PendingTyped, JobsTyped
  <1>6. c \in ClosureType /\ c.on = th[t].on /\ c.res = th[t].res /\ c.after = Pending(th[t].on)
    BY <1>4, <1>5 DEF ClosureType, HoldUntil
  <1> HIDE DEF c
  <1>7. aux \in Seq(ClosureType)
    BY DEF IInv, TypeOK, ClosureType
  <1>8. /\ aux' \in Seq(ClosureType) /\ DOMAIN aux' = DOMAIN aux \cup {Len(aux) + 1}
        /\ \A i \in DOMAIN aux : aux'[i] = aux[i]
        /\ aux'[Len(aux) + 1] = c
        /\ ToSet(aux') = ToSet(aux) \cup {c}
    BY <1>2, <1>6, <1>7, AppendFacts
  <1>9. TypeOK'
    <2>1. th' \in [Threads -> [pc: {"idle", "submit", "commit", "hold", "sync", "exitSync", "exit", "exited"},
                           on: Streams \cup {None}, res: SUBSET Objects]]
      BY <1>3 DEF ThreadType, PCs
    <2>2. aux' \in Seq([on: Streams, res: SUBSET Resources, after: SUBSET Jobs])
      BY <1>8 DEF ClosureType
    <2>3. \A i \in DOMAIN aux' : aux'[i].after \subseteq DOMAIN job
      BY <1>5, <1>6, <1>8 DEF IInv, TypeOK
    <2>4. auxStream' \in BOOLEAN
      BY <1>2
    <2>5. QED  BY <1>1, <2>1, <2>2, <2>3, <2>4 DEF IInv, TypeOK
  <1>10. GilHeld'
    <2>1. ASSUME NEW u \in Threads
          PROVE  /\ th'[u].pc \in {"submit", "commit", "hold", "exit", "exited"} => gil' = u
                 /\ th'[u].pc \in {"exitSync", "exit", "exited"} => u = Main
                 /\ th'[u].pc \in {"submit", "commit", "hold"} => th'[u].on # None /\ th'[u].res \subseteq Resources
      <3>1. CASE u = t
        BY <1>3, <3>1, IdleTyped
      <3>2. CASE u # t
        BY <1>1, <1>3, <3>2 DEF IInv, GilHeld
      <3>3. QED  BY <3>1, <3>2
    <2>2. QED  BY <2>1 DEF GilHeld
  <1>11. RefsLive'
    <2>1. \A u \in Threads : th'[u].on \in live \cup {None} /\ th'[u].res \subseteq live
      BY <1>3, IdleTyped DEF IInv, RefsLive
    <2>2. \A d \in ToSet(aux') \cup bag : d.on \in live /\ d.res \subseteq live
      BY <1>4, <1>6, <1>8 DEF IInv, RefsLive
    <2>3. QED  BY <1>1, <2>1, <2>2 DEF IInv, RefsLive
  <1>12. UsesPending'
    <2>1. \A u \in Threads : th'[u].pc = "submit" => \A r \in th'[u].res : last[r] = th'[u].on
      BY <1>3, IdleTyped DEF IInv, UsesPending
    <2>2. \A j \in DOMAIN job : \A r \in job[j].uses : last[r] # None /\ j \in Pend(job, waits, last[r])
      BY PendingPend DEF IInv, UsesPending
    <2>3. QED  BY <1>1, <2>1, <2>2, PendingPend
  <1>13. UsesOrdered'
    BY <1>1 DEF IInv, UsesOrdered
  <1>14. AuxKept' /\ CleanupComplete'
    <2>1. th'[Main].pc # "exited"
      <3>1. CASE t = Main
        BY <1>3, <3>1, IdleTyped
      <3>2. CASE t # Main
        BY <1>2, <1>3, <3>2, MainAssumption DEF IInv, GilHeld
      <3>3. QED  BY <3>1, <3>2
    <2>2. QED  BY <1>2, <2>1 DEF AuxKept, CleanupComplete
  <1>15. UsedIsHeld'
    <2>1. ASSUME NEW j \in DOMAIN job, HeldBy(job, aux, th, j)
          PROVE  HeldBy(job, aux', th', j)
      <3>1. CASE \E d \in ToSet(aux) : j \in d.after /\ d.on = job[j].on /\ job[j].uses \subseteq d.res
        BY <1>8, <3>1 DEF HeldBy
      <3>2. CASE th[t].on = job[j].on /\ job[j].uses \subseteq th[t].res
        <4>1. j \in Pend(job, waits, th[t].on)
          BY <3>2, PendMember DEF Direct
        <4>2. j \in c.after
          BY <1>6, <4>1, PendingPend
        <4>3. QED  BY <1>6, <1>8, <3>2, <4>2 DEF HeldBy
      <3>3. CASE \E u \in Threads \ {t} : th[u].pc \in {"commit", "hold"} /\ th[u].on = job[j].on /\ job[j].uses \subseteq th[u].res
        BY <1>3, <3>3 DEF HeldBy
      <3>4. QED  BY <2>1, <3>1, <3>2, <3>3 DEF HeldBy
    <2>2. \A j \in DOMAIN job' : HeldBy(job', aux', th', j)
      BY <1>1, <2>1, HeldFacts DEF IInv
    <2>3. QED  BY <1>9, <1>11, <2>2, HeldNext
  <1>16. QED  BY <1>9, <1>10, <1>11, <1>12, <1>13, <1>14, <1>15 DEF IInv

-----------------------------------------------------------------------------
(* The GPU and the callbacks *)

\* Old maps what is left one to one to the jobs other than j.
LEMMA OldFacts ==
  ASSUME NEW l \in Nat, NEW j \in 1..l
  PROVE  /\ l - 1 \in Nat
         /\ \A k \in 1..(l - 1) : Old(k, j) \in 1..l /\ Old(k, j) # j
         /\ \A i, k \in 1..(l - 1) : Old(i, j) = Old(k, j) => i = k
         /\ \A m \in 1..l : m # j => \E k \in 1..(l - 1) : Old(k, j) = m
  <1>1. l - 1 \in Nat /\ \A k \in 1..(l - 1) : Old(k, j) \in 1..l /\ Old(k, j) # j
    BY DEF Old
  <1>2. \A i, k \in 1..(l - 1) : Old(i, j) = Old(k, j) => i = k
    BY DEF Old
  <1>3. ASSUME NEW m \in 1..l, m # j
        PROVE  \E k \in 1..(l - 1) : Old(k, j) = m
    <2>1. CASE m < j
      <3>1. m \in 1..(l - 1) /\ Old(m, j) = m
        BY <2>1 DEF Old
      <3>2. QED  BY <3>1
    <2>2. CASE m > j
      <3>1. m - 1 \in 1..(l - 1) /\ Old(m - 1, j) = m
        BY <2>2 DEF Old
      <3>2. QED  BY <3>1
    <2>3. QED  BY <1>3, <2>1, <2>2
  <1>4. QED  BY <1>1, <1>2, <1>3

\* A job whose predecessors are replaced, ...
LEMMA WithBefore ==
  ASSUME NEW w \in JobType, NEW K \in SUBSET Jobs, NEW v, v = [w EXCEPT !.before = K]
  PROVE  v \in JobType /\ v.on = w.on /\ v.uses = w.uses /\ v.before = K
  BY DEF JobType

\* ... and a closure whose work is.
LEMMA WithAfter ==
  ASSUME NEW c \in ClosureType, NEW K \in SUBSET Jobs, NEW d, d = [c EXCEPT !.after = K]
  PROVE  d \in ClosureType /\ d.on = c.on /\ d.res = c.res /\ d.after = K
  BY DEF ClosureType

\* The closures on the auxiliary stream.
LEMMA ClosuresTyped ==
  ASSUME IInv
  PROVE  /\ aux \in Seq(ClosureType) /\ Len(aux) \in Nat /\ DOMAIN aux = 1..Len(aux)
         /\ \A i \in DOMAIN aux : aux[i] \in ClosureType
  <1>1. aux \in Seq(ClosureType)
    BY DEF IInv, TypeOK, ClosureType
  <1>2. Len(aux) \in Nat /\ DOMAIN aux = 1..Len(aux)
    BY <1>1, LenProperties
  <1>3. QED  BY <1>1, <1>2, ElementOfSeq

\* What is left keeps its order: job j was before others, and nothing was before it.
LEMMA CompleteStep ==
  ASSUME IInv, Complete
  PROVE  IInv'
  <1>1. UNCHANGED <<gil, th, live, last, py, cacheOf, entered, stack, auxStream, instances, bag>>
    BY DEF Complete, python
  <1>2. PICK j \in DOMAIN job :
          /\ job[j].before = {}
          /\ job' = [k \in 1..(Len(job) - 1) |-> [job[Old(k, j)] EXCEPT !.before = Without(@, j)]]
          /\ waits' = [s \in Streams |-> Without(waits[s], j)]
          /\ aux' = [i \in DOMAIN aux |-> [aux[i] EXCEPT !.after = Without(@, j)]]
    BY DEF Complete
  <1> DEFINE n == Len(job) - 1
  <1>3. /\ Len(job) \in Nat /\ DOMAIN job = 1..Len(job) /\ DOMAIN job \subseteq Jobs
        /\ \A k \in DOMAIN job : job[k] \in JobType
    BY JobsTyped
  <1>4. /\ n \in Nat
        /\ \A k \in 1..n : Old(k, j) \in DOMAIN job /\ Old(k, j) # j
        /\ \A i, k \in 1..n : Old(i, j) = Old(k, j) => i = k
        /\ \A m \in DOMAIN job : m # j => \E k \in 1..n : Old(k, j) = m
    BY <1>3, OldFacts
  <1>5. 1..n \subseteq Jobs /\ n <= MaxJobs
    <2>1. Len(job) <= MaxJobs
      BY DEF IInv, TypeOK
    <2>2. QED  BY <1>3, <2>1, BoundsAssumption DEF Jobs
  <1>6. \A K, k : k \in Without(K, j) <=> k \in 1..n /\ Old(k, j) \in K
    BY DEF Without
  <1>7. \A K : Without(K, j) \subseteq 1..n
    BY <1>6
  <1>8. /\ DOMAIN job' = 1..n
        /\ \A k \in 1..n : job'[k] = [job[Old(k, j)] EXCEPT !.before = Without(job[Old(k, j)].before, j)]
    BY <1>2
  <1>9. /\ DOMAIN aux' = DOMAIN aux
        /\ \A i \in DOMAIN aux : aux'[i] = [aux[i] EXCEPT !.after = Without(aux[i].after, j)]
    BY <1>2
  <1> HIDE DEF n
  <1>10. ASSUME NEW k \in 1..n
         PROVE  /\ job'[k] \in JobType /\ job'[k].on = job[Old(k, j)].on /\ job'[k].uses = job[Old(k, j)].uses
                /\ job'[k].before = Without(job[Old(k, j)].before, j)
    <2> DEFINE w == job[Old(k, j)]
               K == Without(w.before, j)
               v == job'[k]
    <2>1. w \in JobType /\ K \in SUBSET Jobs /\ v = [w EXCEPT !.before = K]
      BY <1>3, <1>4, <1>5, <1>7, <1>8
    <2> HIDE DEF w, K, v
    <2>2. v \in JobType /\ v.on = w.on /\ v.uses = w.uses /\ v.before = K
      BY <2>1, WithBefore
    <2>3. QED  BY <2>2 DEF v, w, K
  <1>11. ASSUME NEW i \in DOMAIN aux
         PROVE  /\ aux'[i] \in ClosureType /\ aux'[i].on = aux[i].on /\ aux'[i].res = aux[i].res
                /\ aux'[i].after = Without(aux[i].after, j)
    <2> DEFINE c == aux[i]
               K == Without(c.after, j)
               d == aux'[i]
    <2>1. c \in ClosureType /\ K \in SUBSET Jobs /\ d = [c EXCEPT !.after = K]
      BY <1>5, <1>7, <1>9, ClosuresTyped
    <2> HIDE DEF c, K, d
    <2>2. d \in ClosureType /\ d.on = c.on /\ d.res = c.res /\ d.after = K
      BY <2>1, WithAfter
    <2>3. QED  BY <2>2 DEF c, d, K
  <1>12. job' \in Seq(JobType) /\ Len(job') = n
    <2>1. job' \in [1..n -> JobType]
      BY <1>2, <1>10 DEF n
    <2>2. job' \in Seq(JobType)
      BY <1>4, <2>1, SeqDef
    <2>3. QED  BY <1>4, <1>8, <2>1, <2>2, LenProperties
  <1>13. aux' \in Seq(ClosureType) /\ Len(aux') = Len(aux)
    <2>1. aux' \in [1..Len(aux) -> ClosureType]
      BY <1>2, <1>11, ClosuresTyped
    <2>2. aux' \in Seq(ClosureType)
      BY <2>1, SeqDef, ClosuresTyped
    <2>3. QED  BY <1>9, <2>2, LenProperties, ClosuresTyped
  <1>14. waits \in [Streams -> SUBSET DOMAIN job] /\ \A s \in Streams : waits'[s] = Without(waits[s], j)
    BY <1>2 DEF IInv, TypeOK
  <1>15. TypeOK'
    <2>1. job' \in Seq([on: Streams, uses: SUBSET Resources, before: SUBSET Jobs]) /\ Len(job') <= MaxJobs
      BY <1>5, <1>12 DEF JobType
    <2>2. \A k \in DOMAIN job' : job'[k].before \subseteq DOMAIN job'
      BY <1>7, <1>8, <1>10
    <2>3. waits' \in [Streams -> SUBSET DOMAIN job']
      BY <1>2, <1>7, <1>8
    <2>4. aux' \in Seq([on: Streams, res: SUBSET Resources, after: SUBSET Jobs])
      BY <1>13 DEF ClosureType
    <2>5. \A i \in DOMAIN aux' : aux'[i].after \subseteq DOMAIN job'
      BY <1>7, <1>8, <1>9, <1>11
    <2>6. QED  BY <1>1, <2>1, <2>2, <2>3, <2>4, <2>5 DEF IInv, TypeOK
  <1>16. GilHeld'
    BY <1>1 DEF IInv, GilHeld
  <1>17. RefsLive'
    <2>1. \A c \in ToSet(aux) : c.on \in live /\ c.res \subseteq live
      BY DEF IInv, RefsLive
    <2>2. \A i \in DOMAIN aux : aux[i].on \in live /\ aux[i].res \subseteq live
      BY <2>1 DEF ToSet
    <2>3. \A c \in ToSet(aux') : c.on \in live /\ c.res \subseteq live
      BY <1>9, <1>11, <2>2 DEF ToSet
    <2>4. QED  BY <1>1, <2>3 DEF IInv, RefsLive
  <1>18. UsesPending'
    <2>1. \A t \in Threads : th[t].pc = "submit" => \A r \in th[t].res : last[r] = th[t].on
      BY DEF IInv, UsesPending
    <2>2. ASSUME NEW k \in 1..n, NEW r \in job'[k].uses
          PROVE  last[r] # None /\ k \in Pend(job', waits', last[r])
      <3> DEFINE m == Old(k, j)
                 s == last[r]
      <3>1. m \in DOMAIN job /\ r \in job[m].uses
        BY <1>4, <1>10
      <3>2. s # None /\ m \in Pend(job, waits, s) /\ s \in Streams
        BY <1>3, <3>1, PendingPend DEF IInv, UsesPending, JobType, TypeOK
      <3>3. ASSUME NEW d, Direct(job, waits, s, d)
            PROVE  d \in DOMAIN job /\ \A h \in 1..n : Old(h, j) = d => Direct(job', waits', s, h)
        <4>1. d \in DOMAIN job
          BY <1>14, <3>2, <3>3 DEF Direct
        <4>2. ASSUME NEW h \in 1..n, Old(h, j) = d
              PROVE  Direct(job', waits', s, h)
          BY <1>6, <1>8, <1>10, <1>14, <3>2, <3>3, <4>2 DEF Direct
        <4>3. QED  BY <4>1, <4>2
      <3> HIDE DEF s
      <3>4. CASE Direct(job, waits, s, m)
        BY <3>3, <3>4, <3>2, PendMember DEF s
      <3>5. CASE \E d : Direct(job, waits, s, d) /\ m \in job[d].before
        <4>1. PICK d : Direct(job, waits, s, d) /\ m \in job[d].before
          BY <3>5
        <4>2. d \in DOMAIN job /\ d # j
          BY <1>2, <3>3, <4>1
        <4>3. PICK h \in 1..n : Old(h, j) = d
          BY <1>4, <4>2
        <4>4. Direct(job', waits', s, h) /\ k \in job'[h].before
          BY <1>6, <1>10, <3>3, <4>1, <4>3
        <4>5. QED  BY <3>2, <4>4, PendMember DEF s
      <3>6. QED  BY <3>2, <3>4, <3>5, PendMember
    <2>3. \A k \in DOMAIN job' : \A r \in job'[k].uses : last'[r] # None /\ k \in Pend(job', waits', last'[r])
      BY <1>1, <1>8, <2>2
    <2>4. QED  BY <1>1, <2>1, <2>3, PendingPend
  <1>19. UsesOrdered'
    <2>1. ASSUME NEW i \in 1..n, NEW k \in 1..n, i # k, job'[i].uses \cap job'[k].uses # {}
          PROVE  i \in job'[k].before \/ k \in job'[i].before
      <3>1. /\ Old(i, j) \in DOMAIN job /\ Old(k, j) \in DOMAIN job /\ Old(i, j) # Old(k, j)
            /\ job[Old(i, j)].uses \cap job[Old(k, j)].uses # {}
        BY <1>4, <1>10, <2>1
      <3>2. Old(i, j) \in job[Old(k, j)].before \/ Old(k, j) \in job[Old(i, j)].before
        BY <3>1 DEF IInv, UsesOrdered
      <3>3. QED  BY <1>6, <1>10, <3>2
    <2>2. QED  BY <1>8, <2>1 DEF UsesOrdered
  <1>20. AuxKept'
    <2>1. aux' # << >> => aux # << >>
      BY <1>13, EmptySeq, ClosuresTyped
    <2>2. QED  BY <1>1, <2>1 DEF IInv, AuxKept
  <1>21. CleanupComplete'
    <2>1. job # << >>
      BY <1>2
    <2>2. QED  BY <1>1, <2>1 DEF IInv, CleanupComplete
  <1>22. UsedIsHeld'
    <2>1. ASSUME NEW k \in 1..n, HeldBy(job, aux, th, Old(k, j))
          PROVE  HeldBy(job', aux', th, k)
      <3> DEFINE m == Old(k, j)
      <3>1. CASE \E c \in ToSet(aux) : m \in c.after /\ c.on = job[m].on /\ job[m].uses \subseteq c.res
        <4>1. PICK i \in DOMAIN aux : m \in aux[i].after /\ aux[i].on = job[m].on /\ job[m].uses \subseteq aux[i].res
          BY <3>1 DEF ToSet
        <4>2. k \in aux'[i].after /\ aux'[i].on = job'[k].on /\ job'[k].uses \subseteq aux'[i].res
          BY <1>6, <1>10, <1>11, <4>1
        <4>3. aux'[i] \in ToSet(aux')
          BY <1>9 DEF ToSet
        <4>4. QED  BY <4>2, <4>3 DEF HeldBy
      <3>2. CASE \E t \in Threads : th[t].pc \in {"commit", "hold"} /\ th[t].on = job[m].on /\ job[m].uses \subseteq th[t].res
        BY <1>10, <3>2 DEF HeldBy
      <3>3. QED  BY <2>1, <3>1, <3>2 DEF HeldBy
    <2>2. \A k \in DOMAIN job' : HeldBy(job', aux', th', k)
      BY <1>1, <1>4, <1>8, <2>1, HeldFacts DEF IInv
    <2>3. QED  BY <1>15, <1>17, <2>2, HeldNext
  <1>23. QED  BY <1>15, <1>16, <1>17, <1>18, <1>19, <1>20, <1>21, <1>22 DEF IInv

\* A closure leaves the auxiliary stream when no work is left that it holds.
LEMMA CallbackStep ==
  ASSUME IInv, Callback
  PROVE  IInv'
  <1>1. UNCHANGED <<gil, th, live, last, py, cacheOf, entered, stack, job, waits, auxStream, instances>>
    BY DEF Callback, python, gpu
  <1>2. aux # << >> /\ Head(aux).after = {} /\ bag' = bag \cup {Head(aux)} /\ aux' = Tail(aux)
    BY DEF Callback
  <1>3. /\ aux \in Seq(ClosureType) /\ Len(aux) \in Nat /\ DOMAIN aux = 1..Len(aux)
        /\ \A i \in DOMAIN aux : aux[i] \in ClosureType
    BY ClosuresTyped
  <1>4. Len(aux) # 0
    BY <1>2, <1>3, EmptySeq
  <1>5. /\ aux' \in Seq(ClosureType) /\ Len(aux') = Len(aux) - 1 /\ Head(aux) = aux[1] /\ 1 \in DOMAIN aux
        /\ \A i \in 1..Len(aux') : aux'[i] = aux[i + 1]
    BY <1>2, <1>3, <1>4, HeadTailProperties
  <1>6. DOMAIN aux' = 1..Len(aux')
    BY <1>5, LenProperties
  <1>7. \A i \in DOMAIN aux' : i + 1 \in DOMAIN aux /\ aux'[i] = aux[i + 1]
    BY <1>3, <1>4, <1>5, <1>6
  <1>8. \A i \in DOMAIN aux : i # 1 => i - 1 \in DOMAIN aux' /\ aux'[i - 1] = aux[i]
    BY <1>3, <1>4, <1>5, <1>6
  <1>9. Head(aux) \in [on: Streams, res: SUBSET Resources, after: {{}}]
    <2>1. Head(aux) \in ClosureType
      BY <1>3, <1>5
    <2>2. QED  BY <1>2, <2>1 DEF ClosureType
  <1>10. Head(aux) \in ToSet(aux) /\ ToSet(aux') \subseteq ToSet(aux)
    BY <1>5, <1>7 DEF ToSet
  <1>11. TypeOK'
    <2>1. aux' \in Seq([on: Streams, res: SUBSET Resources, after: SUBSET Jobs])
      BY <1>5 DEF ClosureType
    <2>2. \A i \in DOMAIN aux' : aux'[i].after \subseteq DOMAIN job
      BY <1>7 DEF IInv, TypeOK
    <2>3. bag' \subseteq [on: Streams, res: SUBSET Resources, after: {{}}]
      BY <1>2, <1>9 DEF IInv, TypeOK
    <2>4. QED  BY <1>1, <2>1, <2>2, <2>3 DEF IInv, TypeOK
  <1>12. GilHeld'
    BY <1>1 DEF IInv, GilHeld
  <1>13. RefsLive'
    BY <1>1, <1>2, <1>10 DEF IInv, RefsLive
  <1>14. UsesPending'
    <2>1. \A t \in Threads : th[t].pc = "submit" => \A r \in th[t].res : last[r] = th[t].on
      BY DEF IInv, UsesPending
    <2>2. \A j \in DOMAIN job : \A r \in job[j].uses : last[r] # None /\ j \in Pend(job, waits, last[r])
      BY PendingPend DEF IInv, UsesPending
    <2>3. QED  BY <1>1, <2>1, <2>2, PendingPend
  <1>15. UsesOrdered' /\ AuxKept' /\ CleanupComplete'
    BY <1>1, <1>2 DEF IInv, UsesOrdered, AuxKept, CleanupComplete
  <1>16. UsedIsHeld'
    <2>1. ASSUME NEW j \in DOMAIN job, HeldBy(job, aux, th, j)
          PROVE  HeldBy(job, aux', th, j)
      <3>1. ASSUME NEW c \in ToSet(aux), j \in c.after
            PROVE  c \in ToSet(aux')
        <4>1. PICK i \in DOMAIN aux : c = aux[i]
          BY DEF ToSet
        <4>2. i # 1
          BY <1>2, <1>5, <3>1, <4>1
        <4>3. QED  BY <1>8, <4>1, <4>2 DEF ToSet
      <3>2. QED  BY <2>1, <3>1 DEF HeldBy
    <2>2. \A j \in DOMAIN job' : HeldBy(job', aux', th', j)
      BY <1>1, <2>1, HeldFacts DEF IInv
    <2>3. QED  BY <1>11, <1>13, <2>2, HeldNext
  <1>17. QED  BY <1>11, <1>12, <1>13, <1>14, <1>15, <1>16 DEF IInv

-----------------------------------------------------------------------------
(* The theorems *)

\* At the start nothing is in use.
LEMMA InitInv ==
  ASSUME Init
  PROVE  IInv
  <1> USE DEF Init
  <1>1. DOMAIN job = {} /\ DOMAIN aux = {} /\ ToSet(aux) = {}
    BY DEF ToSet
  <1>2. th \in [Threads -> ThreadType] /\ \A t \in Threads : th[t] = Idle
    BY IdleTyped
  <1>3. entered \in [Threads -> Seq(Streams)] /\ \A t \in Threads : ToSet(entered[t]) = {}
    BY DEF ToSet
  <1>4. stack \in Seq(Streams)
    BY ObjectsAssumption
  <1>5. TypeOK
    <2>1. th \in [Threads -> [pc: {"idle", "submit", "commit", "hold", "sync", "exitSync", "exit", "exited"},
                          on: Streams \cup {None}, res: SUBSET Objects]]
      BY <1>2 DEF ThreadType, PCs
    <2>2. job \in Seq([on: Streams, uses: SUBSET Resources, before: SUBSET Jobs]) /\ Len(job) <= MaxJobs
      BY BoundsAssumption
    <2>3. aux \in Seq([on: Streams, res: SUBSET Resources, after: SUBSET Jobs])
      OBVIOUS
    <2>4. waits \in [Streams -> SUBSET DOMAIN job]
      OBVIOUS
    <2>5. live \subseteq Objects /\ py \subseteq live
      BY ObjectsAssumption DEF Objects
    <2>6. bag \subseteq [on: Streams, res: SUBSET Resources, after: {{}}]
      OBVIOUS
    <2>7. gil \in Threads \cup {None} /\ auxStream \in BOOLEAN /\ instances \in Int
      OBVIOUS
    <2>8. cacheOf \in [Objects -> Threads \cup {None}] /\ last \in [Resources -> Streams \cup {None}]
      OBVIOUS
    <2>9. QED  BY <1>1, <1>3, <1>4, <2>1, <2>2, <2>3, <2>4, <2>5, <2>6, <2>7, <2>8 DEF TypeOK
  <1>6. GilHeld
    BY <1>2, IdleTyped DEF GilHeld
  <1>7. RefsLive
    BY <1>1, <1>2, <1>3, IdleTyped DEF RefsLive
  <1>8. UsesPending
    BY <1>1, <1>2, IdleTyped DEF UsesPending
  <1>9. UsesOrdered /\ UsedIsHeld /\ AuxKept
    BY <1>1 DEF UsesOrdered, UsedIsHeld, AuxKept
  <1>10. CleanupComplete
    BY <1>2, IdleTyped, MainAssumption DEF CleanupComplete
  <1>11. QED  BY <1>5, <1>6, <1>7, <1>8, <1>9, <1>10 DEF IInv

\* Steps that change nothing.
LEMMA StutterStep ==
  ASSUME IInv, UNCHANGED vars
  PROVE  IInv'
  <1>1. UNCHANGED <<gil, th, live, last, py, cacheOf, entered, stack, job, waits, aux, auxStream, instances, bag>>
    BY DEF vars, python, gpu, auxs
  <1>2. RefsLive' /\ AuxKept'
    BY <1>1 DEF IInv, RefsLive, AuxKept
  <1>3. QED  BY <1>1, <1>2, QuietStep DEF IInv, TypeOK

\* Every step keeps the invariant.
LEMMA NextInv ==
  ASSUME IInv, [Next]_vars
  PROVE  IInv'
  <1>1. ASSUME NEW t \in Threads, Thread(t)
        PROVE  IInv'
    <2>1. CASE Create(t)
      BY <2>1, ReuseStep, NewResourceStep, NewStreamStep, NewStreamFailsStep DEF Create
    <2>2. CASE Drop(t) \/ ClearCache(t) \/ Release(t)
      BY <2>2, DropStep, ClearCacheStep, ReleaseStep
    <2>3. CASE Operator(t)
      BY <2>3, SubmitStep, LaunchStep, ThrowsStep, CommitStep, holdResourcesStep DEF Operator
    <2>4. CASE Destroy(t)
      BY <2>4, DestroyResourceStep, DestroyStreamStep DEF Destroy
    <2>5. CASE SyncCall(t) \/ SyncReturn(t) \/ activate(t) \/ deactivate(t)
      BY <2>5, SyncCallStep, SyncReturnStep, activateStep, deactivateStep
    <2>6. QED  BY <1>1, <2>1, <2>2, <2>3, <2>4, <2>5 DEF Thread
  <1>2. CASE Exit
    BY <1>2, ExitCallStep, ExitSyncStep, ExitCleanStep DEF Exit
  <1>3. CASE Complete
    BY <1>3, CompleteStep
  <1>4. CASE Callback
    BY <1>4, CallbackStep
  <1>5. CASE UNCHANGED vars
    BY <1>5, StutterStep
  <1>6. QED  BY <1>1, <1>2, <1>3, <1>4, <1>5 DEF Next

\* The inductive invariant holds.
LEMMA InvAlways ==
  Spec => []IInv
  <1>1. Init => IInv
    BY InitInv
  <1>2. IInv /\ [Next]_vars => IInv'
    BY NextInv
  <1>3. QED  BY <1>1, <1>2, PTL DEF Spec

\* Type correctness: what Python refers to lives, and streams and closures wait
\* only for work that is not complete, after every reuse, failure and callback.
THEOREM StreamTyping ==
  Spec => []TypeOK
  <1>1. IInv => TypeOK
    BY DEF IInv
  <1>2. QED  BY <1>1, InvAlways, PTL

\* submitSync orders the work on a resource: whatever streams, in whatever order,
\* use it, no two pieces of work that use it overlap.
THEOREM WorkOnResourceIsOrdered ==
  Spec => []UsesOrdered
  <1>1. IInv => UsesOrdered
    BY DEF IInv
  <1>2. QED  BY <1>1, InvAlways, PTL

\* holdResources keeps what the GPU uses: as long as work is not complete, the
\* call that launched it or a closure behind it refers to its resources and its
\* stream, and they live.
THEOREM WorkIsHeld ==
  Spec => []UsedIsHeld
  <1>1. IInv => UsedIsHeld
    BY DEF IInv
  <1>2. QED  BY <1>1, InvAlways, PTL

\* The auxiliary stream exists while it has closures, although a constructor that
\* fails takes a stream off the count that it may not have counted.
THEOREM AuxStreamOutlivesClosures ==
  Spec => []AuxKept
  <1>1. IInv => AuxKept
    BY DEF IInv
  <1>2. QED  BY <1>1, InvAlways, PTL

\* When the cleanup at exit is over, no work, closure or garbage is left, on the
\* streams it did not synchronise either.
THEOREM CleanupLeavesNothing ==
  Spec => []CleanupComplete
  <1>1. IInv => CleanupComplete
    BY DEF IInv
  <1>2. QED  BY <1>1, InvAlways, PTL

\* What Cache::fetch hands out again is not used by work on the GPU.
THEOREM ReusedIsIdle ==
  Spec => ReusedIdle
  <1> DEFINE A == \A r \in Resources: r \in live /\ r \notin py /\ r \in py' =>
                      \A j \in DOMAIN job: r \notin job[j].uses
  <1>1. ASSUME IInv, Next
        PROVE  A
    <2> SUFFICES ASSUME NEW r \in Resources, r \in live, r \notin py, r \in py',
                        NEW j \in DOMAIN job, r \in job[j].uses
                 PROVE  FALSE
      OBVIOUS
    <2>1. r \in InUse
      <3>1. UsedIsHeld
        BY <1>1 DEF IInv
      <3>2. r \in job[j].uses \cup {job[j].on}
        OBVIOUS
      <3>3. QED  BY <3>1, <3>2, UsedInUse
    <2>2. ASSUME NEW t \in Threads, Reuse(t)
          PROVE  FALSE
      BY <2>1, <2>2 DEF Reuse, Unused
    <2>3. ASSUME NEW t \in Threads, NewResource(t) \/ NewStream(t)
          PROVE  FALSE
      BY <2>3 DEF NewResource, NewStream
    <2>4. ASSUME NEW t \in Threads, Drop(t)
          PROVE  FALSE
      BY <2>4 DEF Drop
    <2>5. py' # py
      OBVIOUS
    <2>6. ASSUME NEW t \in Threads, Thread(t)
          PROVE  FALSE
      <3>1. CASE NewStreamFails(t) \/ ClearCache(t) \/ Release(t) \/ activate(t) \/ deactivate(t) \/ SyncCall(t) \/ SyncReturn(t)
        BY <2>5, <3>1 DEF NewStreamFails, ClearCache, Release, activate, deactivate, SyncCall, SyncReturn, python
      <3>2. CASE Operator(t) \/ Destroy(t)
        BY <2>5, <3>2 DEF Operator, Submit, Launch, Throws, Commit, holdResources, Destroy, DestroyResource, DestroyStream, python
      <3>3. QED  BY <2>2, <2>3, <2>4, <2>6, <3>1, <3>2 DEF Thread, Create
    <2>7. CASE Complete \/ Callback \/ Exit
      BY <2>5, <2>7 DEF Complete, Callback, Exit, ExitCall, ExitSync, ExitClean, python
    <2>8. QED  BY <1>1, <2>6, <2>7 DEF Next
  <1>2. IInv /\ [Next]_vars => [A]_vars
    BY <1>1
  <1>3. Spec => [][A]_vars
    BY <1>2, InvAlways, PTL DEF Spec
  <1>4. QED  BY <1>3 DEF ReusedIdle
=============================================================================
