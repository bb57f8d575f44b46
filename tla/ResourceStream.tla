--------------------------- MODULE ResourceStream ---------------------------
(***************************************************************************)
(* The Python side of streams and resources (python/mod_cvcuda/nvcv/       *)
(* Stream.cpp, Resource.cpp, StreamStack.cpp, nvcv/python/ResourceGuard):  *)
(* an operator orders its stream behind the last use of each resource,     *)
(* runs, and has the stream hold the resources: a closure with references  *)
(* to them is queued on the auxiliary stream behind the operator's work,   *)
(* and a callback there moves the closure to the bag that the next         *)
(* operator empties.                                                       *)
(*                                                                         *)
(* Python code runs under the GIL, which only Stream::sync releases inside *)
(* a call.  The thread that drops the last reference to an object destroys *)
(* it before it goes on: Garbage is what it still has to destroy.          *)
(***************************************************************************)
EXTENDS Integers, SequencesExt

CONSTANTS
    Threads,      \* Python threads
    Main,         \* the one that runs the cleanup at exit
    WithThreads,  \* the threads that enter with blocks
    Streams,      \* Stream objects
    Owned,        \* those whose CUDA stream they own; the others wrap one
    Default,      \* the stream the module holds
    Resources,    \* images, tensors, arrays and batches
    None,         \* no thread, no stream
    MaxJobs,      \* bound on the jobs on the GPU
    MaxClosures,  \* bound on the closures on the auxiliary stream
    MaxNested,    \* bound on the with blocks in each other
    MaxUncounted  \* bound on how far the count of streams is too low, as constructors failed

Objects == Streams \cup Resources
Jobs == 1..MaxJobs

ASSUME ObjectsAssumption ==
    /\ IsFiniteSet(Objects) /\ None \notin Objects \cup Threads
    /\ Streams \cap Resources = {}
    /\ Owned \subseteq Streams /\ Default \in Streams \ Owned
ASSUME MainAssumption == Main \in Threads /\ WithThreads \subseteq Threads
ASSUME BoundsAssumption == MaxJobs \in Nat /\ MaxClosures \in Nat
                         /\ MaxNested \in Nat /\ MaxUncounted \in Nat

VARIABLES
    gil,        \* the thread that holds it
    th,         \* the call of each thread: [pc, on, res]
    live,       \* objects that are constructed and not destroyed
    py,         \* objects that Python variables refer to
    cacheOf,    \* the thread whose Cache holds an object
    last,       \* Resource::m_lastStream
    job,        \* the GPU's work, as launched: [on, uses, before], where before is closed
    waits,      \* what a stream was made to wait for, behind its last job
    aux,        \* closures on the auxiliary stream: [on, res, after]
    auxStream,  \* m_auxStream exists
    instances,  \* m_instanceCount
    bag,        \* the closures in the GC bag
    stack,      \* StreamStack, the top is the last
    entered     \* the streams of a thread's with blocks

python == <<py, cacheOf, entered, stack>>
gpu == <<job, waits>>
auxs == <<aux, auxStream, instances>>
vars == <<gil, th, live, last, python, gpu, auxs, bag>>

Idle == [pc |-> "idle", on |-> None, res |-> {}]

Init ==
    /\ gil = None
    /\ th = [t \in Threads |-> Idle]
    /\ live = {Default} /\ py = {Default}
    /\ cacheOf = [o \in Objects |-> None]
    /\ last = [r \in Resources |-> None]
    /\ job = << >>
    /\ waits = [s \in Streams |-> {}]
    /\ aux = << >> /\ auxStream = TRUE /\ instances = 1
    /\ bag = {}
    /\ stack = <<Default>>
    /\ entered = [t \in Threads |-> << >>]

-----------------------------------------------------------------------------
\* Objects that something else than a Cache refers to, as isInUse counts.
InUse ==
    py \cup (UNION {{th[t].on} \cup th[t].res: t \in Threads})
       \cup (UNION {{c.on} \cup c.res: c \in ToSet(aux) \cup bag})
       \cup {last[r]: r \in live \cap Resources}
       \cup (UNION {ToSet(entered[t]): t \in Threads})

Garbage == {o \in live: cacheOf[o] = None} \ InUse

\* Thread t starts a call: it takes the GIL.
Enters(t) == gil = None /\ th[t] = Idle /\ gil' = t
\* A call goes on: what was dropped before is destroyed.
GoesOn(t, pc) == gil = t /\ th[t].pc = pc /\ Garbage = {}

Release(t) ==
    /\ GoesOn(t, "idle")
    /\ gil' = None
    /\ UNCHANGED <<th, live, last, python, gpu, auxs, bag>>

-----------------------------------------------------------------------------
(***************************************************************************)
(* Python code makes and drops objects.                                    *)
(***************************************************************************)
\* Mutant: isInUse does not count what the closures hold.
UnusedByPython(t) == {o \in live: cacheOf[o] = t /\ o \notin py}

\* What Cache::fetch finds for a thread.
Unused(t) == {o \in live: cacheOf[o] = t} \ InUse

\* Create: an object of the cache that is not in use, ...
Reuse(t) ==
    /\ Enters(t)
    /\ \E o \in Unused(t): py' = py \cup {o}
    /\ UNCHANGED <<th, live, last, cacheOf, entered, stack, gpu, auxs, bag>>

\* ... or a new one, which is added to the cache unless it is over the limit.
NewResource(t) ==
    /\ Enters(t)
    /\ Unused(t) \cap Resources = {}
    /\ \E r \in Resources \ live, c \in {t, None}:
        /\ live' = live \cup {r} /\ py' = py \cup {r}
        /\ cacheOf' = [cacheOf EXCEPT ![r] = c]
        /\ last' = [last EXCEPT ![r] = None]
    /\ UNCHANGED <<th, entered, stack, gpu, auxs, bag>>

\* Stream::Create, or as_stream of a stream that is not owned nor cached.
NewStream(t) ==
    /\ Enters(t)
    /\ \E s \in Streams \ live:
        /\ s \in Owned => Unused(t) \cap Owned = {}
        /\ live' = live \cup {s} /\ py' = py \cup {s}
        /\ cacheOf' = [cacheOf EXCEPT ![s] = IF s \in Owned THEN t ELSE None]
    /\ instances' = instances + 1
    /\ auxStream' = TRUE
    /\ UNCHANGED <<th, last, entered, stack, gpu, aux, bag>>

\* Mutant: the auxiliary stream is not waited for.
AuxUnsynced == TRUE

\* cudaStreamSynchronize of the auxiliary stream returns.
AuxSynced == aux = << >>

\* The constructor fails, and calls destroy, which takes the stream off the
\* count if there is an auxiliary stream, whether the stream was counted or not;
\* once it is counted, the constructor makes the auxiliary stream, or fails to.
NewStreamFails(t) ==
    /\ Enters(t)
    /\ \E counted \in {0, 1}, made \in BOOLEAN:
        /\ made # auxStream => made /\ counted = 1
        /\ instances' = instances + counted - (IF made THEN 1 ELSE 0)
        /\ made /\ instances' = 0 => AuxSynced
        /\ auxStream' = (made /\ instances' # 0)
    /\ instances' - Cardinality(live \cap Streams) \in -MaxUncounted..0
    /\ UNCHANGED <<th, live, last, python, gpu, aux, bag>>

Drop(t) ==
    /\ Enters(t)
    /\ \E o \in py \ {Default}: py' = py \ {o}
    /\ UNCHANGED <<th, live, last, cacheOf, entered, stack, gpu, auxs, bag>>

\* The cache of the thread is cleared, when it is over the limit, or all caches.
ClearCache(t) ==
    /\ Enters(t)
    /\ \E T \in {{t}, Threads}:
        /\ \E o \in Objects: cacheOf[o] \in T
        /\ cacheOf' = [o \in Objects |-> IF cacheOf[o] \in T THEN None ELSE cacheOf[o]]
    /\ UNCHANGED <<th, live, last, py, entered, stack, gpu, auxs, bag>>

DestroyResource(t) ==
    /\ gil = t
    /\ \E r \in Garbage \cap Resources: live' = live \ {r}
    /\ UNCHANGED <<gil, th, last, python, gpu, auxs, bag>>

\* All that is in stream s: an event recorded there completes after it.
Pending(s) ==
    LET direct == {j \in DOMAIN job: job[j].on = s} \cup waits[s]
    IN  direct \cup UNION {job[j].before: j \in direct}

\* cudaStreamSynchronize of stream s returns.
Synced(s) == Pending(s) = {}

\* Stream::destroy waits for an owned stream, and with the last stream for the
\* auxiliary one.
DestroyStream(t) ==
    /\ gil = t
    /\ \E s \in Garbage \cap Streams:
        /\ live' = live \ {s}
        /\ s \in Owned => Synced(s)
    /\ IF auxStream THEN instances' = instances - 1 ELSE UNCHANGED instances
    /\ auxStream /\ instances = 1 => AuxSynced
    /\ auxStream' = (auxStream /\ instances # 1)
    /\ UNCHANGED <<gil, th, last, python, gpu, aux, bag>>

-----------------------------------------------------------------------------
(***************************************************************************)
(* An operator call: ResourceGuard::add, submit, ResourceGuard::commit.    *)
(***************************************************************************)
\* Mutant: the stream a resource was used on is not replaced.
KeepLastStream(R, s) == last' = [r \in Resources |-> IF r \in R /\ last[r] = None THEN s ELSE last[r]]

SetLastStream(R, s) == last' = [r \in Resources |-> IF r \in R THEN s ELSE last[r]]

\* add calls submitSync for each resource: a stream other than the one that
\* used the resource last waits for all that is in that one.
Submit(t) ==
    /\ Enters(t)
    /\ \E s \in py \cap Streams, R \in SUBSET (py \cap Resources) \ {{}}:
        /\ th' = [th EXCEPT ![t] = [pc |-> "submit", on |-> s, res |-> R]]
        /\ waits' = [waits EXCEPT ![s] = @ \cup UNION {Pending(last[r]): r \in {q \in R: last[q] \notin {None, s}}}]
        /\ SetLastStream(R, s)
    /\ UNCHANGED <<live, python, job, auxs, bag>>

\* The operator launches its work, ...
Launch(t) ==
    LET s == th[t].on IN
    /\ GoesOn(t, "submit")
    /\ Len(job) < MaxJobs
    /\ job' = Append(job, [on |-> s, uses |-> th[t].res, before |-> Pending(s)])
    /\ waits' = [waits EXCEPT ![s] = {}]
    /\ th' = [th EXCEPT ![t].pc = "commit"]
    /\ UNCHANGED <<gil, live, last, python, auxs, bag>>

\* ... or throws.
Throws(t) ==
    /\ GoesOn(t, "submit")
    /\ th' = [th EXCEPT ![t].pc = "commit"]
    /\ UNCHANGED <<gil, live, last, python, gpu, auxs, bag>>

\* ClearGCBag takes the closures out and destroys them when it has unlocked.
ClearGCBag(t, pc) ==
    /\ th' = [th EXCEPT ![t].pc = pc]
    /\ bag' = {}

\* commit calls holdResources, which first empties the bag, ...
Commit(t) ==
    /\ GoesOn(t, "commit")
    /\ ClearGCBag(t, "hold")
    /\ UNCHANGED <<gil, live, last, python, gpu, auxs>>

\* Mutant: the auxiliary stream does not wait.
HoldNothing(s) == {}

\* What the auxiliary stream waits for: an event that is recorded in stream s.
HoldUntil(s) == Pending(s)

\* ... then queues a closure on the auxiliary stream.
holdResources(t) ==
    /\ GoesOn(t, "hold") /\ Len(aux) < MaxClosures
    /\ aux' = Append(aux, [on |-> th[t].on, res |-> th[t].res, after |-> HoldUntil(th[t].on)])
    /\ auxStream' = TRUE
    /\ th' = [th EXCEPT ![t] = Idle]
    /\ UNCHANGED <<gil, live, last, python, gpu, instances, bag>>

-----------------------------------------------------------------------------
\* When job j is over the later jobs move up: job k was job Old(k, j), and K \ {j}
\* becomes Without(K, j).
Old(k, j) == IF k >= j THEN k + 1 ELSE k
Without(K, j) == {k \in 1..(Len(job) - 1): Old(k, j) \in K}

\* The GPU completes a job.
Complete ==
    /\ \E j \in DOMAIN job:
        /\ job[j].before = {}
        /\ job' = [k \in 1..(Len(job) - 1) |-> [job[Old(k, j)] EXCEPT !.before = Without(@, j)]]
        /\ waits' = [s \in Streams |-> Without(waits[s], j)]
        /\ aux' = [i \in DOMAIN aux |-> [aux[i] EXCEPT !.after = Without(@, j)]]
    /\ UNCHANGED <<gil, th, live, last, python, auxStream, instances, bag>>

\* Mutant: the callback destroys what it holds, for which it needs the GIL.
CallbackDestroys ==
    /\ aux # << >> /\ Head(aux).after = {}
    /\ gil = None
    /\ aux' = Tail(aux)
    /\ UNCHANGED <<gil, th, live, last, python, gpu, auxStream, instances, bag>>

\* The callback on a thread of the CUDA runtime: it puts its closure in the bag.
Callback ==
    /\ aux # << >> /\ Head(aux).after = {}
    /\ bag' = bag \cup {Head(aux)}
    /\ aux' = Tail(aux)
    /\ UNCHANGED <<gil, th, live, last, python, gpu, auxStream, instances>>

-----------------------------------------------------------------------------
\* sync waits without the GIL; it returns at once when nothing is in the stream.
SyncCall(t) ==
    /\ gil = None /\ th[t] = Idle
    /\ \E s \in py \cap Streams:
        /\ ~Synced(s)
        /\ th' = [th EXCEPT ![t] = [pc |-> "sync", on |-> s, res |-> {}]]
    /\ UNCHANGED <<gil, live, last, python, gpu, auxs, bag>>

SyncReturn(t) ==
    /\ gil = None /\ th[t].pc = "sync"
    /\ Synced(th[t].on)
    /\ gil' = t
    /\ th' = [th EXCEPT ![t] = Idle]
    /\ UNCHANGED <<live, last, python, gpu, auxs, bag>>

activate(t) ==
    /\ Enters(t)
    /\ t \in WithThreads /\ Len(entered[t]) < MaxNested
    /\ \E s \in py \cap Streams:
        /\ stack' = Append(stack, s)
        /\ entered' = [entered EXCEPT ![t] = Append(@, s)]
    /\ UNCHANGED <<th, live, last, py, cacheOf, gpu, auxs, bag>>

deactivate(t) ==
    /\ Enters(t)
    /\ entered[t] # << >>
    /\ stack' = Front(stack)
    /\ entered' = [entered EXCEPT ![t] = Front(@)]
    /\ UNCHANGED <<th, live, last, py, cacheOf, gpu, auxs, bag>>

-----------------------------------------------------------------------------
(***************************************************************************)
(* The cleanup when the script ends.                                       *)
(***************************************************************************)
\* It holds the streams in the main thread's cache and the default one, ...
ExitCall ==
    /\ gil = None /\ th[Main] = Idle /\ entered[Main] = << >>
    /\ th' = [th EXCEPT ![Main] = [pc |-> "exitSync", on |-> Default,
                                   res |-> {s \in Streams: cacheOf[s] = Main}]]
    /\ UNCHANGED <<gil, live, last, python, gpu, auxs, bag>>

\* ... and syncs one after the other, without the GIL.
ExitSync ==
    /\ gil = None /\ th[Main].pc = "exitSync"
    /\ \E s \in th[Main].res \cup {Default}:
        /\ s = Default => th[Main].res = {}
        /\ Synced(s)
        /\ IF s = Default
           THEN /\ th' = [th EXCEPT ![Main].pc = "exit"]
                /\ gil' = Main
           ELSE /\ th' = [th EXCEPT ![Main].res = @ \ {s}]
                /\ UNCHANGED gil
    /\ UNCHANGED <<live, last, python, gpu, auxs, bag>>

\* The stack is popped until its top is gone.
Emptied == SubSeq(stack, 1, Max({0} \cup {i \in DOMAIN stack: stack[i] \notin live}))

\* Mutant: relies on the streams it has synced.
ExitNoAux ==
    /\ GoesOn(Main, "exit")
    /\ stack' = Emptied
    /\ ClearGCBag(Main, "exited")
    /\ UNCHANGED <<gil, live, last, py, cacheOf, entered, gpu, auxs>>

\* Then it syncs the auxiliary stream, empties the stack and the bag.
ExitClean ==
    /\ GoesOn(Main, "exit")
    /\ AuxSynced /\ auxStream' = TRUE
    /\ stack' = Emptied
    /\ ClearGCBag(Main, "exited")
    /\ UNCHANGED <<gil, live, last, py, cacheOf, entered, gpu, aux, instances>>

Create(t) == Reuse(t) \/ NewResource(t) \/ NewStream(t) \/ NewStreamFails(t)

Operator(t) == Submit(t) \/ Launch(t) \/ Throws(t) \/ Commit(t) \/ holdResources(t)

Destroy(t) == DestroyResource(t) \/ DestroyStream(t)

Thread(t) ==
    \/ Create(t) \/ Drop(t) \/ ClearCache(t)
    \/ Operator(t) \/ Destroy(t) \/ Release(t)
    \/ SyncCall(t) \/ SyncReturn(t)
    \/ activate(t) \/ deactivate(t)

\* Nothing runs after the cleanup.
Exit == ExitCall \/ ExitSync \/ ExitClean

Next == Complete \/ Callback \/ Exit \/ \E t \in Threads: Thread(t)

Spec == Init /\ [][Next]_vars

\* The thread that holds the GIL goes on; the GPU and its callbacks, too.
FairSpec ==
    /\ Spec
    /\ WF_vars(Complete) /\ WF_vars(Callback) /\ WF_vars(ExitClean)
    /\ \A t \in Threads: WF_vars(Operator(t) /\ gil = t) /\ WF_vars(Destroy(t)) /\ WF_vars(Release(t))

-----------------------------------------------------------------------------
\* Type correctness: what Python refers to lives, and what streams and closures
\* wait for is work that is not complete.
TypeOK ==
    /\ gil \in Threads \cup {None}
    /\ th \in [Threads -> [pc: {"idle", "submit", "commit", "hold", "sync", "exitSync", "exit", "exited"},
                           on: Streams \cup {None}, res: SUBSET Objects]]
    /\ live \subseteq Objects /\ py \subseteq live
    /\ cacheOf \in [Objects -> Threads \cup {None}]
    /\ last \in [Resources -> Streams \cup {None}]
    /\ job \in Seq([on: Streams, uses: SUBSET Resources, before: SUBSET Jobs]) /\ Len(job) <= MaxJobs
    /\ \A j \in DOMAIN job: job[j].before \subseteq DOMAIN job
    /\ waits \in [Streams -> SUBSET DOMAIN job]
    /\ aux \in Seq([on: Streams, res: SUBSET Resources, after: SUBSET Jobs])
    /\ \A i \in DOMAIN aux: aux[i].after \subseteq DOMAIN job
    /\ bag \subseteq [on: Streams, res: SUBSET Resources, after: {{}}]
    /\ auxStream \in BOOLEAN /\ instances \in Int
    /\ stack \in Seq(Streams) /\ entered \in [Threads -> Seq(Streams)]

\* Two pieces of work that use one resource never overlap, on whatever
\* streams: one is ordered behind the other.
UsesOrdered ==
    \A i, j \in DOMAIN job: i # j /\ job[i].uses \cap job[j].uses # {} =>
        i \in job[j].before \/ j \in job[i].before

\* As long as work is on the GPU, a closure that waits for it, or the call
\* that launched it, refers to all it uses and to its stream, and these live.
UsedIsHeld ==
    \A j \in DOMAIN job:
        /\ job[j].uses \cup {job[j].on} \subseteq live
        /\ \/ \E c \in ToSet(aux): j \in c.after /\ c.on = job[j].on /\ job[j].uses \subseteq c.res
           \/ \E t \in Threads: th[t].pc \in {"commit", "hold"} /\ th[t].on = job[j].on /\ job[j].uses \subseteq th[t].res

\* A resource that is taken from the cache is one the GPU does not use.
ReusedIdle ==
    [][\A r \in Resources: r \in live /\ r \notin py /\ r \in py' =>
        \A j \in DOMAIN job: r \notin job[j].uses]_vars

\* No callback is lost with the auxiliary stream, even when the count of
\* streams is wrong since a constructor failed.
AuxKept == aux # << >> => auxStream

\* When the cleanup is over, nothing is held any more: not by work on streams
\* of other threads' caches either, which it does not wait for itself.
CleanupComplete == th[Main].pc = "exited" => aux = << >> /\ bag = {} /\ job = << >>

\* The current stream exists, as Current asserts.
CurrentAlive == stack # << >> => Last(stack) \in live

\* Every call under the GIL ends, whatever it destroys or waits for.
CallsReturn == gil # None ~> gil = None \/ th[Main].pc = "exited"
-----------------------------------------------------------------------------
(* What the proofs add to these properties *)

\* A call that is past its start holds the GIL, only the main thread cleans up,
\* and a call of an operator has a stream, and resources.
GilHeld ==
    \A t \in Threads:
        /\ th[t].pc \in {"submit", "commit", "hold", "exit", "exited"} => gil = t
        /\ th[t].pc \in {"exitSync", "exit", "exited"} => t = Main
        /\ th[t].pc \in {"submit", "commit", "hold"} => th[t].on # None /\ th[t].res \subseteq Resources

\* What something refers to lives; the module refers to the default stream.
RefsLive ==
    /\ Default \in py
    /\ \A o \in Objects: cacheOf[o] # None => o \in live
    /\ \A t \in Threads: th[t].on \in live \cup {None} /\ th[t].res \subseteq live
    /\ \A c \in ToSet(aux) \cup bag: c.on \in live /\ c.res \subseteq live
    /\ \A r \in live \cap Resources: last[r] \in live \cup {None}
    /\ \A t \in Threads: ToSet(entered[t]) \subseteq live

\* All work that uses a resource is in, or before, the stream it was used on last,
\* which is that of the call that is about to use it.
UsesPending ==
    /\ \A j \in DOMAIN job: \A r \in job[j].uses: last[r] # None /\ j \in Pending(last[r])
    /\ \A t \in Threads: th[t].pc = "submit" => \A r \in th[t].res: last[r] = th[t].on

\* The inductive invariant.
IInv ==
    /\ TypeOK /\ GilHeld /\ RefsLive /\ UsesPending
    /\ UsesOrdered /\ UsedIsHeld /\ AuxKept /\ CleanupComplete
=============================================================================
