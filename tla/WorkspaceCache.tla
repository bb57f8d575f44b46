--------------------------- MODULE WorkspaceCache ---------------------------
(***************************************************************************)
(* WorkspaceMemCache and WorkspaceLease (python/mod_cvcuda/WorkspaceCache) *)
(* over PerStreamCache, for memory of one kind, with the operators that    *)
(* lease it: an operator waits for the block's event, uses the block in a  *)
(* job and records the event behind the job; it may throw before.          *)
(***************************************************************************)
EXTENDS PerStreamCache

CONSTANTS
    Threads,  \* host threads
    NoMem,    \* no block
    Kinds,    \* of MemoryKind: "host", "pinned" and "cuda"
    MaxLost   \* bound on the gets that fail

ASSUME ThreadsAssumption == IsFiniteSet(Threads)
ASSUME NoMemAssumption == NoMem \notin Mems
ASSUME KindsAssumption == Kinds \subseteq {"host", "pinned", "cuda"}
ASSUME LostAssumption == MaxLost \in Nat

VARIABLES
    kind,         \* the kind of this cache
    th,           \* threads: [pc, mem, on, req, wait, perStream]
    purging,      \* a thread is inside purge and holds m_lock
    outstanding,  \* m_outstandingAllocs
    lost,         \* gets that failed
    abandoned,    \* blocks freed by a get that failed, while a job used them
    disorder      \* a block was put behind one whose event completes later

cache == <<lists, global>>
fixed == <<hint, precise, kind>>
ghosts == <<lost, abandoned, disorder>>
vars == <<job, event, req, cache, fixed, th, purging, outstanding, ghosts>>

Idle == [pc |-> "idle", mem |-> NoMem, on |-> NoStream, req |-> NoReq, wait |-> {}, perStream |-> FALSE]

WInit ==
    /\ Init
    /\ kind \in Kinds
    /\ th = [t \in Threads |-> Idle]
    /\ purging = FALSE
    /\ outstanding = 0 /\ lost = 0
    /\ abandoned = {} /\ disorder = FALSE

\* The streams that WorkspaceCache::get passes by default.
AcquireStream(s) == IF kind = "cuda" THEN s ELSE NoStream
ReleaseStream(s) == IF kind = "host" THEN NoStream ELSE s

Leased == {t \in Threads: th[t].mem # NoMem}
Creating == {t \in Threads: th[t].pc = "create"}

\* Blocks that can be allocated; their number bounds the allocations.
Fresh == {m \in Mems: req[m] = NoReq /\ Users(m) = {}}

-----------------------------------------------------------------------------
\* WorkspaceMemCache::get, for an operator on stream s: a block of the cache, ...
GetHit(t, s, r) ==
    /\ th[t] = Idle /\ ~purging
    /\ \E m \in Mems:
        /\ Hit(AcquireStream(s), r, m)
        /\ th' = [th EXCEPT ![t].pc = "leased", ![t].mem = m, ![t].on = s]
    /\ outstanding' = outstanding + 1
    /\ UNCHANGED <<job, event, req, fixed, purging, ghosts>>

\* ... or none.
GetMiss(t, s, r) ==
    /\ th[t] = Idle /\ ~purging
    /\ Cardinality(Fresh) > Cardinality(Creating)
    /\ Miss(AcquireStream(s), r)
    /\ th' = [th EXCEPT ![t].pc = "create", ![t].on = s, ![t].req = r]
    /\ outstanding' = outstanding + 1
    /\ UNCHANGED <<job, event, req, fixed, purging, ghosts>>

\* A new block with a new event, which counts as completed.
Create(t) ==
    /\ th[t].pc = "create"
    /\ \E m \in Fresh:
        /\ req' = [req EXCEPT ![m] = th[t].req]
        /\ event' = [event EXCEPT ![m] = 0]
        /\ th' = [th EXCEPT ![t].pc = "leased", ![t].mem = m, ![t].req = NoReq]
        /\ abandoned' = abandoned \ {m}
    /\ UNCHANGED <<job, cache, fixed, purging, outstanding, lost, disorder>>

\* The allocator throws; the count stays raised.
CreateFails(t) ==
    /\ th[t].pc = "create" /\ lost < MaxLost
    /\ lost' = lost + 1
    /\ th' = [th EXCEPT ![t] = Idle]
    /\ UNCHANGED <<job, event, req, cache, fixed, purging, outstanding, abandoned, disorder>>

\* WorkspaceCache::get has this block, and the get of another kind throws: the
\* block is not put back but freed, and the count stays raised.
OtherKindFails(t) ==
    /\ th[t].pc = "leased" /\ lost < MaxLost
    /\ lost' = lost + 1
    /\ req' = [req EXCEPT ![th[t].mem] = NoReq]
    /\ abandoned' = abandoned \cup {m \in {th[t].mem}: Users(m) # {}}
    /\ th' = [th EXCEPT ![t] = Idle]
    /\ UNCHANGED <<job, event, cache, fixed, purging, outstanding, disorder>>

-----------------------------------------------------------------------------
\* Mutant: the operator does not wait.
AcquireAtOnce(t) ==
    /\ th[t].pc = "leased"
    /\ th' = [th EXCEPT ![t].pc = "acquired"]
    /\ UNCHANGED <<job, event, req, cache, fixed, purging, outstanding, ghosts>>

\* The operator makes its stream wait for the event, or waits on the host.
Acquire(t) ==
    /\ th[t].pc = "leased"
    /\ kind = "cuda" \/ Ready(th[t].mem)
    /\ th' = [th EXCEPT ![t].pc = "acquired", ![t].wait = {event[th[t].mem]} \ {0}]
    /\ UNCHANGED <<job, event, req, cache, fixed, purging, outstanding, ghosts>>

\* The operator schedules its work with the block and records the event.
Use(t) ==
    /\ th[t].pc = "acquired"
    /\ \E j \in Jobs:
        /\ Launch(j, th[t].on, th[t].mem, th[t].wait)
        /\ event' = [event EXCEPT ![th[t].mem] = j]
    /\ th' = [th EXCEPT ![t].pc = "release", ![t].wait = {}]
    /\ UNCHANGED <<req, cache, fixed, purging, outstanding, ghosts>>

\* The operator throws before it has scheduled work with the block.
UseFails(t) ==
    /\ th[t].pc \in {"leased", "acquired"}
    /\ th' = [th EXCEPT ![t].pc = "release", ![t].wait = {}]
    /\ UNCHANGED <<job, event, req, cache, fixed, purging, outstanding, ghosts>>

\* The operator throws after a launch and before the record.
UseFailsLate(t) ==
    /\ th[t].pc = "acquired"
    /\ \E j \in Jobs: Launch(j, th[t].on, th[t].mem, th[t].wait)
    /\ th' = [th EXCEPT ![t].pc = "release", ![t].wait = {}]
    /\ UNCHANGED <<event, req, cache, fixed, purging, outstanding, ghosts>>

-----------------------------------------------------------------------------
\* ~WorkspaceLease: put queries the event before it takes the lock, ...
PutQuery(t) ==
    /\ th[t].pc = "release"
    /\ th' = [th EXCEPT ![t].pc = "put", ![t].perStream = ~Ready(th[t].mem)]
    /\ UNCHANGED <<job, event, req, cache, fixed, purging, outstanding, ghosts>>

\* Mutant: the count is not lowered.
CountKept == outstanding
CountLowered == outstanding - 1

\* ... then files the block.
Put(t) ==
    /\ th[t].pc = "put" /\ ~purging
    /\ put(th[t].mem, ReleaseStream(th[t].on), th[t].perStream)
    /\ disorder' = (disorder \/ \E k \in Keys: ~InOrder(lists'[k]))
    /\ outstanding' = CountLowered
    /\ th' = [th EXCEPT ![t] = Idle]
    /\ UNCHANGED <<job, event, req, fixed, purging, lost, abandoned>>

\* clear asserts that nothing is outstanding, which a release build does not
\* test: blocks may be with threads while the others are purged.
Clear ==
    /\ ~purging
    /\ purging' = TRUE
    /\ UNCHANGED <<job, event, req, cache, fixed, th, outstanding, ghosts>>

PurgeList ==
    /\ purging
    /\ \E k \in Keys: waitAndPurge(k)
    /\ UNCHANGED <<job, event, fixed, th, purging, outstanding, ghosts>>

PurgeGlobal ==
    /\ purging
    /\ clearGlobal
    /\ purging' = FALSE
    /\ UNCHANGED <<job, event, fixed, th, outstanding, ghosts>>

-----------------------------------------------------------------------------
\* A wait for a job that has completed is over.
GPU ==
    /\ \E j \in DOMAIN job:
        /\ Complete(j)
        /\ th' = [t \in Threads |-> [th[t] EXCEPT !.wait = @ \ {j}]]
    /\ UNCHANGED <<req, cache, fixed, purging, outstanding, ghosts>>

Thread(t) ==
    \/ \E s \in Streams, r \in Reqs: GetHit(t, s, r) \/ GetMiss(t, s, r)
    \/ Create(t) \/ CreateFails(t) \/ OtherKindFails(t)
    \/ Acquire(t) \/ Use(t) \/ UseFails(t)
    \/ PutQuery(t) \/ Put(t)

Purge == PurgeList \/ PurgeGlobal

Next == GPU \/ Clear \/ Purge \/ \E t \in Threads: Thread(t)

Spec == WInit /\ [][Next]_vars

\* With operators that throw after a launch.
LateSpec == WInit /\ [][Next \/ \E t \in Threads: UseFailsLate(t)]_vars

-----------------------------------------------------------------------------
\* Type correctness: the count of outstanding allocations never falls below zero,
\* and an event stands behind a job that is not complete, or is completed.
TypeOK ==
    /\ DOMAIN job \subseteq Jobs
    /\ job \in [DOMAIN job -> [on: Streams, mem: Mems, before: SUBSET DOMAIN job]]
    /\ event \in [Mems -> DOMAIN job \cup {0}]
    /\ req \in [Mems -> Reqs \cup {NoReq}]
    /\ lists \in [Keys -> Seq(Mems)]
    /\ global \subseteq Mems
    /\ hint \in [Streams -> Streams] /\ precise \in BOOLEAN
    /\ kind \in Kinds
    /\ th \in [Threads -> [pc: {"idle", "create", "leased", "acquired", "release", "put"},
                           mem: Mems \cup {NoMem}, on: Keys, req: Reqs \cup {NoReq},
                           wait: SUBSET DOMAIN job, perStream: BOOLEAN]]
    /\ purging \in BOOLEAN /\ disorder \in BOOLEAN
    /\ outstanding \in Nat /\ lost \in 0..MaxLost
    /\ abandoned \subseteq Mems

\* A block is allocated exactly as long as it is leased by one thread, or in
\* one list once, or in the global cache.
OnePlace ==
    /\ \A m \in Mems: req[m] # NoReq <=> m \in Cached \/ \E t \in Threads: th[t].mem = m
    /\ \A t, u \in Leased: th[t].mem = th[u].mem => t = u
    /\ \A t \in Leased: th[t].mem \notin Cached
    /\ \A k \in Keys: IsInjective(lists[k]) /\ ToSet(lists[k]) \cap global = {}
    /\ \A k, l \in Keys: k # l => ToSet(lists[k]) \cap ToSet(lists[l]) = {}

\* Work with one block never overlaps: no two jobs with it run at once, and
\* while the host writes to it no job with it is left, whatever stream or
\* thread had it before and even if the caches took it for ready too early.
NoOverlap ==
    /\ \A i, j \in DOMAIN job: Running(i) /\ Running(j) /\ job[i].mem = job[j].mem => i = j
    /\ \A t \in Threads: kind # "cuda" /\ th[t].pc = "acquired" => Users(th[t].mem) = {}

\* The global cache, which hands its blocks to any stream, holds only blocks
\* that the GPU no longer uses; where ids are ambiguous in any case, and where
\* lists are searched by order as long as no list got out of order.
GlobalReady == (disorder /\ precise) \/ \A m \in global: Users(m) = {}

\* purge frees no block that a job still uses, in lists in order.
FreedUnused ==
    \A j \in DOMAIN job: req[job[j].mem] # NoReq \/ job[j].mem \in abandoned \/ disorder

\* A new block is allocated only if no block in the cache would do: none that
\* fits is ready, and none is in the list of the stream it is for.
MissIsReal ==
    [][\A t \in Threads: th[t].pc = "idle" /\ th'[t].pc = "create" /\ ~disorder =>
        \A m \in Cached: Fits(m, th'[t].req) =>
            ~Ready(m) /\ (kind = "cuda" => m \notin ToSet(lists[hint[th'[t].on]]))]_vars

\* The count of outstanding allocations is that of the leases, and of the gets
\* that failed: these are never taken off it again.
OutstandingExact ==
    outstanding = Cardinality(Leased \cup Creating) + lost
-----------------------------------------------------------------------------
(* What the proofs add to these properties *)

\* A thread has a block or is about to create one exactly when it is not idle,
\* and a block it creates has requirements.
LeasesHeld ==
    \A t \in Threads:
        /\ th[t].mem # NoMem <=> th[t].pc \in {"leased", "acquired", "release", "put"}
        /\ th[t].pc = "create" => th[t].req # NoReq
        /\ th[t].pc # "idle" => th[t].on # NoStream

\* The jobs that use a block follow one another, and the event of the block is
\* recorded behind all of them.
UsersOrdered ==
    \A m \in Mems:
        /\ \A i, j \in Users(m): i = j \/ i \in job[j].before \/ j \in job[i].before
        /\ \A j \in Users(m): event[m] # 0 /\ (j = event[m] \/ j \in job[event[m]].before)

\* What a thread learnt about the event of its block is still so: nobody else
\* records it meanwhile.
EventsSeen ==
    \A t \in Threads:
        /\ th[t].pc = "acquired" => event[th[t].mem] \in th[t].wait \cup {0}
        /\ th[t].pc = "acquired" /\ kind # "cuda" => Ready(th[t].mem)
        /\ th[t].pc = "put" /\ ~th[t].perStream => Ready(th[t].mem)

\* As long as no put was out of order, the lists are in order.
ListsInOrder == disorder \/ \A k \in Keys: InOrder(lists[k])

\* The inductive invariant.
IInv ==
    /\ TypeOK /\ LeasesHeld /\ OnePlace /\ UsersOrdered /\ EventsSeen /\ ListsInOrder
    /\ GlobalReady /\ FreedUnused /\ OutstandingExact
=============================================================================
