--------------------------- MODULE PerStreamCache ---------------------------
(***************************************************************************)
(* PerStreamCache (cvcuda/util/PerStreamCache.hpp, PerStreamCacheImpl.hpp, *)
(* StreamId.cpp): memory that clients put back is kept in one list per     *)
(* stream id while the GPU may still use it, and in a global cache when it *)
(* is ready.  Memory is ready when the job behind which its event was      *)
(* recorded has completed.                                                 *)
(*                                                                         *)
(* The lists are searched as StreamOrderedCache models it, here in one     *)
(* step and within one section (kMaxItemsOnStack items).  Everything that  *)
(* is done under m_lock is one step.                                       *)
(***************************************************************************)
EXTENDS Integers, SequencesExt

CONSTANTS
    Mems,      \* memory blocks
    Streams,   \* CUDA streams
    NoStream,  \* std::nullopt for a stream, and the list with the key (uint64_t)-1
    Reqs,      \* requirements, [size, alignment]
    NoReq,     \* of a block that is not allocated
    MaxJobs    \* bound on the jobs on the GPU

Jobs == 1..MaxJobs

ASSUME BlocksAssumption == IsFiniteSet(Mems) /\ NoReq \notin Reqs
ASSUME StreamsAssumption == IsFiniteSet(Streams) /\ NoStream \notin Streams
ASSUME ReqsAssumption == Reqs \subseteq [size: Nat, alignment: Nat]
ASSUME JobsAssumption == MaxJobs \in Nat

VARIABLES
    job,      \* the GPU's work: [on, mem, before], where before is closed
    event,    \* job behind which a block's ready event was recorded, 0 when completed
    req,      \* requirements a block was allocated with, NoReq when it is not
    lists,    \* m_perStreamCache, oldest first
    global,   \* m_globalCache
    hint,     \* GetCudaStreamIdHint
    precise   \* IsCudaStreamIdHintUnambiguous()

Keys == Streams \cup {NoStream}

Ready(m) == event[m] = 0

-----------------------------------------------------------------------------
(***************************************************************************)
(* The GPU.  A job follows the jobs in its stream and those its stream was *)
(* made to wait for.  job is a function on the jobs that are not complete. *)
(***************************************************************************)
Users(m) == {j \in DOMAIN job: job[j].mem = m}

Running(j) == job[j].before = {}

\* The jobs that are done before a job that is added to stream s after W.
Before(s, W) ==
    LET direct == {j \in DOMAIN job: job[j].on = s} \cup W
    IN  direct \cup UNION {job[j].before: j \in direct}

Launch(j, s, m, W) ==
    /\ j \in Jobs \ DOMAIN job
    /\ \A k \in Jobs \ DOMAIN job: j <= k
    /\ job' = [k \in DOMAIN job \cup {j} |->
                IF k = j THEN [on |-> s, mem |-> m, before |-> Before(s, W)] ELSE job[k]]

\* The GPU completes a job, and the events recorded behind it.
Complete(j) ==
    /\ Running(j)
    /\ job' = [k \in DOMAIN job \ {j} |-> [job[k] EXCEPT !.before = @ \ {j}]]
    /\ event' = [m \in Mems |-> IF event[m] = j THEN 0 ELSE event[m]]

-----------------------------------------------------------------------------
Init ==
    /\ job = << >>
    /\ event = [m \in Mems |-> 0]
    /\ req = [m \in Mems |-> NoReq]
    /\ lists = [k \in Keys |-> << >>]
    /\ global = {}
    /\ hint \in [Streams -> Streams]
    /\ precise \in BOOLEAN
    /\ precise => IsInjective(hint)

\* The key of the list for a stream, or for none.
Key(s) == IF s = NoStream THEN NoStream ELSE hint[s]

\* The blocks of S that get may take for requirements r: the smallest ones.
Fits(m, r) == req[m].size >= r.size /\ req[m].alignment >= r.alignment
Candidates(S, r) == {m \in S: Fits(m, r) /\ \A k \in S: Fits(k, r) => req[m].size <= req[k].size}

\* The items of a list but the newest one, newest first.
tmp(l, i) == l[Len(l) - 1 - i]

\* The binary search for the first ready item of tmp, in ranges [lo, hi).
bisect(l) ==
    LET from[r \in (0..Len(l)) \X (0..Len(l))] ==
            LET m == (r[1] + r[2]) \div 2 IN
            IF r[1] >= r[2] THEN m
            ELSE IF Ready(tmp(l, m)) THEN from[<<r[1], m>>] ELSE from[<<m + 1, r[2]>>]
    IN  from[<<0, Len(l) - 1>>]

\* The newest ready item of a list in order; 0 for none.
findNewestReady(l) ==
    CASE l = << >> -> 0
      [] l # << >> /\ Ready(l[Len(l)]) -> Len(l)
      [] l # << >> /\ ~Ready(l[Len(l)]) /\ ~Ready(l[1]) -> 0
      [] OTHER -> Len(l) - 1 - bisect(l)

\* What a walk that removes the ready items of a list leaves of it.
walk(l) ==
    LET upTo[i \in 0..Len(l)] ==
            IF i = 0 THEN << >>
            ELSE IF Ready(l[i]) THEN upTo[i - 1] ELSE Append(upTo[i - 1], l[i])
    IN  upTo[Len(l)]

\* Mutant: relies on the order of the list where ids are ambiguous.
removeAllReadyByOrder(l) == SubSeq(l, findNewestReady(l) + 1, Len(l))

\* What removeAllReady leaves of a list.
removeAllReady(l) == IF precise THEN SubSeq(l, findNewestReady(l) + 1, Len(l)) ELSE walk(l)

\* moveReadyToGlobal: what it leaves of the lists, and makes of the global cache.
Left == [k \in Keys |-> removeAllReady(lists[k])]
Moved == global \cup UNION {ToSet(lists[k]) \ ToSet(Left[k]): k \in Keys}

-----------------------------------------------------------------------------
tryGetPerStream(s, r, m) ==
    /\ m \in Candidates(ToSet(lists[Key(s)]), r)
    /\ lists' = [lists EXCEPT ![Key(s)] = RemoveFirst(@, m)]
    /\ UNCHANGED global

NonePerStream(s, r) == s = NoStream \/ Candidates(ToSet(lists[Key(s)]), r) = {}

\* Mutant: the block stays in the cache.
tryGetGlobalCopy(r, m) ==
    /\ m \in Candidates(global, r)
    /\ UNCHANGED <<global, lists>>

tryGetGlobal(r, m) ==
    /\ m \in Candidates(global, r)
    /\ global' = global \ {m}
    /\ UNCHANGED lists

\* Mutant: looks at what is in the global cache and does not look for more.
moveReadyNever(r) == UNCHANGED <<lists, global>>

\* The second round, after moveReadyToGlobal: nothing that was moved fits, ...
moveReadyToGlobal(r) ==
    /\ Candidates(Moved, r) = {}
    /\ lists' = Left
    /\ global' = Moved

\* ... or the block taken from there.
moveReadyAndGet(r, m) ==
    /\ m \in Candidates(Moved, r)
    /\ lists' = Left
    /\ global' = Moved \ {m}

\* getIf returns block m.
Hit(s, r, m) ==
    \/ s # NoStream /\ tryGetPerStream(s, r, m)
    \/ NonePerStream(s, r) /\ tryGetGlobal(r, m)
    \/ NonePerStream(s, r) /\ Candidates(global, r) = {} /\ moveReadyAndGet(r, m)

\* getIf returns nullopt.
Miss(s, r) == NonePerStream(s, r) /\ Candidates(global, r) = {} /\ moveReadyToGlobal(r)

\* put, after it has queried the block's event: perStream says what it saw.
put(m, s, perStream) ==
    /\ lists' = IF perStream THEN [lists EXCEPT ![Key(s)] = Append(@, m)] ELSE lists
    /\ global' = IF perStream THEN global ELSE global \cup {m}

\* Mutant: does not wait.
purgeAtOnce(k) ==
    /\ lists[k] # << >>
    /\ lists' = [lists EXCEPT ![k] = << >>]
    /\ req' = [m \in Mems |-> IF m \in ToSet(lists[k]) THEN NoReq ELSE req[m]]
    /\ UNCHANGED global

\* purge waits for the newest item of a list, then frees all of the list, ...
waitAndPurge(k) ==
    /\ lists[k] # << >>
    /\ Ready(lists[k][Len(lists[k])])
    /\ lists' = [lists EXCEPT ![k] = << >>]
    /\ req' = [m \in Mems |-> IF m \in ToSet(lists[k]) THEN NoReq ELSE req[m]]
    /\ UNCHANGED global

\* ... and frees the global cache after all lists.
clearGlobal ==
    /\ \A k \in Keys: lists[k] = << >>
    /\ global' = {}
    /\ req' = [m \in Mems |-> IF m \in global THEN NoReq ELSE req[m]]
    /\ UNCHANGED lists

-----------------------------------------------------------------------------
\* The events of a list complete in the order of the list.
InOrder(l) ==
    \A i, j \in DOMAIN l: i < j /\ ~Ready(l[i]) =>
        ~Ready(l[j]) /\ event[l[i]] \in job[event[l[j]]].before

Cached == global \cup UNION {ToSet(lists[k]): k \in Keys}
=============================================================================
