------------------------- MODULE WorkspaceAllocator -------------------------
(***************************************************************************)
(* WorkspaceMemEstimator and WorkspaceMemAllocator (cvcuda/priv),          *)
(* MaxWorkspaceReq (cvcuda/Workspace.hpp) and their use by HQResize: the   *)
(* requirements for memory of one kind are estimated for two calls of an   *)
(* operator, memory that covers both is provided, and one of the calls     *)
(* takes its buffers from it, in the order of the estimate; it may leave   *)
(* some out and take less than was estimated.                              *)
(***************************************************************************)
EXTENDS Integers, Sequences, FiniteSetsExt

CONSTANTS
    Sizes,          \* sizes of buffers in bytes
    Alignments,     \* alignments of buffers
    BaseAlignment,  \* kDefaultPinnedAlignment and the like
    Bases,          \* addresses of memory
    MaxRequests     \* bound on the buffers of both calls

ASSUME SizesAssumption == Sizes \subseteq Nat /\ Bases \subseteq Nat /\ MaxRequests \in Nat
\* Powers of two: each divides the larger ones.
ASSUME AlignmentsAssumption ==
    /\ Alignments \cup {BaseAlignment} \subseteq Nat \ {0}
    /\ \A a, b \in Alignments \cup {BaseAlignment}: a <= b => b % a = 0

Requests == [size: Sizes, alignment: Alignments]
Calls == {1, 2}

VARIABLES
    plan,      \* the buffers estimated for a call and not taken yet
    est,       \* WorkspaceMemEstimator::req, for each call
    call,      \* the call that is made, 0 before memory is provided
    mem,       \* m_mem: [data, size]
    offset,    \* m_offset
    acquired,  \* m_acquired
    released,  \* m_released
    blocks,    \* the buffers it got: [at, size, alignment]
    strayed,   \* it asked for one that was not estimated
    failed     \* get threw

memory == <<call, mem>>
allocator == <<offset, acquired, released>>
allocVars == <<plan, est, memory, allocator, blocks, strayed, failed>>

AlignUp(v, a) == ((v + (a - 1)) \div a) * a

NewEstimator == [size |-> 0, alignment |-> BaseAlignment]

AllocInit ==
    /\ plan = [c \in Calls |-> << >>]
    /\ est = [c \in Calls |-> NewEstimator]
    /\ call = 0 /\ mem = [data |-> 0, size |-> 0]
    /\ offset = 0 /\ acquired = FALSE /\ released = FALSE
    /\ blocks = << >> /\ strayed = FALSE /\ failed = FALSE

-----------------------------------------------------------------------------
\* Mutant: the buffer is put directly behind the one before.
addUnaligned(c, r) ==
    /\ call = 0 /\ Len(plan[1]) + Len(plan[2]) < MaxRequests
    /\ plan' = [plan EXCEPT ![c] = Append(@, r)]
    /\ est' = [est EXCEPT ![c] = [size |-> @.size + AlignUp(r.size, r.alignment), alignment |-> Max({@.alignment, r.alignment})]]
    /\ UNCHANGED <<memory, allocator, blocks, strayed, failed>>

\* WorkspaceMemEstimator::add
add(c, r) ==
    /\ call = 0 /\ Len(plan[1]) + Len(plan[2]) < MaxRequests
    /\ plan' = [plan EXCEPT ![c] = Append(@, r)]
    /\ est' = [est EXCEPT ![c] = [size |-> AlignUp(@.size, r.alignment) + AlignUp(r.size, r.alignment),
                                  alignment |-> Max({@.alignment, r.alignment})]]
    /\ UNCHANGED <<memory, allocator, blocks, strayed, failed>>

MaxWorkspaceReq(a, b) ==
    LET alignment == Max({a.alignment, b.alignment})
    IN  [size |-> AlignUp(Max({a.size, b.size}), alignment), alignment |-> alignment]

\* Memory that meets the requirements of both calls, and one call begins.
Provide(c) ==
    LET req == MaxWorkspaceReq(est[1], est[2]) IN
    /\ call = 0
    /\ call' = c
    /\ \E data \in Bases:
        /\ data % req.alignment = 0
        /\ mem' = [data |-> data, size |-> req.size]
    /\ plan' = [d \in Calls |-> IF d = c THEN plan[c] ELSE << >>]
    /\ est' = [d \in Calls |-> NewEstimator]
    /\ UNCHANGED <<allocator, blocks, strayed, failed>>

-----------------------------------------------------------------------------
\* acquire, when get calls it or the operator does before.
acquire ==
    /\ call # 0 /\ ~acquired /\ ~released
    /\ acquired' = TRUE
    /\ UNCHANGED <<plan, est, memory, offset, released, blocks, strayed, failed>>

\* Mutant: the buffer begins where the one before ends.
BeginPacked(r) == offset

\* Where get puts a buffer, and where the next one can begin.
Begin(r) == AlignUp(offset, r.alignment)
End(r) == Begin(r) + AlignUp(r.size, r.alignment)

TooSmall(r) == End(r) > mem.size

MustAcquire(r) == r.size > 0

\* get of a buffer: it waits for the memory, then throws or has the buffer.
get(r) ==
    LET fails == mem.data % r.alignment # 0 \/ TooSmall(r) IN
    /\ call # 0 /\ ~released
    /\ acquired' = (acquired \/ MustAcquire(r))
    /\ failed' = (failed \/ fails)
    /\ offset' = IF fails THEN offset ELSE End(r)
    /\ blocks' = IF fails THEN blocks
                 ELSE Append(blocks, [at |-> mem.data + Begin(r), size |-> r.size, alignment |-> r.alignment])
    /\ UNCHANGED <<est, memory, released>>

Planned == call # 0 /\ plan[call] # << >>
TakeNext == plan' = [plan EXCEPT ![call] = Tail(@)]

\* The call takes the next buffer of its plan, or a smaller one, ...
GetPlanned ==
    /\ Planned
    /\ \E r \in Requests:
        /\ r.size <= Head(plan[call]).size /\ r.alignment <= Head(plan[call]).alignment
        /\ get(r)
    /\ TakeNext
    /\ UNCHANGED strayed

\* ... leaves it out, ...
Skip ==
    /\ Planned /\ ~released
    /\ TakeNext
    /\ UNCHANGED <<est, memory, allocator, blocks, strayed, failed>>

\* ... or takes one that was not estimated.
GetOther ==
    /\ Len(blocks) < MaxRequests
    /\ \E r \in Requests: get(r)
    /\ strayed' = TRUE
    /\ UNCHANGED plan

\* The operator or the destructor releases the memory; what is called later
\* throws and changes nothing.
release ==
    /\ call # 0 /\ ~released
    /\ released' = TRUE
    /\ UNCHANGED <<plan, est, memory, offset, acquired, blocks, strayed, failed>>

Estimate == \E c \in Calls, r \in Requests: add(c, r)

AllocNext == Estimate \/ acquire \/ GetPlanned \/ Skip \/ GetOther \/ release \/ \E c \in Calls: Provide(c)

AllocSpec == AllocInit /\ [][AllocNext]_allocVars

-----------------------------------------------------------------------------
\* Type correctness: the offset never passes the end of the memory.
AllocTypeOK ==
    /\ plan \in [Calls -> Seq(Requests)]
    /\ est \in [Calls -> [size: Nat, alignment: Alignments \cup {BaseAlignment}]]
    /\ call \in {0} \cup Calls
    /\ mem \in [data: Nat, size: Nat]
    /\ offset \in 0..mem.size
    /\ acquired \in BOOLEAN /\ released \in BOOLEAN /\ strayed \in BOOLEAN /\ failed \in BOOLEAN
    /\ blocks \in Seq([at: Nat, size: Sizes, alignment: Alignments])

\* Memory for the requirements of both calls is enough for either: a call that
\* takes what was estimated, or less, never finds it too small or misaligned.
Covered == failed => strayed

\* The buffers are aligned, lie in the memory and do not overlap, whatever is
\* asked for and whatever fails.
BlocksDisjoint ==
    /\ \A i \in DOMAIN blocks:
        /\ blocks[i].at % blocks[i].alignment = 0
        /\ mem.data <= blocks[i].at /\ blocks[i].at + blocks[i].size <= mem.data + mem.size
    /\ \A i, j \in DOMAIN blocks: i < j => blocks[i].at + blocks[i].size <= blocks[j].at

-----------------------------------------------------------------------------
(* What the proofs add to these properties *)

\* Before memory is provided nothing is taken from it.
NothingYet == call = 0 => offset = 0 /\ blocks = << >> /\ ~strayed /\ ~failed

\* The buffers end below the offset.
BelowOffset == \A i \in DOMAIN blocks: blocks[i].at + blocks[i].size <= mem.data + offset

\* Where the next buffer can begin, if r is put at o or behind.
EndFrom(o, r) == AlignUp(o, r.alignment) + AlignUp(r.size, r.alignment)

\* The buffers of p have room between two offsets: there are offsets for them
\* that leave each the room it takes.
Room(p, from, to) ==
    \E o \in [1 .. Len(p) + 1 -> from .. to]:
        /\ \A i, j \in 1 .. Len(p) + 1: i <= j => o[i] <= o[j]
        /\ \A i \in 1 .. Len(p): EndFrom(o[i], p[i]) <= o[i + 1]

\* The estimate of a call has room for its plan, and is aligned for it.
Estimated ==
    call = 0 => \A c \in Calls:
        /\ Room(plan[c], 0, est[c].size)
        /\ \A i \in DOMAIN plan[c]: plan[c][i].alignment <= est[c].alignment

\* What is left of the memory has room for what is left of the plan.
RoomLeft ==
    call # 0 /\ ~strayed =>
        /\ ~failed
        /\ Room(plan[call], offset, mem.size)
        /\ \A i \in DOMAIN plan[call]: mem.data % plan[call][i].alignment = 0

\* The inductive invariant.
AllocIInv == AllocTypeOK /\ NothingYet /\ BelowOffset /\ BlocksDisjoint /\ Estimated /\ RoomLeft
=============================================================================
