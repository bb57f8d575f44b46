---------------------------- MODULE TensorBatch ----------------------------
(***************************************************************************)
(* The tensor batch (src/src/nvcv/src/priv/TensorBatch.cpp): an array of   *)
(* tensor handles on the host, a pinned staging array of their             *)
(* descriptors, and a device array that exportData brings up to date with  *)
(* an asynchronous copy of the dirty range.  The host calls are made by    *)
(* one client at a time; the GPU performs the copy whenever it likes.      *)
(* Calls the C API refuses before they change anything (a null pointer, a  *)
(* negative count, more tensors than fit) are stuttering steps.            *)
(***************************************************************************)
EXTENDS Integers, Sequences, FiniteSets

CONSTANTS
    Tensors,        \* tensor handles
    Kinds,          \* combinations of rank, data type and layout
    KindOf,         \* the kind of each tensor
    Capacity,       \* NVCVTensorBatchRequirements::capacity
    Streams,        \* CUDA streams
    MaxArgs,        \* bound: tensors in one call
    MaxClientRefs,  \* bound: references the client holds to one tensor
    NoTensor,       \* an array entry never written
    NoKind,         \* rank -1, NVCV_DATA_TYPE_NONE, the empty layout
    Garbage,        \* a descriptor never written
    NoCopy          \* the event waits for no copy

ASSUME CapacityAssumption == Capacity \in Nat
ASSUME BoundsAssumption == MaxArgs \in Nat /\ MaxClientRefs \in Nat \ {0}
ASSUME KindAssumption == KindOf \in [Tensors -> Kinds] /\ NoKind \notin Kinds

VARIABLES
    m_Tensors,      \* host array of handles
    m_numTensors,
    m_dirtyBegin,
    m_dirtyEnd,
    attrs,          \* m_rank, m_dtype and m_layout
    pinned,         \* m_pinnedTensorsBuffer
    dev,            \* m_devTensorsBuffer
    copies,         \* the copies in flight to the device
    m_evPostFence,  \* the copy the event waits for, NoCopy once signalled
    refCount,       \* references to each tensor
    clientRefs,     \* of those, the ones the client holds
    exported        \* ghost: stream and descriptors of the last exportData

vars == <<m_Tensors, m_numTensors, m_dirtyBegin, m_dirtyEnd, attrs, pinned,
          dev, copies, m_evPostFence, refCount, clientRefs, exported>>
gpu == <<dev, copies, m_evPostFence>>
buffers == <<pinned, gpu, exported>>
dirty == <<m_dirtyBegin, m_dirtyEnd>>

Slots == 0 .. Capacity - 1
Span(b, e) == b .. e - 1
MinOf(a, b) == IF a <= b THEN a ELSE b
MaxOf(a, b) == IF a >= b THEN a ELSE b

\* The pointer, shape and strides that exportData writes for a tensor; they
\* do not change while the tensor lives.
Element(t) == [data |-> t]
Elements == [data : Tensors]

\* A copy of the staging entries from begin up to, not including, end; data
\* is what the staging array held when the copy was started.
CopyType == [stream : Streams, begin : Nat, end : Nat,
             data : [Slots -> Elements \cup {Garbage}]]

ASSUME NoCopyAssumption == NoCopy \notin CopyType

\* The argument lists of the calls.
Args == UNION {[1 .. n -> Tensors] : n \in 0 .. MaxArgs}

\* The client passes handles that it holds.
Holds(ts) == \A j \in DOMAIN ts : clientRefs[ts[j]] > 0

\* How often t occurs in an argument list, and among the array entries
\* from b up to, not including, e.
InArgs(ts, t) == Cardinality({j \in DOMAIN ts : ts[j] = t})
InBatch(b, e, t) == Cardinality({i \in Span(b, e) : m_Tensors[i] = t})

\* Array a with the tensors of ts written from index b on.
Written(a, b, ts) ==
    [i \in Slots |-> IF i \in Span(b, b + Len(ts)) THEN ts[i - b + 1] ELSE a[i]]
-----------------------------------------------------------------------------
\* The constructor: the memory is not initialised, the client holds one
\* reference to each tensor.
Init ==
    /\ m_Tensors = [i \in Slots |-> NoTensor]
    /\ m_numTensors = 0
    /\ m_dirtyBegin = 0
    /\ m_dirtyEnd = 0
    /\ attrs = NoKind
    /\ pinned = [i \in Slots |-> Garbage]
    /\ dev = [i \in Slots |-> Garbage]
    /\ copies = {}
    /\ m_evPostFence = NoCopy
    /\ refCount = [t \in Tensors |-> 1]
    /\ clientRefs = [t \in Tensors |-> 1]
    /\ exported = [stream |-> CHOOSE s \in Streams : TRUE, elems |-> <<>>]

\* setLayoutAndDType: the attributes the tensors of ts are validated with.
setLayoutAndDType(ts) == IF m_numTensors = 0 THEN KindOf[ts[1]] ELSE attrs

\* validateTensors: every tensor has attributes k.
validateTensors(ts, k) == \A j \in DOMAIN ts : KindOf[ts[j]] = k

\* Mutant: a push always starts the dirty range at the first new tensor.
pushRestartsRange(ts) ==
    /\ ts # <<>> /\ Holds(ts)
    /\ m_numTensors + Len(ts) <= Capacity
    /\ attrs' = setLayoutAndDType(ts)
    /\ validateTensors(ts, attrs')
    /\ refCount' = [t \in Tensors |-> refCount[t] + InArgs(ts, t)]
    /\ m_Tensors' = Written(m_Tensors, m_numTensors, ts)
    /\ m_dirtyBegin' = m_numTensors
    /\ m_numTensors' = m_numTensors + Len(ts)
    /\ m_dirtyEnd' = m_numTensors'
    /\ UNCHANGED <<clientRefs, buffers>>

pushTensors(ts) ==
    /\ ts # <<>> /\ Holds(ts)
    /\ m_numTensors + Len(ts) <= Capacity
    /\ attrs' = setLayoutAndDType(ts)
    /\ validateTensors(ts, attrs')
    /\ refCount' = [t \in Tensors |-> refCount[t] + InArgs(ts, t)]
    /\ m_Tensors' = Written(m_Tensors, m_numTensors, ts)
    /\ m_dirtyBegin' = IF m_dirtyEnd = m_dirtyBegin THEN m_numTensors
                                                    ELSE m_dirtyBegin
    /\ m_numTensors' = m_numTensors + Len(ts)
    /\ m_dirtyEnd' = m_numTensors'
    /\ UNCHANGED <<clientRefs, buffers>>

\* A push whose tensors do not agree throws after the attributes were set.
pushRejected(ts) ==
    /\ ts # <<>> /\ Holds(ts)
    /\ m_numTensors + Len(ts) <= Capacity
    /\ attrs' = setLayoutAndDType(ts)
    /\ ~ validateTensors(ts, attrs')
    /\ UNCHANGED <<m_Tensors, m_numTensors, dirty, refCount, clientRefs, buffers>>

\* The array entries beyond the new end keep their released handles.
popTensors(n) ==
    /\ n \in 0 .. m_numTensors
    /\ refCount' = [t \in Tensors |->
          refCount[t] - InBatch(m_numTensors - n, m_numTensors, t)]
    /\ m_numTensors' = m_numTensors - n
    /\ m_dirtyEnd' = MinOf(m_dirtyEnd, m_numTensors')
    /\ m_dirtyBegin' = MinOf(m_dirtyBegin, m_dirtyEnd')
    /\ attrs' = IF m_numTensors' = 0 THEN NoKind ELSE attrs
    /\ UNCHANGED <<m_Tensors, clientRefs, buffers>>

\* The client receives a reference to each tensor returned.
getTensors(index, n) ==
    /\ index \in 0 .. m_numTensors - n
    /\ LET got(t) == InBatch(index, index + n, t) IN
       /\ \A t \in Tensors : clientRefs[t] + got(t) <= MaxClientRefs
       /\ refCount' = [t \in Tensors |-> refCount[t] + got(t)]
       /\ clientRefs' = [t \in Tensors |-> clientRefs[t] + got(t)]
    /\ UNCHANGED <<m_Tensors, m_numTensors, dirty, attrs, buffers>>

\* Mutant: the tensors are stored without being validated.
setUnvalidated(index, ts) ==
    /\ Holds(ts)
    /\ index \in 0 .. m_numTensors - Len(ts)
    /\ refCount' = [t \in Tensors |->
          refCount[t] - InBatch(index, index + Len(ts), t) + InArgs(ts, t)]
    /\ m_Tensors' = Written(m_Tensors, index, ts)
    /\ LET isDirty == m_dirtyBegin # m_dirtyEnd IN
       /\ m_dirtyBegin' = IF isDirty THEN MinOf(m_dirtyBegin, index) ELSE index
       /\ m_dirtyEnd' = IF isDirty THEN MaxOf(m_dirtyEnd, index + Len(ts))
                                   ELSE index + Len(ts)
    /\ UNCHANGED <<m_numTensors, attrs, clientRefs, buffers>>

\* Each replaced tensor is released just before its successor is retained;
\* as the client holds every tensor it passes, none of them dies in between.
setTensors(index, ts) ==
    /\ Holds(ts)
    /\ index \in 0 .. m_numTensors - Len(ts)
    /\ validateTensors(ts, attrs)
    /\ refCount' = [t \in Tensors |->
          refCount[t] - InBatch(index, index + Len(ts), t) + InArgs(ts, t)]
    /\ m_Tensors' = Written(m_Tensors, index, ts)
    /\ LET isDirty == m_dirtyBegin # m_dirtyEnd IN
       /\ m_dirtyBegin' = IF isDirty THEN MinOf(m_dirtyBegin, index) ELSE index
       /\ m_dirtyEnd' = IF isDirty THEN MaxOf(m_dirtyEnd, index + Len(ts))
                                   ELSE index + Len(ts)
    /\ UNCHANGED <<m_numTensors, attrs, clientRefs, buffers>>

\* Mutant: the entries of the array are forgotten without being released.
clearKeepsRefs ==
    /\ m_numTensors' = 0
    /\ m_dirtyBegin' = 0
    /\ m_dirtyEnd' = 0
    /\ attrs' = NoKind
    /\ UNCHANGED <<m_Tensors, refCount, clientRefs, buffers>>

clear ==
    /\ refCount' = [t \in Tensors |-> refCount[t] - InBatch(0, m_numTensors, t)]
    /\ m_numTensors' = 0
    /\ m_dirtyBegin' = 0
    /\ m_dirtyEnd' = 0
    /\ attrs' = NoKind
    /\ UNCHANGED <<m_Tensors, clientRefs, buffers>>
-----------------------------------------------------------------------------
\* The staging array with the descriptors of the dirty tensors written.
Staged ==
    [i \in Slots |-> IF i \in Span(m_dirtyBegin, m_dirtyEnd)
                     THEN Element(m_Tensors[i]) ELSE pinned[i]]

\* The descriptors of the tensors in the batch.
Contents == [i \in Span(0, m_numTensors) |-> Element(m_Tensors[i])]

\* Mutant: exportData does not wait for the fence.
exportDataUnfenced(s) ==
    /\ m_dirtyBegin < m_dirtyEnd
    /\ pinned' = Staged
    /\ m_evPostFence' = [stream |-> s, begin |-> m_dirtyBegin,
                         end |-> m_dirtyEnd, data |-> pinned']
    /\ copies' = copies \cup {m_evPostFence'}
    /\ m_dirtyBegin' = m_dirtyEnd
    /\ exported' = [stream |-> s, elems |-> Contents]
    /\ UNCHANGED <<m_Tensors, m_numTensors, m_dirtyEnd, attrs, dev, refCount, clientRefs>>

\* exportData with a dirty range: waits for the previous copy, stages the
\* descriptors, starts the copy on stream s and records the fence behind it.
exportData(s) ==
    /\ m_dirtyBegin < m_dirtyEnd
    /\ m_evPostFence = NoCopy
    /\ pinned' = Staged
    /\ m_evPostFence' = [stream |-> s, begin |-> m_dirtyBegin,
                         end |-> m_dirtyEnd, data |-> pinned']
    /\ copies' = copies \cup {m_evPostFence'}
    /\ m_dirtyBegin' = m_dirtyEnd
    /\ exported' = [stream |-> s, elems |-> Contents]
    /\ UNCHANGED <<m_Tensors, m_numTensors, m_dirtyEnd, attrs, dev, refCount, clientRefs>>

\* Mutant: the range is marked clean before the copy is started.
exportFailsClean ==
    /\ m_dirtyBegin < m_dirtyEnd
    /\ m_evPostFence = NoCopy
    /\ pinned' = Staged
    /\ m_dirtyBegin' = m_dirtyEnd
    /\ UNCHANGED <<m_Tensors, m_numTensors, m_dirtyEnd, attrs, gpu,
                   refCount, clientRefs, exported>>

\* exportData throws because the copy could not be started.
exportFails ==
    /\ m_dirtyBegin < m_dirtyEnd
    /\ m_evPostFence = NoCopy
    /\ pinned' = Staged
    /\ UNCHANGED <<m_Tensors, m_numTensors, dirty, attrs, gpu,
                   refCount, clientRefs, exported>>

\* exportData with nothing dirty returns the device array as it is.
exportClean(s) ==
    /\ m_dirtyBegin >= m_dirtyEnd
    /\ exported' = [stream |-> s, elems |-> Contents]
    /\ UNCHANGED <<m_Tensors, m_numTensors, dirty, attrs, pinned, gpu,
                   refCount, clientRefs>>

\* The GPU performs copy c, reading the staging array as it is now, and
\* signals the event if it was recorded behind c.
CopyDone(c) ==
    /\ dev' = [i \in Slots |-> IF i \in Span(c.begin, c.end)
                               THEN pinned[i] ELSE dev[i]]
    /\ copies' = copies \ {c}
    /\ m_evPostFence' = IF m_evPostFence = c THEN NoCopy ELSE m_evPostFence
    /\ UNCHANGED <<m_Tensors, m_numTensors, dirty, attrs, pinned,
                   refCount, clientRefs, exported>>

\* The client gives up one of its references (nvcvTensorDecRef).
ReleaseTensor(t) ==
    /\ clientRefs[t] > 0
    /\ clientRefs' = [clientRefs EXCEPT ![t] = @ - 1]
    /\ refCount' = [refCount EXCEPT ![t] = @ - 1]
    /\ UNCHANGED <<m_Tensors, m_numTensors, dirty, attrs, buffers>>

\* Destruction releases the tensors and frees the buffers; freeing device and
\* pinned memory with the default allocator waits for the GPU.  The client
\* then constructs another batch.
cleanUp ==
    /\ copies = {}
    /\ m_evPostFence' = NoCopy
    /\ refCount' = [t \in Tensors |-> refCount[t] - InBatch(0, m_numTensors, t)]
    /\ m_Tensors' = [i \in Slots |-> NoTensor]
    /\ m_numTensors' = 0
    /\ m_dirtyBegin' = 0
    /\ m_dirtyEnd' = 0
    /\ attrs' = NoKind
    /\ pinned' = [i \in Slots |-> Garbage]
    /\ dev' = [i \in Slots |-> Garbage]
    /\ exported' = [stream |-> exported.stream, elems |-> <<>>]
    /\ UNCHANGED <<copies, clientRefs>>

Next ==
    \/ \E ts \in Args : pushTensors(ts)
    \/ \E ts \in Args : pushRejected(ts)
    \/ \E n \in 0 .. Capacity : popTensors(n)
    \/ \E index \in Slots, n \in 1 .. MaxArgs : getTensors(index, n)
    \/ \E index \in 0 .. Capacity, ts \in Args : setTensors(index, ts)
    \/ clear
    \/ \E s \in Streams : exportData(s)
    \/ exportFails
    \/ \E s \in Streams : exportClean(s)
    \/ \E c \in copies : CopyDone(c)
    \/ \E t \in Tensors : ReleaseTensor(t)
    \/ cleanUp

Spec == Init /\ [][Next]_vars
-----------------------------------------------------------------------------
\* Types, and the range that exportData walks: it lies within the batch, so
\* no released or unset handle is ever dereferenced.
TypeOK ==
    /\ m_Tensors \in [Slots -> Tensors \cup {NoTensor}]
    /\ m_numTensors \in 0 .. Capacity
    /\ m_dirtyEnd \in 0 .. m_numTensors
    /\ m_dirtyBegin \in 0 .. m_dirtyEnd
    /\ \A i \in Span(0, m_numTensors) : m_Tensors[i] \in Tensors
    /\ attrs \in Kinds \cup {NoKind}
    /\ pinned \in [Slots -> Elements \cup {Garbage}]
    /\ dev \in [Slots -> Elements \cup {Garbage}]
    /\ copies \subseteq CopyType
    /\ m_evPostFence \in CopyType \cup {NoCopy}
    /\ refCount \in [Tensors -> Nat]
    /\ clientRefs \in [Tensors -> 0 .. MaxClientRefs]

\* What device entry i holds once the copy behind the event is done.
WillHold(i) ==
    IF m_evPostFence # NoCopy /\ i \in Span(m_evPostFence.begin, m_evPostFence.end)
    THEN m_evPostFence.data[i] ELSE dev[i]

\* TensorBatch.hpp 73-74: the dirty range contains every tensor modified
\* since the last export.  So what lies outside it is on the device, or in
\* the copy on its way there, whatever pushes, pops, replacements and failed
\* exports came in between.
DirtyCoversChanges ==
    \A i \in Span(0, m_numTensors) \ Span(m_dirtyBegin, m_dirtyEnd) :
        WillHold(i) = Element(m_Tensors[i])

\* TensorBatch.cpp 116-117: the staging array is not rewritten under the copy
\* that reads it.
PinnedStable ==
    \A c \in copies : \A i \in Span(c.begin, c.end) : pinned[i] = c.data[i]

\* When the fence has been signalled, the device array holds exactly the
\* tensors that the last exportData was called with, however the batch was
\* changed since then.
ExportDelivered ==
    copies = {} => \A i \in DOMAIN exported.elems : dev[i] = exported.elems[i]

\* Every tensor in the batch has the rank, type and layout of the batch.
KindsAgree ==
    \A i \in Span(0, m_numTensors) : KindOf[m_Tensors[i]] = attrs

\* The batch holds one reference for each of its entries, and no other: a
\* tensor in the batch lives, and one that left it is not leaked.
RefsExact ==
    \A t \in Tensors : refCount[t] = clientRefs[t] + InBatch(0, m_numTensors, t)

\* At most one copy is in flight, and the event stands behind it.
CopiesFenced ==
    copies = IF m_evPostFence = NoCopy THEN {} ELSE {m_evPostFence}

\* What the last export returned is on the device or on its way there.
ExportOnItsWay ==
    /\ DOMAIN exported.elems \subseteq Slots
    /\ \A i \in DOMAIN exported.elems : WillHold(i) = exported.elems[i]

\* The inductive invariant.
IInv ==
    /\ TypeOK
    /\ KindsAgree
    /\ RefsExact
    /\ CopiesFenced
    /\ PinnedStable
    /\ DirtyCoversChanges
    /\ ExportOnItsWay
=============================================================================
