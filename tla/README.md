# A TLA+ verification of CV-CUDA (MUSA port)

This directory holds TLA+ models of the stateful core of the repository, TLC
configurations that check them on small instances, and TLAPS proofs for every
value of their constants. `PROJECT.json` lists components, runs, mutants, the
map from definitions to source lines, findings, hazards and theorems.

    tlc -workers 2 -config MCTensorBatch.cfg MCTensorBatch    # a run
    tlapm TensorBatchProofs.tla                               # a proof

## 1. The system

CV-CUDA is a library of GPU operators on images and tensors. Most of its lines
are kernels (`src/src/cvcuda/priv`), which compute on pixels and keep no state
between calls. The logic that can go wrong between calls is in the layers below
and above the kernels.

| Part | State | Operations | Talks to | What is hard | What makes it correct |
|---|---|---|---|---|---|
| `LockFreeStack` (`nvcv/src/priv`) | a head pointer with a lock bit, links in the nodes | pop, push, pushStack, release, clear | `HandleManager` | threads interleave at every access to the head; ABA; spinning | linked list = content; a node has one owner; implements a free list; a locked pop gets to unlock |
| `HandleManager` | pools of slots, free list, reference counts, generations, `usedCount`, size policy | create, incRef, decRef, validate, setFixedSize, setDynamicSize | all objects of the C API | no lock on the paths of create and decRef; two last decRefs; failing constructors; resizing | references keep objects alive; counts exact; stale handles refused; limits hold |
| `TensorBatch` | handles, dirty range, pinned staging array, device array, event, references | push, pop, set, get, clear, exportData, destroy | CUDA stream, `Tensor` references | the GPU reads the staging array while the host goes on; ranges; failure half way | exports deliver what the batch held; staging is stable under a copy; references exact |
| `ImageBatchVarShape` | handles, host and device arrays, first dirty index, caches of maximum size and unique format, event, references | push of a list, push by callback, pop, get, clear, queries, exportData, destroy | CUDA stream, `Image` references, client callbacks | as above, and callbacks that fail after some images | as above, and sound caches |
| `StreamOrderedCache`, `PerStreamCache` (`cvcuda/util`) | lists of payloads per stream with the event of their last use, a global cache, a mutex | get, put, search for what is ready, purge | workspaces | events complete while the list is searched; order of puts and of events | only what is ready is shared or freed; everything ready is found |
| `SimpleCache`, `EventCache` | list of events under a mutex | put, purge (get has no caller) | `WorkspaceCache` | nothing interleaves but the mutex | one owner of an event |
| `WorkspaceCache`, `WorkspaceMemAllocator`, `WorkspaceEstimator` | leases, count of outstanding allocations; an offset into a block | get, release, clear; acquire, get, release | operators, `PerStreamCache` | allocations and operators that fail half way; alignment | work with a block never overlaps; counts exact; the estimate covers the allocations |
| Python object `Cache` (`python/mod_cvcuda/nvcv`) | items per thread; one limit and one size for all threads | add, fetch, remove, clear, setCacheLimit, end of a thread | containers | threads share counters and not items; mutex and GIL; destructors that call the cache | the size is that of the items; the limit holds; no deadlock; one user per object |
| Python `Stream`, `StreamStack`, `Resource`, `ResourceGuard` | current streams, last stream of each resource, closures on the auxiliary stream, the bag of closures to free, the count of streams | create, activate, submitSync, holdResources, callback, sync, destroy, cleanup at exit | operators, CUDA callbacks, the object cache | callbacks on other threads, destructors that wait, failing constructors, a process-wide stack | uses of a resource are ordered; nothing is freed or reused before its last use; nothing waits forever |
| `CoreObject`, `SharedCoreObj`, `Context` | references; one manager per kind of object | construction, copies, moves | `HandleManager` | one reference per owner | no leak, no use after release |
| `Image`, `Tensor`, `Array`, wraps, `Requirements`, allocators | immutable after construction | construction, destruction | `HandleManager` | nothing interleaves | arithmetic of sizes |
| Formats, layouts, data types | none (constants, bit fields) | queries | everything | nothing interleaves | tables |
| Operators, `cuda_tools` | none between calls | kernels | batches, workspaces | floating point on the GPU | numerical, tested by the repository's own tests |

The `*_musa` directories hold generated copies of the same sources with renamed
runtime calls. The originals are modelled.

## 2. The modules

| Module | Models | Extended by | Proofs |
|---|---|---|---|
| `FreeList` | what a pool of nodes promises (abstract) | – | – |
| `LockFreeStack` | `priv/LockFreeStack.hpp` | `MCLockFreeStack` | `LockFreeStackProofs` |
| `HandleManager` | `priv/HandleManager.hpp`, `HandleManagerImpl.hpp` | `MCHandleManager` | `HandleManagerProofs` |
| `TensorBatch` | `priv/TensorBatch.cpp` | `MCTensorBatch` | `TensorBatchProofs` |
| `ImageBatchVarShape` | `priv/ImageBatchVarShape.cpp` | `MCImageBatchVarShape` | `ImageBatchVarShapeProofs` |
| `ReadyList` | what the list of one stream promises (abstract) | – | – |
| `StreamOrderedCache` | `cvcuda/util/PerStreamCacheImpl.hpp` (one list) | `MCStreamOrderedCache` | `StreamOrderedCacheProofs` |
| `PerStreamCache` | the same file (all lists and the global cache), `StreamId.cpp` | `WorkspaceCache` | `WorkspaceProofs` |
| `WorkspaceCache` | `python/mod_cvcuda/WorkspaceCache.*`, and how operators use a workspace | `MCWorkspaceCache` | `WorkspaceProofs` |
| `WorkspaceAllocator` | `cvcuda/priv/WorkspaceAllocator.hpp`, `WorkspaceEstimator.hpp`, `Workspace.hpp` | `MCWorkspaceAllocator` | `WorkspaceProofs` |
| `ResourceStream` | `python/mod_cvcuda/nvcv/Stream.cpp`, `Resource.cpp`, `StreamStack.cpp`, `ResourceGuard.hpp` | `MCResourceStream` | `ResourceStreamProofs` |
| `ObjectCache` | `python/mod_cvcuda/nvcv/Cache.cpp` | `MCObjectCache` | `ObjectCacheProofs` |

Definitions keep the names of the source; definitions that say "Mutant" are
plausible bugs that the properties must catch, and are used by nothing else.

### LockFreeStack and FreeList

Each access to `m_head` is a step of the calling thread; links are written
between accesses by the thread that owns the node, except that a pop reads
`head->next` after it set the lock bit. Weak compare-and-swaps may fail
spuriously (`PopLockFail`, `PopSwapFail`, `PushSwapFail`, `ReleaseSwapFail`).
`release` and `clear` are called under the exclusion their callers provide.
The model is sequentially consistent. The source passes `memory_order_release`
as the failure order of every `compare_exchange_weak`, which gcc (the compiler
the repository's README asks for) compiles as `seq_cst` for both outcomes.

`content` is a history variable: the sequence the stack should hold.
`FreeList` says what the manager relies on: a node is free or held by one
thread, a thread takes one node or all of them, and gives back what it holds.
`ImplementsFreeList` is `FreeList`'s specification under the mapping of free
nodes to the content and held nodes to what a thread owns or is moving.

### HandleManager

The free slots are used through what `FreeList` promises, so a pop is one step;
every access to `usedCount`, to a reference count and to the free list is a step
of its own, and a section under `mtxAlloc` is one step. `create` is the sequence
`CreateCall`, `Pop` (or `PopEmpty`, `Grow`, `GrowLocked`), `CountUsed`,
`TakeRef`, `Construct` or `ConstructFails`; `decRef` that drops the last
reference continues with `DestroyObject`, `ReturnResource`, `UncountUsed`.
Clients hold references `Refs`; a client passes only handles it holds, as the C
API requires. `past` and `limit` are history variables: `past` has the
generations of the last objects destroyed in a slot of the present pools.
`setFixedSize` deletes the pools and allocates new ones, which may get the same
addresses and start at generation 0; `past` is then empty, and what
`StaleHandleRejected` says of a slot ends there (finding 5). The generation is an
integer modulo `Generations` (16 in the code). `ConcurrentConfig` says whether
sizes may be set while other threads are inside the manager.

### TensorBatch and ImageBatchVarShape

Each call of the API is one action, with every state change it makes and its
failures; the GPU's copy (`CopyDone`) is an action of its own that happens any
time later. A copy carries what the staging memory held when it was started,
and the properties compare this with what the memory holds while the copy is in
flight. `exported` is a ghost: the stream and the contents the last export
returned. References are counted: `refCount` in all, `clientRefs` by the client,
`leaked` by nobody. A list push that fails keeps the references it took. A push
through a callback hands references over; when it fails, the batch releases
none of them, neither of the images it had accepted nor of the one it refused.
The C++ wrapper has given all of them up by then (`ImageBatchImpl.hpp:88`), so
they are lost (finding 9); a C callback may have kept its own record of them and
release them itself, as the test `push_callback_exceed_capacity` does, so the
client keeps them. `pushCallbackFails` has both outcomes, for all images of a
call alike. Descriptors are abstracted to the
tensor or image they are of, as these do not change while it lives.

Not modelled: a failing `cudaEventRecord` after a `cudaMemcpyAsync` on the same
stream has succeeded; the second memory copy of an image export (formats), which
goes with the first; argument checks of the C API that change nothing.

### StreamOrderedCache and ReadyList

The list is `1..n`, oldest to newest; `ready` is what the GPU has completed.
`Complete` may happen between any two queries of `findNewestReady`, whose
sections of `Block` items (`kMaxItemsOnStack`, 256) and binary search are
modelled statement by statement, and of the walk that is used when stream ids
are ambiguous. Queries may fail (`throws`), which ends the call by an exception
(`unwind`). `inOrder` says that events complete
in the order of the list. It is chosen at the start: a list searched by order
is in order unless `Unordered` is set. `cudaErrorCudartUnloading`, which lets a
purge go on without waiting, is left out: no work survives the runtime.

`ReadyList` is the list as its caller sees it: a call hands on ready items, and
returns only when all that were ready at the call are gone; or it fails. A purge
of a list in order finds all items ready.
`ImplementsReadyList` is its specification under the mapping of `pc` to whether a
call is going on, has failed, or neither; the steps of the search are stutters.

### PerStreamCache and WorkspaceCache

`WorkspaceCache` composes three parts: the caches, the operators on host
threads that lease blocks from them, and the GPU. `kind` is the kind of memory
(host, pinned, device), which decides by which streams a block is taken and put
back. Everything under `m_lock` is one step, except that `purge` is one step
per list, since it waits for the GPU with the lock held. `clear` purges whether or not
blocks are outstanding: its assertion that none are is not part of a release
build. `put` is two steps,
since it queries the event before it locks. `StreamOrderedCache`'s search is one
step here (`removeAllReady`): `ReadyList` says what any call of it does, the lemmas
`FindFacts` and `WalkThins` that this step does the same of what is complete at
that moment. What completes during the search of a list in order is a step of the
GPU before it or after it; in other lists, a search may miss an item that
completed after it was queried and take one that completed later still, which
the one step does not. Its loops are the recursive functions `bisect` and `walk`. A query
that fails is modelled in `StreamOrderedCache` only.

A job on the GPU is a record of its stream, its block and the jobs it comes
after; `event[m]` is the job behind which a block's event was recorded. An
operator waits for the event (`Acquire`; on the host for host and pinned
memory), launches and records (`Use`), and may throw before it has launched
anything (`UseFails`). `UseFailsLate`, a throw between launch and record, is
only part of `LateSpec`. Ids may be ambiguous (`hint` maps two streams to one
list) or not (`precise`), chosen at the start. The blocks bound the
allocations, so a get that would need one more waits (`Fresh`).

Ghosts: `lost` counts gets that failed, `abandoned` are blocks freed by a failed
get while a job used them, and `disorder` says that some list was once not in
the order in which its events complete. `disorder` happens in the code: two
threads put in another order than they recorded, `put` acts on an old answer,
and payloads without a stream share one list. The properties say what holds
without it, and `NoOverlap` holds even with it, as the operators wait
themselves.

### WorkspaceAllocator

Requirements are estimated for two calls (`add`), memory for the maximum of both
is provided, and one call takes its buffers: in the order of the estimate and
no larger (`GetPlanned`), leaving some out (`Skip`), as `HQResize` does for
uniform and varying batches, or anything else (`GetOther`, after which `strayed`
holds and the estimate promises nothing). Sizes are in bytes; `size_t`
overflow of `count * sizeof(T)` is left out, as counts are those of images that
exist. The waits and records behind `acquire` and `release` are in
`WorkspaceCache`.

### ResourceStream

A Python thread runs under the GIL until its call ends; only `sync` gives it up
inside a call. `th` is the call of a thread: `Submit` (the guard's
`submitSync` of all resources), `Launch` or `Throws`, `Commit` (emptying the
bag) and `holdResources`. Objects are destroyed by the thread that drops the
last reference, before it goes on (`Garbage`, `DestroyResource`,
`DestroyStream`), so that a destructor that waits blocks everything that needs
the GIL, and callbacks do not. References are those of Python variables (`py`),
of caches (`cacheOf`), of calls, closures, with blocks and of `m_lastStream`;
`Unused` is `isInUse` computed from them (`ObjectCache` has the count itself, and
shows that it tells the same). Constructors may fail at three places
(`NewStreamFails`), one of which leaves the count of streams too low.
Synchronising a stream (`Synced`) waits for all that is in it, what it was made
to wait for included. The
cleanup at exit is the main thread's last call; nothing runs after it. The
destructors of the streams, images and tensors that its closures held
(`ExitClean`, then `DestroyResource` and `DestroyStream`) do not give up the GIL
themselves. A wrapper of a Python object runs that
object's destructor too, which may; `ObjectCache` has this (`Switch`), this
module leaves it out. Streams
are taken to have different handles.

### ObjectCache

The mutex and the GIL are explicit, and a call is a sequence of steps: take the
mutex, do the section, unlock, drop references, perhaps construct and add.
While references are dropped, destructors may give up the GIL (`Switch`) or
call the cache again (`Drop`). A thread that ends takes the mutex without the
GIL, unlocks it and then takes the GIL. `uses` is the `use_count` of the shared
pointers to an item, and changes where pointers are made and dropped: by the
constructor of an object, by `emplace` into a cache, by a fetch, and when a
Python object or an element of a list that a call lets go is destroyed. All
Python code shares the one pointer of the Python object, so sharing does not
change the count, and it goes with the last reference (`Forget`). `isInUse`
reads the count, and the last pointer destroys the object (`Drop`); what refers
to an item (`Referenced`) is only in the property and the proof. Items of one key
may differ in size, as images of one shape with different row alignments do
(`Image.cpp:470`). The ghost `drifted` is set where the
code sets or leaves the shared size other than that of the items: a reset while
other threads hold items, and `clear` of one thread's cache. `ClearAll`, and a
reset when no other thread has items, make it right again.

## 3. The runs

| Run | Bounds | States | Shows |
|---|---|---|---|
| `stack` | 3 threads, 2 nodes | 14 298 | in every interleaving of pops, pushes, chains, releases and clears: the links are the stack's content (`ContentLinked`), the stack implements the free list (`ImplementsFreeList`), a pop that locked gets to unlock (`LockedPopReturns`) |
| `manager` | 3 threads, 2 slots, 3 references, 4 generations, limits 1 and 2 | 60 361 | references keep objects alive, counts are exact, handles of a slot's earlier objects are refused, a positive limit holds |
| `manager_config_race` | 2 threads, sizes set at any time | violation | a size set between the two halves of a `create` deletes its slot |
| `tensor_batch` | capacity 2, 3 tensors of 2 kinds, lists of up to 2, 2 streams | 974 000 | the dirty range covers all changes, staging is stable, exports are delivered, kinds agree, references are exact |
| `image_batch` | capacity 2, 3 images of which one is refused, 2 streams | 627 744 | exports are delivered, host entries are stable under a copy, caches are sound, references are exact up to those that failed pushes lose |
| `stream_cache` | lists of up to 6, sections of 2 | 135 774 | the search stays in bounds, ends, moves what is ready and only that; the list implements what its caller relies on (`ImplementsReadyList`), with queries that fail, and purges that free nothing in use |
| `workspace_cache` | 2 threads, 2 streams, 2 blocks, 3 jobs, 1 failed get, all kinds | 1 297 116 | a block is in one place, work with it never overlaps, what is shared or freed is unused, no needless allocation, the count is exact |
| `workspace_throw` | 1 thread, 2 streams, device memory | violation | a throw between launch and record lets the work of two operators overlap |
| `workspace_allocator` | 3 buffers of 3 sizes and 2 alignments for 2 calls | 1 035 985 | the estimate covers what is taken, buffers are disjoint, aligned and inside the memory |
| `resource_stream` | 2 threads, 2 streams, 1 resource, 2 jobs, 2 closures | 510 234 | uses are ordered and held, reuse is safe, no callback is lost, the cleanup is complete, calls return |
| `stream_stack` | 2 threads with with blocks | violation | the current stream was destroyed |
| `object_cache` | 2 threads, 3 items of sizes 2, 1 and 0, limits 0, 2, 3 | 1 685 876 | the size and the limit hold until they drift, the use count tells what may be handed out or removed, no deadlock |

Each module has a type invariant `TypeOK`, which is not among the listed
properties; all of them are proved. The definitions under "What the proofs
add" at the end of a module are the parts of the inductive invariant `IInv` that
are not properties of their own; TLC has checked every `IInv` with the constants
of the module's run. In `WorkspaceAllocator` these names have the prefix `Alloc`
(`AllocSpec`, `AllocTypeOK`, `AllocIInv`), as its proofs share a module with
those of `WorkspaceCache`.

**Why the bounds are enough.** Three threads are needed for a pop whose head is
taken and put back by two others (ABA); two nodes are needed for the links to
differ. Two slots and three references make slots be reused while other handles
are held, and four generations wrap within a run. A batch of two entries has a
first, a last and an entry between two changes of the range; three tensors of
two kinds let a list disagree within itself and with the batch. Six items in
sections of two give a search three sections, with a boundary that is probed
from both sides. Two blocks, two streams and three jobs let a block go from
stream to stream while another is in the same list, get in disorder, and be
purged; two threads are enough to put in the wrong order. Sizes 0, 1 and 3 with
alignments 1 and 4 leave and close gaps; the base alignment lies between them.
One resource that goes between two streams and back, with two jobs and two
closures, has work of both streams waiting and a closure of each; a second
resource only adds jobs that do not interact. Two items of one key, with one that
wraps, and limits below, between and above their sizes make every branch of
`add` happen, with the size below zero too. Where there is a proof, the bounds
do not matter.

**Symmetry** is used for `manager` (threads, slots and references), for
`workspace_cache` (blocks, streams, threads) and for `object_cache` (threads).
None of them is distinguished by the specification, and no liveness is checked
there.

**Fairness.** In `LockFreeStack` every thread inside an operation goes on
(`WF`): operating systems schedule runnable threads. A pop's unlocking
exchange, which may fail spuriously, succeeds if tried again and again (`SF` on
`PopSwap`): while the bit is set no other thread changes the head, so only
spurious failure can repeat, and C++ implementations do not fail forever. In
`StreamOrderedCache` the thread that holds the lock goes on (`WF` on `Host`);
the GPU is not assumed to make progress. In `ResourceStream` the GPU completes
what it can and calls back (`WF` on `Complete` and `Callback`), and the thread
that has the GIL goes on when it can (`WF` on its operator calls, destructors,
its release of the GIL and the cleanup); no thread is assumed to start a call
or to get the GIL. The other runs check safety only.

**Deadlock** is checked except where the system ends: after the cleanup at exit
(`resource_stream`, `stream_stack`), when all threads have ended
(`object_cache`, whose `NeverStuck` says more than the absence of deadlock) and
when a call has released its memory (`workspace_allocator`).

## 4. What is proved

The proofs use SMT, Zenon and, for the temporal steps, LS4.

*LockFreeStack*, for any threads and any finite set of nodes. The inductive
invariant relates the links to `content` (following `next` from the head gives
the content in order, and the last link is null), says who owns each node, and
what a pop that holds the lock bit has read: its `old` is the head, its `new`
the head's link. That last part is why pop is free of ABA. From it:
`ListIsContent`, `NodesHaveOneOwner`, `HeadIsProtected`, and
`StackImplementsFreeList`, the refinement.

*TensorBatch*, for every capacity, any tensors and streams, any length of
calls. `IInv` adds to the properties that at most one copy is in flight and the
fence stands behind it (`CopiesFenced`), and that outside the dirty range the
device array holds, or is about to hold, what the batch holds
(`ExportOnItsWay`). References are counted with cardinalities of index sets;
the lemmas `CountSplit`, `CountSame` and `CountWritten` say how a count changes
when a range is written. From it: `BatchTyping`, `ChangesAreDirty`,
`StagingIsStable`, `ExportsAreDelivered`, `TensorsAgree`, `ReferencesAreExact`.

*StreamOrderedCache*, for lists of any length and sections of any size. `IInv`
says what the search knows at each statement: in the binary search, that `hi`
is past the end or at an item seen ready, that the oldest item of the section
was seen ready, hence `lo` never passes it, and that, in a list in order,
everything that was ready at the call is not newer than `lo`. The lemmas
`WithoutElements` and `BeyondElements` say what removal does to indices. From
it: `SearchInBounds` (for any order of completion), `OnlyReadyIsMoved` (under
`~Unordered`), `AllReadyIsMoved`, and `ListKeepsItsPromise`, the
refinement of `ReadyList` (under `~Unordered`).

*HandleManager*, for any finite sets of threads, slots and references and any
number of generations, when sizes are not set while other threads are inside
the manager (`~ConcurrentConfig`; run `manager_config_race` shows why).
`SlotsApart` says that a slot is free, with one thread, or has an object, and
never two of these, which no single counter says; the counts are cardinalities
of sets, and `UsedStep`, `NewRef` and `DroppedRef` say how a step changes them.
`PastInOrder` says that the generations of a slot's destroyed objects lead up to
its present one without a gap: a handle from fewer than `Generations` objects
ago differs from it although generations wrap. It says so of a slot, from the
`doAllocate` that made it: `StaleHandles` claims nothing of the handles of an
address that `setFixedSize` freed and allocated again (finding 5). From it:
`Typing`, `SlotOwnership`, `HandlesStayValid`, `RefCounting`, `UseCounting`,
`StaleHandles`; and with `LimitEnforced`, for limits other than 0 (finding 4),
`HardLimitHolds`.

*ImageBatchVarShape*, for every capacity, any images and streams. The argument
is that of `TensorBatch` with a first dirty index instead of a range:
`HostWritten`, `CleanBelowDirty` and `ExportOnItsWay` say where each entry is
between the host array, a copy in flight and the device. From it:
`ImageBatchTyping`, `HostIsStable`, `ImageExportsAreDelivered`,
`CachesAreSound`, `ImageReferencesAreExact`.

*WorkspaceCache* with *PerStreamCache*, for any finite sets of threads, streams
and blocks, any requirements and number of jobs, all kinds of memory.
`UsersOrdered` says that the jobs that use a block follow one another and that
the block's event stands behind all of them; `EventsSeen` that what a thread
has learnt about the event of its block is still true when it acts on it;
`ListsInOrder` that the lists are in the order in which events complete unless
`disorder` is set. The lemmas `BisectFacts`, `FindFacts` and `WalkThins` say
what the searches return in lists of any length (by least counterexample), and
the `Placed` lemmas how a step moves a block from place to place. From it:
`CacheTyping`, `BlocksAreInOnePlace`, `WorkNeverOverlaps`,
`GlobalBlocksAreUnused`, `PurgeFreesUnused`, `OutstandingIsExact` and the action
property `MissesAreReal`.

*WorkspaceAllocator*, for any sizes, any number of buffers and any alignments of
which each divides the larger ones, as powers of two do. `Room` says that offsets
exist at which what is left of a plan fits into what is left of the memory. It is
monotone in both ends (`EndFromMonotone`), which is why a smaller or a left out
buffer does no harm. From it: `AllocatorTyping`, `BuffersAreDisjoint`,
`EstimateSuffices`.

*ResourceStream*, for any threads, streams, resources, jobs and closures.
`UsesPending` says that all work that uses a resource is in the stream it was
used on last, or before something there: `submitSync` makes the next stream wait
for just that, so the order is kept without any record of the uses themselves.
`RefsLive` says that all that is referred to lives, and `GilHeld` that a call
that is past its start has the GIL, hence at most one call holds work without a
closure. From it: `StreamTyping`, `WorkOnResourceIsOrdered`, `WorkIsHeld`,
`AuxStreamOutlivesClosures`, `CleanupLeavesNothing`, and the action property
`ReusedIsIdle`.

*ObjectCache*, for any threads, any finite set of items of any sizes, any
keys and limits. The size of a set of items is a fold of the library, which
picks the items in an order of its own; the lemmas `SumExists`, `SumUnique` and
`BytesRecursion` show, by least counterexample on the cardinality, that the fold
has a value and that no order matters, and `BytesUnion`, `BytesRemove` and
`BytesDifference` that it adds up over sets. `IInv` says where the mutex and the
GIL are at each step of a call (`MutexInside`, `UnderGIL`), what a call still
holds in its arguments (`Arguments`), that an item under construction is nobody
else's (`NewUnowned`), that an item is in one thread's cache only (`OneCache`),
and that an ended thread has nothing (`Exited`). `Counted` adds that the
`use_count` is the number of the pointers of caches, Python objects, calls that
let go and calls that make an object (`UsesExact`, with the number of such calls
as a cardinality), and that a call that finds something still to let go was made
by a destructor (`LetGoFirst`), which is why a section that lets a cache's items
go never has a pointer to one of them already. Without the count, that an object
is destroyed by the last pointer says nothing of who refers to it, so even the
typing rests on it. From it: `ObjectCacheTyping`,
`SizeIsTracked` and `LimitIsKept` (as long as the size has not drifted, finding
13), `UseCountIsExact`, the action property `FetchedIsExclusive`, which follows
from the count (`UnusedIs`), and `NoThreadsAwaitEachOther`: the
thread with the GIL can go on, or waits for the mutex of one that can. Its
statement `NoWaitCycle` is `NeverStuck` with the guards of the steps written out
(`Unblocked`) in place of ENABLED; TLC has checked that `Unblocked` and ENABLED
agree in every reachable state.

Assumptions: the named `ASSUME`s of the modules, which say that sizes are
natural numbers, sets are finite, alignments divide one another and the "none"
values are not members of the sets they stand beside; and, for `HandleManager`,
those above. The bounds of the models (`MaxJobs`, `MaxClosures`, ...) are
arbitrary natural numbers.

Only model-checked: liveness (`LockedPopReturns`, `SearchReturns`,
`CallsReturn`) and `NeverStuck`, which uses ENABLED, both out of the prover's
reach. That the search of a list in order may be replaced by one step, as
`PerStreamCache` does, is argued in section 2 and not proved.

## 5. Findings

With a violation run; `PROJECT.json` quotes the lines on both sides.

1. `setFixedSize` and `setDynamicSize` race with `create`: the test of
   `usedCount` misses a slot that was popped and not yet counted
   (`HandleManagerImpl.hpp:304`, `:412`; run `manager_config_race`).
2. Operators record the event of their workspace in their last statement. One
   that throws after a launch (`pillow_resize_var_shape.cu:493`,
   `OpHQResize.cu:2305`) returns the block as ready while its work goes on (run
   `workspace_throw`). `WorkspaceMemAllocator`'s destructor would record it, but
   `HQResize` builds the allocator without a release stream.
3. The stack of current streams is one for all threads, while the documentation
   says "for this thread": overlapping with blocks leave a destroyed stream on
   top (`StreamStack.cpp:24`; run `stream_stack`).

Met while modelling; the models have the behaviour, and the properties are
stated so that they hold with it:

4. `setFixedSize(0)` does not limit anything: it compares with a capacity that
   is never assigned (`HandleManagerImpl.hpp:311`); `HardLimit` holds for
   positive limits.
5. `setFixedSize` deletes the pools and allocates new ones, which may have the
   same addresses and whose generations start at 0 again
   (`HandleManagerImpl.hpp:316`, `:77`). A handle of the first object of the old
   slot is then accepted for the first object of the new one, after a single
   reuse, against `HandleManager.hpp:72` ("We allow the resource to be reused up
   to 16 times, the corresponding handle will have a different value each
   time"); `StaleHandleRejected` holds within the life of a pool.
6. A rejected first `pushTensors` leaves rank, type and layout in an empty batch
   (`TensorBatch.cpp:201`, against `TensorBatch.h:236`, `:250`, `:262`).
7. An export with nothing dirty does not order its stream behind a copy in
   flight on another one (`TensorBatch.cpp:114`, `ImageBatchVarShape.cpp:227`).
8. A failed `pushImages` leaves the sizes of the dropped images in the size
   cache, and the references it took (`ImageBatchVarShape.cpp:286`, against
   `ImageBatch.h:245`); `CachesSound` says what holds: the size is never too
   small.
9. When a push through a callback fails, only the number of images is restored
   (`ImageBatchVarShape.cpp:318`): the references of the images accepted before
   and of the one refused are released by nobody, although `ImageBatch.hpp:172`
   says that the callback transfers them, and the wrapper in
   `ImageBatchImpl.hpp:88`, `:136` has given them up. The images are never
   destroyed. `RefsExact` counts them as `leaked`.
10. The unique format is not found again when the image that differed is popped
    (`ImageBatchVarShape.cpp:403`, against `ImageBatch.h:264`); `CachesSound`
    says what holds: a format it reports is that of all images.
11. Payloads put without a stream share one list, which is searched as if it were
    in order (`PerStreamCacheImpl.hpp:314`), and `put` can make a list of one
    stream disorderly (`:308`, `:319`). The global cache may then hold blocks in
    use (the exceptions in `GlobalReady` and `FreedUnused`), and `purge` frees
    them without a wait. Operators wait themselves, so their work still does not
    overlap (`NoOverlap`).
12. A get that fails stays counted as outstanding (`WorkspaceCache.hpp:144`,
    `WorkspaceCache.cpp:73`), after which `clear` asserts in a debug build;
    and when the get of a second kind fails, the first block is freed even if a
    job of the stream it came from still uses it (`abandoned`). `m_eventCache` is
    only filled and purged: `create` never takes an event from it.
13. `add` and `setCacheLimit` reset the shared size to zero while other threads
    hold items, and `clear` of one thread's cache leaves it raised
    (`Cache.cpp:148`, `:281`, `:248`). Later subtractions can make it negative,
    and the limit is then not enforced; `SizeTracked` and `LimitKept` hold as
    long as this has not happened (`drifted`).

## 6. Not modelled, and what is left

Operators and GPU kernels compute on floating-point data. Formats, layouts and
data types are tables. Images, tensors, arrays, requirements and allocators are
sequential arithmetic with no state beyond their lifetime. `SimpleCache::get`
has no caller in the library. The `*_musa` copies are generated. These are by
far most of the repository's lines (the kernels, `CvCudaLegacy.h`, the bundled
`stb_truetype.h`, and a generated copy of each), so the map names a small share
of all lines although it covers the stateful core. What is left out inside the
modelled parts: CUDA errors inside `holdResources`, which is called by a
destructor and ends the program; destructors that change the map during
`Cache::clear`, or call the cache from a thread whose cache is gone; the
destructor of `HandleManager`, which reports leaks; a `cudaEventRecord` that
fails after the copy of a batch was started (`TensorBatch.cpp:138`), which takes
the same stream; custom free functions that do not wait for the device, when a
batch is destroyed under a copy (`TensorBatch.cpp:97`); and `doGrow`'s test of
the size policy before its lock (`HandleManagerImpl.hpp:392`), which matters
only when sizes are set concurrently, where finding 1 shows that nothing is
safe.

What is left: `PerStreamCache` with each query of a search as a step of its own,
through `ReadyList`, so that searches of lists out of order and failing queries
are part of the composition too.
