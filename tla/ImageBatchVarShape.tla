------------------------- MODULE ImageBatchVarShape -------------------------
(***************************************************************************)
(* The batch of images of different shapes                                 *)
(* (src/src/nvcv/src/priv/ImageBatchVarShape.cpp): image handles, a host   *)
(* array of their descriptors and formats that exportData copies to the    *)
(* device from the first dirty index on, and two caches, of the maximum    *)
(* size and of the format all images share.  One client calls the batch;   *)
(* the GPU copies whenever it likes.  Calls that throw before they change  *)
(* anything are stuttering steps.                                          *)
(***************************************************************************)
EXTENDS Integers, Sequences, FiniteSets, FiniteSetsExt, Functions

CONSTANTS
    Images,         \* image handles
    FormatOf,       \* the format of each image
    SizeOf,         \* the width and height of each image
    BadImages,      \* images doPushImage refuses: not pitch-linear, or not on the GPU
    Capacity,       \* NVCVImageBatchVarShapeRequirements::capacity
    Streams,        \* CUDA streams
    MaxArgs,        \* bound: images in one call
    MaxClientRefs,  \* bound: references the client holds to one image
    MaxLeaked,      \* bound: references lost to failed pushes, for one image
    NoImage,        \* a null handle
    FmtNone,        \* NVCV_IMAGE_FORMAT_NONE
    Nullopt,        \* std::nullopt, a cache that must be recomputed
    Garbage         \* memory never written

ASSUME CapacityAssumption == Capacity \in Nat
ASSUME BoundsAssumption ==
    MaxArgs \in Nat /\ MaxClientRefs \in Nat \ {0} /\ MaxLeaked \in Nat
ASSUME ImagesAssumption ==
    /\ DOMAIN FormatOf = Images /\ FmtNone \notin Range(FormatOf)
    /\ SizeOf \in [Images -> [w : Nat, h : Nat]]
    /\ BadImages \subseteq Images

VARIABLES
    m_imgHandleBuffer,
    m_numImages,
    m_dirtyStartingFromIndex,
    host,                 \* m_hostImagesBuffer and m_hostFormatsBuffer
    dev,                  \* m_devImagesBuffer and m_devFormatsBuffer
    copies,               \* copies in flight, in the order they will happen
    m_cacheMaxSize,
    m_cacheUniqueFormat,
    refCount,             \* references to each image
    clientRefs,           \* of those, the ones the client holds
    leaked,               \* ghost: of those, the ones nobody will release
    exported              \* ghost: stream and entries of the last exportData

vars == <<m_imgHandleBuffer, m_numImages, m_dirtyStartingFromIndex, host, dev, copies,
          m_cacheMaxSize, m_cacheUniqueFormat, refCount, clientRefs,
          leaked, exported>>
batch == <<m_imgHandleBuffer, m_numImages, m_dirtyStartingFromIndex, host>>
gpu == <<dev, copies>>
caches == <<m_cacheMaxSize, m_cacheUniqueFormat>>
refs == <<refCount, clientRefs, leaked>>

Slots == 0 .. Capacity - 1
Span(b, e) == b .. e - 1
ZeroSize == [w |-> 0, h |-> 0]

\* The strided buffer and the format that are written for an image.
Entry(img) == [buffer |-> img, format |-> FormatOf[img]]
Entries == {Entry(img) : img \in Images}

Args == UNION {[1 .. n -> Images] : n \in 1 .. MaxArgs}
InArgs(imgs, img) == Cardinality({j \in DOMAIN imgs : imgs[j] = img})
InBatch(b, e, img) == Cardinality({i \in Span(b, e) : m_imgHandleBuffer[i] = img})

\* The maximum of a size and the sizes of a set of images, by component.
MaxSizeOver(size, S) ==
    [w |-> Max({size.w} \cup {SizeOf[img].w : img \in S}),
     h |-> Max({size.h} \cup {SizeOf[img].h : img \in S})]

\* The images in the batch.
Batched == {m_imgHandleBuffer[i] : i \in Span(0, m_numImages)}

\* fmt if every image of S has that format, else NVCV_IMAGE_FORMAT_NONE.
Narrowed(fmt, S) ==
    IF \A img \in S : FormatOf[img] = fmt THEN fmt ELSE FmtNone
-----------------------------------------------------------------------------
\* The constructor.
Init ==
    /\ m_imgHandleBuffer = [i \in Slots |-> NoImage]
    /\ m_numImages = 0
    /\ m_dirtyStartingFromIndex = 0
    /\ host = [i \in Slots |-> Garbage]
    /\ dev = [i \in Slots |-> Garbage]
    /\ copies = <<>>
    /\ m_cacheMaxSize = ZeroSize
    /\ m_cacheUniqueFormat = Nullopt
    /\ refCount = [img \in Images |-> 1]
    /\ clientRefs = [img \in Images |-> 1]
    /\ leaked = [img \in Images |-> 0]
    /\ exported = [stream |-> CHOOSE s \in Streams : TRUE, entries |-> <<>>]

\* Mutant: the host array is written without waiting for the copies.
FenceIgnored == TRUE

\* Pushes wait until the host array is free to be written: the event was
\* recorded behind the last copy, and each copy waits for the one before it.
Fence == copies = <<>>

\* doPushImage for each image of imgs in turn: the arrays and the caches.  An
\* image that becomes the only one of the batch restarts the caches.
doPushImages(imgs) ==
    /\ LET written == Span(m_numImages, m_numImages + Len(imgs)) IN
       /\ m_imgHandleBuffer' = [i \in Slots |-> IF i \in written THEN imgs[i - m_numImages + 1]
                                                ELSE m_imgHandleBuffer[i]]
       /\ host' = [i \in Slots |-> IF i \in written THEN Entry(imgs[i - m_numImages + 1])
                                   ELSE host[i]]
    /\ m_cacheMaxSize' =
          CASE imgs = <<>> -> m_cacheMaxSize
            [] imgs # <<>> /\ m_numImages = 0 -> MaxSizeOver(ZeroSize, Range(imgs))
            [] OTHER -> IF m_cacheMaxSize = Nullopt THEN Nullopt
                        ELSE MaxSizeOver(m_cacheMaxSize, Range(imgs))
    /\ m_cacheUniqueFormat' =
          CASE imgs = <<>> -> m_cacheUniqueFormat
            [] imgs # <<>> /\ m_numImages = 0 -> Narrowed(FormatOf[imgs[1]], Range(imgs))
            [] OTHER -> IF m_cacheUniqueFormat = Nullopt THEN Nullopt
                        ELSE Narrowed(m_cacheUniqueFormat, Range(imgs))

\* doPushImage throws on image k of imgs: the ones before it were accepted.
FailsAt(imgs, k) ==
    /\ imgs[k] \in BadImages
    /\ \A j \in 1 .. k - 1 : imgs[j] \notin BadImages

\* pushImages with a list: the batch takes its own references.
pushImages(imgs) ==
    /\ \A img \in Range(imgs) : clientRefs[img] > 0 /\ img \notin BadImages
    /\ m_numImages + Len(imgs) <= Capacity
    /\ Fence
    /\ doPushImages(imgs)
    /\ m_numImages' = m_numImages + Len(imgs)
    /\ refCount' = [img \in Images |-> refCount[img] + InArgs(imgs, img)]
    /\ UNCHANGED <<m_dirtyStartingFromIndex, gpu, clientRefs, leaked, exported>>

\* One image of the list is refused: only the number of images is restored.
\* The references taken for the images before it are not given back.
pushImagesFails(imgs) ==
    /\ \A img \in Range(imgs) : clientRefs[img] > 0
    /\ m_numImages + Len(imgs) <= Capacity
    /\ Fence
    /\ \E k \in DOMAIN imgs :
          /\ FailsAt(imgs, k)
          /\ doPushImages(SubSeq(imgs, 1, k - 1))
          /\ refCount' = [img \in Images |->
                refCount[img] + InArgs(SubSeq(imgs, 1, k - 1), img)]
          /\ leaked' = [img \in Images |->
                leaked[img] + InArgs(SubSeq(imgs, 1, k - 1), img)]
    /\ \A img \in Images : leaked'[img] <= MaxLeaked
    /\ UNCHANGED <<m_numImages, m_dirtyStartingFromIndex, gpu, clientRefs, exported>>

\* Mutant: the images of a callback are referenced like those of a list.
pushCallbackRetains(imgs) ==
    /\ \A img \in Images : clientRefs[img] >= InArgs(imgs, img)
    /\ \A img \in Range(imgs) : img \notin BadImages
    /\ m_numImages + Len(imgs) <= Capacity
    /\ Fence
    /\ doPushImages(imgs)
    /\ m_numImages' = m_numImages + Len(imgs)
    /\ clientRefs' = [img \in Images |-> clientRefs[img] - InArgs(imgs, img)]
    /\ refCount' = [img \in Images |-> refCount[img] + InArgs(imgs, img)]
    /\ UNCHANGED <<m_dirtyStartingFromIndex, gpu, leaked, exported>>

\* pushImages with a callback: the callback hands its references over.
pushCallback(imgs) ==
    /\ \A img \in Images : clientRefs[img] >= InArgs(imgs, img)
    /\ \A img \in Range(imgs) : img \notin BadImages
    /\ m_numImages + Len(imgs) <= Capacity
    /\ Fence
    /\ doPushImages(imgs)
    /\ m_numImages' = m_numImages + Len(imgs)
    /\ clientRefs' = [img \in Images |-> clientRefs[img] - InArgs(imgs, img)]
    /\ UNCHANGED <<m_dirtyStartingFromIndex, gpu, refCount, leaked, exported>>

\* The last image of those the callback has returned is refused, or is one too
\* many: only the number of images is restored.  No reference is given back, so
\* the client has them all if it remembers the handles (TestImageBatch.cpp,
\* push_callback_exceed_capacity), and none of them if the callback released
\* them as it returned them, as that of ImageBatchVarShape::pushBack does.
pushCallbackFails(imgs) ==
    /\ \A img \in Images : clientRefs[img] >= InArgs(imgs, img)
    /\ Fence
    /\ \/ FailsAt(imgs, Len(imgs)) /\ m_numImages + Len(imgs) - 1 < Capacity
       \/ /\ m_numImages + Len(imgs) - 1 = Capacity
          /\ \A j \in 1 .. Len(imgs) - 1 : imgs[j] \notin BadImages
    /\ doPushImages(SubSeq(imgs, 1, Len(imgs) - 1))
    /\ \/ UNCHANGED <<clientRefs, leaked>>
       \/ /\ clientRefs' = [img \in Images |-> clientRefs[img] - InArgs(imgs, img)]
          /\ leaked' = [img \in Images |-> leaked[img] + InArgs(imgs, img)]
          /\ \A img \in Images : leaked'[img] <= MaxLeaked
    /\ UNCHANGED <<m_numImages, m_dirtyStartingFromIndex, gpu, refCount, exported>>

popImages(n) ==
    /\ n \in 0 .. m_numImages
    /\ refCount' = [img \in Images |->
          refCount[img] - InBatch(m_numImages - n, m_numImages, img)]
    /\ m_numImages' = m_numImages - n
    /\ m_dirtyStartingFromIndex' =
          IF m_dirtyStartingFromIndex > m_numImages' THEN m_numImages'
                                                     ELSE m_dirtyStartingFromIndex
    /\ m_cacheMaxSize' = Nullopt
    /\ m_cacheUniqueFormat' = IF m_numImages' = 0 THEN Nullopt ELSE m_cacheUniqueFormat
    /\ UNCHANGED <<m_imgHandleBuffer, host, gpu, clientRefs, leaked, exported>>

\* The client receives a reference to each image returned.
getImages(b, n) ==
    /\ b \in 0 .. m_numImages - n
    /\ LET got(img) == InBatch(b, b + n, img) IN
       /\ \A img \in Images : clientRefs[img] + got(img) <= MaxClientRefs
       /\ refCount' = [img \in Images |-> refCount[img] + got(img)]
       /\ clientRefs' = [img \in Images |-> clientRefs[img] + got(img)]
    /\ UNCHANGED <<batch, gpu, caches, leaked, exported>>

clear ==
    /\ refCount' = [img \in Images |-> refCount[img] - InBatch(0, m_numImages, img)]
    /\ m_imgHandleBuffer' = [i \in Slots |-> IF i < m_numImages THEN NoImage
                                             ELSE m_imgHandleBuffer[i]]
    /\ m_numImages' = 0
    /\ m_dirtyStartingFromIndex' = 0
    /\ m_cacheMaxSize' = ZeroSize
    /\ m_cacheUniqueFormat' = Nullopt
    /\ UNCHANGED <<host, gpu, clientRefs, leaked, exported>>
-----------------------------------------------------------------------------
\* Mutant: an empty format cache takes the format of the first image.
updateFirstFormat ==
    IF m_cacheMaxSize # Nullopt /\ m_cacheUniqueFormat # Nullopt
    THEN UNCHANGED caches
    ELSE /\ m_cacheMaxSize' =
               MaxSizeOver(IF m_cacheMaxSize = Nullopt THEN ZeroSize ELSE m_cacheMaxSize, Batched)
         /\ m_cacheUniqueFormat' =
               CASE m_numImages = 0 /\ m_cacheUniqueFormat = Nullopt -> FmtNone
                 [] m_numImages > 0 -> FormatOf[m_imgHandleBuffer[0]]
                 [] OTHER -> m_cacheUniqueFormat

\* doUpdateCache: a cache that is valid is refined, one that is not is
\* computed from all images.
doUpdateCache ==
    IF m_cacheMaxSize # Nullopt /\ m_cacheUniqueFormat # Nullopt
    THEN UNCHANGED caches
    ELSE /\ m_cacheMaxSize' =
               MaxSizeOver(IF m_cacheMaxSize = Nullopt THEN ZeroSize ELSE m_cacheMaxSize, Batched)
         /\ m_cacheUniqueFormat' =
               CASE m_numImages = 0 /\ m_cacheUniqueFormat = Nullopt -> FmtNone
                 [] m_numImages > 0 /\ m_cacheUniqueFormat = Nullopt ->
                       Narrowed(FormatOf[m_imgHandleBuffer[0]], Batched)
                 [] OTHER -> Narrowed(m_cacheUniqueFormat, Batched)

\* maxSize and uniqueFormat.
queryCaches ==
    /\ doUpdateCache
    /\ UNCHANGED <<batch, gpu, refs, exported>>

\* The entries of the images in the batch.
Contents == [i \in Span(0, m_numImages) |-> Entry(m_imgHandleBuffer[i])]

\* Mutant: one entry too few is copied.
exportShort(s) ==
    /\ IF m_dirtyStartingFromIndex < m_numImages
       THEN /\ copies' = Append(copies, [stream |-> s, begin |-> m_dirtyStartingFromIndex,
                                         end |-> m_numImages - 1, data |-> host])
            /\ m_dirtyStartingFromIndex' = m_numImages
       ELSE UNCHANGED <<copies, m_dirtyStartingFromIndex>>
    /\ doUpdateCache
    /\ exported' = [stream |-> s, entries |-> Contents]
    /\ UNCHANGED <<m_imgHandleBuffer, m_numImages, host, dev, refs>>

\* exportData: the dirty entries are copied on stream s, behind the copies of
\* earlier exports (cudaStreamWaitEvent), and the event is recorded.
exportData(s) ==
    /\ IF m_dirtyStartingFromIndex < m_numImages
       THEN /\ copies' = Append(copies, [stream |-> s, begin |-> m_dirtyStartingFromIndex,
                                         end |-> m_numImages, data |-> host])
            /\ m_dirtyStartingFromIndex' = m_numImages
       ELSE UNCHANGED <<copies, m_dirtyStartingFromIndex>>
    /\ doUpdateCache
    /\ exported' = [stream |-> s, entries |-> Contents]
    /\ UNCHANGED <<m_imgHandleBuffer, m_numImages, host, dev, refs>>

\* The GPU performs the next copy, reading the host array as it is now.
CopyDone ==
    /\ copies # <<>>
    /\ dev' = [i \in Slots |-> IF i \in Span(Head(copies).begin, Head(copies).end)
                               THEN host[i] ELSE dev[i]]
    /\ copies' = Tail(copies)
    /\ UNCHANGED <<batch, caches, refs, exported>>

\* The client gives up one of its references (nvcvImageDecRef).
ReleaseImage(img) ==
    /\ clientRefs[img] > 0
    /\ clientRefs' = [clientRefs EXCEPT ![img] = @ - 1]
    /\ refCount' = [refCount EXCEPT ![img] = @ - 1]
    /\ UNCHANGED <<batch, gpu, caches, leaked, exported>>

\* The destructor waits for the copies and clears the batch; the client then
\* constructs another one.
Destroy ==
    /\ Fence
    /\ refCount' = [img \in Images |-> refCount[img] - InBatch(0, m_numImages, img)]
    /\ m_imgHandleBuffer' = [i \in Slots |-> NoImage]
    /\ m_numImages' = 0
    /\ m_dirtyStartingFromIndex' = 0
    /\ host' = [i \in Slots |-> Garbage]
    /\ dev' = [i \in Slots |-> Garbage]
    /\ m_cacheMaxSize' = ZeroSize
    /\ m_cacheUniqueFormat' = Nullopt
    /\ exported' = [stream |-> exported.stream, entries |-> <<>>]
    /\ UNCHANGED <<copies, clientRefs, leaked>>

Next ==
    \/ \E imgs \in Args : pushImages(imgs)
    \/ \E imgs \in Args : pushImagesFails(imgs)
    \/ \E imgs \in Args : pushCallback(imgs)
    \/ \E imgs \in Args : pushCallbackFails(imgs)
    \/ \E n \in 0 .. Capacity : popImages(n)
    \/ \E b \in Slots, n \in 1 .. MaxArgs : getImages(b, n)
    \/ clear
    \/ queryCaches
    \/ \E s \in Streams : exportData(s)
    \/ CopyDone
    \/ \E img \in Images : ReleaseImage(img)
    \/ Destroy

Spec == Init /\ [][Next]_vars
-----------------------------------------------------------------------------
CopyType == [stream : Streams, begin : Nat, end : Nat,
             data : [Slots -> Entries \cup {Garbage}]]

\* Types, and the assertion of exportData that the first dirty index is not
\* beyond the end of the batch.
TypeOK ==
    /\ m_imgHandleBuffer \in [Slots -> Images \cup {NoImage}]
    /\ m_numImages \in 0 .. Capacity
    /\ m_dirtyStartingFromIndex \in 0 .. m_numImages
    /\ \A i \in Span(0, m_numImages) : m_imgHandleBuffer[i] \in Images
    /\ host \in [Slots -> Entries \cup {Garbage}]
    /\ dev \in [Slots -> Entries \cup {Garbage}]
    /\ copies \in Seq(CopyType)
    /\ m_cacheMaxSize \in [w : Nat, h : Nat] \cup {Nullopt}
    /\ m_cacheUniqueFormat \in Range(FormatOf) \cup {FmtNone, Nullopt}
    /\ refCount \in [Images -> Nat]
    /\ clientRefs \in [Images -> 0 .. MaxClientRefs]
    /\ leaked \in [Images -> 0 .. MaxLeaked]

\* The host array is not rewritten under a copy that reads it ("all pending
\* reads are finished", ImageBatchVarShape.cpp 270), not even by a push that
\* fails half way.
HostStable ==
    \A j \in DOMAIN copies :
        \A i \in Span(copies[j].begin, copies[j].end) : host[i] = copies[j].data[i]

\* Once the copies are done the device holds the images that the last export
\* returned, whatever was popped, cleared or pushed since
\* (TestImageBatch.cpp, smoke_sync).
ExportDelivered ==
    copies = <<>> =>
        \A i \in DOMAIN exported.entries : dev[i] = exported.entries[i]

\* The caches are sound for the images in the batch, whatever was popped since
\* they were computed and whichever push failed: a cached maximum size covers
\* each of them, and a cached unique format is the format of each of them.
CachesSound ==
    /\ m_cacheMaxSize # Nullopt =>
        \A img \in Batched : SizeOf[img].w <= m_cacheMaxSize.w /\ SizeOf[img].h <= m_cacheMaxSize.h
    /\ m_cacheUniqueFormat \notin {FmtNone, Nullopt} =>
        \A img \in Batched : FormatOf[img] = m_cacheUniqueFormat

\* An image lives as long as the client or the batch refers to it, whether it
\* came from a list, which the batch retains, or from a callback, which hands its
\* references over.  The only references nobody will release are those a failed
\* push of a list has taken and those a callback handed over to a push that
\* failed; popping, clearing and destroying the batch lose none and release none
\* twice.
RefsExact ==
    \A img \in Images :
        refCount[img] = clientRefs[img] + InBatch(0, m_numImages, img) + leaked[img]

-----------------------------------------------------------------------------
(* What the proofs add to these properties *)

\* Some copy in flight writes entry i of the device array.
InFlight(i) == \E j \in DOMAIN copies : i \in Span(copies[j].begin, copies[j].end)

\* Entry i of the device array has the value e, or the host array has it where
\* a copy in flight will read it.
OnItsWay(i, e) == e = IF InFlight(i) THEN host[i] ELSE dev[i]

\* The host array has the entries of the batch.
HostWritten == \A i \in Span(0, m_numImages) : host[i] = Entry(m_imgHandleBuffer[i])

\* Below the first dirty index ("up to m_numImages, we're all good",
\* ImageBatchVarShape.cpp 242) the device has, or is about to be sent, the
\* entries of the batch.
CleanBelowDirty ==
    \A i \in Span(0, m_dirtyStartingFromIndex) : OnItsWay(i, Entry(m_imgHandleBuffer[i]))

\* The last export is on its way to the device.
ExportOnItsWay == \A i \in DOMAIN exported.entries : i \in Slots /\ OnItsWay(i, exported.entries[i])

\* The inductive invariant.
IInv ==
    /\ TypeOK /\ HostStable /\ HostWritten /\ CleanBelowDirty /\ ExportOnItsWay
    /\ CachesSound /\ RefsExact
=============================================================================
