---------------------- MODULE ImageBatchVarShapeProofs ----------------------
(***************************************************************************)
(* For every capacity, any images, formats and sizes and any number of     *)
(* streams: exports are delivered, the host array is stable under copies,  *)
(* the caches are sound and references are counted exactly.                *)
(***************************************************************************)
EXTENDS ImageBatchVarShape, FiniteSetTheorems, FunctionTheorems, SequenceTheorems,
        WellFoundedInduction, TLAPS

\* A finite set of naturals that is not empty has a maximum: there would be a
\* least number of elements of a set without.
LEMMA MaxExists ==
  ASSUME NEW S \in SUBSET Nat, IsFiniteSet(S), S # {}
  PROVE  \E m \in S : \A y \in S : m >= y
  <1> DEFINE HasMax(X) == \E m \in X : \A y \in X : m >= y
             Bad == {n \in Nat : \E X \in SUBSET Nat :
                       IsFiniteSet(X) /\ X # {} /\ Cardinality(X) = n /\ ~ HasMax(X)}
  <1> SUFFICES ASSUME Bad # {} PROVE FALSE
    <2>1. CASE Bad = {}
      <3>1. Cardinality(S) \in Nat
        BY FS_CardinalityType
      <3>2. QED  BY <2>1, <3>1
    <2>2. QED  BY <2>1
  <1>1. PICK n \in Bad : \A k \in Bad : ~ (<<k, n>> \in OpToRel(<, Nat))
    BY WFMin, NatLessThanWellFounded
  <1>2. \A k \in Nat : k < n => k \notin Bad
    BY <1>1 DEF OpToRel
  <1>3. PICK X \in SUBSET Nat : IsFiniteSet(X) /\ X # {} /\ Cardinality(X) = n /\ ~ HasMax(X)
    OBVIOUS
  <1>4. PICK x \in X : TRUE
    BY <1>3
  <1>5. IsFiniteSet(X \ {x}) /\ Cardinality(X \ {x}) = n - 1 /\ n - 1 \in Nat
    <2>1. IsFiniteSet(X \ {x}) /\ Cardinality(X \ {x}) = n - 1
      BY <1>3, <1>4, FS_RemoveElement
    <2>2. QED  BY <2>1, FS_CardinalityType
  <1>6. CASE X \ {x} = {}
    <2>1. \A y \in X : y = x
      BY <1>6
    <2>2. x \in Nat
      BY <1>4
    <2>3. \A y \in X : x >= y
      BY <2>1, <2>2
    <2>4. QED  BY <1>3, <1>4, <2>3
  <1>7. CASE X \ {x} # {}
    <2>1. n - 1 \notin Bad
      BY <1>2, <1>5
    <2>2. HasMax(X \ {x})
      BY <1>5, <1>7, <2>1
    <2>3. PICK m \in X \ {x} : \A y \in X \ {x} : m >= y
      BY <2>2
    <2>4. \A y \in X : (IF m >= x THEN m ELSE x) >= y
      BY <2>3
    <2>5. QED  BY <1>3, <1>4, <2>3, <2>4
  <1>8. QED  BY <1>6, <1>7

LEMMA MaxFacts ==
  ASSUME NEW S \in SUBSET Nat, IsFiniteSet(S), S # {}
  PROVE  Max(S) \in S /\ Max(S) \in Nat /\ \A y \in S : y <= Max(S)
  <1>1. \E m \in S : \A y \in S : m >= y
    BY MaxExists
  <1>2. Max(S) \in S /\ \A y \in S : Max(S) >= y
    BY <1>1 DEF Max
  <1>3. QED  BY <1>2

\* MaxSizeOver covers the size and the images it is given.
LEMMA MaxSizeFacts ==
  ASSUME NEW size \in [w : Nat, h : Nat], NEW S \in SUBSET Images, IsFiniteSet(S)
  PROVE  /\ MaxSizeOver(size, S) \in [w : Nat, h : Nat]
         /\ size.w <= MaxSizeOver(size, S).w /\ size.h <= MaxSizeOver(size, S).h
         /\ \A img \in S : SizeOf[img].w <= MaxSizeOver(size, S).w /\ SizeOf[img].h <= MaxSizeOver(size, S).h
  <1> DEFINE W == {size.w} \cup {SizeOf[img].w : img \in S}
             H == {size.h} \cup {SizeOf[img].h : img \in S}
  <1>1. \A img \in S : SizeOf[img].w \in Nat /\ SizeOf[img].h \in Nat
    BY ImagesAssumption
  <1>2. IsFiniteSet({SizeOf[img].w : img \in S}) /\ IsFiniteSet({SizeOf[img].h : img \in S})
    <2> DEFINE w == [img \in S |-> SizeOf[img].w]
               h == [img \in S |-> SizeOf[img].h]
    <2>1. w \in Surjection(S, {SizeOf[img].w : img \in S}) /\ h \in Surjection(S, {SizeOf[img].h : img \in S})
      BY DEF Surjection
    <2>2. QED  BY <2>1, FS_Surjection
  <1>3. W \in SUBSET Nat /\ IsFiniteSet(W) /\ W # {} /\ H \in SUBSET Nat /\ IsFiniteSet(H) /\ H # {}
    <2>1. IsFiniteSet({size.w}) /\ IsFiniteSet({size.h})
      BY FS_Singleton
    <2>2. IsFiniteSet(W) /\ IsFiniteSet(H)
      BY <1>2, <2>1, FS_Union
    <2>3. QED  BY <1>1, <2>2
  <1>4. Max(W) \in Nat /\ (\A y \in W : y <= Max(W)) /\ Max(H) \in Nat /\ (\A y \in H : y <= Max(H))
    BY <1>3, MaxFacts
  <1>5. MaxSizeOver(size, S) = [w |-> Max(W), h |-> Max(H)]
    BY DEF MaxSizeOver
  <1>6. size.w \in W /\ size.h \in H /\ \A img \in S : SizeOf[img].w \in W /\ SizeOf[img].h \in H
    OBVIOUS
  <1> HIDE DEF W, H
  <1>7. MaxSizeOver(size, S).w = Max(W) /\ MaxSizeOver(size, S).h = Max(H) /\ MaxSizeOver(size, S) \in [w : Nat, h : Nat]
    BY <1>4, <1>5
  <1>8. QED  BY <1>4, <1>6, <1>7

-----------------------------------------------------------------------------
(* Sequences of images *)

\* Arguments are sequences of images, and so is what comes before one of them.
LEMMA ArgsFacts ==
  ASSUME NEW imgs \in Args
  PROVE  /\ imgs \in Seq(Images) /\ DOMAIN imgs = 1 .. Len(imgs) /\ Len(imgs) \in Nat
         /\ \A k \in DOMAIN imgs : /\ SubSeq(imgs, 1, k - 1) \in Seq(Images)
                                   /\ Len(SubSeq(imgs, 1, k - 1)) = k - 1
  <1>1. imgs \in Seq(Images)
    BY SeqDef, BoundsAssumption DEF Args
  <1>2. DOMAIN imgs = 1 .. Len(imgs) /\ Len(imgs) \in Nat
    BY <1>1, LenProperties
  <1>3. ASSUME NEW k \in 1 .. Len(imgs)
        PROVE  SubSeq(imgs, 1, k - 1) \in Seq(Images) /\ Len(SubSeq(imgs, 1, k - 1)) = k - 1
    <2>1. 1 \in Int /\ k - 1 \in Int /\ k \in Int /\ k >= 1
      BY <1>2
    <2>2. \A i \in 1 .. k - 1 : imgs[i] \in Images
      BY <1>1, <1>2
    <2>3. /\ SubSeq(imgs, 1, k - 1) \in Seq(Images)
          /\ Len(SubSeq(imgs, 1, k - 1)) = IF 1 <= k - 1 THEN (k - 1) - 1 + 1 ELSE 0
      BY <2>1, <2>2, SubSeqProperties
    <2>4. QED  BY <2>1, <2>3
  <1>4. QED  BY <1>1, <1>2, <1>3

LEMMA InArgsNat == ASSUME NEW imgs \in Seq(Images), NEW img PROVE InArgs(imgs, img) \in Nat
  <1>1. Len(imgs) \in Nat /\ DOMAIN imgs = 1 .. Len(imgs)
    BY LenProperties
  <1>2. IsFiniteSet(1 .. Len(imgs))
    BY <1>1, FS_Interval
  <1>3. IsFiniteSet({j \in DOMAIN imgs : imgs[j] = img})
    BY <1>1, <1>2, FS_Subset
  <1>4. QED  BY <1>3, FS_CardinalityType DEF InArgs

LEMMA RangeFacts ==
  ASSUME NEW imgs \in Seq(Images)
  PROVE  /\ Range(imgs) \in SUBSET Images /\ IsFiniteSet(Range(imgs))
         /\ \A i \in 1 .. Len(imgs) : imgs[i] \in Range(imgs) /\ imgs[i] \in Images
         /\ DOMAIN imgs = 1 .. Len(imgs) /\ Len(imgs) \in Nat
         /\ imgs = << >> <=> Len(imgs) = 0
         /\ imgs = << >> => Range(imgs) = {}
  <1>1. DOMAIN imgs = 1 .. Len(imgs) /\ Len(imgs) \in Nat /\ (imgs = << >> <=> Len(imgs) = 0)
    BY LenProperties, EmptySeq
  <1>2. \A i \in 1 .. Len(imgs) : imgs[i] \in Range(imgs) /\ imgs[i] \in Images
    BY <1>1, ElementOfSeq DEF Range
  <1>3. Range(imgs) \in SUBSET Images
    BY <1>1, <1>2 DEF Range
  <1>4. IsFiniteSet(Range(imgs))
    <2>1. IsFiniteSet(1 .. Len(imgs))
      BY <1>1, FS_Interval
    <2>2. imgs \in [1 .. Len(imgs) -> Images]
      BY <1>1, <1>2, SeqDef
    <2>3. imgs \in Surjection(1 .. Len(imgs), Range(imgs))
      BY <1>1, <1>2, <2>2 DEF Surjection, Range
    <2>4. QED  BY <2>1, <2>3, FS_Surjection
  <1>5. imgs = << >> => Range(imgs) = {}
    BY <1>1 DEF Range
  <1>6. QED  BY <1>1, <1>2, <1>3, <1>4, <1>5

-----------------------------------------------------------------------------
(* Counting *)

\* The entries of a from b up to e that hold img, and their number.
Where(a, b, e, img) == {i \in Span(b, e) : a[i] = img}
Count(a, b, e, img) == Cardinality(Where(a, b, e, img))

LEMMA CountType ==
  ASSUME NEW a, NEW b \in Int, NEW e \in Int, NEW img
  PROVE  /\ IsFiniteSet(Where(a, b, e, img))
         /\ Count(a, b, e, img) \in Nat
  <1>1. IsFiniteSet(b .. e - 1)
    BY FS_Interval
  <1>2. Where(a, b, e, img) \in SUBSET (b .. e - 1)
    BY DEF Span, Where
  <1>3. IsFiniteSet(Where(a, b, e, img))
    BY <1>1, <1>2, FS_Subset
  <1>4. QED  BY <1>3, FS_CardinalityType DEF Count

\* A range is counted in two parts.
LEMMA CountSplit ==
  ASSUME NEW a, NEW b \in Int, NEW m \in Int, NEW e \in Int, b <= m, m <= e, NEW img
  PROVE  Count(a, b, e, img) = Count(a, b, m, img) + Count(a, m, e, img)
  <1> DEFINE S == Where(a, b, m, img)
             T == Where(a, m, e, img)
  <1>1. IsFiniteSet(S) /\ IsFiniteSet(T)
    BY CountType
  <1>2. S \cap T = {} /\ S \cup T = Where(a, b, e, img)
    BY DEF Span, Where
  <1>3. Cardinality(S \cup T) = Cardinality(S) + Cardinality(T) - Cardinality(S \cap T)
    BY <1>1, FS_Union
  <1>4. Cardinality(S) \in Nat /\ Cardinality(T) \in Nat
    BY <1>1, FS_CardinalityType
  <1>5. Cardinality(S \cap T) = 0
    BY <1>2, FS_EmptySet, Zenon
  <1>6. Cardinality(S \cup T) = Count(a, b, e, img)
    BY <1>2, Zenon DEF Count
  <1>7. QED  BY <1>3, <1>4, <1>5, <1>6 DEF Count

LEMMA CountSame ==
  ASSUME NEW a, NEW c, NEW b, NEW e, NEW img, \A i \in Span(b, e) : a[i] = c[i]
  PROVE  Count(a, b, e, img) = Count(c, b, e, img)
  <1>1. Where(a, b, e, img) = Where(c, b, e, img)
    BY DEF Where
  <1>2. QED  BY <1>1 DEF Count

\* A range that holds the arguments is counted as they are.
LEMMA CountWritten ==
  ASSUME NEW a, NEW imgs \in Seq(Images), NEW b \in Nat, NEW img,
         \A i \in Span(b, b + Len(imgs)) : a[i] = imgs[i - b + 1]
  PROVE  /\ Count(a, b, b + Len(imgs), img) = InArgs(imgs, img)
         /\ InArgs(imgs, img) \in Nat
  <1> DEFINE S == Where(a, b, b + Len(imgs), img)
             T == {j \in DOMAIN imgs : imgs[j] = img}
             f == [i \in S |-> i - b + 1]
  <1>1. Len(imgs) \in Nat /\ DOMAIN imgs = 1 .. Len(imgs)
    BY LenProperties
  <1>2. IsFiniteSet(S)
    BY <1>1, CountType
  <1>3. \A i \in Span(b, b + Len(imgs)) : i \in Int /\ a[i] = imgs[i - b + 1] /\ i - b + 1 \in DOMAIN imgs
    BY <1>1 DEF Span
  <1>4. \A i \in S : f[i] \in T
    BY <1>3 DEF Where
  <1>5. \A i, j \in S : f[i] = f[j] => i = j
    BY <1>3 DEF Where
  <1>6. \A j \in T : \E i \in S : f[i] = j
    <2> TAKE j \in T
    <2>1. j + b - 1 \in Span(b, b + Len(imgs)) /\ (j + b - 1) - b + 1 = j
      BY <1>1 DEF Span
    <2>2. j + b - 1 \in S
      BY <1>3, <2>1 DEF Where
    <2>3. QED  BY <2>1, <2>2
  <1>7. f \in Bijection(S, T)
    BY <1>4, <1>5, <1>6 DEF Bijection, Injection, Surjection, IsInjective
  <1>8. Cardinality(T) = Cardinality(S)
    BY <1>2, <1>7, FS_Bijection DEF ExistsBijection
  <1>9. QED  BY <1>1, <1>2, <1>8, FS_CardinalityType DEF Count, InArgs

\* RefsExact in terms of Count, and the counts it speaks of.
LEMMA RefsFacts ==
  ASSUME IInv, NEW img \in Images
  PROVE  /\ refCount[img] = clientRefs[img] + Count(m_imgHandleBuffer, 0, m_numImages, img) + leaked[img]
         /\ Count(m_imgHandleBuffer, 0, m_numImages, img) \in Nat /\ m_numImages \in Nat
         /\ \A b, e \in Int : /\ InBatch(b, e, img) = Count(m_imgHandleBuffer, b, e, img)
                              /\ Count(m_imgHandleBuffer, b, e, img) \in Nat
         /\ clientRefs[img] \in 0 .. MaxClientRefs /\ clientRefs[img] \in Nat
         /\ leaked[img] \in 0 .. MaxLeaked /\ leaked[img] \in Nat
         /\ refCount[img] \in Nat
  <1>1. \A b, e \in Int : InBatch(b, e, img) = Count(m_imgHandleBuffer, b, e, img)
    BY DEF InBatch, Count, Where
  <1>2. \A b, e \in Int : Count(m_imgHandleBuffer, b, e, img) \in Nat
    BY CountType
  <1>3. 0 \in Int /\ m_numImages \in Int /\ m_numImages \in Nat
    BY CapacityAssumption DEF IInv, TypeOK
  <1>4. /\ clientRefs[img] \in 0 .. MaxClientRefs /\ clientRefs[img] \in Nat
        /\ leaked[img] \in 0 .. MaxLeaked /\ leaked[img] \in Nat
        /\ refCount[img] \in Nat
    BY BoundsAssumption DEF IInv, TypeOK
  <1>5. QED  BY <1>1, <1>2, <1>3, <1>4 DEF IInv, RefsExact

-----------------------------------------------------------------------------
(* What a push writes *)

\* The arrays after a push: new entries behind the ones that were there.
LEMMA DoPushArrays ==
  ASSUME IInv, NEW imgs \in Seq(Images), m_numImages + Len(imgs) <= Capacity, doPushImages(imgs)
  PROVE  /\ m_imgHandleBuffer' \in [Slots -> Images \cup {NoImage}]
         /\ host' \in [Slots -> Entries \cup {Garbage}]
         /\ \A i \in Span(0, m_numImages) : m_imgHandleBuffer'[i] = m_imgHandleBuffer[i] /\ host'[i] = host[i]
         /\ \A i \in Span(m_numImages, m_numImages + Len(imgs)) :
              /\ m_imgHandleBuffer'[i] = imgs[i - m_numImages + 1]
              /\ m_imgHandleBuffer'[i] \in Images /\ m_imgHandleBuffer'[i] \in Range(imgs)
              /\ host'[i] = Entry(m_imgHandleBuffer'[i])
  <1> DEFINE written == Span(m_numImages, m_numImages + Len(imgs))
  <1>1. m_numImages \in Nat /\ Len(imgs) \in Nat /\ Capacity \in Nat
    BY RangeFacts, CapacityAssumption DEF IInv, TypeOK
  <1>2. \A i \in written : /\ i \in Slots
                           /\ imgs[i - m_numImages + 1] \in Range(imgs) /\ imgs[i - m_numImages + 1] \in Images
    <2>1. \A i \in written : i \in Slots /\ i - m_numImages + 1 \in 1 .. Len(imgs)
      BY <1>1 DEF Span, Slots
    <2>2. QED  BY <2>1, RangeFacts
  <1>3. \A i \in Span(0, m_numImages) : i \in Slots /\ i \notin written
    BY <1>1 DEF Span, Slots
  <1>4. /\ m_imgHandleBuffer' = [i \in Slots |-> IF i \in written THEN imgs[i - m_numImages + 1]
                                                 ELSE m_imgHandleBuffer[i]]
        /\ host' = [i \in Slots |-> IF i \in written THEN Entry(imgs[i - m_numImages + 1]) ELSE host[i]]
    BY DEF doPushImages
  <1>5. m_imgHandleBuffer \in [Slots -> Images \cup {NoImage}] /\ host \in [Slots -> Entries \cup {Garbage}]
    BY DEF IInv, TypeOK
  <1>6. \A i \in written : Entry(imgs[i - m_numImages + 1]) \in Entries
    BY <1>2 DEF Entries
  <1> HIDE DEF written
  <1>7. m_imgHandleBuffer' \in [Slots -> Images \cup {NoImage}] /\ host' \in [Slots -> Entries \cup {Garbage}]
    BY <1>2, <1>4, <1>5, <1>6
  <1>8. \A i \in written : /\ m_imgHandleBuffer'[i] = imgs[i - m_numImages + 1]
                           /\ host'[i] = Entry(imgs[i - m_numImages + 1])
    BY <1>2, <1>4
  <1>9. \A i \in Span(0, m_numImages) : m_imgHandleBuffer'[i] = m_imgHandleBuffer[i] /\ host'[i] = host[i]
    BY <1>3, <1>4
  <1>10. QED  BY <1>2, <1>7, <1>8, <1>9 DEF written

\* The caches after a push are sound for the images that were there and the
\* ones pushed.
LEMMA DoPushCaches ==
  ASSUME IInv, NEW imgs \in Seq(Images), doPushImages(imgs)
  PROVE  /\ m_cacheMaxSize' \in [w : Nat, h : Nat] \cup {Nullopt}
         /\ m_cacheUniqueFormat' \in Range(FormatOf) \cup {FmtNone, Nullopt}
         /\ m_cacheMaxSize' # Nullopt => \A img \in Batched \cup Range(imgs) :
              SizeOf[img].w <= m_cacheMaxSize'.w /\ SizeOf[img].h <= m_cacheMaxSize'.h
         /\ m_cacheUniqueFormat' \notin {FmtNone, Nullopt} =>
              \A img \in Batched \cup Range(imgs) : FormatOf[img] = m_cacheUniqueFormat'
  <1> DEFINE S == Range(imgs)
             T == Batched
  <1>1. S \in SUBSET Images /\ IsFiniteSet(S) /\ (imgs = << >> => S = {})
    BY RangeFacts
  <1>2. imgs # << >> => imgs[1] \in S
    <2>1. imgs # << >> => 1 \in 1 .. Len(imgs)
      BY RangeFacts
    <2>2. QED  BY <2>1, RangeFacts
  <1>3. T \in SUBSET Images /\ (m_numImages = 0 => T = {})
    BY DEF IInv, TypeOK, Batched, Span
  <1>4. /\ m_cacheMaxSize \in [w : Nat, h : Nat] \cup {Nullopt}
        /\ m_cacheUniqueFormat \in Range(FormatOf) \cup {FmtNone, Nullopt}
        /\ m_cacheMaxSize # Nullopt => \A img \in T :
             SizeOf[img].w <= m_cacheMaxSize.w /\ SizeOf[img].h <= m_cacheMaxSize.h
        /\ m_cacheUniqueFormat \notin {FmtNone, Nullopt} => \A img \in T : FormatOf[img] = m_cacheUniqueFormat
    BY DEF IInv, TypeOK, CachesSound
  <1>5. ZeroSize \in [w : Nat, h : Nat]
    BY DEF ZeroSize
  <1>6. \A img \in Images : FormatOf[img] \in Range(FormatOf) /\ SizeOf[img] \in [w : Nat, h : Nat]
    BY ImagesAssumption DEF Range
  <1>7. /\ m_cacheMaxSize' =
             CASE imgs = << >> -> m_cacheMaxSize
               [] imgs # << >> /\ m_numImages = 0 -> MaxSizeOver(ZeroSize, S)
               [] OTHER -> IF m_cacheMaxSize = Nullopt THEN Nullopt ELSE MaxSizeOver(m_cacheMaxSize, S)
        /\ m_cacheUniqueFormat' =
             CASE imgs = << >> -> m_cacheUniqueFormat
               [] imgs # << >> /\ m_numImages = 0 -> Narrowed(FormatOf[imgs[1]], S)
               [] OTHER -> IF m_cacheUniqueFormat = Nullopt THEN Nullopt ELSE Narrowed(m_cacheUniqueFormat, S)
    BY DEF doPushImages
  <1> HIDE DEF S, T
  <1>8. /\ m_cacheMaxSize' \in [w : Nat, h : Nat] \cup {Nullopt}
        /\ m_cacheMaxSize' # Nullopt => \A img \in T \cup S :
             SizeOf[img].w <= m_cacheMaxSize'.w /\ SizeOf[img].h <= m_cacheMaxSize'.h
    <2>1. CASE imgs = << >>
      BY <1>1, <1>4, <1>7, <2>1
    <2>2. CASE imgs # << >> /\ m_numImages = 0
      <3>1. m_cacheMaxSize' = MaxSizeOver(ZeroSize, S) /\ T = {}
        BY <1>3, <1>7, <2>2
      <3>2. QED  BY <1>1, <1>5, <3>1, MaxSizeFacts
    <2>3. CASE imgs # << >> /\ m_numImages # 0 /\ m_cacheMaxSize # Nullopt
      <3>1. m_cacheMaxSize' = MaxSizeOver(m_cacheMaxSize, S) /\ m_cacheMaxSize \in [w : Nat, h : Nat]
        BY <1>4, <1>7, <2>3
      <3>2. /\ MaxSizeOver(m_cacheMaxSize, S) \in [w : Nat, h : Nat]
            /\ m_cacheMaxSize.w <= MaxSizeOver(m_cacheMaxSize, S).w
            /\ m_cacheMaxSize.h <= MaxSizeOver(m_cacheMaxSize, S).h
            /\ \A img \in S : /\ SizeOf[img].w <= MaxSizeOver(m_cacheMaxSize, S).w
                              /\ SizeOf[img].h <= MaxSizeOver(m_cacheMaxSize, S).h
        BY <1>1, <3>1, MaxSizeFacts
      <3>3. \A img \in T : SizeOf[img].w <= m_cacheMaxSize.w /\ SizeOf[img].h <= m_cacheMaxSize.h
        BY <1>4, <2>3
      <3>4. \A img \in T : SizeOf[img].w \in Nat /\ SizeOf[img].h \in Nat
        BY <1>3, <1>6
      <3>5. /\ m_cacheMaxSize.w \in Nat /\ m_cacheMaxSize.h \in Nat
            /\ MaxSizeOver(m_cacheMaxSize, S).w \in Nat /\ MaxSizeOver(m_cacheMaxSize, S).h \in Nat
        BY <3>1, <3>2
      <3>6. \A img \in T : /\ SizeOf[img].w <= MaxSizeOver(m_cacheMaxSize, S).w
                           /\ SizeOf[img].h <= MaxSizeOver(m_cacheMaxSize, S).h
        BY <3>2, <3>3, <3>4, <3>5
      <3>7. QED  BY <3>1, <3>2, <3>6
    <2>4. CASE imgs # << >> /\ m_numImages # 0 /\ m_cacheMaxSize = Nullopt
      BY <1>7, <2>4
    <2>5. QED  BY <2>1, <2>2, <2>3, <2>4
  <1>9. /\ m_cacheUniqueFormat' \in Range(FormatOf) \cup {FmtNone, Nullopt}
        /\ m_cacheUniqueFormat' \notin {FmtNone, Nullopt} =>
             \A img \in T \cup S : FormatOf[img] = m_cacheUniqueFormat'
    <2>1. CASE imgs = << >>
      BY <1>1, <1>4, <1>7, <2>1
    <2>2. CASE imgs # << >> /\ m_numImages = 0
      <3>1. m_cacheUniqueFormat' = Narrowed(FormatOf[imgs[1]], S) /\ T = {}
        BY <1>3, <1>7, <2>2
      <3>2. QED  BY <1>1, <1>2, <1>6, <2>2, <3>1 DEF Narrowed
    <2>3. CASE imgs # << >> /\ m_numImages # 0
      <3>1. m_cacheUniqueFormat' = IF m_cacheUniqueFormat = Nullopt THEN Nullopt
                                   ELSE Narrowed(m_cacheUniqueFormat, S)
        BY <1>7, <2>3
      <3>2. QED  BY <1>4, <3>1 DEF Narrowed
    <2>4. QED  BY <2>1, <2>2, <2>3
  <1>10. QED  BY <1>8, <1>9 DEF S, T

-----------------------------------------------------------------------------
(* What is on its way to the device *)

LEMMA SpanGrows ==
  ASSUME NEW m \in Nat, NEW n \in Nat, m <= n
  PROVE  \A i \in Span(0, m) : i \in Span(0, n)
  BY DEF Span

\* A step of the client that starts no copy and neither writes the host array
\* under a copy nor the batch below the first dirty index.
LEMMA NothingDisturbed ==
  ASSUME IInv, UNCHANGED <<dev, copies, exported>>, host' = host \/ copies = << >>,
         m_dirtyStartingFromIndex' \in Nat, m_dirtyStartingFromIndex' <= m_dirtyStartingFromIndex,
         \A i \in Span(0, m_dirtyStartingFromIndex') : m_imgHandleBuffer'[i] = m_imgHandleBuffer[i]
  PROVE  HostStable' /\ CleanBelowDirty' /\ ExportOnItsWay'
  <1>1. HostStable'
    BY DEF IInv, HostStable
  <1>2. ASSUME NEW i, NEW e, OnItsWay(i, e)
        PROVE  e = IF \E j \in DOMAIN copies' : i \in Span(copies'[j].begin, copies'[j].end)
                   THEN host'[i] ELSE dev'[i]
    <2>1. CASE copies = << >>
      BY <1>2, <2>1 DEF OnItsWay, InFlight
    <2>2. CASE host' = host
      BY <1>2, <2>2 DEF OnItsWay, InFlight
    <2>3. QED  BY <2>1, <2>2
  <1>3. \A i \in Span(0, m_dirtyStartingFromIndex') : i \in Span(0, m_dirtyStartingFromIndex)
    <2>1. m_dirtyStartingFromIndex \in Nat
      BY CapacityAssumption DEF IInv, TypeOK
    <2>2. QED  BY <2>1, SpanGrows
  <1>4. CleanBelowDirty'
    BY <1>2, <1>3 DEF IInv, CleanBelowDirty, OnItsWay, InFlight
  <1>5. ExportOnItsWay'
    BY <1>2 DEF IInv, ExportOnItsWay, OnItsWay, InFlight
  <1>6. QED  BY <1>1, <1>4, <1>5

\* What a push does to everything but the references, whether it keeps its new
\* number of images or restores the old one.
LEMMA PushKeepsBatch ==
  ASSUME IInv, NEW imgs \in Seq(Images), m_numImages + Len(imgs) <= Capacity, Fence, doPushImages(imgs),
         m_numImages' \in {m_numImages, m_numImages + Len(imgs)},
         UNCHANGED <<m_dirtyStartingFromIndex, dev, copies, exported>>,
         refCount' \in [Images -> Nat], clientRefs' \in [Images -> 0 .. MaxClientRefs],
         leaked' \in [Images -> 0 .. MaxLeaked], RefsExact'
  PROVE  IInv'
  <1>1. /\ m_numImages \in Nat /\ Len(imgs) \in Nat /\ Capacity \in Nat /\ m_numImages <= Capacity
        /\ m_dirtyStartingFromIndex \in Nat /\ m_dirtyStartingFromIndex <= m_numImages
    BY RangeFacts, CapacityAssumption DEF IInv, TypeOK
  <1>2. \A i \in Span(0, m_numImages') : i \in Span(0, m_numImages) \/ i \in Span(m_numImages, m_numImages + Len(imgs))
    <2>1. CASE m_numImages' = m_numImages
      BY <2>1
    <2>2. CASE m_numImages' = m_numImages + Len(imgs)
      BY <1>1, <2>2 DEF Span
    <2>3. QED  BY <2>1, <2>2
  <1>3. \A i \in Span(0, m_numImages') : /\ m_imgHandleBuffer'[i] \in Images
                                         /\ m_imgHandleBuffer'[i] \in Batched \cup Range(imgs)
                                         /\ host'[i] = Entry(m_imgHandleBuffer'[i])
    <2>1. \A i \in Span(0, m_numImages) : /\ m_imgHandleBuffer[i] \in Images /\ m_imgHandleBuffer[i] \in Batched
                                          /\ host[i] = Entry(m_imgHandleBuffer[i])
      BY DEF IInv, TypeOK, HostWritten, Batched
    <2>2. QED  BY <1>2, <2>1, DoPushArrays
  <1>4. HostStable' /\ CleanBelowDirty' /\ ExportOnItsWay'
    <2>1. m_dirtyStartingFromIndex' \in Nat /\ m_dirtyStartingFromIndex' <= m_dirtyStartingFromIndex
      BY <1>1
    <2>2. \A i \in Span(0, m_dirtyStartingFromIndex') : i \in Span(0, m_numImages)
      BY <1>1 DEF Span
    <2>3. \A i \in Span(0, m_dirtyStartingFromIndex') : m_imgHandleBuffer'[i] = m_imgHandleBuffer[i]
      BY <2>2, DoPushArrays
    <2>4. copies = << >>
      BY DEF Fence
    <2>5. QED  BY <2>1, <2>3, <2>4, NothingDisturbed
  <1>5. HostWritten'
    BY <1>3 DEF HostWritten
  <1>6. CachesSound'
    <2>1. Batched' \subseteq Batched \cup Range(imgs)
      BY <1>3 DEF Batched
    <2>2. QED  BY <2>1, DoPushCaches DEF CachesSound
  <1>7. TypeOK'
    <2>1. m_numImages' \in 0 .. Capacity /\ m_dirtyStartingFromIndex' \in 0 .. m_numImages'
      BY <1>1
    <2>2. dev' \in [Slots -> Entries \cup {Garbage}] /\ copies' \in Seq(CopyType)
      BY DEF IInv, TypeOK
    <2>3. /\ m_imgHandleBuffer' \in [Slots -> Images \cup {NoImage}]
          /\ host' \in [Slots -> Entries \cup {Garbage}]
      BY DoPushArrays
    <2>4. /\ m_cacheMaxSize' \in [w : Nat, h : Nat] \cup {Nullopt}
          /\ m_cacheUniqueFormat' \in Range(FormatOf) \cup {FmtNone, Nullopt}
      BY DoPushCaches
    <2>5. QED  BY <1>3, <2>1, <2>2, <2>3, <2>4 DEF TypeOK
  <1>8. QED  BY <1>4, <1>5, <1>6, <1>7 DEF IInv

\* The images of a batch after a push are counted as those that were there and,
\* if they stay, those pushed.
LEMMA CountAfterPush ==
  ASSUME IInv, NEW imgs \in Seq(Images), m_numImages + Len(imgs) <= Capacity, doPushImages(imgs),
         NEW img \in Images
  PROVE  /\ Count(m_imgHandleBuffer', 0, m_numImages, img) = Count(m_imgHandleBuffer, 0, m_numImages, img)
         /\ Count(m_imgHandleBuffer', 0, m_numImages + Len(imgs), img)
              = Count(m_imgHandleBuffer, 0, m_numImages, img) + InArgs(imgs, img)
         /\ InArgs(imgs, img) \in Nat
  <1>1. m_numImages \in Nat /\ Len(imgs) \in Nat
    BY RangeFacts, CapacityAssumption DEF IInv, TypeOK
  <1>2. Count(m_imgHandleBuffer', 0, m_numImages, img) = Count(m_imgHandleBuffer, 0, m_numImages, img)
    <2>1. \A i \in Span(0, m_numImages) : m_imgHandleBuffer'[i] = m_imgHandleBuffer[i]
      BY DoPushArrays
    <2>2. QED  BY <2>1, CountSame
  <1>3. /\ Count(m_imgHandleBuffer', m_numImages, m_numImages + Len(imgs), img) = InArgs(imgs, img)
        /\ InArgs(imgs, img) \in Nat
    <2>1. \A i \in Span(m_numImages, m_numImages + Len(imgs)) : m_imgHandleBuffer'[i] = imgs[i - m_numImages + 1]
      BY DoPushArrays
    <2>2. QED  BY <1>1, <2>1, CountWritten
  <1>4. Count(m_imgHandleBuffer', 0, m_numImages + Len(imgs), img)
          = Count(m_imgHandleBuffer', 0, m_numImages, img)
              + Count(m_imgHandleBuffer', m_numImages, m_numImages + Len(imgs), img)
    <2>1. /\ 0 \in Int /\ m_numImages \in Int /\ m_numImages + Len(imgs) \in Int
          /\ 0 <= m_numImages /\ m_numImages <= m_numImages + Len(imgs)
      BY <1>1
    <2>2. QED  BY <2>1, CountSplit
  <1>5. QED  BY <1>2, <1>3, <1>4
-----------------------------------------------------------------------------
LEMMA PushKeepsInv ==
  ASSUME IInv, NEW imgs \in Args, pushImages(imgs)
  PROVE  IInv'
  <1>1. /\ imgs \in Seq(Images) /\ m_numImages + Len(imgs) <= Capacity /\ Fence /\ doPushImages(imgs)
        /\ m_numImages' = m_numImages + Len(imgs)
        /\ UNCHANGED <<m_dirtyStartingFromIndex, dev, copies, exported, clientRefs, leaked>>
    BY ArgsFacts DEF pushImages, gpu
  <1>2. ASSUME NEW img \in Images
        PROVE  /\ refCount'[img] = clientRefs'[img] + Count(m_imgHandleBuffer', 0, m_numImages', img) + leaked'[img]
               /\ refCount'[img] \in Nat
    <2>1. refCount'[img] = refCount[img] + InArgs(imgs, img)
      BY DEF pushImages
    <2>2. Count(m_imgHandleBuffer', 0, m_numImages', img)
            = Count(m_imgHandleBuffer, 0, m_numImages, img) + InArgs(imgs, img) /\ InArgs(imgs, img) \in Nat
      BY <1>1, CountAfterPush
    <2>3. clientRefs'[img] = clientRefs[img] /\ leaked'[img] = leaked[img]
      BY <1>1
    <2>4. QED  BY <2>1, <2>2, <2>3, RefsFacts
  <1>3. RefsExact' /\ refCount' \in [Images -> Nat]
    BY <1>2 DEF RefsExact, InBatch, Count, Where, pushImages
  <1>4. clientRefs' \in [Images -> 0 .. MaxClientRefs] /\ leaked' \in [Images -> 0 .. MaxLeaked]
    BY <1>1 DEF IInv, TypeOK
  <1>5. QED  BY <1>1, <1>3, <1>4, PushKeepsBatch

\* The references a failed push of a list has taken are the ones lost.
LEMMA PushFailsKeepsInv ==
  ASSUME IInv, NEW imgs \in Args, pushImagesFails(imgs)
  PROVE  IInv'
  <1>1. PICK k \in DOMAIN imgs :
          /\ doPushImages(SubSeq(imgs, 1, k - 1))
          /\ refCount' = [img \in Images |-> refCount[img] + InArgs(SubSeq(imgs, 1, k - 1), img)]
          /\ leaked' = [img \in Images |-> leaked[img] + InArgs(SubSeq(imgs, 1, k - 1), img)]
    BY DEF pushImagesFails
  <1> DEFINE p == SubSeq(imgs, 1, k - 1)
  <1>2. p \in Seq(Images) /\ m_numImages + Len(p) <= Capacity
    <2>1. p \in Seq(Images) /\ Len(p) = k - 1 /\ k \in 1 .. Len(imgs) /\ Len(imgs) \in Nat
      BY ArgsFacts
    <2>2. m_numImages \in Nat /\ m_numImages + Len(imgs) <= Capacity
      BY CapacityAssumption DEF pushImagesFails, IInv, TypeOK
    <2>3. QED  BY <2>1, <2>2, CapacityAssumption
  <1>3. /\ Fence /\ doPushImages(p) /\ m_numImages' = m_numImages
        /\ UNCHANGED <<m_dirtyStartingFromIndex, dev, copies, exported, clientRefs>>
        /\ \A img \in Images : leaked'[img] <= MaxLeaked
    BY <1>1 DEF pushImagesFails, gpu
  <1>4. /\ refCount' = [img \in Images |-> refCount[img] + InArgs(p, img)]
        /\ leaked' = [img \in Images |-> leaked[img] + InArgs(p, img)]
    BY <1>1
  <1> HIDE DEF p
  <1>5. ASSUME NEW img \in Images
        PROVE  /\ refCount'[img] = clientRefs'[img] + Count(m_imgHandleBuffer', 0, m_numImages', img) + leaked'[img]
               /\ refCount'[img] \in Nat /\ leaked'[img] \in 0 .. MaxLeaked
    <2>1. refCount'[img] = refCount[img] + InArgs(p, img) /\ leaked'[img] = leaked[img] + InArgs(p, img)
      BY <1>4
    <2>2. /\ Count(m_imgHandleBuffer', 0, m_numImages', img) = Count(m_imgHandleBuffer, 0, m_numImages, img)
          /\ InArgs(p, img) \in Nat
      BY <1>2, <1>3, CountAfterPush
    <2>3. QED  BY <1>3, <2>1, <2>2, RefsFacts, BoundsAssumption
  <1>6. RefsExact' /\ refCount' \in [Images -> Nat] /\ leaked' \in [Images -> 0 .. MaxLeaked]
    BY <1>4, <1>5 DEF RefsExact, InBatch, Count, Where
  <1>7. clientRefs' \in [Images -> 0 .. MaxClientRefs]
    BY <1>3 DEF IInv, TypeOK
  <1>8. QED  BY <1>2, <1>3, <1>6, <1>7, PushKeepsBatch

LEMMA PushCallbackKeepsInv ==
  ASSUME IInv, NEW imgs \in Args, pushCallback(imgs)
  PROVE  IInv'
  <1>1. /\ imgs \in Seq(Images) /\ m_numImages + Len(imgs) <= Capacity /\ Fence /\ doPushImages(imgs)
        /\ m_numImages' = m_numImages + Len(imgs)
        /\ UNCHANGED <<m_dirtyStartingFromIndex, dev, copies, exported, refCount, leaked>>
    BY ArgsFacts DEF pushCallback, gpu
  <1>2. ASSUME NEW img \in Images
        PROVE  /\ refCount'[img] = clientRefs'[img] + Count(m_imgHandleBuffer', 0, m_numImages', img) + leaked'[img]
               /\ clientRefs'[img] \in 0 .. MaxClientRefs
    <2>1. clientRefs'[img] = clientRefs[img] - InArgs(imgs, img) /\ clientRefs[img] >= InArgs(imgs, img)
      BY DEF pushCallback
    <2>2. Count(m_imgHandleBuffer', 0, m_numImages', img)
            = Count(m_imgHandleBuffer, 0, m_numImages, img) + InArgs(imgs, img) /\ InArgs(imgs, img) \in Nat
      BY <1>1, CountAfterPush
    <2>3. QED  BY <1>1, <2>1, <2>2, RefsFacts, BoundsAssumption, SMTT(60)
  <1>3. RefsExact' /\ clientRefs' \in [Images -> 0 .. MaxClientRefs]
    BY <1>2 DEF RefsExact, InBatch, Count, Where, pushCallback
  <1>4. refCount' \in [Images -> Nat] /\ leaked' \in [Images -> 0 .. MaxLeaked]
    BY <1>1 DEF IInv, TypeOK
  <1>5. QED  BY <1>1, <1>3, <1>4, PushKeepsBatch

\* The references a callback has handed over to a push that fails stay with the
\* client or are lost.
LEMMA PushCallbackFailsKeepsInv ==
  ASSUME IInv, NEW imgs \in Args, pushCallbackFails(imgs)
  PROVE  IInv'
  <1> DEFINE p == SubSeq(imgs, 1, Len(imgs) - 1)
  <1>1. /\ imgs \in Seq(Images) /\ Len(imgs) \in Nat /\ Len(imgs) >= 1
        /\ p \in Seq(Images) /\ Len(p) = Len(imgs) - 1
    <2>1. Len(imgs) \in Nat /\ DOMAIN imgs = 1 .. Len(imgs) /\ DOMAIN imgs # {}
      <3>1. PICK n \in 1 .. MaxArgs : imgs \in [1 .. n -> Images]
        BY DEF Args
      <3>2. n \in Nat /\ n >= 1
        BY BoundsAssumption
      <3>3. DOMAIN imgs = 1 .. n /\ 1 \in 1 .. n
        BY <3>1, <3>2
      <3>4. QED  BY <3>3, ArgsFacts
    <2>2. Len(imgs) \in DOMAIN imgs /\ Len(imgs) >= 1
      BY <2>1
    <2>3. QED  BY <2>1, <2>2, ArgsFacts
  <1>2. m_numImages + Len(p) <= Capacity
    <2>1. m_numImages \in Nat
      BY CapacityAssumption DEF IInv, TypeOK
    <2>2. m_numImages + Len(imgs) - 1 < Capacity \/ m_numImages + Len(imgs) - 1 = Capacity
      BY DEF pushCallbackFails
    <2>3. QED  BY <1>1, <2>1, <2>2, CapacityAssumption
  <1>3. /\ Fence /\ doPushImages(p) /\ m_numImages' = m_numImages
        /\ UNCHANGED <<m_dirtyStartingFromIndex, dev, copies, exported, refCount>>
    BY DEF pushCallbackFails, gpu
  <1>4. \/ UNCHANGED <<clientRefs, leaked>>
        \/ /\ clientRefs' = [img \in Images |-> clientRefs[img] - InArgs(imgs, img)]
           /\ leaked' = [img \in Images |-> leaked[img] + InArgs(imgs, img)]
           /\ \A img \in Images : leaked'[img] <= MaxLeaked
    BY DEF pushCallbackFails
  <1>5. \A img \in Images : clientRefs[img] >= InArgs(imgs, img)
    BY DEF pushCallbackFails
  <1> HIDE DEF p
  <1>6. ASSUME NEW img \in Images
        PROVE  /\ refCount'[img] = clientRefs'[img] + Count(m_imgHandleBuffer', 0, m_numImages', img) + leaked'[img]
               /\ clientRefs'[img] \in 0 .. MaxClientRefs /\ leaked'[img] \in 0 .. MaxLeaked
    <2>1. Count(m_imgHandleBuffer', 0, m_numImages', img) = Count(m_imgHandleBuffer, 0, m_numImages, img)
      BY <1>1, <1>2, <1>3, CountAfterPush
    <2>2. /\ clientRefs[img] \in 0 .. MaxClientRefs /\ leaked[img] \in 0 .. MaxLeaked
          /\ InArgs(imgs, img) \in Nat
      BY <1>1, InArgsNat DEF IInv, TypeOK
    <2>3. CASE UNCHANGED <<clientRefs, leaked>>
      BY <1>3, <2>1, <2>2, <2>3, RefsFacts
    <2>4. CASE /\ clientRefs'[img] = clientRefs[img] - InArgs(imgs, img)
               /\ leaked'[img] = leaked[img] + InArgs(imgs, img) /\ leaked'[img] <= MaxLeaked
      <3>1. refCount'[img] = refCount[img] /\ clientRefs[img] >= InArgs(imgs, img)
        BY <1>3, <1>5
      <3>2. QED  BY <2>1, <2>2, <2>4, <3>1, RefsFacts, BoundsAssumption
    <2>5. QED  BY <1>4, <2>3, <2>4
  <1>7. RefsExact'
    BY <1>6 DEF RefsExact, InBatch, Count, Where
  <1>8. /\ refCount' \in [Images -> Nat] /\ leaked' \in [Images -> 0 .. MaxLeaked]
        /\ clientRefs' \in [Images -> 0 .. MaxClientRefs]
    <2>1. refCount' \in [Images -> Nat]
      BY <1>3 DEF IInv, TypeOK
    <2>2. leaked \in [Images -> 0 .. MaxLeaked] /\ clientRefs \in [Images -> 0 .. MaxClientRefs]
      BY DEF IInv, TypeOK
    <2>3. CASE UNCHANGED <<clientRefs, leaked>>
      BY <2>1, <2>2, <2>3
    <2>4. CASE /\ clientRefs' = [img \in Images |-> clientRefs[img] - InArgs(imgs, img)]
               /\ leaked' = [img \in Images |-> leaked[img] + InArgs(imgs, img)]
      BY <1>6, <2>1, <2>4
    <2>5. QED  BY <1>4, <2>3, <2>4
  <1>9. QED  BY <1>1, <1>2, <1>3, <1>7, <1>8, PushKeepsBatch

-----------------------------------------------------------------------------
\* The batch shrinks to m images, whose references are the only ones it keeps.
LEMMA ShrinkKeepsRefs ==
  ASSUME IInv, NEW m \in 0 .. m_numImages, m_numImages' = m, UNCHANGED <<clientRefs, leaked>>,
         \A i \in Span(0, m) : m_imgHandleBuffer'[i] = m_imgHandleBuffer[i],
         refCount' = [img \in Images |-> refCount[img] - InBatch(m, m_numImages, img)]
  PROVE  /\ RefsExact' /\ refCount' \in [Images -> Nat]
         /\ clientRefs' \in [Images -> 0 .. MaxClientRefs] /\ leaked' \in [Images -> 0 .. MaxLeaked]
  <1>1. m_numImages \in Nat /\ m \in Nat /\ m <= m_numImages /\ 0 <= m
    BY CapacityAssumption DEF IInv, TypeOK
  <1>2. ASSUME NEW img \in Images
        PROVE  /\ refCount'[img] = clientRefs'[img] + Count(m_imgHandleBuffer', 0, m_numImages', img) + leaked'[img]
               /\ refCount'[img] \in Nat
    <2>1. Count(m_imgHandleBuffer, 0, m_numImages, img)
            = Count(m_imgHandleBuffer, 0, m, img) + Count(m_imgHandleBuffer, m, m_numImages, img)
      BY <1>1, CountSplit
    <2>2. Count(m_imgHandleBuffer', 0, m, img) = Count(m_imgHandleBuffer, 0, m, img)
      BY CountSame
    <2>3. /\ Count(m_imgHandleBuffer, 0, m, img) \in Nat
          /\ Count(m_imgHandleBuffer, m, m_numImages, img) \in Nat
          /\ InBatch(m, m_numImages, img) = Count(m_imgHandleBuffer, m, m_numImages, img)
      BY <1>1, RefsFacts
    <2>4. refCount'[img] = refCount[img] - InBatch(m, m_numImages, img) /\ clientRefs'[img] = clientRefs[img]
          /\ leaked'[img] = leaked[img]
      OBVIOUS
    <2>5. QED  BY <2>1, <2>2, <2>3, <2>4, RefsFacts
  <1>3. QED  BY <1>2 DEF RefsExact, InBatch, Count, Where, IInv, TypeOK

LEMMA PopKeepsInv ==
  ASSUME IInv, NEW n, popImages(n)
  PROVE  IInv'
  <1> DEFINE m == m_numImages - n
  <1>1. /\ m \in 0 .. m_numImages /\ m \in Nat /\ m_numImages \in Nat /\ m <= m_numImages /\ m_numImages' = m
        /\ UNCHANGED <<m_imgHandleBuffer, host, dev, copies, clientRefs, leaked, exported>>
    BY CapacityAssumption DEF popImages, IInv, TypeOK, gpu
  <1>2. /\ RefsExact' /\ refCount' \in [Images -> Nat]
        /\ clientRefs' \in [Images -> 0 .. MaxClientRefs] /\ leaked' \in [Images -> 0 .. MaxLeaked]
    <2>1. refCount' = [img \in Images |-> refCount[img] - InBatch(m, m_numImages, img)]
      BY DEF popImages
    <2>2. QED  BY <1>1, <2>1, ShrinkKeepsRefs
  <1>3. /\ m_dirtyStartingFromIndex' \in Nat /\ m_dirtyStartingFromIndex' <= m_dirtyStartingFromIndex
        /\ m_dirtyStartingFromIndex' \in 0 .. m
    BY <1>1 DEF popImages, IInv, TypeOK
  <1>4. HostStable' /\ CleanBelowDirty' /\ ExportOnItsWay'
    BY <1>1, <1>3, NothingDisturbed
  <1>5. \A i \in Span(0, m) : i \in Span(0, m_numImages)
    BY <1>1, SpanGrows
  <1> HIDE DEF m
  <1>6. HostWritten'
    BY <1>1, <1>5 DEF IInv, HostWritten
  <1>7. CachesSound'
    <2>1. Batched' \subseteq Batched
      BY <1>1, <1>5 DEF Batched
    <2>2. m_cacheMaxSize' = Nullopt /\ (m_cacheUniqueFormat' = Nullopt \/ m_cacheUniqueFormat' = m_cacheUniqueFormat)
      BY DEF popImages
    <2>3. QED  BY <2>1, <2>2 DEF IInv, CachesSound
  <1>8. TypeOK'
    <2>1. m_numImages' \in 0 .. Capacity /\ m_dirtyStartingFromIndex' \in 0 .. m_numImages'
      BY <1>1, <1>3, CapacityAssumption DEF IInv, TypeOK
    <2>2. /\ m_cacheMaxSize' \in [w : Nat, h : Nat] \cup {Nullopt}
          /\ m_cacheUniqueFormat' \in Range(FormatOf) \cup {FmtNone, Nullopt}
      BY DEF popImages, IInv, TypeOK
    <2>3. \A i \in Span(0, m_numImages') : m_imgHandleBuffer'[i] \in Images
      BY <1>1, <1>5 DEF IInv, TypeOK
    <2>4. /\ m_imgHandleBuffer' \in [Slots -> Images \cup {NoImage}]
          /\ host' \in [Slots -> Entries \cup {Garbage}]
          /\ dev' \in [Slots -> Entries \cup {Garbage}] /\ copies' \in Seq(CopyType)
      BY <1>1 DEF IInv, TypeOK
    <2>5. QED  BY <1>2, <2>1, <2>2, <2>3, <2>4 DEF TypeOK
  <1>9. QED  BY <1>2, <1>4, <1>6, <1>7, <1>8 DEF IInv

\* An empty batch satisfies what is said of the images of a batch.
LEMMA EmptyBatch ==
  ASSUME m_numImages' = 0, m_dirtyStartingFromIndex' = 0, m_cacheMaxSize' = ZeroSize, m_cacheUniqueFormat' = Nullopt
  PROVE  /\ HostWritten' /\ CachesSound' /\ CleanBelowDirty'
         /\ m_numImages' \in 0 .. Capacity /\ m_dirtyStartingFromIndex' \in 0 .. m_numImages'
         /\ \A i \in Span(0, m_numImages') : m_imgHandleBuffer'[i] \in Images
         /\ m_cacheMaxSize' \in [w : Nat, h : Nat] \cup {Nullopt}
         /\ m_cacheUniqueFormat' \in Range(FormatOf) \cup {FmtNone, Nullopt}
  <1>1. Span(0, 0) = {}
    BY DEF Span
  <1>2. HostWritten' /\ CachesSound' /\ CleanBelowDirty'
    BY <1>1 DEF HostWritten, CachesSound, CleanBelowDirty, Batched
  <1>3. QED  BY <1>1, <1>2, CapacityAssumption DEF ZeroSize

LEMMA ClearKeepsInv ==
  ASSUME IInv, clear
  PROVE  IInv'
  <1>1. /\ m_numImages \in Nat /\ 0 \in 0 .. m_numImages /\ Span(0, 0) = {} /\ m_numImages' = 0
        /\ m_dirtyStartingFromIndex \in Nat
    BY CapacityAssumption DEF IInv, TypeOK, clear, Span
  <1>2. UNCHANGED <<host, dev, copies, clientRefs, leaked, exported>>
    BY DEF clear, gpu
  <1>3. /\ RefsExact' /\ refCount' \in [Images -> Nat]
        /\ clientRefs' \in [Images -> 0 .. MaxClientRefs] /\ leaked' \in [Images -> 0 .. MaxLeaked]
    <2>1. refCount' = [img \in Images |-> refCount[img] - InBatch(0, m_numImages, img)]
      BY DEF clear
    <2>2. \A i \in Span(0, 0) : m_imgHandleBuffer'[i] = m_imgHandleBuffer[i]
      BY <1>1
    <2>3. QED  BY <1>1, <1>2, <2>1, <2>2, ShrinkKeepsRefs
  <1>4. HostStable' /\ ExportOnItsWay'
    <2>1. m_dirtyStartingFromIndex' = 0
      BY DEF clear
    <2>2. \A i \in Span(0, m_dirtyStartingFromIndex') : m_imgHandleBuffer'[i] = m_imgHandleBuffer[i]
      BY <1>1, <2>1
    <2>3. m_dirtyStartingFromIndex' \in Nat /\ m_dirtyStartingFromIndex' <= m_dirtyStartingFromIndex
      BY <1>1, <2>1
    <2>4. QED  BY <1>2, <2>2, <2>3, NothingDisturbed
  <1>5. TypeOK'
    <2>1. /\ m_imgHandleBuffer' \in [Slots -> Images \cup {NoImage}]
          /\ host' \in [Slots -> Entries \cup {Garbage}]
          /\ dev' \in [Slots -> Entries \cup {Garbage}] /\ copies' \in Seq(CopyType)
      BY <1>2 DEF IInv, TypeOK, clear
    <2>2. QED  BY <1>3, <2>1, EmptyBatch DEF TypeOK, clear
  <1>6. QED  BY <1>3, <1>4, <1>5, EmptyBatch DEF IInv, clear

LEMMA DestroyKeepsInv ==
  ASSUME IInv, Destroy
  PROVE  IInv'
  <1>1. /\ m_numImages \in Nat /\ 0 \in 0 .. m_numImages /\ Span(0, 0) = {} /\ m_numImages' = 0
    BY CapacityAssumption DEF IInv, TypeOK, Destroy, Span
  <1>2. UNCHANGED <<copies, clientRefs, leaked>> /\ copies = << >>
    BY DEF Destroy, Fence
  <1>3. /\ RefsExact' /\ refCount' \in [Images -> Nat]
        /\ clientRefs' \in [Images -> 0 .. MaxClientRefs] /\ leaked' \in [Images -> 0 .. MaxLeaked]
    <2>1. refCount' = [img \in Images |-> refCount[img] - InBatch(0, m_numImages, img)]
      BY DEF Destroy
    <2>2. \A i \in Span(0, 0) : m_imgHandleBuffer'[i] = m_imgHandleBuffer[i]
      BY <1>1
    <2>3. QED  BY <1>1, <1>2, <2>1, <2>2, ShrinkKeepsRefs
  <1>4. HostStable' /\ ExportOnItsWay'
    <2>1. HostStable'
      BY <1>2 DEF HostStable
    <2>2. exported'.entries = << >>
      BY DEF Destroy
    <2>3. QED  BY <2>1, <2>2 DEF ExportOnItsWay
  <1>5. TypeOK'
    <2>1. /\ m_imgHandleBuffer' \in [Slots -> Images \cup {NoImage}]
          /\ host' \in [Slots -> Entries \cup {Garbage}]
          /\ dev' \in [Slots -> Entries \cup {Garbage}] /\ copies' \in Seq(CopyType)
      BY <1>2 DEF IInv, TypeOK, Destroy
    <2>2. QED  BY <1>3, <2>1, EmptyBatch DEF TypeOK, Destroy
  <1>6. QED  BY <1>3, <1>4, <1>5, EmptyBatch DEF IInv, Destroy
-----------------------------------------------------------------------------
\* A step that changes references only.
LEMMA OnlyRefs ==
  ASSUME IInv, UNCHANGED <<m_imgHandleBuffer, m_numImages, m_dirtyStartingFromIndex, host, dev, copies,
                           m_cacheMaxSize, m_cacheUniqueFormat, exported>>,
         refCount' \in [Images -> Nat], clientRefs' \in [Images -> 0 .. MaxClientRefs],
         leaked' \in [Images -> 0 .. MaxLeaked],
         \A img \in Images : refCount'[img] = clientRefs'[img] + InBatch(0, m_numImages, img) + leaked'[img]
  PROVE  IInv'
  <1>1. TypeOK'
    BY DEF IInv, TypeOK
  <1>2. RefsExact'
    BY DEF RefsExact, InBatch
  <1>3. HostStable' /\ HostWritten' /\ CachesSound'
    BY DEF IInv, HostStable, HostWritten, CachesSound, Batched
  <1>4. CleanBelowDirty' /\ ExportOnItsWay'
    BY DEF IInv, CleanBelowDirty, ExportOnItsWay, OnItsWay, InFlight
  <1>5. QED  BY <1>1, <1>2, <1>3, <1>4 DEF IInv

LEMMA GetKeepsInv ==
  ASSUME IInv, NEW b \in Nat, NEW n \in Nat, getImages(b, n)
  PROVE  IInv'
  <1>1. /\ UNCHANGED <<m_imgHandleBuffer, m_numImages, m_dirtyStartingFromIndex, host, dev, copies,
                       m_cacheMaxSize, m_cacheUniqueFormat, exported>>
        /\ UNCHANGED leaked
    BY DEF getImages, batch, gpu, caches
  <1>2. ASSUME NEW img \in Images
        PROVE  /\ refCount'[img] = clientRefs'[img] + InBatch(0, m_numImages, img) + leaked'[img]
               /\ refCount'[img] \in Nat /\ clientRefs'[img] \in 0 .. MaxClientRefs
    <2>1. InBatch(b, b + n, img) \in Nat /\ InBatch(0, m_numImages, img) \in Nat
      <3>1. b + n \in Int /\ b \in Int /\ 0 \in Int
        OBVIOUS
      <3>2. m_numImages \in Int
        BY RefsFacts
      <3>3. QED  BY <3>1, <3>2, RefsFacts
    <2>2. /\ refCount'[img] = refCount[img] + InBatch(b, b + n, img)
          /\ clientRefs'[img] = clientRefs[img] + InBatch(b, b + n, img)
          /\ clientRefs[img] + InBatch(b, b + n, img) <= MaxClientRefs
      BY DEF getImages
    <2>3. refCount[img] = clientRefs[img] + InBatch(0, m_numImages, img) + leaked[img] /\ leaked'[img] = leaked[img]
      BY <1>1 DEF IInv, RefsExact
    <2>4. QED  BY <2>1, <2>2, <2>3, RefsFacts, BoundsAssumption
  <1>3. /\ refCount' \in [Images -> Nat] /\ clientRefs' \in [Images -> 0 .. MaxClientRefs]
        /\ leaked' \in [Images -> 0 .. MaxLeaked]
    BY <1>1, <1>2 DEF getImages, IInv, TypeOK
  <1>4. QED  BY <1>1, <1>2, <1>3, OnlyRefs

LEMMA ReleaseKeepsInv ==
  ASSUME IInv, NEW u \in Images, ReleaseImage(u)
  PROVE  IInv'
  <1>1. /\ UNCHANGED <<m_imgHandleBuffer, m_numImages, m_dirtyStartingFromIndex, host, dev, copies,
                       m_cacheMaxSize, m_cacheUniqueFormat, exported>>
        /\ UNCHANGED leaked
    BY DEF ReleaseImage, batch, gpu, caches
  <1>2. ASSUME NEW img \in Images
        PROVE  /\ refCount'[img] = clientRefs'[img] + InBatch(0, m_numImages, img) + leaked'[img]
               /\ refCount'[img] \in Nat /\ clientRefs'[img] \in 0 .. MaxClientRefs
    <2>1. InBatch(0, m_numImages, img) \in Nat
      BY RefsFacts
    <2>2. /\ refCount'[img] = IF img = u THEN refCount[img] - 1 ELSE refCount[img]
          /\ clientRefs'[img] = IF img = u THEN clientRefs[img] - 1 ELSE clientRefs[img]
          /\ clientRefs[u] > 0
      BY DEF ReleaseImage, IInv, TypeOK
    <2>3. refCount[img] = clientRefs[img] + InBatch(0, m_numImages, img) + leaked[img] /\ leaked'[img] = leaked[img]
      BY <1>1 DEF IInv, RefsExact
    <2>4. QED  BY <2>1, <2>2, <2>3, RefsFacts, BoundsAssumption
  <1>3. refCount' = [img \in Images |-> refCount'[img]] /\ clientRefs' = [img \in Images |-> clientRefs'[img]]
    BY DEF ReleaseImage, IInv, TypeOK
  <1>4. refCount' \in [Images -> Nat] /\ clientRefs' \in [Images -> 0 .. MaxClientRefs]
    BY <1>2, <1>3
  <1>5. leaked' \in [Images -> 0 .. MaxLeaked]
    BY <1>1 DEF IInv, TypeOK
  <1>6. QED  BY <1>1, <1>2, <1>4, <1>5, OnlyRefs

-----------------------------------------------------------------------------
(* Queries, exports and copies *)

LEMMA BatchedFacts ==
  ASSUME IInv
  PROVE  /\ Batched \in SUBSET Images /\ IsFiniteSet(Batched)
         /\ m_numImages > 0 => m_imgHandleBuffer[0] \in Batched
         /\ \A i \in Span(0, m_numImages) : i \in Slots
  <1>1. m_numImages \in Nat /\ Capacity \in Nat /\ m_numImages <= Capacity
    BY CapacityAssumption DEF IInv, TypeOK
  <1>2. Batched \in SUBSET Images
    BY DEF IInv, TypeOK, Batched
  <1>3. IsFiniteSet(Batched)
    <2> DEFINE f == [i \in Span(0, m_numImages) |-> m_imgHandleBuffer[i]]
    <2>1. IsFiniteSet(Span(0, m_numImages))
      <3>1. IsFiniteSet(0 .. m_numImages - 1)
        BY <1>1, FS_Interval
      <3>2. QED  BY <3>1 DEF Span
    <2>2. f \in Surjection(Span(0, m_numImages), Batched)
      BY DEF Surjection, Batched
    <2>3. QED  BY <2>1, <2>2, FS_Surjection
  <1>4. m_numImages > 0 => m_imgHandleBuffer[0] \in Batched
    <2>1. m_numImages > 0 => 0 \in Span(0, m_numImages)
      BY <1>1 DEF Span
    <2>2. QED  BY <2>1 DEF Batched
  <1>5. \A i \in Span(0, m_numImages) : i \in Slots
    BY <1>1 DEF Span, Slots
  <1>6. QED  BY <1>2, <1>3, <1>4, <1>5

\* Refined or recomputed, the caches are sound.
LEMMA UpdatedCaches ==
  ASSUME IInv, doUpdateCache
  PROVE  /\ m_cacheMaxSize' \in [w : Nat, h : Nat] \cup {Nullopt}
         /\ m_cacheUniqueFormat' \in Range(FormatOf) \cup {FmtNone, Nullopt}
         /\ m_cacheMaxSize' # Nullopt => \A img \in Batched :
              SizeOf[img].w <= m_cacheMaxSize'.w /\ SizeOf[img].h <= m_cacheMaxSize'.h
         /\ m_cacheUniqueFormat' \notin {FmtNone, Nullopt} =>
              \A img \in Batched : FormatOf[img] = m_cacheUniqueFormat'
  <1> DEFINE T == Batched
             size == IF m_cacheMaxSize = Nullopt THEN ZeroSize ELSE m_cacheMaxSize
  <1>1. T \in SUBSET Images /\ IsFiniteSet(T) /\ (m_numImages > 0 => m_imgHandleBuffer[0] \in T) /\ m_numImages \in Nat
    BY BatchedFacts, CapacityAssumption DEF IInv, TypeOK
  <1>2. /\ m_cacheMaxSize \in [w : Nat, h : Nat] \cup {Nullopt}
        /\ m_cacheUniqueFormat \in Range(FormatOf) \cup {FmtNone, Nullopt}
        /\ m_cacheMaxSize # Nullopt => \A img \in T :
             SizeOf[img].w <= m_cacheMaxSize.w /\ SizeOf[img].h <= m_cacheMaxSize.h
        /\ m_cacheUniqueFormat \notin {FmtNone, Nullopt} => \A img \in T : FormatOf[img] = m_cacheUniqueFormat
    BY DEF IInv, TypeOK, CachesSound
  <1>3. CASE m_cacheMaxSize # Nullopt /\ m_cacheUniqueFormat # Nullopt
    <2>1. m_cacheMaxSize' = m_cacheMaxSize /\ m_cacheUniqueFormat' = m_cacheUniqueFormat
      BY <1>3 DEF doUpdateCache, caches
    <2>2. QED  BY <1>2, <2>1
  <1>4. CASE ~ (m_cacheMaxSize # Nullopt /\ m_cacheUniqueFormat # Nullopt)
    <2>1. size \in [w : Nat, h : Nat]
      BY <1>2 DEF ZeroSize
    <2>2. m_cacheMaxSize' = MaxSizeOver(size, T)
      BY <1>4 DEF doUpdateCache
    <2>3. /\ MaxSizeOver(size, T) \in [w : Nat, h : Nat]
          /\ \A img \in T : SizeOf[img].w <= MaxSizeOver(size, T).w /\ SizeOf[img].h <= MaxSizeOver(size, T).h
      BY <1>1, <2>1, MaxSizeFacts
    <2>4. m_cacheUniqueFormat' =
            CASE m_numImages = 0 /\ m_cacheUniqueFormat = Nullopt -> FmtNone
              [] m_numImages > 0 /\ m_cacheUniqueFormat = Nullopt ->
                   Narrowed(FormatOf[m_imgHandleBuffer[0]], T)
              [] OTHER -> Narrowed(m_cacheUniqueFormat, T)
      BY <1>4 DEF doUpdateCache
    <2>5. \A img \in Images : FormatOf[img] \in Range(FormatOf)
      BY ImagesAssumption DEF Range
    <2> HIDE DEF T, size
    <2>6. /\ m_cacheUniqueFormat' \in Range(FormatOf) \cup {FmtNone, Nullopt}
          /\ m_cacheUniqueFormat' \notin {FmtNone, Nullopt} => \A img \in T : FormatOf[img] = m_cacheUniqueFormat'
      <3>1. CASE m_numImages = 0 /\ m_cacheUniqueFormat = Nullopt
        BY <2>4, <3>1
      <3>2. CASE m_numImages > 0 /\ m_cacheUniqueFormat = Nullopt
        <4>1. m_cacheUniqueFormat' = Narrowed(FormatOf[m_imgHandleBuffer[0]], T)
          BY <1>1, <2>4, <3>2
        <4>2. QED  BY <1>1, <2>5, <3>2, <4>1 DEF Narrowed
      <3>3. CASE m_cacheUniqueFormat # Nullopt
        <4>1. m_cacheUniqueFormat' = Narrowed(m_cacheUniqueFormat, T)
          BY <2>4, <3>3
        <4>2. QED  BY <1>2, <4>1 DEF Narrowed
      <3>4. QED  BY <1>1, <3>1, <3>2, <3>3
    <2>7. QED  BY <2>2, <2>3, <2>6 DEF T
  <1>5. QED  BY <1>3, <1>4

LEMMA QueryKeepsInv ==
  ASSUME IInv, queryCaches
  PROVE  IInv'
  <1>1. doUpdateCache /\ UNCHANGED <<m_imgHandleBuffer, m_numImages, m_dirtyStartingFromIndex, host, dev, copies,
                                     refCount, clientRefs, leaked, exported>>
    BY DEF queryCaches, batch, gpu, refs
  <1>2. CachesSound'
    <2>1. Batched' = Batched
      BY <1>1 DEF Batched
    <2>2. QED  BY <1>1, <2>1, UpdatedCaches DEF CachesSound
  <1>3. TypeOK'
    BY <1>1, UpdatedCaches DEF IInv, TypeOK
  <1>4. HostStable' /\ HostWritten' /\ RefsExact'
    BY <1>1 DEF IInv, HostStable, HostWritten, RefsExact, InBatch
  <1>5. CleanBelowDirty' /\ ExportOnItsWay'
    BY <1>1 DEF IInv, CleanBelowDirty, ExportOnItsWay, OnItsWay, InFlight
  <1>6. QED  BY <1>2, <1>3, <1>4, <1>5 DEF IInv

\* The copy of an export joins the queue, and with it every entry of the batch
\* is on its way.
LEMMA ExportKeepsInv ==
  ASSUME IInv, NEW s \in Streams, exportData(s)
  PROVE  IInv'
  <1> DEFINE d == m_dirtyStartingFromIndex
             n == m_numImages
             c == [stream |-> s, begin |-> d, end |-> n, data |-> host]
             Flying(q, i) == \E j \in DOMAIN q : i \in Span(q[j].begin, q[j].end)
  <1>1. /\ UNCHANGED <<m_imgHandleBuffer, m_numImages, host, dev, refCount, clientRefs, leaked>>
        /\ exported' = [stream |-> s, entries |-> Contents] /\ doUpdateCache
    BY DEF exportData, refs
  <1>2. /\ n \in Nat /\ d \in Nat /\ d <= n /\ copies \in Seq(CopyType)
        /\ host \in [Slots -> Entries \cup {Garbage}]
    BY CapacityAssumption DEF IInv, TypeOK
  <1>3. /\ copies' \in Seq(CopyType) /\ m_dirtyStartingFromIndex' = n
        /\ HostStable'
        /\ \A i : Flying(copies', i) <=> Flying(copies, i) \/ i \in Span(d, n)
    <2>1. CASE d < n
      <3>1. copies' = Append(copies, c) /\ m_dirtyStartingFromIndex' = n
        BY <2>1 DEF exportData
      <3>2. c \in CopyType /\ c.begin = d /\ c.end = n /\ c.data = host
        BY <1>2 DEF CopyType
      <3> HIDE DEF c
      <3>3. /\ copies' \in Seq(CopyType) /\ Len(copies') = Len(copies) + 1
            /\ \A j \in 1 .. Len(copies) : copies'[j] = copies[j]
            /\ copies'[Len(copies) + 1] = c
        BY <1>2, <3>1, <3>2, AppendProperties
      <3>4. /\ Len(copies) \in Nat /\ DOMAIN copies = 1 .. Len(copies)
            /\ DOMAIN copies' = 1 .. Len(copies')
        BY <1>2, <3>3, LenProperties
      <3>5. /\ \A j \in DOMAIN copies : j \in DOMAIN copies' /\ copies'[j] = copies[j]
            /\ Len(copies) + 1 \in DOMAIN copies'
            /\ \A j \in DOMAIN copies' : j \in DOMAIN copies \/ j = Len(copies) + 1
        BY <3>3, <3>4
      <3>6. HostStable'
        BY <1>1, <3>2, <3>3, <3>5 DEF IInv, HostStable
      <3>7. \A i : Flying(copies', i) <=> Flying(copies, i) \/ i \in Span(d, n)
        BY <3>2, <3>3, <3>5
      <3>8. QED  BY <3>1, <3>3, <3>6, <3>7
    <2>2. CASE ~ (d < n)
      <3>1. copies' = copies /\ m_dirtyStartingFromIndex' = d /\ d = n
        BY <1>2, <2>2 DEF exportData
      <3>2. Span(d, n) = {}
        BY <1>2, <3>1 DEF Span
      <3>3. HostStable'
        BY <1>1, <3>1 DEF IInv, HostStable
      <3>4. QED  BY <1>2, <3>1, <3>2, <3>3
    <2>3. QED  BY <2>1, <2>2
  <1> HIDE DEF Flying
  <1>4. ASSUME NEW i \in Span(0, n)
        PROVE  Entry(m_imgHandleBuffer[i]) = IF Flying(copies', i) THEN host[i] ELSE dev[i]
    <2>1. host[i] = Entry(m_imgHandleBuffer[i])
      BY DEF IInv, HostWritten
    <2>2. CASE i \in Span(d, n)
      BY <1>3, <2>1, <2>2
    <2>3. CASE i \notin Span(d, n)
      <3>1. i \in Span(0, d)
        BY <1>2, <2>3 DEF Span
      <3>2. OnItsWay(i, Entry(m_imgHandleBuffer[i]))
        BY <3>1 DEF IInv, CleanBelowDirty
      <3>3. QED  BY <1>3, <2>3, <3>2 DEF OnItsWay, InFlight, Flying
    <2>4. QED  BY <2>2, <2>3
  <1>5. CleanBelowDirty'
    BY <1>1, <1>3, <1>4 DEF CleanBelowDirty, OnItsWay, InFlight, Flying
  <1>6. ExportOnItsWay'
    <2>1. exported'.entries = Contents
      BY <1>1
    <2>2. DOMAIN Contents = Span(0, n) /\ \A i \in Span(0, n) : Contents[i] = Entry(m_imgHandleBuffer[i])
      BY DEF Contents
    <2>3. QED  BY <1>1, <1>4, <2>1, <2>2, BatchedFacts DEF ExportOnItsWay, OnItsWay, InFlight, Flying
  <1>7. CachesSound'
    <2>1. Batched' = Batched
      BY <1>1 DEF Batched
    <2>2. QED  BY <1>1, <2>1, UpdatedCaches DEF CachesSound
  <1>8. HostWritten' /\ RefsExact'
    BY <1>1 DEF IInv, HostWritten, RefsExact, InBatch
  <1>9. TypeOK'
    <2>1. m_dirtyStartingFromIndex' \in 0 .. m_numImages'
      BY <1>1, <1>2, <1>3
    <2>2. QED  BY <1>1, <1>3, <2>1, UpdatedCaches DEF IInv, TypeOK
  <1>10. QED  BY <1>3, <1>5, <1>6, <1>7, <1>8, <1>9 DEF IInv

\* What a copy writes is what it was sent to write.
LEMMA CopyDoneKeepsInv ==
  ASSUME IInv, CopyDone
  PROVE  IInv'
  <1> DEFINE c == Head(copies)
             Flying(q, i) == \E j \in DOMAIN q : i \in Span(q[j].begin, q[j].end)
  <1>1. /\ UNCHANGED <<m_imgHandleBuffer, m_numImages, m_dirtyStartingFromIndex, host, m_cacheMaxSize,
                       m_cacheUniqueFormat, refCount, clientRefs, leaked, exported>>
        /\ copies # << >> /\ copies' = Tail(copies)
        /\ dev' = [i \in Slots |-> IF i \in Span(c.begin, c.end) THEN host[i] ELSE dev[i]]
    BY DEF CopyDone, batch, caches, refs
  <1>2. copies \in Seq(CopyType) /\ host \in [Slots -> Entries \cup {Garbage}] /\ dev \in [Slots -> Entries \cup {Garbage}]
    BY DEF IInv, TypeOK
  <1>3. /\ copies' \in Seq(CopyType) /\ Len(copies') = Len(copies) - 1 /\ Len(copies) \in Nat /\ Len(copies) # 0
        /\ DOMAIN copies = 1 .. Len(copies) /\ DOMAIN copies' = 1 .. Len(copies')
        /\ \A j \in 1 .. Len(copies') : copies'[j] = copies[j + 1]
        /\ c = copies[1]
    <2>1. /\ copies' \in Seq(CopyType) /\ Len(copies') = Len(copies) - 1
          /\ \A j \in 1 .. Len(copies') : copies'[j] = copies[j + 1]
      BY <1>1, <1>2, HeadTailProperties
    <2>2. Len(copies) \in Nat /\ Len(copies) # 0
      BY <1>1, <1>2, EmptySeq, LenProperties
    <2>3. DOMAIN copies = 1 .. Len(copies) /\ DOMAIN copies' = 1 .. Len(copies')
      BY <1>2, <2>1, LenProperties
    <2>4. c = copies[1]
      BY <1>1, <1>2
    <2>5. QED  BY <2>1, <2>2, <2>3, <2>4
  <1> HIDE DEF c
  <1>4. /\ \A j \in DOMAIN copies' : j + 1 \in DOMAIN copies /\ copies'[j] = copies[j + 1]
        /\ \A j \in DOMAIN copies : j # 1 => j - 1 \in DOMAIN copies' /\ copies'[j - 1] = copies[j]
        /\ 1 \in DOMAIN copies
    <2>1. /\ \A j \in DOMAIN copies' : j + 1 \in DOMAIN copies
          /\ \A j \in DOMAIN copies : j # 1 => j - 1 \in 1 .. Len(copies') /\ (j - 1) + 1 = j
          /\ 1 \in DOMAIN copies
      BY <1>3
    <2>2. \A j \in DOMAIN copies : j # 1 => copies'[j - 1] = copies[(j - 1) + 1]
      BY <1>3, <2>1
    <2>3. QED  BY <1>3, <2>1, <2>2
  <1>5. HostStable'
    BY <1>1, <1>4 DEF IInv, HostStable
  <1>6. \A i : Flying(copies, i) <=> Flying(copies', i) \/ i \in Span(c.begin, c.end)
    <2> SUFFICES ASSUME NEW i PROVE Flying(copies, i) <=> Flying(copies', i) \/ i \in Span(c.begin, c.end)
      OBVIOUS
    <2>1. ASSUME Flying(copies, i) PROVE Flying(copies', i) \/ i \in Span(c.begin, c.end)
      <3>1. PICK j \in DOMAIN copies : i \in Span(copies[j].begin, copies[j].end)
        BY <2>1
      <3>2. CASE j = 1
        BY <1>3, <3>1, <3>2
      <3>3. CASE j # 1
        BY <1>4, <3>1, <3>3
      <3>4. QED  BY <3>2, <3>3
    <2>2. ASSUME Flying(copies', i) PROVE Flying(copies, i)
      BY <1>4, <2>2
    <2>3. ASSUME i \in Span(c.begin, c.end) PROVE Flying(copies, i)
      BY <1>3, <1>4, <2>3
    <2>4. QED  BY <2>1, <2>2, <2>3
  <1> HIDE DEF Flying
  <1>7. ASSUME NEW i \in Slots, NEW e, OnItsWay(i, e)
        PROVE  e = IF Flying(copies', i) THEN host'[i] ELSE dev'[i]
    <2>1. e = IF Flying(copies, i) THEN host[i] ELSE dev[i]
      BY <1>7 DEF OnItsWay, InFlight, Flying
    <2>2. dev'[i] = IF i \in Span(c.begin, c.end) THEN host[i] ELSE dev[i]
      BY <1>1
    <2>3. QED  BY <1>1, <1>6, <2>1, <2>2
  <1>8. CleanBelowDirty'
    <2>1. \A i \in Span(0, m_dirtyStartingFromIndex) : i \in Slots
      <3>1. /\ m_dirtyStartingFromIndex \in Nat /\ m_numImages \in Nat
            /\ m_dirtyStartingFromIndex <= m_numImages
        BY CapacityAssumption DEF IInv, TypeOK
      <3>2. QED  BY <3>1, SpanGrows, BatchedFacts
    <2>2. QED  BY <1>1, <1>7, <2>1 DEF IInv, CleanBelowDirty, OnItsWay, InFlight, Flying
  <1>9. ExportOnItsWay'
    BY <1>1, <1>7 DEF IInv, ExportOnItsWay, OnItsWay, InFlight, Flying
  <1>10. HostWritten' /\ CachesSound' /\ RefsExact'
    BY <1>1 DEF IInv, HostWritten, CachesSound, Batched, RefsExact, InBatch
  <1>11. TypeOK'
    <2>1. dev' \in [Slots -> Entries \cup {Garbage}]
      BY <1>1, <1>2
    <2>2. QED  BY <1>1, <1>3, <2>1 DEF IInv, TypeOK
  <1>12. QED  BY <1>5, <1>8, <1>9, <1>10, <1>11 DEF IInv

-----------------------------------------------------------------------------
LEMMA InitEstablishesInv == Init => IInv
  <1> SUFFICES ASSUME Init PROVE IInv
    OBVIOUS
  <1>1. m_numImages = 0 /\ m_dirtyStartingFromIndex = 0 /\ copies = << >> /\ Span(0, 0) = {}
        /\ DOMAIN exported.entries = {}
    BY DEF Init, Span
  <1>2. TypeOK
    <2>1. copies \in Seq(CopyType) /\ m_cacheMaxSize \in [w : Nat, h : Nat]
      BY <1>1 DEF Init, ZeroSize
    <2>2. /\ refCount \in [Images -> Nat] /\ clientRefs \in [Images -> 0 .. MaxClientRefs]
          /\ leaked \in [Images -> 0 .. MaxLeaked]
      BY BoundsAssumption DEF Init
    <2>3. QED  BY <1>1, <2>1, <2>2, CapacityAssumption DEF Init, TypeOK
  <1>3. HostStable /\ HostWritten /\ CleanBelowDirty /\ ExportOnItsWay
    BY <1>1 DEF HostStable, HostWritten, CleanBelowDirty, ExportOnItsWay
  <1>4. CachesSound
    BY <1>1 DEF CachesSound, Batched
  <1>5. RefsExact
    <2>1. \A img \in Images : InBatch(0, m_numImages, img) = 0
      BY <1>1, FS_EmptySet DEF InBatch
    <2>2. QED  BY <2>1 DEF RefsExact, Init
  <1>6. QED  BY <1>2, <1>3, <1>4, <1>5 DEF IInv

\* Every step of the batch, its client and the GPU preserves the invariant.
LEMMA NextKeepsInv == IInv /\ [Next]_vars => IInv'
  <1> SUFFICES ASSUME IInv, [Next]_vars PROVE IInv'
    OBVIOUS
  <1>1. CASE \E imgs \in Args : pushImages(imgs)
    BY <1>1, PushKeepsInv
  <1>2. CASE \E imgs \in Args : pushImagesFails(imgs)
    BY <1>2, PushFailsKeepsInv
  <1>3. CASE \E imgs \in Args : pushCallback(imgs)
    BY <1>3, PushCallbackKeepsInv
  <1>4. CASE \E imgs \in Args : pushCallbackFails(imgs)
    BY <1>4, PushCallbackFailsKeepsInv
  <1>5. CASE \E n \in 0 .. Capacity : popImages(n)
    BY <1>5, PopKeepsInv
  <1>6. CASE \E b \in Slots, n \in 1 .. MaxArgs : getImages(b, n)
    <2>1. PICK b \in Slots, n \in 1 .. MaxArgs : getImages(b, n)
      BY <1>6
    <2>2. b \in Nat /\ n \in Nat
      BY CapacityAssumption, BoundsAssumption DEF Slots
    <2>3. QED  BY <2>1, <2>2, GetKeepsInv
  <1>7. CASE clear
    BY <1>7, ClearKeepsInv
  <1>8. CASE queryCaches
    BY <1>8, QueryKeepsInv
  <1>9. CASE \E s \in Streams : exportData(s)
    BY <1>9, ExportKeepsInv
  <1>10. CASE CopyDone
    BY <1>10, CopyDoneKeepsInv
  <1>11. CASE \E img \in Images : ReleaseImage(img)
    BY <1>11, ReleaseKeepsInv
  <1>12. CASE Destroy
    BY <1>12, DestroyKeepsInv
  <1>13. CASE UNCHANGED vars
    BY <1>13 DEF vars, IInv, TypeOK, HostStable, HostWritten, CleanBelowDirty, ExportOnItsWay, OnItsWay,
                 InFlight, CachesSound, Batched, RefsExact, InBatch
  <1>14. QED
    BY <1>1, <1>2, <1>3, <1>4, <1>5, <1>6, <1>7, <1>8, <1>9, <1>10, <1>11, <1>12, <1>13 DEF Next

LEMMA InvAlways == Spec => []IInv
  <1>1. QED  BY InitEstablishesInv, NextKeepsInv, PTL DEF Spec

\* The batch is well typed, and the first dirty index is never beyond its end
\* (the assertion of exportData).
THEOREM ImageBatchTyping == Spec => []TypeOK
  <1>1. IInv => TypeOK
    BY DEF IInv
  <1>2. QED  BY <1>1, InvAlways, PTL

\* The host array is stable under the copies that read it, however many are
\* queued and whichever push fails.
THEOREM HostIsStable == Spec => []HostStable
  <1>1. IInv => HostStable
    BY DEF IInv
  <1>2. QED  BY <1>1, InvAlways, PTL

\* Once its copies are done, an export has delivered the images it returned.
THEOREM ImageExportsAreDelivered == Spec => []ExportDelivered
  <1>1. IInv => ExportDelivered
    BY DEF IInv, ExportDelivered, ExportOnItsWay, OnItsWay, InFlight
  <1>2. QED  BY <1>1, InvAlways, PTL

\* The cached maximum size and unique format are sound for the images in the
\* batch, however the batch came to hold them.
THEOREM CachesAreSound == Spec => []CachesSound
  <1>1. IInv => CachesSound
    BY DEF IInv
  <1>2. QED  BY <1>1, InvAlways, PTL

\* Every reference is the client's, one entry's of the batch, or one lost to a
\* push that failed: taken for an image of a list, or handed over by a callback.
THEOREM ImageReferencesAreExact == Spec => []RefsExact
  <1>1. IInv => RefsExact
    BY DEF IInv
  <1>2. QED  BY <1>1, InvAlways, PTL
=============================================================================
