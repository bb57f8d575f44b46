CONSTANTS
  t1 = t1
  t2 = t2
  u = u
  k1 = k1
  k2 = k2
  Tensors = {t1, t2, u}
  Kinds = {k1, k2}
  KindOf <- MCKindOf
  Capacity = 2
  Streams = {s1, s2}
  MaxArgs = 2
  MaxClientRefs = 1
  NoTensor = NoTensor
  NoKind = NoKind
  Garbage = Garbage
  NoCopy = NoCopy
SPECIFICATION Spec
INVARIANTS DirtyCoversChanges PinnedStable ExportDelivered KindsAgree RefsExact
