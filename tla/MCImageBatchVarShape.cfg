CONSTANTS
  a = a
  b = b
  bad = bad
  f1 = f1
  f2 = f2
  Images = {a, b, bad}
  BadImages = {bad}
  FormatOf <- MCFormatOf
  SizeOf <- MCSizeOf
  Capacity = 2
  Streams = {s1, s2}
  MaxArgs = 2
  MaxClientRefs = 1
  MaxLeaked = 1
  NoImage = NoImage
  FmtNone = FmtNone
  Nullopt = Nullopt
  Garbage = Garbage
SPECIFICATION Spec
INVARIANTS HostStable ExportDelivered CachesSound RefsExact
