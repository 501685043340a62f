SPECIFICATION Spec
CONSTANTS
  Null = Null
  Columns = {"t", "s"}
  TimeColumn = "t"
  SegmentBy = {}
  OrderBy <- MCOrder
  TextColumns = {"s"}
  DateColumns = {"t"}
  Chars <- MCChars
  SegmentSize = 2
  MaxDistinct = 2
  Hash <- MCHash
  Jobs <- MCJobs
  Ranges <- MCRanges
  Heap = {2}
  Workers = 2
  BatchLines = 3
  MetaBatch = 2
  BlobLimit = 2
  Decoders = {d1, d2}
  Compressors = {c1, c2}
  RouteCap = 1
  SegCap = 2
  OutCap = 1
INVARIANT LoadExact
PROPERTY LoadEnds
CHECK_DEADLOCK FALSE
