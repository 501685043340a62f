SPECIFICATION Spec
CONSTANTS
  Null = Null
  Columns = {"t", "g", "a", "s", "d"}
  TimeColumn = "t"
  SegmentBy = {"g"}
  OrderBy <- MCOrder
  TextColumns = {"g", "s"}
  DateColumns = {"t", "d"}
  Chars <- MCChars
  SegmentSize = 2
  MaxDistinct = 1
  Hash <- MCHash
  NotNull = {"t", "d"}
  Half = 8
  Inputs <- MCInputsBy
  Queries <- MCQueries
  Collate <- MCCollate
  Margin = 4
  MaxChanges = 1
  MaxScans = 2
INVARIANTS ContentsExact CachesCoherent SegmentsOrdered
CHECK_DEADLOCK FALSE
