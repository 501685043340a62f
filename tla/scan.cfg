SPECIFICATION Spec
CONSTANTS
  Null = Null
  Columns = {"t", "g", "a", "s", "d"}
  TimeColumn = "t"
  SegmentBy = {}
  OrderBy <- MCOrder
  TextColumns = {"g", "s"}
  DateColumns = {"t", "d"}
  Chars <- MCChars
  SegmentSize = 2
  MaxDistinct = 2
  Hash <- MCHash
  NotNull = {"t", "d"}
  Half = 8
  Inputs <- MCInputs
  Queries <- MCQueries
  Collate <- MCCollate
  Margin = 4
  MaxChanges = 1
  MaxScans = 2
INVARIANTS ScanExact TopNExact PruningKeepsMatches ClassificationSound BitmapsExact
CHECK_DEADLOCK FALSE
