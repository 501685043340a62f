SPECIFICATION Spec
CONSTANTS
  Null = Null
  Columns = {"t", "g", "n", "b"}
  TimeColumn = "t"
  SegmentBy = {}
  OrderBy <- MCOrder
  TextColumns = {"g"}
  DateColumns = {"t"}
  Chars <- MCChars
  SegmentSize = 2
  MaxDistinct = 2
  Hash <- MCHash
  NotNull = {"t", "n"}
  Half = 8
  WideColumns = {}
  AvgScale = 2520
  Rewrite <- MCRewrite
  Inputs <- MCInputs
  NewRow <- MCNewRow
  Queries <- MCQueries
  MaxWorkers = 2
  MaxChanges = 1
  Saturate = 4
  Slots <- MCSlots
  Sampled <- MCSampled
  MinFloor = 3
  Partition <- MCPartition
  ProbeSegments = 1
INVARIANTS AggExact TopNGroupsExact BareLimitExact
