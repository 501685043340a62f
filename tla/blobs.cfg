SPECIFICATION Spec
CONSTANTS
  Null = Null
  Placeholder = Placeholder
  Width = 4
  LeadBits = 2
  Group = 2
  MaxDscale = 2
  BlockSize = 2
  NarrowDict = 1
  LenMod = 8
  SweepShare = 2
  Continuation = {3}
  Buckets <- MCBuckets
  Domain <- MCDomain
  MaxRows <- MCMaxRows
  Filters <- MCFilters
INVARIANTS BlobExact FiltersExact LengthsExact
CHECK_DEADLOCK FALSE
