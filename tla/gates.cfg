SPECIFICATION Spec
CONSTANTS
  k1 = k1
  k2 = k2
  Keys = {k1, k2}
  Vals = {0}
  MaxSeg = 2
  Readers = {1}
  Levels = {"RC", "RR"}
  Flatten = TRUE
  MaxCommits = 3
  Asked = {"rows", "agg", "minmax", "part", "sorted"}
  FirstDb <- Compressed
INVARIANTS CalmReadExact MvccExact RefusedIsStale
