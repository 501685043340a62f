SPECIFICATION FairSpec
CONSTANTS
  wk = wk
  us = us
  None = None
  Tables = {t1}
  Sessions = {wk, us}
  Second = 1
  Minute = 2
  Day = 4
  Interval = 2
  Offset <- OneZone
  Premake = 1
  Premakes = {0}
  CompressAfter = 0
  DropAfter = 2
  Start <- LastBeforeEpoch
  MaxNow = 1
  Times <- EarlyAndLate
  MaxErrors = 1
INVARIANTS RowsKept CatalogExact FutureCovered
PROPERTY DefaultDrained
