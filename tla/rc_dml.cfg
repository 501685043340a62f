SPECIFICATION Spec
CONSTANTS
  u1 = u1
  u2 = u2
  wk = wk
  k1 = k1
  k2 = k2
  k3 = k3
  NoSession = NoSession
  Sessions = {u1, u2, wk}
  Keys = {k1, k2}
  Vals = {0}
  MaxSeg = 2
  Iso <- RcIso
  Calls <- RcCalls
  OwnTxn = {"compact", "compress", "decompress"}
  MaxStmts = 1
  StartRows <- RcStart
SYMMETRY KeySymmetry
INVARIANTS TypeOK FlagsExact RowCountExact NoOrphanTombstones
PROPERTY ImplementsTable
