SPECIFICATION FairSpec
CONSTANTS
  Backends = {b1, b2}
  k1 = k1
  k2 = k2
  k3 = k3
  h1 = h1
  h2 = h2
  NoKey = NoKey
  NoPtr = NoPtr
  Ptrs = {p1, p2, p3}
  Keys <- MCKeys
  Shards = {h1, h2}
  ShardOf <- MCShardOf
  Size <- MCSize
  MaxBytes = 3
  EvictChunk = 2
  MaxLeak = 1
INVARIANTS CacheInv PinnedAlive CachedOnce AccountingExact
PROPERTY InsertReturns
