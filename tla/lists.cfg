SPECIFICATION Spec
CONSTANTS
  Ptrs = {1, 2, 3, 4, 5}
  NoPtr = 0
  Buckets = {0, 1}
  BucketOf <- MCBucketOf
INVARIANTS ListWalks ChainWalks
