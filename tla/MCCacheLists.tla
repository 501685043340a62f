---------------------------- MODULE MCCacheLists -----------------------------
\* Five entries in two buckets.
EXTENDS CacheLists

MCBucketOf == [p \in Ptrs |-> p % 2]
=============================================================================
