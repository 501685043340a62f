----------------------------- MODULE MCBlobCache -----------------------------
\* Instances of BlobCache for TLC.
EXTENDS BlobCache, TLC

CONSTANTS k1, k2, k3, h1, h2

\* Two keys share a shard; the third is twice as large, in a shard of its own.
MCKeys == {k1, k2, k3}
MCShardOf == (k1 :> h1) @@ (k2 :> h1) @@ (k3 :> h2)
MCSize == (k1 :> 1) @@ (k2 :> 1) @@ (k3 :> 2)

Symm == Permutations(Ptrs) \cup Permutations(Backends)
=============================================================================
