------------------------------ MODULE MCChunkCache ----------------------------
\* Instances of ChunkCache for TLC.
EXTENDS ChunkCache, TLC

CONSTANTS k1, k2, k3

\* The three do not fit in together; the two small ones do, and are counted
\* twice each, with room for one of them to be added once more.
SizeOf == k1 :> 4 @@ k2 :> 1 @@ k3 :> 1

ThreadSymmetry == Permutations(Threads)
===============================================================================
