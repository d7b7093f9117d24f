---------------------- MODULE MC_UnversionedBufferPool ----------------------
(* Model-checking instance of UnversionedBufferPool: two workers sharing  *)
(* a pool small enough that pins and evictions meet.                      *)
EXTENDS UnversionedBufferPool, TLC

CONSTANTS w1, w2

MCWorkers == {w1, w2}

MCSymmetry == Permutations(MCWorkers)
=============================================================================
