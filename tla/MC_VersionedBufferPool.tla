----------------------- MODULE MC_VersionedBufferPool -----------------------
(* Model-checking instance of VersionedBufferPool: two workers, so a      *)
(* reader and a writer can overlap, and a pool small enough that every    *)
(* request evicts.                                                        *)
EXTENDS VersionedBufferPool, TLC

CONSTANTS w1, w2

MCWorkers == {w1, w2}

(* workers are interchangeable model values *)
MCSymmetry == Permutations(MCWorkers)
=============================================================================
