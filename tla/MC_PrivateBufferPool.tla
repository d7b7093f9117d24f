------------------------ MODULE MC_PrivateBufferPool ------------------------
(* Two workers with two-slot partitions.  Worker 0 owns two temporary     *)
(* files, so remove_tmp clears one while the other stays cached; each      *)
(* file has more pages than a partition has slots, so get_ppage evicts.   *)
EXTENDS PrivateBufferPool, TLC
CONSTANTS f1, f2, f3
MCOwner == f1 :> 0 @@ f2 :> 0 @@ f3 :> 1
=============================================================================
