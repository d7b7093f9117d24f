----------------------------- MODULE MC_LocalPools -----------------------------
(* The two pools no other pool shares a page with, checked in one model:  *)
(* the private buffer pool, one partition of slots per worker thread      *)
(* (PrivateBufferPool), and the tensor store's own page pool              *)
(* (TensorBufferManager).  They share no state, so the model is their     *)
(* sum: pool_plan is chosen once, the chosen pool runs from any of its    *)
(* initial states and the other stays at one of its own.  The instances   *)
(* are those of MC_PrivateBufferPool and MC_TensorBufferManager.          *)
EXTENDS TLC

CONSTANTS f1, f2, f3

VARIABLES
    pp_pool, pp_map, pp_clocks, pp_disk, live, pp_held, pp_writes, hung,
    pool, pages_map, clock_pos, tb_disk, tb_file_size, tb_held, tb_writes,
    tb_latest, pc,
    pool_plan

MCOwner == f1 :> 0 @@ f2 :> 0 @@ f3 :> 1

PP == INSTANCE PrivateBufferPool
        WITH NumWorkers <- 2, PoolPerWorker <- 2, TmpFiles <- {f1, f2, f3}, Owner <- MCOwner,
             NumPages <- 2, MaxWrites <- 2, MaxHeld <- 1,
             pp_pool <- pp_pool, pp_map <- pp_map, pp_clocks <- pp_clocks, live <- live,
             hung <- hung, disk <- pp_disk, held <- pp_held, writes <- pp_writes

TB == INSTANCE TensorBufferManager
        WITH PoolSize <- 3, InitPages <- 2, MaxPages <- 4, MaxWrites <- 2, MaxHeld <- 2,
             pool <- pool, pages_map <- pages_map, clock_pos <- clock_pos, pc <- pc,
             disk <- tb_disk, file_size <- tb_file_size, held <- tb_held,
             writes <- tb_writes, latest <- tb_latest

pp_vars == <<pp_pool, pp_map, pp_clocks, pp_disk, live, pp_held, pp_writes, hung>>
tb_vars == <<pool, pages_map, clock_pos, tb_disk, tb_file_size, tb_held, tb_writes,
             tb_latest, pc>>
all_vars == <<pp_vars, tb_vars, pool_plan>>

(* the idle tensor pool: nothing preloaded *)
IdleTensorPool == \A c \in DOMAIN pool : pool[c].pid = TB!NoPage

MCInit ==
    /\ PP!Init /\ TB!Init
    /\ \/ pool_plan = "pp" /\ IdleTensorPool
       \/ pool_plan = "tb"

MCNext ==
    \/ pool_plan = "pp" /\ PP!Next /\ UNCHANGED <<tb_vars, pool_plan>>
    \/ pool_plan = "tb" /\ TB!Next /\ UNCHANGED <<pp_vars, pool_plan>>

(* Neither module assumes fairness; each stops once its client is done:  *)
(* temporary files removed and pages unpinned, or ~TensorBufferManager.   *)
MCSpec == MCInit /\ [][MCNext]_all_vars

(* The properties of the two modules, under the names this model gives   *)
(* them.  The private pool: every field has its type;                     *)
PPTypeOK == PP!TypeOK
(* a slot's pin count is the number of pins its worker holds on it;       *)
PPPinsMatchHolders == PP!PinsMatchHolders
(* a page a worker holds is its own and sits in its own partition, and no *)
(* partition caches another worker's page;                               *)
PPPrivateIsolation == PP!PrivateIsolation
(* pp_map names exactly the pages resident in the worker's partition;     *)
PPMapMatchesPool == PP!MapMatchesPool
(* get_ppage_available's loop ends while a worker has a slot unpinned;    *)
PPNeverHangs == PP!NeverHangs
(* the pool implements the private page store PrivatePageStore.          *)
PPImplementsPageStore == PP!ImplementsPageStore
(* The tensor pool: every field has its type;                             *)
TBTypeOK == TB!TypeOK
(* a slot's pin count is the number of pins the client holds on it;       *)
TBPinsMatchHolders == TB!PinsMatchHolders
(* the clock loop never spins for ever on a full pool;                    *)
TBNeverHangs == TB!NeverHangs
(* no step of the clock recycles a slot the client pins.                  *)
TBPinnedNeverReassigned == TB!PinnedNeverReassigned
=============================================================================
