-------------------------- MODULE PrivateBufferPool --------------------------
(***************************************************************************)
(* The private page pool of BufferManager (src/storage/buffer_manager.cc: *)
(* get_ppage_available, get_ppage, remove_tmp).  pp_pool is one flat      *)
(* array of NumWorkers * PoolPerWorker slots; worker position w owns the  *)
(* slots w * PoolPerWorker + i, a map pp_map[w] and a clock pp_clocks[w]. *)
(* A TmpFileId carries the owner's position, and only the owner calls     *)
(* get_ppage and remove_tmp with it, so there is no mutex: the workers'   *)
(* steps interleave freely.                                               *)
(*                                                                         *)
(* A page's bytes are abstracted to the last write they contain,          *)
(* [page, n]; read_tmp_page fills a page never written with zeros, Zero.  *)
(* PPage::reset, unpin and the make-dirty of a holder are declared in     *)
(* headers that are not in the repository and follow spec 4.3 and 4.5.   *)
(***************************************************************************)
EXTENDS Integers, FiniteSets

CONSTANTS
    NumWorkers,     \* workers: positions 0..NumWorkers-1
    PoolPerWorker,  \* pp_pool_size, the slots of one partition
    TmpFiles,       \* the temporary files' FileIds
    Owner,          \* TmpFiles -> the private_buffer_pos of their TmpFileId
    NumPages,       \* page numbers 0..NumPages-1 of each temporary file
    MaxWrites,      \* bound on the writes to page bytes
    MaxHeld         \* bound on the pins one worker holds at a time

Workers == 0..NumWorkers-1
Local   == 0..PoolPerWorker-1
Slots   == 0..NumWorkers * PoolPerWorker - 1
ASSUME Owner \in [TmpFiles -> Workers]
ASSUME MaxWrites \in Nat /\ MaxHeld \in 1..PoolPerWorker

Nil     == -1
NoPage  == <<"UNASSIGNED", -1>>
Pages   == TmpFiles \X (0..NumPages-1)          \* PageId(file_id, page_number)
Content == [page: Pages \cup {NoPage}, n: 0..MaxWrites]
Zero    == [page |-> NoPage, n |-> 0]
SweepFuel == 2 * PoolPerWorker

PPageRec == [pid: Pages \cup {NoPage}, pins: Nat, dirty: BOOLEAN, sc: BOOLEAN, data: Content]

VARIABLES
    pp_pool,    \* slot -> PPage
    pp_map,     \* worker -> page -> slot, Nil when absent
    pp_clocks,  \* worker -> its clock hand, an index into its partition
    disk,       \* the temporary files: page -> content
    live,       \* the temporary files not yet removed
    held,       \* worker -> the pins it holds: [slot, page]
    writes,     \* number of writes so far
    hung        \* workers stuck in get_ppage_available's loop

vars == <<pp_pool, pp_map, pp_clocks, disk, live, held, writes, hung>>

-----------------------------------------------------------------------------
(* Mutated forms of mapped definitions, used by PROJECT.json "mutants". *)
PSlot_mut(w, i) == w * (PoolPerWorker - 1) + i
Pin_mut(sl, c) == sl
ClearChance_mut(sl, c) == sl
FlushVictim_mut(d, pg) == d
EraseTmp_mut(m, sl, w, f) == m
NextClock_mut(clk) == IF clk + 1 <= PoolPerWorker THEN clk + 1 ELSE 0
-----------------------------------------------------------------------------

(* pp_pool[(thread_pos * pp_pool_size) + clock] *)
PSlot(w, i) == w * PoolPerWorker + i

Partition(w) == {PSlot(w, i) : i \in Local}

(* clock++; clock = clock < pp_pool_size ? clock : 0 *)
NextClock(clk) == IF clk + 1 < PoolPerWorker THEN clk + 1 ELSE 0

(* the clock skips a slot somebody pins *)
SkipPinned(pg) == pg.pins # 0

(* page->second_chance = false *)
ClearChance(sl, c) == [sl EXCEPT ![c].sc = FALSE]

(* get_ppage_available(w): from pp_clocks[w], the first unpinned slot of  *)
(* the partition whose second chance is spent; the clock stays on it.     *)
(* found = FALSE after two laps: only w itself could unpin, so the loop   *)
(* never ends.                                                            *)
RECURSIVE Sweep(_, _, _, _)
Sweep(w, sl, clk, fuel) ==
    IF fuel = 0 THEN [found |-> FALSE, pool |-> sl, clock |-> clk, slot |-> Nil]
    ELSE LET c    == PSlot(w, clk)
             next == NextClock(clk)
         IN CASE SkipPinned(sl[c]) -> Sweep(w, sl, next, fuel - 1)
              [] sl[c].sc          -> Sweep(w, ClearChance(sl, c), next, fuel - 1)
              [] OTHER             -> [found |-> TRUE, pool |-> sl, clock |-> clk, slot |-> c]

(* it->second->pins++ *)
Pin(sl, c) == [sl EXCEPT ![c].pins = @ + 1]

(* page.reassign(page_id): new identity, one pin, clean *)
Reassign(sl, c, p) == [sl EXCEPT ![c].pid = p, ![c].pins = 1, ![c].dirty = FALSE]

(* file_manager.flush(page) of a dirty victim *)
FlushVictim(d, pg) == IF pg.dirty THEN [d EXCEPT ![pg.pid] = pg.data] ELSE d

(* remove_tmp's loop: every slot of w's partition holding a page of f    *)
(* leaves pp_map[w] and is reset                                          *)
InFile(pg, f) == pg.pid # NoPage /\ pg.pid[1] = f

ResetTmp(m, sl, w, f) ==
    [c \in DOMAIN sl |->
        IF c \in Partition(w) /\ InFile(sl[c], f)
        THEN [sl[c] EXCEPT !.pid = NoPage, !.pins = 0, !.dirty = FALSE, !.sc = FALSE]
        ELSE sl[c]]

EraseTmp(m, sl, w, f) ==
    [p \in DOMAIN m |->
        IF \E c \in Partition(w) : InFile(sl[c], f) /\ sl[c].pid = p THEN Nil ELSE m[p]]

Init ==
    /\ pp_pool = [c \in Slots |-> [pid |-> NoPage, pins |-> 0, dirty |-> FALSE, sc |-> FALSE,
                                   data |-> Zero]]
    /\ pp_map = [w \in Workers |-> [p \in Pages |-> Nil]]
    /\ pp_clocks = [w \in Workers |-> 0]
    /\ disk = [p \in Pages |-> Zero]
    /\ live = TmpFiles
    /\ held = [w \in Workers |-> {}]
    /\ writes = 0
    /\ hung = {}

Ready(w) == w \notin hung

(* get_ppage(TmpFileId(f, w), n) by the owner w, for a page it does not  *)
(* hold: a hit pins the slot; a miss takes get_ppage_available's slot,    *)
(* erases the victim's pp_map entry, flushes it if dirty, reassigns it,   *)
(* reads the page from the temporary file and enters it in pp_map[w].     *)
GetPPage(w, p) ==
    /\ Ready(w) /\ p[1] \in live /\ Owner[p[1]] = w
    /\ Cardinality(held[w]) < MaxHeld /\ \A h \in held[w] : h.page # p
    /\ IF pp_map[w][p] # Nil
       THEN /\ pp_pool' = Pin(pp_pool, pp_map[w][p])
            /\ held' = [held EXCEPT ![w] = @ \cup {[slot |-> pp_map[w][p], page |-> p]}]
            /\ UNCHANGED <<pp_map, pp_clocks, disk, hung>>
       ELSE LET o  == Sweep(w, pp_pool, pp_clocks[w], SweepFuel)
                c  == o.slot
                pg == o.pool[c]
            IN IF ~o.found
               THEN /\ hung' = hung \cup {w}
                    /\ UNCHANGED <<pp_pool, pp_map, pp_clocks, disk, held>>
               ELSE /\ pp_map' = LET m1 == IF pg.pid # NoPage
                                             THEN [pp_map[w] EXCEPT ![pg.pid] = Nil]
                                             ELSE pp_map[w]
                                  IN [pp_map EXCEPT ![w] = [m1 EXCEPT ![p] = c]]
                    /\ disk' = FlushVictim(disk, pg)
                    /\ pp_pool' = [Reassign(o.pool, c, p) EXCEPT ![c].data = disk'[p]]
                    /\ pp_clocks' = [pp_clocks EXCEPT ![w] = o.clock]
                    /\ held' = [held EXCEPT ![w] = @ \cup {[slot |-> c, page |-> p]}]
                    /\ UNCHANGED hung
    /\ UNCHANGED <<live, writes>>

(* the holder writes the page's bytes and marks it dirty *)
WritePPage(w, h) ==
    /\ Ready(w) /\ writes < MaxWrites
    /\ pp_pool' = [pp_pool EXCEPT ![h.slot].data = [page |-> h.page, n |-> writes + 1],
                                  ![h.slot].dirty = TRUE]
    /\ writes' = writes + 1
    /\ UNCHANGED <<pp_map, pp_clocks, disk, live, held, hung>>

(* unpin(): one pin less, and a second chance for the clock *)
UnpinPPage(w, h) ==
    /\ Ready(w)
    /\ pp_pool' = [pp_pool EXCEPT ![h.slot].pins = @ - 1, ![h.slot].sc = TRUE]
    /\ held' = [held EXCEPT ![w] = @ \ {h}]
    /\ UNCHANGED <<pp_map, pp_clocks, disk, live, writes, hung>>

(* remove_tmp(TmpFileId(f, w)) by the owner once it holds no page of f *)
RemoveTmp(w, f) ==
    /\ Ready(w) /\ f \in live /\ Owner[f] = w
    /\ \A h \in held[w] : h.page[1] # f
    /\ pp_map' = [pp_map EXCEPT ![w] = EraseTmp(@, pp_pool, w, f)]
    /\ pp_pool' = ResetTmp(pp_map[w], pp_pool, w, f)
    /\ live' = live \ {f}
    /\ UNCHANGED <<pp_clocks, disk, held, writes, hung>>

Next ==
    \E w \in Workers :
        \/ \E p \in Pages : GetPPage(w, p)
        \/ \E h \in held[w] : WritePPage(w, h) \/ UnpinPPage(w, h)
        \/ \E f \in TmpFiles : RemoveTmp(w, f)

Spec == Init /\ [][Next]_vars

-----------------------------------------------------------------------------
TypeOK ==
    /\ pp_pool \in [Slots -> PPageRec]
    /\ pp_map \in [Workers -> [Pages -> Slots \cup {Nil}]]
    /\ pp_clocks \in [Workers -> Local]
    /\ disk \in [Pages -> Content]
    /\ live \subseteq TmpFiles /\ hung \subseteq Workers
    /\ held \in [Workers -> SUBSET [slot: Slots, page: Pages]]
    /\ writes \in 0..MaxWrites

(* With no mutex, pins++ in get_ppage and the holders' unpins keep every  *)
(* slot's pin count equal to the pins its partition's worker holds, and   *)
(* no other worker holds a pin on it.                                     *)
PinsMatchHolders ==
    \A c \in Slots :
        pp_pool[c].pins = Cardinality({w \in Workers : \E h \in held[w] : h.slot = c})
        /\ \A w \in Workers : \A h \in held[w] : h.slot = c => c \in Partition(w)

(* Spec scenario 6, private pool isolation: a page a worker holds sits    *)
(* in its own partition and is the page of its own temporary file it      *)
(* asked get_ppage for, and no partition caches another worker's page;    *)
(* get_ppage_available's index arithmetic and the clock's wrap decide it. *)
PrivateIsolation ==
    /\ \A w \in Workers : \A h \in held[w] : pp_pool[h.slot].pid = h.page
    /\ \A w \in Workers : \A c \in Partition(w) :
           pp_pool[c].pid # NoPage => Owner[pp_pool[c].pid[1]] = w

(* pp_map[w] names exactly the pages resident in w's partition, at their *)
(* slot: get_ppage erases the victim's entry and remove_tmp the entries   *)
(* of the slots it resets, so a later get_ppage of a page id never hits  *)
(* a slot that holds another page or none.                               *)
MapMatchesPool ==
    \A w \in Workers : \A p \in Pages :
        pp_map[w][p] # Nil <=> \E c \in Partition(w) : pp_pool[c].pid = p /\ pp_map[w][p] = c

(* What get_ppage of p by its owner would return now: the slot pp_map    *)
(* names, or else the temporary file.                                     *)
FreshRead(p) ==
    LET c == pp_map[Owner[p[1]]][p] IN IF c # Nil THEN pp_pool[c].data ELSE disk[p]

Store == INSTANCE PrivatePageStore
           WITH mem    <- [p \in Pages |-> IF p[1] \in live THEN FreshRead(p) ELSE Zero],
                pinned <- [w \in Workers |-> {h.page : h \in held[w]}]

(* The pool implements a private memory per worker: what get_ppage returns *)
(* for a page changes only when its owner writes it, whichever pages       *)
(* get_ppage evicts, flushes and reads back in between, and remove_tmp     *)
(* drops exactly the removed file's pages.                                 *)
ImplementsPageStore == Store!Spec

(* A worker holding fewer pins than its partition has slots never stays  *)
(* in get_ppage_available's loop: clearing second chances within two laps *)
(* must leave it a victim.                                               *)
NeverHangs == hung = {}
=============================================================================
