------------------------- MODULE TensorBufferManager -------------------------
(***************************************************************************)
(* TensorBufferManager (src/storage/index/tensor_store/                    *)
(* tensor_buffer_manager.cc): the page pool of one tensor store, with a    *)
(* map from page to slot and a clock, and no mutex: one client uses it.   *)
(* The client asks get_or_append_page for an existing page or the next    *)
(* one, writes the pages it holds, unpins them, and at the end the        *)
(* destructor flushes.                                                    *)
(*                                                                         *)
(* TensorPage is declared in a header that is not in the repository; its *)
(* pin, unpin and reassign are taken to behave as Page's do (spec 4.3).   *)
(* A page's bytes are abstracted to the last write they contain:         *)
(* [page, n], n numbering writes.                                         *)
(***************************************************************************)
EXTENDS Integers, FiniteSets

CONSTANTS
    PoolSize,   \* tensor_page_pool_size
    InitPages,  \* pages of the .tensors file at start
    MaxPages,   \* bound on the file's pages
    MaxWrites,  \* bound on the writes to page bytes
    MaxHeld     \* bound on the pins the client holds at a time

ASSUME PoolSize \in Nat \ {0} /\ InitPages \in 0..MaxPages
ASSUME MaxWrites \in Nat /\ MaxHeld \in Nat \ {0}

Slots   == 0..PoolSize-1
Nil     == -1
NoPage  == -1
Pages   == 0..MaxPages-1
Content == [page: Pages \cup {NoPage}, n: 0..MaxWrites]
Initial(p) == [page |-> p, n |-> 0]
Blank   == [page |-> NoPage, n |-> 0]
SweepFuel == 2 * PoolSize

TPageRec == [pid: Pages \cup {NoPage}, pins: Nat, dirty: BOOLEAN, sc: BOOLEAN, data: Content]

VARIABLES
    pool,       \* tensor_page_pool[i]
    pages_map,  \* page -> slot, Nil when absent
    clock_pos,
    disk,       \* the file: page number -> content
    file_size,  \* count_pages()
    held,       \* pins the client holds: [slot, page]
    writes,     \* number of writes so far
    latest,     \* ghost: page -> its content as last written
    pc          \* "run", "hung" in the clock loop, "closed" after ~TensorBufferManager

vars == <<pool, pages_map, clock_pos, disk, file_size, held, writes, latest, pc>>

-----------------------------------------------------------------------------
(* Mutated forms of mapped definitions, used by PROJECT.json "mutants". *)
SkipPinned_mut(pg) == pg.pins > 1
Pin_mut(sl, c) == sl
Reassign_mut(sl, c, p) == [sl EXCEPT ![c].pid = p, ![c].dirty = FALSE]
ClearChance_mut(sl, c) == sl
-----------------------------------------------------------------------------

(* the clock skips a slot somebody pins *)
SkipPinned(pg) == pg.pins # 0

(* page->second_chance = false *)
ClearChance(sl, c) == [sl EXCEPT ![c].sc = FALSE]

(* get_tensor_page_available: look at clock_pos first; the slot found is  *)
(* returned without moving the clock past it.  found = FALSE after two    *)
(* laps: with nobody else to unpin, the loop never ends.                  *)
RECURSIVE Sweep(_, _, _)
Sweep(sl, clk, fuel) ==
    IF fuel = 0 THEN [found |-> FALSE, pool |-> sl, clock |-> clk, slot |-> Nil]
    ELSE LET next == (clk + 1) % PoolSize IN
         CASE SkipPinned(sl[clk]) -> Sweep(sl, next, fuel - 1)
           [] sl[clk].sc          -> Sweep(ClearChance(sl, clk), next, fuel - 1)
           [] OTHER               -> [found |-> TRUE, pool |-> sl, clock |-> clk, slot |-> clk]

(* pin(): one more pin on a resident page *)
Pin(sl, c) == [sl EXCEPT ![c].pins = @ + 1]

(* page.reassign(page_id): new identity, one pin, clean *)
Reassign(sl, c, p) == [sl EXCEPT ![c].pid = p, ![c].pins = 1, ![c].dirty = FALSE]

(* a dirty victim of get_page is written to its page on disk *)
FlushVictim(d, pg) == IF pg.dirty THEN [d EXCEPT ![pg.pid] = pg.data] ELSE d

(* flush(): every dirty slot is written to its page *)
FlushAll(d) == [p \in DOMAIN d |->
                  IF \E c \in Slots : pool[c].dirty /\ pool[c].pid = p
                  THEN pool[CHOOSE c \in Slots : pool[c].dirty /\ pool[c].pid = p].data
                  ELSE d[p]]

(* pages_map.insert keeps an existing entry *)
MapInsert(m, p, c) == IF m[p] = Nil THEN [m EXCEPT ![p] = c] ELSE m

(* the constructor, with preload_pages or without: preloading reads the  *)
(* first min(pool size, file pages) pages into slots 0, 1, ...            *)
Preloaded(preload, c) == preload /\ c < InitPages

Init ==
    /\ disk = [p \in Pages |-> Initial(p)]
    /\ \E preload \in BOOLEAN :
        /\ pool = [c \in Slots |->
                     IF Preloaded(preload, c)
                     THEN [pid |-> c, pins |-> 0, dirty |-> FALSE, sc |-> FALSE, data |-> Initial(c)]
                     ELSE [pid |-> NoPage, pins |-> 0, dirty |-> FALSE, sc |-> FALSE, data |-> Blank]]
        /\ pages_map = [p \in Pages |-> IF p \in Slots /\ Preloaded(preload, p) THEN p ELSE Nil]
    /\ clock_pos = 0
    /\ file_size = InitPages
    /\ held = {}
    /\ writes = 0
    /\ latest = [p \in Pages |-> Initial(p)]
    /\ pc = "run"

(* the clock loops for ever *)
Hang == pc' = "hung" /\ UNCHANGED <<pool, pages_map, clock_pos, disk, file_size, held, latest>>

(* get_page: pin a resident page; or take the clock's victim, drop its    *)
(* map entry, flush it if dirty, reassign it and read the page            *)
GetPage(p) ==
    IF pages_map[p] # Nil
    THEN /\ pool' = Pin(pool, pages_map[p])
         /\ held' = held \cup {[slot |-> pages_map[p], page |-> p]}
         /\ UNCHANGED <<pages_map, clock_pos, disk, file_size, latest, pc>>
    ELSE LET o  == Sweep(pool, clock_pos, SweepFuel)
             c  == o.slot
             pg == o.pool[c]
         IN IF ~o.found THEN Hang
            ELSE /\ pages_map' = LET m1 == IF pg.pid # NoPage THEN [pages_map EXCEPT ![pg.pid] = Nil]
                                           ELSE pages_map
                                  IN MapInsert(m1, p, c)
                 /\ disk' = FlushVictim(disk, pg)
                 /\ pool' = [Reassign(o.pool, c, p) EXCEPT ![c].data = disk'[p]]
                 /\ clock_pos' = o.clock
                 /\ held' = held \cup {[slot |-> c, page |-> p]}
                 /\ UNCHANGED <<file_size, latest, pc>>

(* append_page: the clock's victim is appended to the file with the bytes *)
(* it holds, and becomes the new page, dirty                              *)
AppendPage ==
    LET pn == file_size
        o  == Sweep(pool, clock_pos, SweepFuel)
        c  == o.slot
    IN IF ~o.found THEN Hang
       ELSE /\ disk' = [disk EXCEPT ![pn] = o.pool[c].data]
            /\ latest' = [latest EXCEPT ![pn] = o.pool[c].data]
            /\ pool' = [Reassign(o.pool, c, pn) EXCEPT ![c].dirty = TRUE]
            /\ pages_map' = MapInsert(pages_map, pn, c)
            /\ clock_pos' = o.clock
            /\ file_size' = pn + 1
            /\ held' = held \cup {[slot |-> c, page |-> pn]}
            /\ UNCHANGED pc

(* get_or_append_page(page_number) for a page the client does not hold:  *)
(* an existing page, or (as the assert requires) the next one            *)
GetOrAppendPage(pn) ==
    /\ pc = "run"
    /\ Cardinality(held) < MaxHeld
    /\ ~\E h \in held : h.page = pn
    /\ pn <= file_size /\ pn < MaxPages
    /\ IF pn < file_size THEN GetPage(pn) ELSE AppendPage
    /\ UNCHANGED writes

(* The client writes a page it holds and marks it dirty. *)
WritePage ==
    \E h \in held :
    LET v == [page |-> h.page, n |-> writes + 1] IN
    /\ pc = "run"
    /\ writes < MaxWrites
    /\ pool' = [pool EXCEPT ![h.slot].data = v, ![h.slot].dirty = TRUE]
    /\ writes' = writes + 1
    /\ latest' = [latest EXCEPT ![h.page] = v]
    /\ UNCHANGED <<pages_map, clock_pos, disk, file_size, held, pc>>

(* unpin: drop one pin, give the slot a second chance *)
Unpin ==
    \E h \in held :
    /\ pc = "run"
    /\ pool' = [pool EXCEPT ![h.slot].pins = @ - 1, ![h.slot].sc = TRUE]
    /\ held' = held \ {h}
    /\ UNCHANGED <<pages_map, clock_pos, disk, file_size, writes, latest, pc>>

(* ~TensorBufferManager once the client released every pin: flush() *)
Close ==
    /\ pc = "run"
    /\ held = {}
    /\ disk' = FlushAll(disk)
    /\ pc' = "closed"
    /\ UNCHANGED <<pool, pages_map, clock_pos, file_size, held, writes, latest>>

Next ==
    \/ \E pn \in Pages : GetOrAppendPage(pn)
    \/ WritePage
    \/ Unpin
    \/ Close

Spec == Init /\ [][Next]_vars

-----------------------------------------------------------------------------
TypeOK ==
    /\ pool \in [Slots -> TPageRec]
    /\ pages_map \in [Pages -> Slots \cup {Nil}]
    /\ clock_pos \in Slots
    /\ disk \in [Pages -> Content]
    /\ file_size \in InitPages..MaxPages
    /\ held \subseteq [slot: Slots, page: Pages]
    /\ writes \in 0..MaxWrites
    /\ latest \in [Pages -> Content]
    /\ pc \in {"run", "hung", "closed"}

(* A pinned page is never recycled: neither get_page nor append_page      *)
(* gives a slot the client pins a new page identity.                      *)
PinnedNeverReassigned ==
    [][\A c \in Slots : pool[c].pins > 0 => pool'[c].pid = pool[c].pid]_pool

(* Pin counts match what the client holds: a hit pins, a miss or append  *)
(* reassigns the victim to one pin, unpin drops one.                      *)
PinsMatchHolders ==
    \A c \in Slots : pool[c].pins = Cardinality({h \in held : h.slot = c})

(* While the client holds fewer pins than there are slots, the clock loop *)
(* of get_tensor_page_available always ends: the slot it stays on and    *)
(* second chances never make it go round for ever.                        *)
NeverHangs == pc # "hung"

(* What get_page(p) would return now. *)
FreshRead(p) == IF pages_map[p] # Nil THEN pool[pages_map[p]].data ELSE disk[p]

(* No write is lost: every page of the file reads back as last written,   *)
(* whichever pages were evicted, flushed or appended in between.          *)
NoLostWrite == \A p \in Pages : p < file_size => FreshRead(p) = latest[p]
=============================================================================
