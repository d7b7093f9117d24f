------------------------ MODULE UnversionedBufferPool ------------------------
(***************************************************************************)
(* The unversioned page pool (UP) of src/storage/buffer_manager.cc: one    *)
(* array of UPage slots, a map from page to slot, a clock, all guarded by  *)
(* up_mutex.  The string hash keeps its buckets here.                      *)
(*                                                                         *)
(* A worker enters get_unversioned_page or append_unversioned_page, and   *)
(* then the call runs under up_mutex.  When the clock finds no slot, the  *)
(* call keeps up_mutex and spins (get_upage_available never gives up), so *)
(* other callers wait on the mutex.  A page's bytes are abstracted to the *)
(* last write they contain: [page, n], n numbering writes globally.       *)
(***************************************************************************)
EXTENDS Integers, FiniteSets

CONSTANTS
    Workers,    \* threads using the pool
    PoolSize,   \* up_pool_size
    InitPages,  \* pages of the file on disk at start
    MaxPages,   \* bound on the file's pages (append_unversioned_page)
    MaxWrites,  \* bound on the writes to page bytes
    MaxHeld,    \* bound on the pins one worker holds at a time
    None

ASSUME PoolSize \in Nat \ {0} /\ InitPages \in 1..MaxPages
ASSUME MaxWrites \in Nat /\ MaxHeld \in Nat \ {0} /\ None \notin Workers

Slots   == 0..PoolSize-1
Nil     == -1
NoPage  == -1
Pages   == 0..MaxPages-1
Content == [page: Pages \cup {NoPage}, n: 0..MaxWrites]
Initial(p) == [page |-> p, n |-> 0]
SweepFuel == 2 * PoolSize

UPageRec == [pid: Pages \cup {NoPage}, pins: Nat, dirty: BOOLEAN, sc: BOOLEAN, data: Content]
CallRec  == [op: {"get"}, page: Pages] \cup [op: {"append"}]

VARIABLES
    slots,      \* up_pool[i]
    up_map,     \* page -> slot, Nil when absent
    up_clock,
    up_mutex,   \* the worker inside a call, None when free
    disk,       \* the file: page number -> content
    file_size,
    want,       \* the call a worker is in, None when it is in none
    held,       \* pins a worker holds: [slot, page]
    writes,     \* number of writes so far
    latest      \* ghost: page -> its content as last written

vars == <<slots, up_map, up_clock, up_mutex, disk, file_size, want, held, writes, latest>>

-----------------------------------------------------------------------------
(* Mutated forms of mapped definitions, used by PROJECT.json "mutants". *)
SkipPinned_mut(pg) == pg.pins > 1
Pin_mut(sl, c) == [sl EXCEPT ![c].pins = @ + 2]
Reassign_mut(sl, c, p) == [sl EXCEPT ![c].pid = p, ![c].dirty = FALSE]
-----------------------------------------------------------------------------

PoolState == [slots |-> slots, map |-> up_map, clock |-> up_clock, disk |-> disk]

(* the clock skips a slot somebody pins *)
SkipPinned(pg) == pg.pins # 0

(* get_upage_available: the first unpinned slot whose second chance is    *)
(* spent.  found = FALSE after two laps without one: the caller spins.    *)
RECURSIVE Sweep(_, _)
Sweep(st, fuel) ==
    IF fuel = 0 THEN [found |-> FALSE, st |-> st, slot |-> Nil]
    ELSE LET c   == (st.clock + 1) % PoolSize
             pg  == st.slots[c]
             st1 == [st EXCEPT !.clock = c]
         IN CASE SkipPinned(pg) -> Sweep(st1, fuel - 1)
              [] pg.sc          -> Sweep([st1 EXCEPT !.slots[c].sc = FALSE], fuel - 1)
              [] OTHER          -> [found |-> TRUE, st |-> st1, slot |-> c]

(* pin(): one more pin on a resident page *)
Pin(sl, c) == [sl EXCEPT ![c].pins = @ + 1]

(* page.reassign(page_id): new identity, one pin, clean *)
Reassign(sl, c, p) == [sl EXCEPT ![c].pid = p, ![c].pins = 1, ![c].dirty = FALSE]

(* the victim of get_unversioned_page leaves up_map and is flushed if dirty *)
EvictForGet(st, c) ==
    LET pg == st.slots[c] IN
    [st EXCEPT !.map = IF pg.pid # NoPage THEN [@ EXCEPT ![pg.pid] = Nil] ELSE @,
               !.disk = IF pg.dirty THEN [@ EXCEPT ![pg.pid] = pg.data] ELSE @]

(* up_map.insert keeps an existing entry *)
MapInsert(m, p, c) == IF m[p] = Nil THEN [m EXCEPT ![p] = c] ELSE m

(* A call that found no slot keeps up_mutex and the sweep's second-chance *)
(* clearing; it stays in the call.                                        *)
Spin(w, o) ==
    /\ up_mutex' = w
    /\ slots' = o.st.slots /\ up_clock' = o.st.clock
    /\ UNCHANGED <<up_map, disk, file_size, want, held, writes, latest>>

Returns(w, h) ==
    /\ up_mutex' = None
    /\ want' = [want EXCEPT ![w] = None]
    /\ held' = [held EXCEPT ![w] = @ \cup {h}]

Idle(w) == want[w] = None /\ Cardinality(held[w]) < MaxHeld

-----------------------------------------------------------------------------
Init ==
    /\ slots = [c \in Slots |-> [pid |-> NoPage, pins |-> 0, dirty |-> FALSE, sc |-> FALSE,
                                 data |-> [page |-> NoPage, n |-> 0]]]
    /\ up_map = [p \in Pages |-> Nil]
    /\ up_clock = 0
    /\ up_mutex = None
    /\ disk = [p \in Pages |-> Initial(p)]
    /\ file_size = InitPages
    /\ want = [w \in Workers |-> None]
    /\ held = [w \in Workers |-> {}]
    /\ writes = 0
    /\ latest = [p \in Pages |-> Initial(p)]

(* a worker enters get_unversioned_page for a page it does not hold *)
CallGet(w, p) ==
    /\ Idle(w) /\ p < file_size
    /\ ~\E h \in held[w] : h.page = p
    /\ want' = [want EXCEPT ![w] = [op |-> "get", page |-> p]]
    /\ UNCHANGED <<slots, up_map, up_clock, up_mutex, disk, file_size, held, writes, latest>>

(* a worker enters append_unversioned_page; the appends in flight keep *)
(* the file within MaxPages                                             *)
Appending == {w \in Workers : want[w] # None /\ want[w].op = "append"}
CallAppend(w) ==
    /\ Idle(w)
    /\ file_size + Cardinality(Appending) < MaxPages
    /\ want' = [want EXCEPT ![w] = [op |-> "append"]]
    /\ UNCHANGED <<slots, up_map, up_clock, up_mutex, disk, file_size, held, writes, latest>>

(* get_unversioned_page under up_mutex: pin a resident page, or take the  *)
(* clock's victim, drop its map entry, flush it if dirty, read the page.  *)
GetUnversionedPage(w) ==
    LET p == want[w].page IN
    /\ want[w] # None /\ want[w].op = "get"
    /\ up_mutex \in {None, w}
    /\ IF up_map[p] # Nil
       THEN /\ slots' = Pin(slots, up_map[p])
            /\ Returns(w, [slot |-> up_map[p], page |-> p])
            /\ UNCHANGED <<up_map, up_clock, disk>>
       ELSE LET o == Sweep(PoolState, SweepFuel) IN
            IF ~o.found THEN Spin(w, o)
            ELSE LET c  == o.slot
                     s1 == EvictForGet(o.st, c)
                     sl == [Reassign(s1.slots, c, p) EXCEPT ![c].data = s1.disk[p]]
                 IN /\ slots' = sl
                    /\ up_map' = MapInsert(s1.map, p, c)
                    /\ up_clock' = s1.clock
                    /\ disk' = s1.disk
                    /\ Returns(w, [slot |-> c, page |-> p])
    /\ UNCHANGED <<file_size, writes, latest>>

(* append_unversioned_page under up_mutex: the clock's victim is written *)
(* at the end of the file and becomes the new page, dirty.               *)
AppendUnversionedPage(w) ==
    LET pn == file_size
        o  == Sweep(PoolState, SweepFuel)
    IN
    /\ want[w] # None /\ want[w].op = "append"
    /\ up_mutex \in {None, w}
    /\ IF ~o.found THEN Spin(w, o)
       ELSE LET c == o.slot IN
            /\ disk' = [disk EXCEPT ![pn] = o.st.slots[c].data]
            /\ latest' = [latest EXCEPT ![pn] = o.st.slots[c].data]
            /\ slots' = [Reassign(o.st.slots, c, pn) EXCEPT ![c].dirty = TRUE]
            /\ up_map' = MapInsert(up_map, pn, c)
            /\ up_clock' = o.st.clock
            /\ file_size' = pn + 1
            /\ Returns(w, [slot |-> c, page |-> pn])
            /\ UNCHANGED writes

(* The holder of a pin writes the page's bytes and calls make_dirty(). *)
WritePage(w) ==
    \E h \in held[w] :
    LET v == [page |-> h.page, n |-> writes + 1] IN
    /\ writes < MaxWrites
    /\ slots' = [slots EXCEPT ![h.slot].data = v, ![h.slot].dirty = TRUE]
    /\ writes' = writes + 1
    /\ latest' = [latest EXCEPT ![h.page] = v]
    /\ UNCHANGED <<up_map, up_clock, up_mutex, disk, file_size, want, held>>

(* unpin: drop one pin, give the slot a second chance *)
Unpin(w) ==
    \E h \in held[w] :
    /\ want[w] = None
    /\ slots' = [slots EXCEPT ![h.slot].pins = @ - 1, ![h.slot].sc = TRUE]
    /\ held' = [held EXCEPT ![w] = @ \ {h}]
    /\ UNCHANGED <<up_map, up_clock, up_mutex, disk, file_size, want, writes, latest>>

Next ==
    \E w \in Workers :
        \/ \E p \in Pages : CallGet(w, p)
        \/ CallAppend(w)
        \/ GetUnversionedPage(w)
        \/ AppendUnversionedPage(w)
        \/ WritePage(w)
        \/ Unpin(w)

Spec == Init /\ [][Next]_vars

-----------------------------------------------------------------------------
TypeOK ==
    /\ slots \in [Slots -> UPageRec]
    /\ up_map \in [Pages -> Slots \cup {Nil}]
    /\ up_clock \in Slots
    /\ up_mutex \in Workers \cup {None}
    /\ disk \in [Pages -> Content]
    /\ file_size \in InitPages..MaxPages
    /\ want \in [Workers -> CallRec \cup {None}]
    /\ \A w \in Workers : held[w] \subseteq [slot: Slots, page: Pages]
    /\ writes \in 0..MaxWrites
    /\ latest \in [Pages -> Content]

(* A pinned page is never recycled: no step gives a slot that somebody    *)
(* pins a new page identity; both clock callers must skip it.             *)
PinnedNeverReassigned ==
    [][\A c \in Slots : slots[c].pins > 0 => slots'[c].pid = slots[c].pid]_slots

(* What a get_unversioned_page of p would return now. *)
FreshRead(p) == IF up_map[p] # Nil THEN slots[up_map[p]].data ELSE disk[p]

(* No write is lost: every page of the file reads back as last written,   *)
(* whichever pages were evicted, flushed or appended in between.          *)
NoLostWrite == \A p \in Pages : p < file_size => FreshRead(p) = latest[p]

(* Pin counts match their holders: each slot's pins is the number of     *)
(* pins workers hold on it, across hits that pin(), misses that reassign()*)
(* a victim to one pin, and unpins.  A leaked or lost pin either blocks   *)
(* the clock for good or lets it recycle a page in use.                   *)
Holders(c) == {w \in Workers : \E h \in held[w] : h.slot = c}
PinsMatchHolders ==
    \A c \in Slots : slots[c].pins = Cardinality(Holders(c))

(* get_upage_available loops with up_mutex held until a slot is unpinned; *)
(* spec 4.3 asks for a pool no smaller than the pins held at once, so that *)
(* the loop always ends in its first two laps.  Then no call ever keeps   *)
(* up_mutex between steps: every pin taken is given back, and the clock's *)
(* second-chance clearing leaves a victim.                                *)
NeverSpins == up_mutex = None
=============================================================================
