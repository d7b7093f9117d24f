------------------------- MODULE VersionedBufferPool -------------------------
(***************************************************************************)
(* The versioned page pool (VP) of src/storage/buffer_manager.cc together  *)
(* with the version scopes and the running-version registry it consults.  *)
(*                                                                         *)
(* One file of pages.  A slot of vp_pool is a record holding the VPage    *)
(* fields the buffer manager reads and writes.  The bytes of a page are   *)
(* abstracted to the set of editable scopes (named by their result        *)
(* version) whose writes they contain, so a stale copy, a lost write and  *)
(* a premature flush are all visible as a wrong set.                      *)
(*                                                                         *)
(* Every public operation runs with vp_mutex held from start to end and   *)
(* is one atomic action.  get_vpage_available (the clock sweep) is the    *)
(* pure operator Sweep, applied inside the actions that call it.          *)
(***************************************************************************)
EXTENDS Integers, FiniteSets

CONSTANTS
    Workers,     \* threads running queries, each inside at most one VersionScope
    PoolSize,    \* vp_pool_size: number of VPage slots
    InitPages,   \* pages the file holds on disk at start
    MaxPages,    \* bound on the pages of the file (append_vpage)
    MaxVersion,  \* bound on last_stable_version (number of editable scopes)
    MaxHeld,     \* bound on the pins one worker holds at a time
    None         \* no worker

ASSUME PoolSize \in Nat \ {0}
ASSUME InitPages \in 1..MaxPages
ASSUME MaxVersion \in Nat /\ MaxHeld \in Nat \ {0}
ASSUME None \notin Workers

Slots    == 0..PoolSize-1
Nil      == -1            \* nullptr in prev_version / next_version, a miss in vp_map
NoPage   == -1            \* page_id.file_id == FileId::UNASSIGNED
Pages    == 0..MaxPages-1
Versions == 0..MaxVersion
Content  == SUBSET Versions
SweepFuel == 2 * PoolSize \* one lap clears second_chance, the next finds a slot

VPageRec == [pid: Pages \cup {NoPage}, ver: Versions, pins: Nat, dirty: BOOLEAN,
             sc: BOOLEAN, prev: Slots \cup {Nil}, next: Slots \cup {Nil},
             data: Content]

VARIABLES
    slots,                  \* vp_pool[i] for i in Slots
    vp_map,                 \* PageId -> oldest resident version, Nil when absent
    vp_clock,
    disk,                   \* the file: page number -> content
    file_size,              \* file_manager.count_pages(file_id)
    running_version_count,  \* version -> active scopes (0 = erased)
    last_stable_version,
    writer,                 \* holder of the writer lock
    current_modifications,
    scope,                  \* the VersionScope of each worker
    held,                   \* pins a worker holds: [slot, page, kind, seen]
    hung,                   \* worker that never returns from get_vpage_available
    written                 \* ghost: page -> result versions that wrote it

vars == <<slots, vp_map, vp_clock, disk, file_size, running_version_count,
          last_stable_version, writer, current_modifications, scope, held,
          hung, written>>

ScopeRec == [active: BOOLEAN, start: Versions, editable: BOOLEAN]
NoScope  == [active |-> FALSE, start |-> 0, editable |-> FALSE]
HoldRec  == [slot: Slots, page: Pages, kind: {"ro", "ed"}, seen: Content]

(* result_version of the worker's query context: start + 1 when editable *)
Snap(w) == scope[w].start + (IF scope[w].editable THEN 1 ELSE 0)

(* The content a snapshot at version v must see: every write of a scope   *)
(* whose result version is at most v.                                      *)
Expected(p, v) == {c \in written[p] : c <= v}

(* A page a snapshot at v may address: on disk at start or appended by a  *)
(* scope visible to v.                                                     *)
ExistsAt(p, v) == p < InitPages \/ \E c \in written[p] : c <= v

-----------------------------------------------------------------------------
(* Mutated forms of mapped definitions, used by PROJECT.json "mutants". *)
SkipPinned_mut(pg) == pg.pins > 1
Reassign_mut(st, c, p) == [st EXCEPT !.slots[c].pid = p, !.slots[c].dirty = FALSE]
-----------------------------------------------------------------------------

(* The pool state get_vpage_available reads and writes. *)
PoolState == [slots |-> slots, map |-> vp_map, clock |-> vp_clock, disk |-> disk]

Install(st) == /\ slots' = st.slots /\ vp_map' = st.map
               /\ vp_clock' = st.clock /\ disk' = st.disk

(* vp_map.insert leaves an existing key untouched *)
MapInsert(m, p, c) == IF m[p] = Nil THEN [m EXCEPT ![p] = c] ELSE m

(* page.reassign(page_id): new identity, one pin, clean *)
Reassign(st, c, p) ==
    [st EXCEPT !.slots[c].pid = p, !.slots[c].pins = 1, !.slots[c].dirty = FALSE]

(* the clock skips a slot somebody pins *)
SkipPinned(pg) == pg.pins # 0

IsSingleton(pg) == pg.prev = Nil /\ pg.next = Nil

(* no live scope is registered at version v *)
VersionNotBeingUsed(v) == running_version_count[v] = 0

(* Eviction of a slot without neighbours: forget it, flush it if dirty. *)
EvictSingleton(st, c) ==
    LET pg == st.slots[c] IN
    [st EXCEPT !.map  = IF pg.pid # NoPage THEN [@ EXCEPT ![pg.pid] = Nil] ELSE @,
               !.disk = IF pg.dirty THEN [@ EXCEPT ![pg.pid] = pg.data] ELSE @]

(* Eviction of a version no scope is registered at: splice it out of its   *)
(* chain; a dirty tail is flushed and the back-sweep over its predecessors *)
(* runs.  That loop re-reads page.prev_version, which never changes: it    *)
(* either spins forever (hang) or, the compiler being free to assume a     *)
(* side-effect-free loop terminates, stops after clearing one predecessor. *)
EvictVersion(st, c) ==
    LET pg == st.slots[c]
        s1 == IF pg.prev # Nil THEN [st EXCEPT !.slots[pg.prev].next = pg.next]
              ELSE IF pg.pid # NoPage THEN [st EXCEPT !.map[pg.pid] = pg.next]
              ELSE st
        s2 == IF s1.slots[c].next # Nil
              THEN [s1 EXCEPT !.slots[s1.slots[c].next].prev = s1.slots[c].prev]
              ELSE s1
        tail == s2.slots[c].next = Nil /\ s2.slots[c].dirty
        s3 == IF tail THEN [s2 EXCEPT !.disk[pg.pid] = s2.slots[c].data] ELSE s2
        p  == s3.slots[c].prev
    IN IF tail
       THEN {[st |-> s3, slot |-> c, hang |-> TRUE],
             [st |-> [s3 EXCEPT !.slots[p].dirty = FALSE], slot |-> c, hang |-> FALSE]}
       ELSE {[st |-> s3, slot |-> c, hang |-> FALSE]}

(* get_vpage_available: advance the clock until a slot passes every gate. *)
(* The set of outcomes is empty when no slot passes within two laps.      *)
RECURSIVE Sweep(_, _)
Sweep(st, fuel) ==
    IF fuel = 0 THEN {}
    ELSE LET c   == (st.clock + 1) % PoolSize
             pg  == st.slots[c]
             st1 == [st EXCEPT !.clock = c]
         IN CASE SkipPinned(pg)  -> Sweep(st1, fuel - 1)
              [] pg.sc           -> Sweep([st1 EXCEPT !.slots[c].sc = FALSE], fuel - 1)
              [] IsSingleton(pg) -> {[st |-> EvictSingleton(st1, c), slot |-> c, hang |-> FALSE]}
              [] VersionNotBeingUsed(pg.ver) -> EvictVersion(st1, c)
              [] OTHER           -> Sweep(st1, fuel - 1)

(* the version walk: follow next_version while it is visible to v *)
RECURSIVE Walk(_, _, _, _)
Walk(sl, c, v, fuel) ==
    IF fuel > 0 /\ sl[c].next # Nil /\ sl[sl[c].next].ver <= v
    THEN Walk(sl, sl[c].next, v, fuel - 1) ELSE c

(* The request returns the pinned slot, or never returns. *)
Finish(w, o, st, h) ==
    IF o.hang
    THEN /\ Install(o.st) /\ hung' = w /\ UNCHANGED <<held, written, current_modifications>>
    ELSE /\ Install(st) /\ held' = [held EXCEPT ![w] = @ \cup {h}] /\ UNCHANGED hung

CanRequest(w, p, kind) ==
    /\ hung = None
    /\ scope[w].active
    /\ Cardinality(held[w]) < MaxHeld
    /\ ~\E h \in held[w] : h.page = p /\ h.kind = kind

-----------------------------------------------------------------------------
Init ==
    /\ slots = [c \in Slots |-> [pid |-> NoPage, ver |-> 0, pins |-> 0, dirty |-> FALSE,
                                 sc |-> FALSE, prev |-> Nil, next |-> Nil, data |-> {}]]
    /\ vp_map = [p \in Pages |-> Nil]
    /\ vp_clock = 0
    /\ disk = [p \in Pages |-> {}]
    /\ file_size = InitPages
    /\ running_version_count = [v \in Versions |-> 0]
    /\ last_stable_version = 0
    /\ writer = None
    /\ current_modifications = {}
    /\ scope = [w \in Workers |-> NoScope]
    /\ held = [w \in Workers |-> {}]
    /\ hung = None
    /\ written = [p \in Pages |-> {}]

(* A query starts: a read-only scope at last_stable_version. *)
BeginReadScope(w) ==
    LET v == last_stable_version IN
    /\ ~scope[w].active /\ hung # w
    /\ scope' = [scope EXCEPT ![w] = [active |-> TRUE, start |-> v, editable |-> FALSE]]
    /\ running_version_count' = [running_version_count EXCEPT ![v] = @ + 1]
    /\ UNCHANGED <<slots, vp_map, vp_clock, disk, file_size, last_stable_version,
                   writer, current_modifications, held, hung, written>>

(* An update starts: take the writer lock, register start and start + 1. *)
BeginEditScope(w) ==
    LET v == last_stable_version IN
    /\ ~scope[w].active /\ hung # w
    /\ writer = None
    /\ v < MaxVersion
    /\ writer' = w
    /\ scope' = [scope EXCEPT ![w] = [active |-> TRUE, start |-> v, editable |-> TRUE]]
    /\ running_version_count' = [running_version_count EXCEPT ![v] = @ + 1, ![v + 1] = @ + 1]
    /\ UNCHANGED <<slots, vp_map, vp_clock, disk, file_size, last_stable_version,
                   current_modifications, held, hung, written>>

(* ~VersionScope / terminate: unregister; an editable scope publishes. *)
Terminate(w) ==
    LET v == scope[w].start
        rc1 == [running_version_count EXCEPT ![v] = @ - 1]
    IN
    /\ scope[w].active /\ hung # w
    /\ held[w] = {}
    /\ running_version_count' = IF scope[w].editable THEN [rc1 EXCEPT ![v + 1] = @ - 1] ELSE rc1
    /\ last_stable_version' = IF scope[w].editable THEN last_stable_version + 1 ELSE last_stable_version
    /\ current_modifications' = IF scope[w].editable THEN {} ELSE current_modifications
    /\ writer' = IF scope[w].editable THEN None ELSE writer
    /\ scope' = [scope EXCEPT ![w] = NoScope]
    /\ UNCHANGED <<slots, vp_map, vp_clock, disk, file_size, held, hung, written>>

(* get_page_readonly: a miss loads the page from disk at start_version; a *)
(* hit walks the chain to the newest version visible to result_version.  *)
GetPageReadonly(w, p) ==
    /\ CanRequest(w, p, "ro")
    /\ p < file_size /\ ExistsAt(p, Snap(w))
    /\ IF vp_map[p] = Nil
       THEN \E o \in Sweep(PoolState, SweepFuel) :
              LET c  == o.slot
                  s1 == Reassign(o.st, c, p)
                  s2 == [s1 EXCEPT !.slots[c].ver = scope[w].start, !.slots[c].prev = Nil,
                                   !.slots[c].next = Nil, !.map = MapInsert(@, p, c)]
                  s3 == [s2 EXCEPT !.slots[c].data = s2.disk[p]]
              IN Finish(w, o, s3, [slot |-> c, page |-> p, kind |-> "ro", seen |-> s3.slots[c].data])
       ELSE LET c  == Walk(slots, vp_map[p], Snap(w), PoolSize)
                st == [PoolState EXCEPT !.slots[c].pins = @ + 1]
            IN Finish(w, [hang |-> FALSE], st, [slot |-> c, page |-> p, kind |-> "ro", seen |-> slots[c].data])
    /\ UNCHANGED <<file_size, running_version_count, last_stable_version, writer,
                   current_modifications, scope, written>>

(* get_page_editable followed by the scope's write to the returned page. *)
GetPageEditable(w, p) ==
    LET rv == Snap(w)
        Write(st, c) == [st EXCEPT !.slots[c].data = @ \cup {rv}]
        Done(o, st, c) ==
            /\ Finish(w, o, st, [slot |-> c, page |-> p, kind |-> "ed", seen |-> st.slots[c].data])
            /\ IF o.hang THEN TRUE
               ELSE /\ written' = [written EXCEPT ![p] = @ \cup {rv}]
                    /\ current_modifications' = current_modifications \cup {p}
    IN
    /\ writer = w
    /\ CanRequest(w, p, "ed")
    /\ p < file_size
    /\ IF vp_map[p] = Nil
       THEN \E o1 \in Sweep(PoolState, SweepFuel) :
            IF o1.hang THEN Done(o1, o1.st, o1.slot) ELSE
            \E o2 \in Sweep(o1.st, SweepFuel) :
              LET old == o1.slot
                  new == o2.slot
                  s1 == Reassign([o2.st EXCEPT !.slots[old].pid = p], new, p)
                  s2 == [s1 EXCEPT !.slots[old].ver = scope[w].start, !.slots[old].prev = Nil,
                                   !.slots[old].next = new, !.slots[new].ver = rv,
                                   !.slots[new].prev = old, !.slots[new].next = Nil,
                                   !.slots[new].dirty = TRUE, !.map = MapInsert(@, p, old)]
                  s3 == [s2 EXCEPT !.slots[old].data = s2.disk[p]]
                  s4 == [s3 EXCEPT !.slots[new].data = s3.slots[old].data]
              IN Done(o2, Write(s4, new), new)
       ELSE LET c == Walk(slots, vp_map[p], rv, PoolSize) IN
            IF slots[c].ver # rv
            THEN \E o \in Sweep(PoolState, SweepFuel) :
                   LET new == o.slot
                       s1 == Reassign(o.st, new, p)
                       s2 == [s1 EXCEPT !.slots[c].next = new, !.slots[new].ver = rv,
                                        !.slots[new].prev = c, !.slots[new].next = Nil,
                                        !.slots[new].dirty = TRUE]
                       s3 == [s2 EXCEPT !.slots[new].data = s2.slots[c].data]
                   IN Done(o, Write(s3, new), new)
            ELSE Done([hang |-> FALSE], Write([PoolState EXCEPT !.slots[c].pins = @ + 1], c), c)
    /\ UNCHANGED <<file_size, running_version_count, last_stable_version, writer, scope>>

(* append_vpage: the file grows by the slot's current bytes, then the slot *)
(* becomes the new page at result_version; the scope writes it.           *)
AppendVPage(w) ==
    LET rv == Snap(w)
        pn == file_size
    IN
    /\ writer = w
    /\ file_size < MaxPages
    /\ CanRequest(w, pn, "ed")
    /\ \E o \in Sweep(PoolState, SweepFuel) :
         LET c  == o.slot
             s1 == [o.st EXCEPT !.disk[pn] = o.st.slots[c].data]
             s2 == Reassign(s1, c, pn)
             s3 == [s2 EXCEPT !.slots[c].ver = rv, !.slots[c].prev = Nil, !.slots[c].next = Nil,
                              !.slots[c].dirty = TRUE, !.map = MapInsert(@, pn, c),
                              !.slots[c].data = {rv}]
         IN /\ Finish(w, o, s3, [slot |-> c, page |-> pn, kind |-> "ed", seen |-> {rv}])
            /\ IF o.hang THEN UNCHANGED <<file_size>>
               ELSE /\ file_size' = pn + 1
                    /\ written' = [written EXCEPT ![pn] = {rv}]
                    /\ current_modifications' = current_modifications \cup {pn}
    /\ UNCHANGED <<running_version_count, last_stable_version, writer, scope>>

(* unpin: drop one pin, give the slot a second chance *)
Unpin(w) ==
    \E h \in held[w] :
    /\ slots' = [slots EXCEPT ![h.slot].pins = @ - 1, ![h.slot].sc = TRUE]
    /\ held' = [held EXCEPT ![w] = @ \ {h}]
    /\ UNCHANGED <<vp_map, vp_clock, disk, file_size, running_version_count,
                   last_stable_version, writer, current_modifications, scope, hung, written>>

Next ==
    \E w \in Workers :
        \/ BeginReadScope(w)
        \/ BeginEditScope(w)
        \/ Terminate(w)
        \/ \E p \in Pages : GetPageReadonly(w, p)
        \/ \E p \in Pages : GetPageEditable(w, p)
        \/ AppendVPage(w)
        \/ Unpin(w)

Spec == Init /\ [][Next]_vars

-----------------------------------------------------------------------------
TypeOK ==
    /\ slots \in [Slots -> VPageRec]
    /\ vp_map \in [Pages -> Slots \cup {Nil}]
    /\ vp_clock \in Slots
    /\ disk \in [Pages -> Content]
    /\ file_size \in InitPages..MaxPages
    /\ running_version_count \in [Versions -> Nat]
    /\ last_stable_version \in Versions
    /\ writer \in Workers \cup {None}
    /\ current_modifications \subseteq Pages
    /\ scope \in [Workers -> ScopeRec]
    /\ \A w \in Workers : held[w] \subseteq HoldRec
    /\ hung \in Workers \cup {None}
    /\ written \in [Pages -> Content]

(* A pinned page is never recycled (spec 8, invariant 1): no step gives a  *)
(* slot that somebody pins a new page identity or a new version number;    *)
(* the clock sweep of get_vpage_available must skip it, whoever runs it.   *)
PinnedNeverReassigned ==
    [][\A c \in Slots : slots[c].pins > 0 =>
          /\ slots'[c].pid = slots[c].pid
          /\ slots'[c].ver = slots[c].ver]_slots

(* Pin counts match their holders: each slot's pins is the number of     *)
(* holds workers have on it.  Hits pin(), misses reassign() a victim to   *)
(* one pin, unpin drops one; a sweep that recycles a pinned slot, or a    *)
(* pin taken on a slot that is then recycled, breaks the count.           *)
HoldsOn(c) == UNION {{<<w, h>> : h \in {x \in held[w] : x.slot = c}} : w \in Workers}
PinsMatchHolders ==
    \A c \in Slots : slots[c].pins = Cardinality(HoldsOn(c))

(* Snapshot isolation (spec 8, invariants 3 and 4): every page a request   *)
(* returns holds exactly the writes of the scopes visible to the           *)
(* requester's version: none newer, none lost.                             *)
ReadsSeeSnapshot ==
    [][\A w \in Workers : \A h \in held'[w] \ held[w] :
          h.seen = Expected(h.page, Snap(w))']_vars

(* What a reader starting now would be given for page p, with no eviction. *)
FreshRead(p) ==
    IF vp_map[p] = Nil THEN disk[p]
    ELSE slots[Walk(slots, vp_map[p], last_stable_version, PoolSize)].data

(* Committed writes are never lost: at every moment a new read-only scope  *)
(* would see every write published so far on every page.                   *)
CommittedVisible ==
    \A p \in Pages : ExistsAt(p, last_stable_version) =>
        FreshRead(p) = Expected(p, last_stable_version)

(* get_vpage_available always returns: no request spins forever holding   *)
(* vp_mutex in the back-sweep of an evicted dirty tail.                    *)
SweepReturns == hung = None
=============================================================================
