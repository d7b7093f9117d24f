----------------------------- MODULE DijkstraEnum -----------------------------
(***************************************************************************)
(* Paths::Any::DijkstraEnum (src/.../paths/experimental/dijkstra_enum.cc):  *)
(* the lazy Dijkstra that enumerates, cheapest first, the nodes reachable   *)
(* from a start node along a path accepted by a regular-path automaton,    *)
(* each edge weighted by its cost property.                                *)
(*                                                                         *)
(* A search state is a key <<automaton state, node>>.  `open` is the       *)
(* std::priority_queue of [key, cost] entries, `top` the entry top()       *)
(* returns, `visited` the robin_hood set of search states.  One edge       *)
(* iterator (iter, current_edge_transition, current_data_transition,      *)
(* child_record, edge_cost) is a member shared by every expansion.  Each  *)
(* turn of a while loop of _next and expand_neighbors is one action; pc   *)
(* says which loop head the iterator is at.                               *)
(*                                                                         *)
(* The graph is one edge type: at most one edge per pair in Pairs, whose   *)
(* cost property is a number, absent (Missing), or there is no edge.  The  *)
(* graph is chosen in Init among all of them, and the reference distances  *)
(* (Bellman-Ford over the product of graph and automaton) are computed     *)
(* once per graph and start node into `dist`.  The start is a variable of  *)
(* the parent binding, read again by every _begin and _reset.  Every node  *)
(* exists in the database, so the node check of the first _next passes.   *)
(***************************************************************************)
EXTENDS Integers, Sequences, SequencesExt, FiniteSets

CONSTANTS
    Nodes,       \* node ids; integers, so index order is their order
    Pairs,       \* ordered pairs of nodes that may carry an edge
    MaxCost,     \* edge costs are 0..MaxCost
    Conn,        \* automaton.from_to_connections: state -> Seq of transitions
    AutStart,
    AutFinal,
    Good,        \* objects that pass the data check "good"
    MaxResets    \* bound on the parent's calls of _reset

NoEdge  == -1
Missing == -2            \* the edge has no cost property (line 217)
CostVal == {NoEdge, Missing} \cup 0..MaxCost
AutStates == DOMAIN Conn
Keys    == AutStates \X Nodes
NoKey   == <<-1, -1>>
StartUnset == -1
Inf     == 1000
Absent  == [cost |-> Inf, prev |-> NoKey]
NoEntry == [key |-> NoKey, cost |-> Inf]
NoChild == [nxt |-> -1, eid |-> <<-1, -1>>]

VARIABLES
    cost,       \* the graph: pair -> cost property, Missing or NoEdge
    dist,       \* reference: start -> key -> cheapest accepted path cost
    start,      \* start_object_id
    pc,         \* where the iterator is: see PCs
    first_next,
    open,       \* the priority queue, a set of [key, cost] entries
    top,        \* open.top()
    visited,    \* key -> [cost, previous], Absent when not visited
    cur,        \* current_state, the argument of expand_neighbors
    iter_null,  \* iter.is_null()
    iter,       \* what iter has left to return
    cet,        \* current_edge_transition
    cdt,        \* current_data_transition
    child,      \* child_record
    edge_cost,
    edge_ok,    \* edge_succeeded
    results,    \* what _next returned: [node, cost]
    resets

vars == <<cost, dist, start, pc, first_next, open, top, visited, cur, iter_null, iter, cet, cdt,
          child, edge_cost, edge_ok, results, resets>>

(* "idle" before _begin; "call" when the parent may call _next; "loop" at  *)
(* the while of _next; "edge", "child", "data" at the three whiles of     *)
(* expand_neighbors; "done" after _next returned false; "ub" after top()  *)
(* of an empty queue.                                                      *)
PCs == {"idle", "call", "loop", "edge", "child", "data", "done", "ub"}

(* eval_data_check: check "none" always passes, "good" on objects in Good *)
Passes(check, obj) == check = "none" \/ (check = "good" /\ obj \in Good)

-----------------------------------------------------------------------------
(* Reference: the cheapest cost of an accepted path, by relaxation. *)
Arc(u, tr, p, dt, m) ==
    /\ cost[p] \in 0..MaxCost
    /\ IF tr.inverse THEN p = <<m, u[2]>> ELSE p = <<u[2], m>>
    /\ Passes(tr.check, p) /\ Passes(dt.check, m)

Steps(u) ==
    UNION { UNION { { [to |-> <<dt.to, x[2]>>, w |-> cost[x[1]]] :
                        x \in {y \in Pairs \X Nodes : Arc(u, tr, y[1], dt, y[2])} }
                    : dt \in Range(Conn[tr.to]) }
            : tr \in Range(Conn[u[1]]) }

StartKeys(s) == { <<t.to, s>> : t \in {x \in Range(Conn[AutStart]) : Passes(x.check, s)} }

(* the automaton states a search state can have: targets of the start's  *)
(* data transitions, closed under an edge transition then a data one     *)
RECURSIVE Searchable(_, _)
Searchable(S, k) ==
    IF k = 0 THEN S
    ELSE Searchable(S \cup {dt.to : dt \in UNION {Range(Conn[tr.to]) :
                                       tr \in UNION {Range(Conn[s]) : s \in S}}}, k - 1)

ArcSet ==
    LET from == {u \in Keys : u[1] \in Searchable({t.to : t \in Range(Conn[AutStart])},
                                                  Cardinality(AutStates))}
    IN UNION { {[from |-> u, to |-> st.to, w |-> st.w] : st \in Steps(u)} : u \in from }

(* Bellman-Ford rounds until nothing changes (at most one per key) *)
RECURSIVE Relax(_, _, _)
Relax(d, arcs, k) ==
    LET d1 == [v \in Keys |->
                Min({d[v]} \cup {d[a.from] + a.w : a \in {b \in arcs : b.to = v /\ d[b.from] < Inf}})]
    IN IF k = 0 \/ d1 = d THEN d ELSE Relax(d1, arcs, k - 1)

Reference(s) == Relax([v \in Keys |-> IF v \in StartKeys(s) THEN 0 ELSE Inf], ArcSet, Cardinality(Keys))

-----------------------------------------------------------------------------
(* Mutated forms of mapped definitions, used by PROJECT.json "mutants". *)
NextChild_mut ==
    IF iter = <<>> THEN child' = NoChild /\ iter' = iter
    ELSE child' = Head(iter) /\ iter' = iter
PushTop_mut(t, e) == IF t = NoEntry \/ e.cost <= t.cost THEN e ELSE t
IsStale_mut(q) == FALSE
EdgeCostKnown_mut(c) == c # NoEdge
-----------------------------------------------------------------------------

(* index order of the edges an edge transition follows from node n:        *)
(* type_from_to_edge by to-node, or to_type_from_edge by from-node         *)
IndexRange(n, inverse) ==
    LET match == {p \in Pairs : cost[p] # NoEdge /\ (IF inverse THEN p[2] = n ELSE p[1] = n)}
        entry(p) == [nxt |-> IF inverse THEN p[1] ELSE p[2], eid |-> p]
        before(a, b) == a.nxt < b.nxt
    IN SetToSortSeq({entry(p) : p \in match}, before)

(* set_iter(cs) for edge transition number t *)
SetIter(cs, t) ==
    /\ iter' = IndexRange(cs[2], Conn[cs[1]][t + 1].inverse)
    /\ iter_null' = FALSE

(* child_record = iter.next() *)
NextChild ==
    IF iter = <<>> THEN child' = NoChild /\ iter' = iter
    ELSE child' = Head(iter) /\ iter' = Tail(iter)

(* parse_cost found a cost property on the edge *)
EdgeCostKnown(c) == c \in 0..MaxCost

(* a visited state is updated only by a strictly cheaper path *)
Better(nc, old) == nc < old

(* open.push: with a strict comparator a tie never displaces the top *)
PushTop(t, e) == IF t = NoEntry \/ e.cost < t.cost THEN e ELSE t

(* the entry's cost is no longer its state's best *)
IsStale(q) == q.cost # visited[q.key].cost

(* open.pop(): some entry of least cost becomes the top *)
Pop ==
    /\ open' = open \ {top}
    /\ IF open' = {} THEN top' = NoEntry
       ELSE \E e \in open' : top' = e /\ \A f \in open' : e.cost <= f.cost

(* expand_neighbors returned visited.end(): the top is popped and, if it   *)
(* is in the final state, _next returns it                                 *)
Finished ==
    /\ iter_null' = TRUE
    /\ Pop
    /\ IF top.key[1] = AutFinal
       THEN /\ results' = Append(results, [node |-> top.key[2], cost |-> top.cost])
            /\ pc' = "call"
       ELSE /\ pc' = "loop"
            /\ UNCHANGED results

(* _begin and _reset: every data transition of the start state whose check *)
(* the start object passes puts one state in visited and pushes it at     *)
(* cost 0; of equal entries the first pushed stays on top                 *)
Start(s) ==
    LET trs == SelectSeq(Conn[AutStart], LAMBDA t : Passes(t.check, s))
        ent == {[key |-> <<trs[i].to, s>>, cost |-> 0] : i \in DOMAIN trs}
    IN /\ start' = s
       /\ open' = ent
       /\ top' = IF trs = <<>> THEN NoEntry ELSE [key |-> <<trs[1].to, s>>, cost |-> 0]
       /\ visited' = [k \in Keys |-> IF [key |-> k, cost |-> 0] \in ent
                                     THEN [cost |-> 0, prev |-> NoKey] ELSE Absent]
       /\ first_next' = TRUE
       /\ results' = <<>>
       /\ pc' = "call"

Init ==
    /\ cost \in [Pairs -> CostVal]
    /\ dist = [s \in Nodes |-> Reference(s)]
    /\ start = StartUnset
    /\ pc = "idle"
    /\ first_next = TRUE
    /\ open = {}
    /\ top = NoEntry
    /\ visited = [k \in Keys |-> Absent]
    /\ cur = NoKey
    /\ iter_null = TRUE
    /\ iter = <<>>
    /\ cet = 0
    /\ cdt = 0
    /\ child = NoChild
    /\ edge_cost = 0
    /\ edge_ok = FALSE
    /\ results = <<>>
    /\ resets = 0

ExpandVars == <<cur, iter, cet, cdt, child, edge_cost, edge_ok>>

(* DijkstraEnum::_begin *)
Begin ==
    /\ pc = "idle"
    /\ \E s \in Nodes : Start(s)
    /\ UNCHANGED <<cost, dist, iter_null, resets>>
    /\ UNCHANGED ExpandVars

(* DijkstraEnum::_reset, called by the parent between calls of _next *)
Reset ==
    /\ pc \in {"call", "done"}
    /\ resets < MaxResets
    /\ resets' = resets + 1
    /\ \E s \in Nodes : Start(s)
    /\ iter_null' = TRUE
    /\ UNCHANGED <<cost, dist>>
    /\ UNCHANGED ExpandVars

(* The parent calls _next again only while fewer than ResultBound + 1    *)
(* results came back.  The code never returns a node twice                *)
(* (ResultsInOrder), so this never stops a call it would answer.         *)
ResultBound == Cardinality(Nodes)

(* _next entered: on the first call open.top() is read (line 100) *)
NextCall ==
    /\ pc = "call"
    /\ Len(results) <= ResultBound
    /\ ~(first_next /\ open = {})
    /\ first_next' = FALSE
    /\ pc' = "loop"
    /\ UNCHANGED <<cost, dist, start, open, top, visited, iter_null, results, resets>>
    /\ UNCHANGED ExpandVars

(* the first _next with open empty: top() of an empty priority_queue *)
TopOfEmpty ==
    /\ pc = "call"
    /\ first_next /\ open = {}
    /\ pc' = "ub"
    /\ UNCHANGED <<cost, dist, start, first_next, open, top, visited, iter_null, results, resets>>
    /\ UNCHANGED ExpandVars

Unchanged_loop == UNCHANGED <<cost, dist, start, first_next, resets>>

(* while (open.size() > 0) fails: _next returns false *)
Exhausted ==
    /\ pc = "loop"
    /\ open = {}
    /\ pc' = "done"
    /\ Unchanged_loop
    /\ UNCHANGED <<open, top, visited, iter_null, results>>
    /\ UNCHANGED ExpandVars

(* the top entry is stale: pop it and continue *)
PopStale ==
    /\ pc = "loop"
    /\ open # {}
    /\ IsStale(top)
    /\ Pop
    /\ Unchanged_loop
    /\ UNCHANGED <<pc, visited, iter_null, results>>
    /\ UNCHANGED ExpandVars

(* expand_neighbors(top): a first exploration resets the transition       *)
(* counters and returns end() at once for a state without transitions, or  *)
(* sets the iterator for transition 0                                      *)
ExpandTop ==
    /\ pc = "loop"
    /\ open # {}
    /\ ~IsStale(top)
    /\ cur' = top.key
    /\ IF ~iter_null
       THEN /\ pc' = "edge"
            /\ UNCHANGED <<cet, cdt, iter, iter_null, open, top, results>>
       ELSE /\ cet' = 0
            /\ cdt' = 0
            /\ IF Conn[top.key[1]] = <<>>
               THEN Finished /\ UNCHANGED iter
               ELSE SetIter(top.key, 0) /\ pc' = "edge" /\ UNCHANGED <<open, top, results>>
    /\ Unchanged_loop
    /\ UNCHANGED <<visited, child, edge_cost, edge_ok>>

(* the transition current_edge_transition of the state being expanded *)
Tr == Conn[cur[1]][cet + 1]

Unchanged_expand == UNCHANGED <<cost, dist, start, first_next, resets, cur>>

(* head of the edge-transition while: a fresh data position reads the     *)
(* next child; past the last transition expand_neighbors returns end()    *)
EdgeHead ==
    /\ pc = "edge"
    /\ IF cet < Len(Conn[cur[1]])
       THEN /\ IF cdt = 0 THEN NextChild ELSE UNCHANGED <<child, iter>>
            /\ pc' = "child"
            /\ UNCHANGED <<open, top, results, iter_null>>
       ELSE Finished /\ UNCHANGED <<iter, child>>
    /\ Unchanged_expand
    /\ UNCHANGED <<visited, cet, cdt, edge_cost, edge_ok>>

(* head of the child while: no child moves to the next edge transition    *)
(* and sets its iterator; a child at data position 0 has its edge checked  *)
(* and its cost looked up; a resumed child is taken as succeeded           *)
ChildHead ==
    /\ pc = "child"
    /\ IF child = NoChild
       THEN /\ cet' = cet + 1
            /\ IF cet + 1 < Len(Conn[cur[1]]) THEN SetIter(cur, cet + 1)
               ELSE UNCHANGED <<iter, iter_null>>
            /\ pc' = "edge"
            /\ UNCHANGED <<edge_cost, edge_ok>>
       ELSE /\ IF cdt = 0
               THEN LET checked == Passes(Tr.check, child.eid)
                    IN /\ edge_ok' = (checked /\ EdgeCostKnown(cost[child.eid]))
                       /\ edge_cost' = IF edge_ok' THEN cost[child.eid] ELSE edge_cost
               ELSE edge_ok' = TRUE /\ UNCHANGED edge_cost
            /\ pc' = "data"
            /\ UNCHANGED <<cet, iter, iter_null>>
    /\ Unchanged_expand
    /\ UNCHANGED <<open, top, visited, results, cdt, child>>

(* the state reached is new, or reached by a better path: visited is       *)
(* updated, expand_neighbors returns it and _next pushes it                *)
Reached(key, nc) ==
    /\ visited' = [visited EXCEPT ![key] = [cost |-> nc, prev |-> cur]]
    /\ open' = open \cup {[key |-> key, cost |-> nc]}
    /\ top' = PushTop(top, [key |-> key, cost |-> nc])
    /\ pc' = "loop"

(* one turn of the data-transition while *)
DataStep ==
    /\ pc = "data"
    /\ edge_ok /\ cdt < Len(Conn[Tr.to])
    /\ cdt' = cdt + 1
    /\ LET dt  == Conn[Tr.to][cdt + 1]
           key == <<dt.to, child.nxt>>
           nc  == visited[cur].cost + edge_cost
       IN IF Passes(dt.check, child.nxt) /\ (visited[key] = Absent \/ Better(nc, visited[key].cost))
          THEN Reached(key, nc)
          ELSE UNCHANGED <<visited, open, top, pc>>
    /\ Unchanged_expand
    /\ UNCHANGED <<iter_null, iter, cet, child, edge_cost, edge_ok, results>>

(* the data while ends: the next child of the same iterator *)
ChildNext ==
    /\ pc = "data"
    /\ ~(edge_ok /\ cdt < Len(Conn[Tr.to]))
    /\ NextChild
    /\ cdt' = 0
    /\ pc' = "child"
    /\ Unchanged_expand
    /\ UNCHANGED <<open, top, visited, results, iter_null, cet, edge_cost, edge_ok>>

InNext == pc \in {"loop", "edge", "child", "data"}

Step == Exhausted \/ PopStale \/ ExpandTop \/ EdgeHead \/ ChildHead \/ DataStep \/ ChildNext

Next == Begin \/ Reset \/ NextCall \/ TopOfEmpty \/ Step

(* a thread inside _next keeps running *)
Spec == Init /\ [][Next]_vars /\ WF_vars(Step)

-----------------------------------------------------------------------------
Entry == [key : Keys \cup {NoKey}, cost : 0..Inf]

TypeOK ==
    /\ pc \in PCs
    /\ start \in Nodes \cup {StartUnset}
    /\ open \subseteq Entry
    /\ top \in Entry
    /\ visited \in [Keys -> [cost : 0..Inf, prev : Keys \cup {NoKey}]]
    /\ cur \in Keys \cup {NoKey}
    /\ iter_null \in BOOLEAN /\ edge_ok \in BOOLEAN /\ first_next \in BOOLEAN
    /\ cet \in Nat /\ cdt \in Nat
    /\ edge_cost \in 0..MaxCost
    /\ results \in Seq([node : Nodes, cost : 0..Inf])

(* Every node _next returns is reached at the cheapest cost of a path the *)
(* automaton accepts: the lazy expansion with stale entries and resumed   *)
(* iterators computes shortest paths.                                     *)
ResultsAreShortest ==
    \A i \in DOMAIN results : results[i].cost = dist[start][<<AutFinal, results[i].node>>]

(* _next returns results cheapest first and never returns a node twice,   *)
(* though a state may sit in open several times at different costs.       *)
ResultsInOrder ==
    \A i, j \in DOMAIN results :
        i < j => results[i].cost <= results[j].cost /\ results[i].node # results[j].node

(* When _next returns false, every node reachable along an accepted path  *)
(* has been returned.                                                     *)
AllReported ==
    pc = "done" =>
        \A n \in Nodes : dist[start][<<AutFinal, n>>] < Inf => \E i \in DOMAIN results : results[i].node = n

(* The shared edge iterator is live only for the state at the top of open, *)
(* and that entry is not stale: a push between two calls of               *)
(* expand_neighbors never puts another state on top of a half-expanded    *)
(* one.                                                                   *)
IteratorOwnedByTop ==
    ~iter_null => top.key = cur /\ top.cost = visited[cur].cost

(* Every call of _next returns, true or false. *)
NextReturns == InNext ~> ~InNext

(* The first _next never reads top() of an empty queue (line 100). *)
NoTopOfEmpty == pc # "ub"
=============================================================================
