--------------------------- MODULE MC_QueryIterators ---------------------------
(* The two binding iterators that enumerate by a ranking, checked in one   *)
(* model: a query plan runs either the Dijkstra path enumeration or the    *)
(* LSH forest query.  They share no state, so the model is their sum: plan *)
(* is chosen once, the chosen iterator starts from any of its initial      *)
(* states and the other stays at one of its own.  The automaton and the   *)
(* pairs are those of MC_DijkstraEnum.                                     *)
EXTENDS MC_DijkstraEnum, ForestIndexQueryIter, TLC

CONSTANTS o1, o2, o3

VARIABLE plan

(* distinct similarities: the stack order of a batch is fixed *)
MCSim == o1 :> 3 @@ o2 :> 2 @@ o3 :> 1

(* the idle iterator: a graph with no edges, or every tree a single leaf *)
IdleDijkstra == cost = [p \in Pairs |-> NoEdge]
IdleForest   ==
    /\ place = [i \in TreeIds |-> [o \in Objects |-> <<>>]]
    /\ stack = CHOOSE s \in SortedStacks(Objects) : TRUE

MCInit ==
    /\ Init /\ LSHInit
    /\ \/ plan = "dijkstra" /\ IdleForest
       \/ plan = "lsh" /\ IdleDijkstra

all_vars == <<vars, lsh_vars, plan>>

DijkstraStep == plan = "dijkstra" /\ Step /\ UNCHANGED <<lsh_vars, plan>>
ForestStep   == plan = "lsh" /\ LSHStep /\ UNCHANGED <<vars, plan>>

MCNext ==
    \/ plan = "dijkstra" /\ Next /\ UNCHANGED <<lsh_vars, plan>>
    \/ plan = "lsh" /\ LSHNext /\ UNCHANGED <<vars, plan>>

MCSpec == MCInit /\ [][MCNext]_all_vars /\ WF_all_vars(DijkstraStep) /\ WF_all_vars(ForestStep)
=============================================================================
