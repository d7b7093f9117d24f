---------------------------- MODULE MC_DijkstraEnum ----------------------------
(* The automaton of a two-way Kleene star over one edge type, (T|^T)*:    *)
(* state 0 is the start; its data transitions lead to state 1, the final  *)
(* state, and to state 3, which has no transitions.  From 1 an edge T is  *)
(* followed forward or backward to state 2, whose data transitions lead   *)
(* back to 1, and to 3 for "good" targets.  The start transitions check   *)
(* that the start object is "good", so a start outside Good leaves open   *)
(* empty.                                                                 *)
EXTENDS DijkstraEnum

MCConn ==
    0 :> << [to |-> 1, inverse |-> FALSE, check |-> "good"],
            [to |-> 3, inverse |-> FALSE, check |-> "good"] >>
 @@ 1 :> << [to |-> 2, inverse |-> FALSE, check |-> "none"],
            [to |-> 2, inverse |-> TRUE, check |-> "none"] >>
 @@ 2 :> << [to |-> 1, inverse |-> FALSE, check |-> "none"],
            [to |-> 3, inverse |-> FALSE, check |-> "good"] >>
 @@ 3 :> << >>

(* 0 -> 1 directly and through 2, so a later path can be cheaper *)
MCPairs == {<<0, 1>>, <<1, 2>>, <<0, 2>>, <<2, 1>>}
=============================================================================
