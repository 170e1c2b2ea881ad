----------------------------- MODULE MCWalkEngine -----------------------------
(* A small temporal graph for WalkEngine: ties on a walk's path (0 and 1 at *)
(* time 3), a vertex with no entry (3), one whose only entry has the        *)
(* sentinel's time (2), a self loop (1), and several ways on.               *)
EXTENDS WalkEngine, TLC

N(v, t) == [v |-> v, t |-> t]

MCVertices == 0..3
MCMaxTime == 9
MCAdj == (0 :> <<N(1, 1), N(1, 3), N(3, 4)>>) @@ (1 :> <<N(0, 2), N(1, 2), N(0, 3)>>)
         @@ (2 :> <<N(0, 9)>>) @@ (3 :> <<>>)
MCStartLists == {make_all_nodes_starts(1), <<0, 0, 3, 1, 0>>, <<>>}
MCPicks == 0..1
MCSeeds == [0..4 -> {<<0, 1, 0>>, <<1, 0, 1>>}]
MCPick(S, p) ==
    CHOOSE k \in S : Cardinality({j \in S : j < k}) = p % Cardinality(S)
MCThreads == 1..2

(* Far before its vertex's newest entry, an entry's weight is 0. *)
MCFarAdj == (0 :> <<N(1, 5)>>) @@ (1 :> <<N(0, 1), N(0, 8)>>) @@ (2 :> <<>>) @@ (3 :> <<>>)
MCFarStartLists == {<<0, 1>>}
=============================================================================
