----------------------------- MODULE MCAliasTable -----------------------------
(* All weight spans of up to two slots with small weights, 0 among them,   *)
(* and longer ones: uniform, with one or two heavy slots, and with as many *)
(* slots of weight 0 as it takes for the rounding to leave one of them     *)
(* over.  Exact, and with every double off by up to one unit and every     *)
(* float by up to two.                                                     *)
EXTENDS AliasTable

MCWeights == UNION {[1..k -> {0, 1, 5}] : k \in 0..2}
             \cup {<<1, 1, 1>>, <<5, 0, 1>>, <<1, 0, 5, 5>>, <<0, 1, 1, 5>>, <<1, 0, 0, 0, 0>>}
MCRoundings == {Exact, [double |-> 1, float |-> 2]}
=============================================================================
