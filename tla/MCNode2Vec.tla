------------------------------ MODULE MCNode2Vec ------------------------------
(* A vertex (0) reached from vertex 1, with candidates that return, that    *)
(* are neighbours of 1 by an edge either way, and that are not; a self loop *)
(* at 1; equal times; a candidate too old to have a weight.                 *)
EXTENDS Node2Vec

E(x, y, t) == [u |-> x, v |-> y, t |-> t]
MCEdges == <<E(1, 0, 12), E(2, 0, 11), E(3, 0, 11), E(4, 0, 12), E(3, 0, 1),
             E(0, 1, 13), E(2, 1, 2), E(1, 4, 9), E(1, 1, 10)>>
MCCalls == {[edges |-> MCEdges, num_vertices |-> 5, is_directed |-> TRUE],
            [edges |-> SubSeq(MCEdges, 1, 7), num_vertices |-> -1, is_directed |-> FALSE]}

P(p, o, q, bound) == [inv_p |-> p, one |-> o, inv_q |-> q, timescale_bound |-> bound]
MCBiases == {P(2, 2, 1, -1), P(1, 2, 4, -1), P(1, 1, 1, -1), P(4, 1, 1, 2)}
=============================================================================
