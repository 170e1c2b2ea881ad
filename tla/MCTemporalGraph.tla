--------------------------- MODULE MCTemporalGraph ---------------------------
(* Small inputs for TemporalGraph: equal times, parallel edges, a self      *)
(* loop, isolated vertices, both directions, and the empty graphs.         *)
EXTENDS TemporalGraph

E(u, v, t) == [u |-> u, v |-> v, t |-> t]
Call(es, n, d) == [edges |-> es, num_vertices |-> n, is_directed |-> d]

(* Every vertex has a first and a last slice neighbour; vertex 1 is empty  *)
(* in the directed graph; (0,2,5) occurs twice; 2 has ties.                *)
MCMixed == <<E(0, 2, 5), E(3, 2, 1), E(0, 2, 5), E(2, 0, 4)>>
MCDescending == <<E(1, 0, 9), E(2, 0, 7), E(0, 0, 8), E(3, 0, 6)>>
MCLoop == <<E(1, 1, 3), E(0, 1, 2), E(1, 0, 1)>>

MCCalls == {Call(MCMixed, -1, TRUE), Call(MCDescending, 5, TRUE),
            Call(MCLoop, -1, FALSE), Call(MCMixed, 4, FALSE),
            Call(<<>>, -1, TRUE), Call(<<>>, 2, FALSE), Call(MCLoop, 0, TRUE)}
MCTies == {Call(<<E(0, 2, 5), E(1, 2, 5), E(2, 0, 4)>>, -1, TRUE)}
=============================================================================
