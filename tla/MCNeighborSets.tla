---------------------------- MODULE MCNeighborSets ----------------------------
(* Small graphs for NeighborSets: edges both ways between two vertices,     *)
(* parallel edges, a self loop, sources without in-edges, isolated vertices *)
(* at the ends and between others, both directions, and no vertices.        *)
EXTENDS NeighborSets

E(u, v, t) == [u |-> u, v |-> v, t |-> t]
Call(es, n, d) == [edges |-> es, num_vertices |-> n, is_directed |-> d]

MCBothWays == <<E(2, 1, 1), E(1, 2, 2), E(2, 1, 3), E(2, 0, 3), E(3, 0, 4)>>
MCHub == <<E(1, 3, 1), E(3, 4, 2), E(1, 4, 3), E(3, 3, 4), E(1, 3, 5)>>

MCCalls == {Call(MCBothWays, -1, TRUE), Call(MCHub, 6, TRUE),
            Call(MCBothWays, 4, FALSE), Call(MCHub, -1, FALSE),
            Call(<<>>, 2, TRUE), Call(<<>>, -1, TRUE)}
=============================================================================
