--------------------------------- MODULE MCPat ---------------------------------
(* Small graphs for Pat: vertices of several trunks beside each other, with *)
(* short last trunks, single trunks and no edges; equal times, and times so *)
(* far apart that exponential weights are 0.                                *)
EXTENDS Pat, TLC

MCUneven == (0 :> <<1, 2, 3, 3, 4, 5, 5>>) @@ (1 :> <<>>) @@ (2 :> <<0, 0, 1, 2, 6>>)
MCNeighbours == (0 :> <<7>>) @@ (1 :> <<0, 7, 8, 9>>) @@ (2 :> <<3, 3, 3>>)
MCNoEdges == (0 :> <<>>)
MCNoVertices == <<>>

MCGraphs == {MCUneven, MCNeighbours, MCNoEdges, MCNoVertices}

B(kind, bound) == [kind |-> kind, timescale_bound |-> bound]
MCBiases == {B("uniform", 0), B("linear", 0), B("exponential", -1), B("exponential", 2)}
=============================================================================
