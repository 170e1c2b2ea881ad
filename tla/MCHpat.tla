-------------------------------- MODULE MCHpat --------------------------------
(* Small graphs for Hpat: vertices with a hierarchy side by side, with a    *)
(* solo or an isolated vertex before, between and after them; equal times,  *)
(* and times so far apart that exponential weights are 0.                   *)
EXTENDS Hpat, TLC

MCDeepFirst == (0 :> <<1, 2, 3, 3, 5>>) @@ (1 :> <<5, 9>>) @@ (2 :> <<1, 3, 9>>)
MCDeepLast == (0 :> <<>>) @@ (1 :> <<3>>) @@ (2 :> <<0, 2, 4, 5, 7, 7, 8>>)
MCNeighbours == (0 :> <<4, 4, 4, 4>>) @@ (1 :> <<6, 7>>) @@ (2 :> <<0, 0, 1, 2, 9, 9>>)
MCNoEdges == (0 :> <<>>)
MCNoVertices == <<>>

MCGraphs == {MCDeepFirst, MCDeepLast, MCNeighbours, MCNoEdges, MCNoVertices}

B(kind, bound) == [kind |-> kind, timescale_bound |-> bound]
MCBiases == {B("uniform", 0), B("linear", 0), B("exponential", -1), B("exponential", 2)}
MCUnevenBiases == {B("linear", 0), B("exponential", -1)}
=============================================================================
