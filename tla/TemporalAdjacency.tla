-------------------------- MODULE TemporalAdjacency --------------------------
(***************************************************************************)
(* What TemporalGraph::build promises to the rest of the library           *)
(* (include/tea/graph.hpp): once a build has returned, every vertex has an *)
(* adjacency list that holds each of its stored entries exactly once, in   *)
(* ascending order of time.  How entries with equal times are ordered is   *)
(* left open.  While a build runs there is no adjacency to read.           *)
(***************************************************************************)
EXTENDS EdgeLists

Ascending(s) == \A i, j \in 1..Len(s) : i < j => s[i].t <= s[j].t

(* s lists the entries stored at v, each as often as the input has it. *)
HoldsEntriesAt(c, v, s) ==
    LET mine == {e \in EntriesOf(c) : VertexOf(c, e) = v}
    IN  /\ Len(s) = Cardinality(mine)
        /\ \A e \in mine :
               Cardinality({i \in 1..Len(s) : s[i] = StepOf(c, e)})
                   = Cardinality({f \in mine : StepOf(c, f) = StepOf(c, e)})

Adjacencies(c) ==
    {f \in [0..VertexCountOf(c) - 1 -> Seq([v : Nat, t : Int])] :
        \A v \in DOMAIN f : Ascending(f[v]) /\ HoldsEntriesAt(c, v, f[v])}

-----------------------------------------------------------------------------
VARIABLES building, adj

NoGraph == <<>>  \* a default-constructed graph has no vertex

Init == building = {} /\ adj = NoGraph

Begin == /\ building = {}
         /\ \E c \in Calls : building' = {c}
         /\ adj' = NoGraph

Finish == /\ \E c \in building : adj' \in Adjacencies(c)
          /\ building' = {}

Next == Begin \/ Finish

Spec == Init /\ [][Next]_<<building, adj>>
=============================================================================
