----------------------------- MODULE TemporalWalk -----------------------------
(***************************************************************************)
(* What a call of the walk engine promises, without threads, buffers or    *)
(* random numbers: every walk starts at its start vertex and grows by one  *)
(* adjacency entry at a time, each strictly older than the one before,     *)
(* until it is finished; then it stays as it is.                           *)
(***************************************************************************)
EXTENDS Integers, Sequences

CONSTANTS Vertices,     \* ids of the graph's vertices
          Adj,          \* Adj[v]: v's adjacency list, entries [v, t] by time
          StartLists,   \* the start vertices run_walks may be called with
          max_walk_len,
          kSentinelStartTimestamp  \* INT64_MAX

NodeStep == [v : Vertices, t : Int]

(* The entries of u a walk that arrived at time t_prev may take. *)
Gamma(u, t_prev) == {k \in 1..Len(Adj[u]) : Adj[u][k].t < t_prev}

VARIABLES walks,     \* walks[i]: the slots of walk i so far
          finished   \* the walks that are complete

vars == <<walks, finished>>

Init == walks = <<>> /\ finished = {}

(* run_walks_* is called: every walk is to be done. *)
Call == /\ finished = DOMAIN walks
        /\ \E starts \in StartLists :
               walks' = [i \in 0..Len(starts) - 1 |->
                            <<[v |-> starts[i + 1], t |-> kSentinelStartTimestamp]>>]
        /\ finished' = {}

Extend(i) ==
    LET last == walks[i][Len(walks[i])]
    IN  /\ i \notin finished /\ Len(walks[i]) < max_walk_len
        /\ \E k \in Gamma(last.v, last.t) :
               walks' = [walks EXCEPT ![i] = Append(@, Adj[last.v][k])]
        /\ UNCHANGED finished

Finish(i) == /\ i \notin finished
             /\ finished' = finished \cup {i}
             /\ UNCHANGED walks

Next == Call \/ \E i \in DOMAIN walks : Extend(i) \/ Finish(i)

Spec == Init /\ [][Next]_vars
=============================================================================
