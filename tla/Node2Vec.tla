------------------------------- MODULE Node2Vec -------------------------------
(***************************************************************************)
(* A call of sample_pat_node2vec or sample_hpat_node2vec: rejection_loop   *)
(* (include/tea/sampler.hpp) with Node2VecBias (node2vec_bias.hpp).        *)
(*                                                                         *)
(* All runs of a call are followed at once.  A retry has Draws equally     *)
(* likely outcomes: an edge, in proportion to its static weight (what      *)
(* PrefixSampler promises of the proposal), and one of beta_max values of  *)
(* u01.  accepted[k] and pending[k] count the runs that have returned edge *)
(* k, and those in which k was the last proposal and was rejected.         *)
(***************************************************************************)
EXTENDS EdgeLists, Bias, Functions

CONSTANTS Node2VecBiases,       \* [inv_p, one, inv_q, timescale_bound]: 1/p, 1
                                \* and 1/q as multiples of 1/one
          kNode2VecMaxRetries,  \* 1024 in the code
          kSentinelStartTimestamp

ASSUME Node2VecAssumption ==
    /\ Node2VecBiases \subseteq [inv_p : Nat \ {0}, one : Nat \ {0}, inv_q : Nat \ {0},
                                 timescale_bound : Int]
    /\ kNode2VecMaxRetries \in Nat \ {0}
    /\ kSentinelStartTimestamp \in Int
    /\ \A c \in Calls : \A i \in 1..Len(c.edges) : c.edges[i].t <= kSentinelStartTimestamp

VARIABLES pc,                  \* "idle" or "loop"
          call, adj, bias,     \* what the graph was built from, its lists, p and q
          u, t_prev, prev_u,   \* the arguments
          w,                   \* the weights of the proposal's candidates
          retry, pending, accepted

graph == <<call, adj, bias>>
args == <<u, t_prev, prev_u, w>>
vars == <<pc, graph, args, retry, pending, accepted>>

Static == [kind |-> "exponential", timescale_bound |-> bias.timescale_bound]
WeightsOf(v) == compute_weights_full(Static, [k \in DOMAIN adj[v] |-> adj[v][k].t])

(* The candidates, and what the sampler draws them in proportion to. *)
Proposal(v, t) == SubSeq(WeightsOf(v), 1, Cardinality({k \in DOMAIN adj[v] : adj[v][k].t < t}))
Candidates == DOMAIN w
target(k) == adj[u][k].v

(* What NeighborSets promises: joined in either direction. *)
contains(x, v) == \E e \in Range(call.edges) : {e.u, e.v} = {x, v}

beta_max ==
    CHOOSE m \in {bias.inv_p, bias.one, bias.inv_q} :
        m >= bias.inv_p /\ m >= bias.one /\ m >= bias.inv_q

(* Mutant: the neighbours of u are asked. *)
MutantRatio(v) == IF v = prev_u THEN bias.inv_p
                  ELSE IF contains(u, v) THEN bias.one
                  ELSE bias.inv_q

(* beta / beta_max, in units of 1 / beta_max. *)
accept_ratio(v) == IF v = prev_u THEN bias.inv_p
                   ELSE IF contains(prev_u, v) THEN bias.one
                   ELSE bias.inv_q

(* Mutant: u01 <= accept. *)
MutantPasses(v) == {u01 \in 0..beta_max - 1 : u01 <= accept_ratio(v)}

Passes(v) == {u01 \in 0..beta_max - 1 : u01 < accept_ratio(v)}

Draws == SumFunction(w) * beta_max
Runs(f) == SumFunction(f)

TypeOK ==
    /\ pc \in {"idle", "loop"}
    /\ call \in Calls /\ bias \in Node2VecBiases
    /\ w \in Seq(Nat)
    /\ retry \in 0..kNode2VecMaxRetries
    /\ accepted \in [Candidates -> Nat] /\ pending \in [Candidates -> Nat]
    /\ pc = "loop" => retry < kNode2VecMaxRetries /\ t_prev <= kSentinelStartTimestamp

-----------------------------------------------------------------------------
Nothing == [k \in {} |-> 0]

Init == /\ pc = "idle" /\ call \in Calls /\ bias \in Node2VecBiases
        /\ adj = [v \in 0..VertexCountOf(call) - 1 |-> ListOf(call, v)]
        /\ u = -1 /\ t_prev = kSentinelStartTimestamp /\ prev_u = -1 /\ w = <<>>
        /\ retry = 0 /\ pending = Nothing /\ accepted = Nothing

(* The engine asks for the first hop of a walk, or for the one after a hop *)
(* that leads from p to u (WalkEngine, PrevIsPredecessor).                 *)
Call ==
    /\ pc = "idle"
    /\ \/ /\ u' \in DOMAIN adj
          /\ t_prev' = kSentinelStartTimestamp /\ prev_u' = -1
       \/ \E p \in DOMAIN adj : \E k \in DOMAIN adj[p] :
              /\ WeightsOf(p)[k] > 0
              /\ u' = adj[p][k].v
              /\ t_prev' = adj[p][k].t
              /\ prev_u' = p
    /\ w' = Proposal(u', t_prev')
    /\ retry' = 0
    /\ pending' = [k \in DOMAIN w' |-> 0] /\ accepted' = pending'
    /\ pc' = "loop"
    /\ UNCHANGED graph

(* No candidate has a weight: the proposal is dead, and so is the walk. *)
ReturnDead ==
    /\ pc = "loop" /\ SumFunction(w) = 0
    /\ pc' = "idle"
    /\ UNCHANGED <<graph, args, retry, pending, accepted>>

(* No previous vertex: the first proposal is accepted. *)
FirstHop ==
    /\ pc = "loop" /\ SumFunction(w) > 0 /\ prev_u < 0
    /\ accepted' = [k \in Candidates |-> w[k]]
    /\ pc' = "idle"
    /\ UNCHANGED <<graph, args, retry, pending>>

(* The runs of the loop that are still in it. *)
Live == IF retry = 0 THEN 1 ELSE Runs(pending)

Rejected == [k \in Candidates |-> Live * w[k] * (beta_max - Cardinality(Passes(target(k))))]
Accepted == [k \in Candidates |->
                accepted[k] * Draws + Live * w[k] * Cardinality(Passes(target(k)))]

Test == pc = "loop" /\ SumFunction(w) > 0 /\ prev_u >= 0

(* Mutant: retry <= kNode2VecMaxRetries. *)
MutantAgain == retry < kNode2VecMaxRetries

Again == retry + 1 < kNode2VecMaxRetries

(* Mutant: a rejected proposal is not counted. *)
MutantRetry == Test /\ Again /\ UNCHANGED vars

(* Some runs return, the others try again. *)
Retry ==
    /\ Test /\ Again
    /\ pending' = Rejected /\ accepted' = Accepted
    /\ retry' = retry + 1
    /\ UNCHANGED <<pc, graph, args>>

(* Mutant: the runs at the cap return the dead step. *)
MutantLastRetry ==
    /\ Test /\ ~Again
    /\ accepted' = Accepted /\ pending' = Rejected
    /\ retry' = retry + 1
    /\ pc' = "idle"
    /\ UNCHANGED <<graph, args>>

(* At the cap last_step is accepted. *)
LastRetry ==
    /\ Test /\ ~Again
    /\ accepted' = [k \in Candidates |-> Accepted[k] + Rejected[k]]
    /\ pending' = Rejected
    /\ retry' = retry + 1
    /\ pc' = "idle"
    /\ UNCHANGED <<graph, args>>

Loop == ReturnDead \/ FirstHop \/ Retry \/ LastRetry
Next == Call \/ Loop

(* A call that was made runs on. *)
Spec == Init /\ [][Next]_vars /\ WF_vars(Loop)

-----------------------------------------------------------------------------
(* Properties *)

(* b to the n, written out: the provers know no law of ^. *)
Power(b, n) ==
    LET p[k \in Nat] == IF k = 0 THEN 1 ELSE b * p[k - 1]
    IN  p[n]

(* The weight of a hop that node2vec prescribes (tests/test_node2vec.cpp): *)
(* the static weight times 1/p, 1 or 1/q, by the distance from prev_u.     *)
Prescribed ==
    [k \in Candidates |->
        w[k] * IF prev_u < 0 THEN 1
               ELSE CASE target(k) = prev_u -> bias.inv_p
                      [] target(k) # prev_u /\ contains(prev_u, target(k)) -> bias.one
                      [] OTHER -> bias.inv_q]

(* Short of the cap, the edges that have been returned are returned in     *)
(* exactly the prescribed proportions, after every retry, and every run    *)
(* has either returned an edge or been rejected.                           *)
AcceptedProportional ==
    retry < kNode2VecMaxRetries =>
        /\ LET p == Prescribed
           IN  \A j, k \in Candidates : accepted[j] * p[k] = accepted[k] * p[j]
        /\ retry > 0 => Runs(accepted) + Runs(pending) = Power(Draws, retry)

beta_min ==
    CHOOSE m \in {bias.inv_p, bias.one, bias.inv_q} :
        m <= bias.inv_p /\ m <= bias.one /\ m <= bias.inv_q

Distance(a, b) == IF a < b THEN b - a ELSE a - b

(* The last proposal accepted at the cap moves no edge's share further     *)
(* from the prescribed one than (1 - beta_min / beta_max) ^ retries, no    *)
(* run is lost, and no edge without weight is ever returned.               *)
CapSkewBounded ==
    retry = kNode2VecMaxRetries =>
        LET total == Runs(accepted)
            z == SumFunction(Prescribed)
        IN  /\ total = Power(Draws, retry)
            /\ \A k \in Candidates :
                   Distance(accepted[k] * z, total * Prescribed[k]) * Power(beta_max, retry)
                       <= Power(beta_max - beta_min, retry) * total * z

(* The call of a sampler returns, whatever p and q are. *)
RetriesEnd == pc = "loop" ~> pc = "idle"
=============================================================================
