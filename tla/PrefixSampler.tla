---------------------------- MODULE PrefixSampler ----------------------------
(***************************************************************************)
(* What Pat and Hpat are built for (README.md: "both sampler variants       *)
(* produce statistically identical distributions"): once an index is built *)
(* for a graph and a bias, a sample from the first L edges of a vertex     *)
(* returns each of them in proportion to its weight among all edges of the *)
(* vertex and no other edge, for every vertex and every L.                 *)
(***************************************************************************)
EXTENDS Bias

CONSTANTS Graphs,  \* g[v]: the times of v's edges, oldest first
          Biases

VARIABLES building,  \* {} or {<<graph, bias>>}
          mass       \* mass[v][L][p]: edge p's share of samples from v's first L

(* How far edge p is before the newest one, on the scale of the bias. *)
Age(b, ts, p) ==
    LET range == ts[Len(ts)] - ts[1]
        age == ts[Len(ts)] - ts[p]
    IN  IF b.timescale_bound > 0 /\ range > 0 THEN (age * b.timescale_bound) \div range
        ELSE age

Weight(b, ts, p) == CASE b.kind = "uniform" -> 1
                      [] b.kind = "linear" -> p
                      [] b.kind = "exponential" -> Exp(Age(b, ts, p))

Exact(g, b) ==
    [v \in DOMAIN g |->
        [L \in 1..Len(g[v]) |->
            [p \in 1..Len(g[v]) |-> IF p <= L THEN Weight(b, g[v], p) ELSE 0]]]

NoIndex == <<>>

Init == building = {} /\ mass = NoIndex

Begin == /\ building = {}
         /\ \E g \in Graphs, b \in Biases : building' = {<<g, b>>}
         /\ mass' = NoIndex

Finish == /\ \E c \in building : mass' = Exact(c[1], c[2])
          /\ building' = {}

Next == Begin \/ Finish

Spec == Init /\ [][Next]_<<building, mass>>
=============================================================================
