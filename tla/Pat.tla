---------------------------------- MODULE Pat ----------------------------------
(***************************************************************************)
(* Pat::build (include/tea/pat.hpp) and sample_pat (sampler.hpp).          *)
(*                                                                         *)
(* Every vertex's edges are cut into trunks of about the square root of    *)
(* its degree.  The sizes are chosen in parallel, a serial pass lays out   *)
(* the cumsum arena, and a parallel pass (schedule(dynamic, 64): any set   *)
(* of vertices may be in progress) stores the alias table of each trunk in *)
(* an arena laid out like the graph's, and the cumulative trunk totals.  A *)
(* step fills one trunk.  A Pat may be built again, with a bias of its own *)
(* type.                                                                   *)
(***************************************************************************)
EXTENDS AliasArenas

CONSTANT MinTrunkSizes  \* the values of min_trunk_size (8 by default)

ASSUME PatAssumption == MinTrunkSizes \subseteq Nat

VARIABLES phase, graph, bias, min_trunk_size,  \* the running or latest build
          trunk_sizes, cumsum_offsets, alias_arena, cumsum_arena,
          bias_params,                        \* members
          sized,                          \* vertices with a trunk size
          scan, total_num_trunks,         \* the serial loop
          at,                             \* per vertex: next trunk, running
          filled                          \* vertices that are done

args == <<graph, bias, min_trunk_size>>
fills == <<alias_arena, cumsum_arena, bias_params, at, filled>>
vars == <<phase, args, trunk_sizes, cumsum_offsets, sized, scan,
          total_num_trunks, fills>>

N == Cardinality(DOMAIN graph)
Vertices == 0..N - 1
degree(u) == Len(graph[u])
offset_of(u) == SumFunction([v \in 0..u - 1 |-> degree(v)])

TypeOK ==
    /\ phase \in {"unbuilt", "sizes", "layout", "fill", "built"}
    /\ phase # "unbuilt" => /\ graph \in Graphs /\ bias \in Biases
                            /\ min_trunk_size \in MinTrunkSizes
                            /\ DOMAIN trunk_sizes = Vertices
                            /\ sized \subseteq Vertices
                            /\ \A u \in sized : trunk_sizes[u] \in 0..degree(u)
    /\ phase \in {"layout", "fill", "built"} =>
           cumsum_offsets \in [0..N -> Nat] /\ scan \in 0..N
    /\ phase \in {"fill", "built"} =>
           /\ DOMAIN alias_arena = 0..offset_of(N) - 1
           /\ cumsum_arena \in [0..cumsum_offsets[N] - 1 -> Nat]
           /\ bias_params \in [Vertices -> [t_pivot : Int, scale : Nat \X Nat]]
           /\ filled \subseteq Vertices

-----------------------------------------------------------------------------
Init ==
    /\ phase = "unbuilt" /\ graph = <<>> /\ bias \in Biases /\ min_trunk_size = 0
    /\ trunk_sizes = <<>> /\ cumsum_offsets = <<>>
    /\ alias_arena = <<>> /\ cumsum_arena = <<>> /\ bias_params = <<>>
    /\ sized = {} /\ scan = 0 /\ total_num_trunks = 0 /\ at = <<>> /\ filled = {}

(* build(graph, bias, min_trunk_size) is called; Pat<BiasT> fixes the kind. *)
StartBuild ==
    /\ phase \in {"unbuilt", "built"}
    /\ graph' \in Graphs
    /\ bias' \in {b \in Biases : b.kind = bias.kind}
    /\ min_trunk_size' \in MinTrunkSizes
    /\ trunk_sizes' = [u \in DOMAIN graph' |-> 0]
    /\ sized' = {}
    /\ phase' = "sizes"
    /\ UNCHANGED <<cumsum_offsets, scan, total_num_trunks, fills>>

CeilSqrt(D) == CHOOSE t \in 0..D : t * t >= D /\ (t - 1) * (t - 1) < D

(* Mutant: the size is not clamped to the degree. *)
MutantTrunkSize(D) ==
    IF D = 0 THEN 0
    ELSE IF CeilSqrt(D) < min_trunk_size THEN min_trunk_size ELSE CeilSqrt(D)

(* At least min_trunk_size, but not above the degree. *)
TrunkSize(D) ==
    IF D = 0 THEN 0
    ELSE Min({D, IF CeilSqrt(D) < min_trunk_size THEN min_trunk_size ELSE CeilSqrt(D)})

(* 1. A vertex's trunk size. *)
SizeVertex(u) ==
    /\ phase = "sizes" /\ u \notin sized
    /\ trunk_sizes' = [trunk_sizes EXCEPT ![u] = TrunkSize(degree(u))]
    /\ sized' = sized \cup {u}
    /\ UNCHANGED <<phase, args, cumsum_offsets, scan, total_num_trunks, fills>>

(* 2. The offsets of the cumsum arena. *)
StartLayout ==
    /\ phase = "sizes" /\ sized = Vertices
    /\ cumsum_offsets' = [u \in 0..N |-> 0]
    /\ total_num_trunks' = 0
    /\ scan' = 0
    /\ phase' = "layout"
    /\ UNCHANGED <<args, trunk_sizes, sized, fills>>

(* ceil(D / T); the last trunk may be short. *)
NumTrunks(u) == (degree(u) + trunk_sizes[u] - 1) \div trunk_sizes[u]

LayoutVertex ==
    /\ phase = "layout" /\ scan < N
    /\ cumsum_offsets' = [cumsum_offsets EXCEPT ![scan] = total_num_trunks]
    /\ total_num_trunks' = total_num_trunks + IF degree(scan) > 0 THEN NumTrunks(scan) ELSE 0
    /\ scan' = scan + 1
    /\ UNCHANGED <<phase, args, trunk_sizes, sized, fills>>

(* 3. The arenas. *)
AllocateArenas ==
    /\ phase = "layout" /\ scan = N
    /\ cumsum_offsets' = [cumsum_offsets EXCEPT ![N] = total_num_trunks]
    /\ alias_arena' = [c \in 0..offset_of(N) - 1 |-> Blank]
    /\ cumsum_arena' = [c \in 0..total_num_trunks - 1 |-> 0]
    /\ bias_params' = [u \in Vertices |-> NoParams]
    /\ at' = [u \in Vertices |-> [i |-> 0, running |-> 0]]
    /\ filled' = {u \in Vertices : degree(u) = 0}
    /\ phase' = "fill"
    /\ UNCHANGED <<args, trunk_sizes, sized, scan, total_num_trunks>>

(* Trunk i of u: the edges trunk_lo..trunk_hi - 1. *)
trunk_lo(u, i) == i * trunk_sizes[u]
trunk_hi(u, i) == Min({(i + 1) * trunk_sizes[u], degree(u)})
trunk_sz(u, i) == trunk_hi(u, i) - trunk_lo(u, i)

(* The weights of all edges of u, in the thread's scratch. *)
weights(u) == compute_weights_full(bias, graph[u])
trunk_weights(u, i) == SubSeq(weights(u), trunk_lo(u, i) + 1, trunk_hi(u, i))

(* Mutant: the scan is exclusive. *)
MutantRunning(u) == at[u].running

(* The inclusive scan of the totals, after the next trunk of u. *)
Running(u) ==
    at[u].running + Sum(weights(u), trunk_lo(u, at[u].i) + 1, trunk_hi(u, at[u].i))

(* 4. The next trunk of u; before the first, the parameters of its bias. *)
FillTrunk(u) ==
    LET i == at[u].i
    IN  /\ phase = "fill" /\ u \notin filled
        /\ bias_params' = IF i > 0 THEN bias_params ELSE
               [bias_params EXCEPT ![u] = compute_per_vertex_params(bias, graph[u])]
        /\ alias_arena' = Write(alias_arena, offset_of(u) + trunk_lo(u, i),
                                Table(trunk_weights(u, i)))
        /\ cumsum_arena' = [cumsum_arena EXCEPT ![cumsum_offsets[u] + i] = Running(u)]
        /\ at' = [at EXCEPT ![u] = [i |-> i + 1, running |-> Running(u)]]
        /\ filled' = IF i + 1 = NumTrunks(u) THEN filled \cup {u} ELSE filled
        /\ UNCHANGED <<phase, args, trunk_sizes, cumsum_offsets, sized, scan,
                       total_num_trunks>>

(* The end of the parallel region. *)
FinishBuild ==
    /\ phase = "fill" /\ filled = Vertices
    /\ phase' = "built"
    /\ UNCHANGED <<args, trunk_sizes, cumsum_offsets, sized, scan,
                   total_num_trunks, fills>>

Next == \/ StartBuild
        \/ \E u \in Vertices : SizeVertex(u) \/ FillTrunk(u)
        \/ StartLayout \/ LayoutVertex \/ AllocateArenas \/ FinishBuild

Spec == Init /\ [][Next]_vars

-----------------------------------------------------------------------------
(* The read side. *)
alias_view_of_trunk(u, i) ==
    [j \in 0..trunk_sz(u, i) - 1 |-> alias_arena[offset_of(u) + trunk_lo(u, i) + j]]

trunk_cumsums_of(u) ==
    [j \in 1..cumsum_offsets[u + 1] - cumsum_offsets[u] |->
        cumsum_arena[cumsum_offsets[u] + j - 1]]

(***************************************************************************)
(* sample_pat on G candidates, as the mass of each edge p: the full trunks *)
(* are picked by the stored cumulative totals and the edge by the table;   *)
(* the trunk the candidate set ends in is picked from by its weights,      *)
(* computed again from the parameters kept since the build.                *)
(***************************************************************************)
sample_pat(u, G, p) ==
    LET T == trunk_sizes[u]
        num_full == G \div T
        full == SubSeq(trunk_cumsums_of(u), 1, num_full)
        full_total == IF num_full > 0 THEN full[num_full] ELSE 0
        partial == Cumulative(compute_weights(bias, SubSeq(graph[u], num_full * T + 1, G),
                                              bias_params[u], num_full * T))
        total == full_total + IF partial # <<>> THEN partial[Len(partial)] ELSE 0
        i == (p - 1) \div T
    IN  IF p > G THEN 0
        ELSE IF i < num_full
             THEN TableShare(TableWeights(alias_view_of_trunk(u, i)), p - i * T,
                             Cardinality({r \in 0..full_total - 1 : Its(full, r) = i + 1}))
             ELSE Cardinality({r \in full_total..total - 1 :
                                   Its(partial, r - full_total) = p - num_full * T})

-----------------------------------------------------------------------------
(* Properties *)

(* A trunk that has been stored is what the accessors of the read side     *)
(* find, while the rest is being filled and ever after: its table, and the *)
(* sum of all weights up to its end.                                       *)
TrunksReadBack ==
    phase \in {"fill", "built"} =>
        \A u \in Vertices : \A i \in 0..at[u].i - 1 :
            LET lo == i * trunk_sizes[u]
                hi == Min({lo + trunk_sizes[u], degree(u)})
            IN  /\ alias_view_of_trunk(u, i) = Table(SubSeq(weights(u), lo + 1, hi))
                /\ trunk_cumsums_of(u)[i + 1] = Sum(weights(u), 1, hi)

(* sample_pat samples what PrefixSampler promises: the same as sample_hpat. *)
PrefixSampler ==
    INSTANCE PrefixSampler
    WITH building <- IF phase \in {"unbuilt", "built"} THEN {}
                      ELSE {<<graph, bias>>},
         mass <- IF phase # "built" THEN <<>> ELSE
                 [u \in Vertices |-> [G \in 1..degree(u) |->
                     [p \in 1..degree(u) |-> sample_pat(u, G, p)]]]
ImplementsPrefixSampler == PrefixSampler!Spec
=============================================================================
