--------------------------------- MODULE Hpat ---------------------------------
(***************************************************************************)
(* Hpat::build (include/tea/hpat.hpp), AuxIndex::build (aux_index.hpp) and *)
(* sample_hpat (sampler.hpp).                                              *)
(*                                                                         *)
(* A serial pass lays out the vertices' slices of the arenas; a parallel   *)
(* pass fills them without atomics; then the auxiliary index, which holds  *)
(* the trunk cover of every prefix of every vertex, is laid out and filled *)
(* the same way.  schedule(dynamic, 64): any set of vertices may be in     *)
(* progress.  A step fills one trunk, or the cover of one prefix.  An Hpat *)
(* may be built again.                                                     *)
(*                                                                         *)
(* An edge is known by its time (PrefixSampler), a table by the weights it *)
(* was built from (AliasArenas).                                           *)
(***************************************************************************)
EXTENDS Trunks, AliasArenas

CONSTANTS kHpatDegreeThreshold,  \* 64 in the code
          Budgets                \* the values of aux_budget_bytes

ASSUME HpatAssumption ==
    /\ kHpatDegreeThreshold \in Nat
    /\ Budgets \subseteq Nat

VARIABLES phase, graph, bias, aux_budget_bytes,  \* the running or latest build
          K_max, is_solo, alias_offsets, totals_offsets,
          alias_arena, trunk_totals, bias_params,  \* the members
          scan, alias_size, totals_size,       \* the serial loops
          at, filled                           \* the parallel loop, by vertex

VARIABLES active, L_base, L_offsets, entries,  \* the AuxIndex
          entries_start, cum_L, cum_e,         \* its serial loop
          next_L, cur                          \* its parallel loop, by vertex

args == <<graph, bias, aux_budget_bytes>>
layout == <<K_max, is_solo, alias_offsets, totals_offsets, alias_size, totals_size>>
fills == <<alias_arena, trunk_totals, at, filled>>
build_vars == <<layout, scan, fills, bias_params>>
aux_table == <<active, L_base, L_offsets, entries>>
aux_locals == <<entries_start, cum_L, cum_e, next_L, cur>>
vars == <<phase, args, build_vars, aux_table, aux_locals>>

N == Cardinality(DOMAIN graph)
Vertices == 0..N - 1
degree(u) == Len(graph[u])

NoTrunk == [level |-> 0, index |-> 0]

TypeOK ==
    /\ phase \in {"unbuilt", "layout", "fill", "aux_layout", "aux_fill", "built"}
    /\ phase # "unbuilt" => /\ graph \in Graphs /\ bias \in Biases
                            /\ aux_budget_bytes \in Budgets
                            /\ K_max \in [Vertices -> Nat \cup {-1}]
                            /\ bias_params \in [Vertices -> [t_pivot : Int, scale : Nat \X Nat]]
                            /\ is_solo \in [Vertices -> BOOLEAN]
                            /\ alias_offsets \in [0..N -> Nat]
                            /\ totals_offsets \in [0..N -> Nat]
    /\ phase \notin {"unbuilt", "layout"} =>
           /\ DOMAIN alias_arena = 0..alias_offsets[N] - 1
           /\ trunk_totals \in [0..totals_offsets[N] - 1 -> Nat]
           /\ filled \subseteq Vertices
    /\ active \in BOOLEAN
    /\ active /\ phase = "built" =>
           /\ DOMAIN L_base = 0..N
           /\ DOMAIN L_offsets = 0..L_base[N]
           /\ DOMAIN entries = 0..L_offsets[L_base[N]] - 1

-----------------------------------------------------------------------------
Init ==
    /\ phase = "unbuilt" /\ graph = <<>> /\ bias \in Biases /\ aux_budget_bytes = 0
    /\ K_max = <<>> /\ is_solo = <<>> /\ alias_offsets = <<>> /\ totals_offsets = <<>>
    /\ alias_arena = <<>> /\ trunk_totals = <<>> /\ bias_params = <<>>
    /\ scan = 0 /\ alias_size = 0 /\ totals_size = 0 /\ at = <<>> /\ filled = {}
    /\ active = FALSE /\ L_base = <<>> /\ L_offsets = <<>> /\ entries = <<>>
    /\ entries_start = <<>> /\ cum_L = 0 /\ cum_e = 0 /\ next_L = <<>> /\ cur = <<>>

(* build(graph, bias, aux_budget_bytes) is called; Hpat<BiasT> fixes the   *)
(* kind of bias.                                                           *)
StartBuild ==
    /\ phase \in {"unbuilt", "built"}
    /\ graph' \in Graphs
    /\ bias' \in {b \in Biases : b.kind = bias.kind}
    /\ aux_budget_bytes' \in Budgets
    /\ K_max' = [u \in DOMAIN graph' |-> -1]
    /\ is_solo' = [u \in DOMAIN graph' |-> FALSE]
    /\ alias_offsets' = [u \in 0..Cardinality(DOMAIN graph') |-> 0]
    /\ totals_offsets' = [u \in 0..Cardinality(DOMAIN graph') |-> 0]
    /\ bias_params' = [u \in DOMAIN graph' |-> NoParams]
    /\ scan' = 0 /\ alias_size' = 0 /\ totals_size' = 0
    /\ phase' = "layout"
    /\ UNCHANGED <<fills, aux_table, aux_locals>>

(* 1. The layout of vertex scan. *)
LayoutVertex ==
    LET u == scan
        D == degree(u)
        solo == D > 0 /\ D <= kHpatDegreeThreshold
        deep == D > kHpatDegreeThreshold
    IN  /\ phase = "layout" /\ u < N
        /\ alias_offsets' = [alias_offsets EXCEPT ![u] = alias_size]
        /\ totals_offsets' = [totals_offsets EXCEPT ![u] = totals_size]
        /\ is_solo' = [is_solo EXCEPT ![u] = solo]
        /\ K_max' = [K_max EXCEPT ![u] = IF deep THEN FloorLog2(D) ELSE @]
        /\ alias_size' = alias_size + IF deep THEN hpat_alias_entries_per_vertex(D) ELSE D
        /\ totals_size' = totals_size + IF deep THEN hpat_trunks_per_vertex(D) ELSE 0
        /\ scan' = u + 1
        /\ UNCHANGED <<phase, args, fills, bias_params, aux_table, aux_locals>>

(* 2. The arenas. *)
AllocateArenas ==
    /\ phase = "layout" /\ scan = N
    /\ alias_offsets' = [alias_offsets EXCEPT ![N] = alias_size]
    /\ totals_offsets' = [totals_offsets EXCEPT ![N] = totals_size]
    /\ alias_arena' = [c \in 0..alias_size - 1 |-> Blank]
    /\ trunk_totals' = [c \in 0..totals_size - 1 |-> 0]
    /\ at' = [u \in Vertices |-> [k |-> 0, i |-> 0, alias |-> 0, totals |-> 0]]
    /\ filled' = {u \in Vertices : degree(u) = 0}
    /\ phase' = "fill"
    /\ UNCHANGED <<args, K_max, is_solo, scan, alias_size, totals_size,
                   bias_params, aux_table, aux_locals>>

(* The weights of all edges of u, in the thread's scratch. *)
weights(u) == compute_weights_full(bias, graph[u])

(* Mutant: the parameters are only stored for a vertex with a hierarchy. *)
MutantStoredParams(u) ==
    IF is_solo[u] THEN bias_params
    ELSE [bias_params EXCEPT ![u] = compute_per_vertex_params(bias, graph[u])]

(* The members after the parameters of u's bias have been stored. *)
StoredParams(u) ==
    [bias_params EXCEPT ![u] = compute_per_vertex_params(bias, graph[u])]

(* 3. A solo vertex has one table. *)
FillSolo(u) ==
    /\ phase = "fill" /\ u \notin filled /\ is_solo[u]
    /\ alias_arena' = Write(alias_arena, alias_offsets[u], Table(weights(u)))
    /\ bias_params' = StoredParams(u)
    /\ filled' = filled \cup {u}
    /\ UNCHANGED <<phase, args, layout, scan, trunk_totals, at, aux_table, aux_locals>>

(* Was this the last trunk of its level? *)
LevelDone(u) == at[u].i + 1 >= degree(u) \div 2^at[u].k

(* The next trunk of a vertex with a hierarchy: its table and its total;   *)
(* before the first, the parameters of its bias.                           *)
FillTrunk(u) ==
    LET k == at[u].k
        edge_lo == at[u].i * 2^k
    IN  /\ phase = "fill" /\ u \notin filled /\ ~is_solo[u]
        /\ alias_arena' = Write(alias_arena, alias_offsets[u] + at[u].alias,
                                Table(SubSeq(weights(u), edge_lo + 1, edge_lo + 2^k)))
        /\ bias_params' = IF at[u].totals = 0 THEN StoredParams(u) ELSE bias_params
        /\ trunk_totals' = [trunk_totals EXCEPT ![totals_offsets[u] + at[u].totals] =
                               Sum(weights(u), edge_lo + 1, edge_lo + 2^k)]
        /\ at' = [at EXCEPT ![u] =
                     [k |-> IF LevelDone(u) THEN k + 1 ELSE k,
                      i |-> IF LevelDone(u) THEN 0 ELSE @.i + 1,
                      alias |-> @.alias + 2^k,
                      totals |-> @.totals + 1]]
        /\ filled' = IF at'[u].k > K_max[u] THEN filled \cup {u} ELSE filled
        /\ UNCHANGED <<phase, args, layout, scan, aux_table, aux_locals>>

(* 4. Without a budget the auxiliary index is left as it is. *)
SkipAux ==
    /\ phase = "fill" /\ filled = Vertices /\ aux_budget_bytes = 0
    /\ phase' = "built"
    /\ UNCHANGED <<args, build_vars, aux_table, aux_locals>>

StartAux ==
    /\ phase = "fill" /\ filled = Vertices /\ aux_budget_bytes > 0
    /\ L_base' = [u \in 0..N |-> 0]
    /\ entries_start' = [u \in 0..N |-> 0]
    /\ cum_L' = 0 /\ cum_e' = 0
    /\ scan' = 0
    /\ phase' = "aux_layout"
    /\ UNCHANGED <<args, layout, fills, bias_params, active, L_offsets, entries, next_L, cur>>

(* The prefixes a vertex needs covers for: L in 0..D. *)
Prefixes(u) == degree(u) + 1

AuxLayoutVertex ==
    /\ phase = "aux_layout" /\ scan < N
    /\ L_base' = [L_base EXCEPT ![scan] = cum_L]
    /\ entries_start' = [entries_start EXCEPT ![scan] = cum_e]
    /\ cum_L' = IF is_solo[scan] THEN cum_L ELSE cum_L + Prefixes(scan)
    /\ cum_e' = IF is_solo[scan] THEN cum_e
                ELSE cum_e + SumFunction([L \in 1..degree(scan) |-> popcount(L)])
    /\ scan' = scan + 1
    /\ UNCHANGED <<phase, args, layout, fills, bias_params, active, L_offsets, entries, next_L, cur>>

(* Every offset and every TrunkRef takes 8 bytes. *)
bytes_needed == 8 * ((N + 1) + (cum_L + 1) + cum_e)

(* Mutant: the index of an earlier build stays active. *)
MutantRefuseAux ==
    /\ phase = "aux_layout" /\ scan = N /\ bytes_needed > aux_budget_bytes
    /\ L_base' = <<>> /\ L_offsets' = <<>> /\ entries' = <<>>
    /\ phase' = "built"
    /\ UNCHANGED <<args, build_vars, active, aux_locals>>

(* Over the budget the index is cleared. *)
RefuseAux ==
    /\ phase = "aux_layout" /\ scan = N /\ bytes_needed > aux_budget_bytes
    /\ active' = FALSE /\ L_base' = <<>> /\ L_offsets' = <<>> /\ entries' = <<>>
    /\ phase' = "built"
    /\ UNCHANGED <<args, build_vars, aux_locals>>

AllocateAux ==
    /\ phase = "aux_layout" /\ scan = N /\ bytes_needed <= aux_budget_bytes
    /\ L_base' = [L_base EXCEPT ![N] = cum_L]
    /\ entries_start' = [entries_start EXCEPT ![N] = cum_e]
    /\ L_offsets' = [c \in 0..cum_L |-> 0]
    /\ entries' = [c \in 0..cum_e - 1 |-> NoTrunk]
    /\ next_L' = [u \in Vertices |-> 0]
    /\ cur' = [u \in Vertices |-> entries_start[u]]
    /\ phase' = "aux_fill"
    /\ UNCHANGED <<args, build_vars, active, cum_L, cum_e>>

(* The offset and the cover of the next prefix of u. *)
FillCover(u) ==
    LET L == next_L[u]
        cover == decompose_to_trunks(L, K_max[u])
    IN  /\ phase = "aux_fill" /\ ~is_solo[u] /\ L <= degree(u)
        /\ L_offsets' = [L_offsets EXCEPT ![L_base[u] + L] = cur[u]]
        /\ entries' = Write(entries, cur[u], [j \in 0..Len(cover) - 1 |-> cover[j + 1]])
        /\ cur' = [cur EXCEPT ![u] = @ + Len(cover)]
        /\ next_L' = [next_L EXCEPT ![u] = @ + 1]
        /\ UNCHANGED <<phase, args, build_vars, active, L_base,
                       entries_start, cum_L, cum_e>>

(* Mutant: the final sentinel is forgotten. *)
MutantFinishAux ==
    /\ phase = "aux_fill"
    /\ \A u \in Vertices : is_solo[u] \/ next_L[u] > degree(u)
    /\ active' = TRUE
    /\ phase' = "built"
    /\ UNCHANGED <<args, build_vars, L_base, L_offsets,
                   entries, aux_locals>>

(* The last offset ends the last prefix of the last vertex. *)
FinishAux ==
    /\ phase = "aux_fill"
    /\ \A u \in Vertices : is_solo[u] \/ next_L[u] > degree(u)
    /\ L_offsets' = [L_offsets EXCEPT ![cum_L] = cum_e]
    /\ active' = TRUE
    /\ phase' = "built"
    /\ UNCHANGED <<args, build_vars, L_base, entries, aux_locals>>

BuildStep ==
    \/ LayoutVertex \/ AllocateArenas
    \/ \E u \in Vertices : FillSolo(u) \/ FillTrunk(u) \/ FillCover(u)
    \/ SkipAux \/ StartAux \/ AuxLayoutVertex \/ RefuseAux \/ AllocateAux \/ FinishAux

Next == StartBuild \/ BuildStep

Spec == Init /\ [][Next]_vars

-----------------------------------------------------------------------------
(* The read side. *)
solo_alias_view(u) == [j \in 0..degree(u) - 1 |-> alias_arena[alias_offsets[u] + j]]

alias_view_of_trunk(u, k, i) ==
    [j \in 0..2^k - 1 |->
        alias_arena[alias_offsets[u] + hpat_alias_level_offset(degree(u), k) + i * 2^k + j]]

trunk_total_of(u, k, i) ==
    trunk_totals[totals_offsets[u] + hpat_totals_level_offset(degree(u), k) + i]

cover_for(u, L) ==
    LET start_e == L_offsets[L_base[u] + L]
        end_e == L_offsets[L_base[u] + L + 1]
    IN  [j \in 1..end_e - start_e |-> entries[start_e + j - 1]]

(* The cover sample_hpat uses. *)
CoverOf(u, G) == IF active THEN cover_for(u, G) ELSE decompose_to_trunks(G, K_max[u])

(* sample_hpat's trunk path: how often edge p is the result.  The trunk is  *)
(* picked by its total, the edge in it by its share of the table.          *)
TrunkMass(u, G, p) ==
    LET cover == CoverOf(u, G)
        cs == Cumulative([j \in 1..Len(cover) |->
                             trunk_total_of(u, cover[j].level, cover[j].index)])
        first(j) == cover[j].index * 2^cover[j].level
        inside == {j \in 1..Len(cover) : p - 1 \in first(j)..first(j) + 2^cover[j].level - 1}
        share(j) ==
            TableShare(TableWeights(alias_view_of_trunk(u, cover[j].level, cover[j].index)),
                       p - first(j), ItsMass(cs, j))
    IN  SumFunction([j \in {i \in inside : ItsMass(cs, i) > 0} |-> share(j)])

(* sample_hpat on a candidate set of G edges, as the mass of each edge. *)
sample_hpat(u, G, p) ==
    IF ~is_solo[u] THEN TrunkMass(u, G, p)
    ELSE IF G = degree(u) THEN TableWeights(solo_alias_view(u))[p]
    ELSE IF p > G THEN 0
    ELSE ItsMass(Cumulative(compute_weights(bias, SubSeq(graph[u], 1, G), bias_params[u], 0)), p)

-----------------------------------------------------------------------------
(* Properties *)

(* The trunks of u that have been filled. *)
FilledTrunks(u) ==
    {t \in UNION {{k} \X (0..degree(u) \div 2^k - 1) : k \in 0..K_max[u]} :
        t[1] < at[u].k \/ (t[1] = at[u].k /\ t[2] < at[u].i)}

(* A table or total that has been stored is what the accessors of the read *)
(* side find, while the rest is being filled and ever after: the cursors   *)
(* of the build and the level offsets of the read side agree, and no       *)
(* vertex's fill reaches into another's slice.                             *)
TrunksReadBack ==
    phase \in {"fill", "aux_layout", "aux_fill", "built"} =>
        \A u \in Vertices :
            /\ is_solo[u] /\ u \in filled =>
                   solo_alias_view(u) = Table(weights(u))
            /\ \A t \in FilledTrunks(u) :
                   /\ alias_view_of_trunk(u, t[1], t[2]) =
                          Table(SubSeq(weights(u), t[2] * 2^t[1] + 1, (t[2] + 1) * 2^t[1]))
                   /\ trunk_total_of(u, t[1], t[2]) =
                          Sum(weights(u), t[2] * 2^t[1] + 1, (t[2] + 1) * 2^t[1])

(* README.md "AuxiliaryIndex": looking a cover up and computing it on the  *)
(* fly are the same, for every prefix of every vertex that has covers.     *)
CoverLookupExact ==
    phase = "built" /\ active =>
        \A u \in Vertices : ~is_solo[u] =>
            \A L \in 0..degree(u) : cover_for(u, L) = decompose_to_trunks(L, K_max[u])

(* hpat.hpp: the index is "empty if build was called with aux_budget_bytes *)
(* == 0", so that the sampler falls back to on-the-fly covers.             *)
NoBudgetNoIndex == phase = "built" /\ aux_budget_bytes = 0 => ~active

(* sample_hpat samples what PrefixSampler promises. *)
PrefixSampler ==
    INSTANCE PrefixSampler
    WITH building <- IF phase \in {"unbuilt", "built"} THEN {}
                      ELSE {<<graph, bias>>},
         mass <- IF phase # "built" THEN <<>> ELSE
                 [u \in Vertices |-> [G \in 1..degree(u) |->
                     [p \in 1..degree(u) |-> sample_hpat(u, G, p)]]]
ImplementsPrefixSampler == PrefixSampler!Spec
=============================================================================
