------------------------------- MODULE PatProofs -------------------------------
(***************************************************************************)
(* For every graph, bias, trunk size and schedule: the fill of Pat::build  *)
(* keeps to each vertex's slice of the two arenas, so that the accessors   *)
(* of the read side find what it stored; and sample_pat draws every        *)
(* candidate in proportion to its weight, as PrefixSampler promises.       *)
(***************************************************************************)
EXTENDS Pat, DataLemmas

TrunkCount(u) == IF degree(u) > 0 THEN NumTrunks(u) ELSE 0
Counts == [u \in Vertices |-> TrunkCount(u)]

RightSize(u) == /\ trunk_sizes[u] \in 0..degree(u)
                /\ degree(u) > 0 => trunk_sizes[u] > 0

(* What is built, and the trunk sizes that have been chosen. *)
InputInv ==
    /\ bias \in Biases
    /\ phase \in {"unbuilt", "sizes", "layout", "fill", "built"}
    /\ phase # "unbuilt" =>
           /\ graph \in Graphs /\ min_trunk_size \in MinTrunkSizes
           /\ DOMAIN trunk_sizes = Vertices /\ sized \subseteq Vertices
           /\ \A u \in sized : RightSize(u)
    /\ phase \in {"layout", "fill", "built"} => sized = Vertices

(* Each vertex has as many cumulative totals as trunks, one after another. *)
LayoutInv ==
    /\ phase \in {"layout", "fill", "built"} =>
           /\ cumsum_offsets \in [0..N -> Nat]
           /\ scan \in 0..N /\ total_num_trunks \in Nat
    /\ phase = "layout" => StepsTo(cumsum_offsets, Counts, N, scan, total_num_trunks)
    /\ phase \in {"fill", "built"} => Consecutive(cumsum_offsets, Counts, N)

ArenasInv ==
    phase \in {"fill", "built"} =>
        /\ DOMAIN alias_arena = 0..offset_of(N) - 1
        /\ cumsum_arena \in [0..cumsum_offsets[N] - 1 -> Nat]
        /\ bias_params \in [Vertices -> Params]
        /\ filled \subseteq Vertices
        /\ at \in [Vertices -> [i : Nat, running : Nat]]

(* A vertex that is not done has another trunk, and its running total is   *)
(* that of the trunks before.                                              *)
ProgressInv ==
    phase \in {"fill", "built"} =>
        \A u \in Vertices :
            /\ at[u].i <= TrunkCount(u)
            /\ u \notin filled =>
                   /\ at[u].i < TrunkCount(u)
                   /\ at[u].running = Sum(weights(u), 1, trunk_lo(u, at[u].i))

(* The trunks that have been stored. *)
Stored(u, i) ==
    /\ \A j \in 0..trunk_sz(u, i) - 1 :
           alias_arena[offset_of(u) + trunk_lo(u, i) + j] = <<trunk_weights(u, i), j>>
    /\ cumsum_arena[cumsum_offsets[u] + i] = Sum(weights(u), 1, trunk_hi(u, i))
StoredInv ==
    phase \in {"fill", "built"} =>
        \A u \in Vertices : \A i \in 0..at[u].i - 1 : Stored(u, i)

IInv == InputInv /\ LayoutInv /\ ArenasInv /\ ProgressInv /\ StoredInv

-----------------------------------------------------------------------------
(* Trunks. *)
LEMMA GraphRight ==
    ASSUME InputInv, phase # "unbuilt"
    PROVE  /\ N \in Nat /\ DOMAIN graph = Vertices /\ Vertices = 0..N - 1
           /\ \A u \in Vertices : graph[u] \in Seq(Int) /\ degree(u) \in Nat
<1>1. /\ IsFiniteSet(DOMAIN graph) /\ DOMAIN graph = 0..Cardinality(DOMAIN graph) - 1
      /\ \A v \in DOMAIN graph : graph[v] \in Seq(Int)
    BY ArenasAssumption DEF InputInv
<1>2. N \in Nat
    BY <1>1, FS_CardinalityType DEF N
<1>3. DOMAIN graph = Vertices /\ Vertices = 0..N - 1
    BY <1>1 DEF N, Vertices
<1>4. \A u \in Vertices : graph[u] \in Seq(Int)
    BY <1>1, <1>3
<1> QED
    BY <1>2, <1>3, <1>4 DEF degree

LEMMA MinOfTwo ==
    ASSUME NEW a \in Int, NEW b \in Int
    PROVE  Min({a, b}) = IF a <= b THEN a ELSE b
BY DEF Min

(* The square root exists, and the size that is chosen for D edges.        *)
LEMMA CeilSqrtRight ==
    ASSUME NEW D \in Nat, D > 0
    PROVE  CeilSqrt(D) \in 1..D
<1> DEFINE S == {t \in Nat : t * t >= D}
<1>1. D \in S
  <2>1. D * D >= 1 * D
      BY TimesMonotone
  <2> QED
      BY <2>1
<1>2. PICK t \in S : \A y \in S : t <= y
    BY <1>1, LeastElement
<1>3. t \in Nat /\ t * t >= D /\ t <= D /\ t # 0
    BY <1>1, <1>2
<1>4. (t - 1) * (t - 1) < D
  <2>1. t - 1 \in Nat /\ t - 1 \notin S
      BY <1>2, <1>3
  <2>2. (t - 1) * (t - 1) \in Nat
      BY <2>1
  <2> QED
      BY <2>1, <2>2
<1>5. \E x \in 0..D : x * x >= D /\ (x - 1) * (x - 1) < D
    BY <1>3, <1>4
<1> DEFINE c == CeilSqrt(D)
<1>6. c \in 0..D /\ c * c >= D
    BY <1>5 DEF CeilSqrt
<1> HIDE DEF c
<1>7. c # 0
    BY <1>6
<1> QED
    BY <1>6, <1>7 DEF c

LEMMA TrunkSizeRight ==
    ASSUME NEW D \in Nat, min_trunk_size \in Nat
    PROVE  TrunkSize(D) \in 0..D /\ (D > 0 => TrunkSize(D) > 0)
<1>1. CASE D = 0
    BY <1>1 DEF TrunkSize
<1>2. CASE D > 0
  <2> DEFINE c == IF CeilSqrt(D) < min_trunk_size THEN min_trunk_size ELSE CeilSqrt(D)
  <2>1. c \in Nat /\ c > 0
      BY <1>2, CeilSqrtRight
  <2>2. TrunkSize(D) = Min({D, c})
      BY <1>2 DEF TrunkSize
  <2> HIDE DEF c
  <2>3. Min({D, c}) = IF D <= c THEN D ELSE c
      BY <2>1, MinOfTwo
  <2> QED
      BY <1>2, <2>1, <2>2, <2>3
<1> QED
    BY <1>1, <1>2

(* ceil(D / T) trunks of T edges cover D edges, and no fewer do. *)
LEMMA CeilDiv ==
    ASSUME NEW D \in Nat, NEW T \in Nat, T > 0
    PROVE  LET n == (D + T - 1) \div T
           IN  n \in Nat /\ D <= n * T /\ \A i \in Nat : i < n => i * T < D
<1> DEFINE x == D + T - 1
           n == x \div T
           r == x % T
<1>1. x \in Nat
    OBVIOUS
<1>2. n \in Nat /\ r \in 0..T - 1 /\ x = n * T + r
  <2> HIDE DEF x
  <2>1. x \div T \in Int /\ x % T \in 0..T - 1 /\ x = T * (x \div T) + (x % T)
      BY <1>1
  <2>2. x \div T >= 0
      BY <1>1
  <2> QED
      BY <2>1, <2>2
<1> HIDE DEF n, r
<1>3. D <= n * T
    BY <1>2
<1>4. ASSUME NEW i \in Nat, i < n PROVE i * T < D
  <2>1. (i + 1) * T <= n * T
      BY <1>2, <1>4, TimesMonotone
  <2>2. (i + 1) * T = i * T + T /\ i * T \in Nat /\ n * T \in Nat
      BY <1>2
  <2> QED
      BY <1>2, <2>1, <2>2
<1> QED
    BY <1>2, <1>3, <1>4 DEF n

LEMMA TrunkRange ==
    ASSUME InputInv, phase # "unbuilt", NEW u \in sized
    PROVE  /\ TrunkCount(u) \in Nat /\ trunk_sizes[u] \in Nat
           /\ \A i \in Nat : i < TrunkCount(u) =>
                  /\ trunk_lo(u, i) \in Nat /\ trunk_hi(u, i) \in Nat
                  /\ trunk_lo(u, i) < trunk_hi(u, i) /\ trunk_hi(u, i) <= degree(u)
                  /\ trunk_sz(u, i) = trunk_hi(u, i) - trunk_lo(u, i)
                  /\ trunk_hi(u, i) <= trunk_lo(u, i + 1)
                  /\ i + 1 < TrunkCount(u) => trunk_hi(u, i) = trunk_lo(u, i + 1)
           /\ \A i, j \in Nat : i < j /\ j < TrunkCount(u) => trunk_hi(u, i) <= trunk_lo(u, j)
<1> DEFINE D == degree(u)
           T == trunk_sizes[u]
           n == TrunkCount(u)
<1>1. D \in Nat /\ T \in 0..D /\ (D > 0 => T > 0)
    BY GraphRight DEF InputInv, RightSize
<1>2. /\ n \in Nat /\ D <= n * T /\ \A i \in Nat : i < n => i * T < D
  <2>1. CASE D = 0
      BY <1>1, <2>1 DEF TrunkCount
  <2>2. CASE D > 0
    <3>1. n = (D + T - 1) \div T
        BY <2>2 DEF TrunkCount, NumTrunks
    <3> HIDE DEF D, T, n
    <3> QED
        BY <1>1, <2>2, <3>1, CeilDiv
  <2> QED
      BY <1>1, <2>1, <2>2
<1>3. ASSUME NEW i \in Nat, i < n
      PROVE  /\ trunk_lo(u, i) = i * T /\ trunk_lo(u, i + 1) = (i + 1) * T
             /\ trunk_hi(u, i) = IF (i + 1) * T <= D THEN (i + 1) * T ELSE D
             /\ i * T \in Nat /\ (i + 1) * T \in Nat /\ (i + 1) * T = i * T + T /\ i * T < D
             /\ T > 0
  <2>1. i * T \in Nat /\ (i + 1) * T \in Nat /\ (i + 1) * T = i * T + T
      BY <1>1
  <2>2. i * T < D
      BY <1>2, <1>3
  <2>3. T > 0
      BY <1>1, <2>1, <2>2
  <2>4. trunk_lo(u, i) = i * T /\ trunk_lo(u, i + 1) = (i + 1) * T
      BY DEF trunk_lo
  <2>5. trunk_hi(u, i) = Min({(i + 1) * T, D})
      BY DEF trunk_hi
  <2> HIDE DEF D, T, n
  <2>6. Min({(i + 1) * T, D}) = IF (i + 1) * T <= D THEN (i + 1) * T ELSE D
      BY <1>1, <2>1, MinOfTwo
  <2> QED
      BY <2>1, <2>2, <2>3, <2>4, <2>5, <2>6
<1> HIDE DEF D, T, n
<1>4. ASSUME NEW i \in Nat, i < n
      PROVE  /\ trunk_lo(u, i) \in Nat /\ trunk_hi(u, i) \in Nat
             /\ trunk_lo(u, i) < trunk_hi(u, i) /\ trunk_hi(u, i) <= D
             /\ trunk_sz(u, i) = trunk_hi(u, i) - trunk_lo(u, i)
             /\ trunk_hi(u, i) <= trunk_lo(u, i + 1)
             /\ i + 1 < n => trunk_hi(u, i) = trunk_lo(u, i + 1)
  <2> DEFINE a == i * T
             b == (i + 1) * T
  <2>1. /\ trunk_lo(u, i) = a /\ trunk_lo(u, i + 1) = b
        /\ trunk_hi(u, i) = IF b <= D THEN b ELSE D
        /\ a \in Nat /\ b \in Nat /\ b = a + T /\ a < D /\ T > 0
      BY <1>3, <1>4
  <2>2. i + 1 < n => b < D
      BY <1>2
  <2>3. trunk_sz(u, i) = trunk_hi(u, i) - trunk_lo(u, i)
      BY DEF trunk_sz
  <2> HIDE DEF a, b
  <2> QED
      BY <1>1, <2>1, <2>2, <2>3
<1>5. ASSUME NEW i \in Nat, NEW j \in Nat, i < j, j < n
      PROVE  trunk_hi(u, i) <= trunk_lo(u, j)
  <2> DEFINE b == (i + 1) * T
             c == j * T
  <2>1. i + 1 <= j /\ i < n
      BY <1>2, <1>5
  <2>2. b <= c
      BY <1>1, <2>1, TimesMonotone
  <2>3. trunk_lo(u, i + 1) = b /\ trunk_lo(u, j) = c /\ b \in Nat /\ c \in Nat
      BY <1>3, <1>5, <2>1
  <2>4. trunk_hi(u, i) <= b /\ trunk_hi(u, i) \in Nat
      BY <1>4, <2>1, <2>3
  <2> HIDE DEF b, c
  <2> QED
      BY <2>2, <2>3, <2>4
<1> QED
    BY <1>1, <1>2, <1>4, <1>5 DEF D, T, n
-----------------------------------------------------------------------------
(* Weights and slices. *)
LEMMA WeightsRight ==
    ASSUME InputInv, phase # "unbuilt", NEW u \in Vertices
    PROVE  /\ weights(u) \in Seq(Nat) /\ Len(weights(u)) = degree(u)
           /\ compute_per_vertex_params(bias, graph[u]) \in Params
<1>1. bias.kind \in Kinds /\ bias.timescale_bound \in Int
    BY ArenasAssumption DEF InputInv, Kinds
<1>2. graph[u] \in Seq(Int)
    BY GraphRight
<1>3. compute_per_vertex_params(bias, graph[u]) \in Params
    BY <1>1, <1>2, ParamsTyped
<1> QED
    BY <1>1, <1>2, <1>3, WeightsTyped DEF weights, compute_weights_full, degree

LEMMA SumsRight ==
    ASSUME InputInv, phase # "unbuilt", NEW u \in Vertices
    PROVE  /\ \A a \in 1..degree(u) + 1, b \in 0..degree(u) : Sum(weights(u), a, b) \in Nat
           /\ \A a \in 0..degree(u), b \in 0..degree(u) : a <= b =>
                  Sum(weights(u), 1, b) = Sum(weights(u), 1, a) + Sum(weights(u), a + 1, b)
<1> DEFINE w == weights(u)
           d == degree(u)
<1>1. d \in Nat /\ \A p \in 1..d : w[p] \in Nat
  <2>1. w \in Seq(Nat) /\ Len(w) = d
      BY WeightsRight
  <2>2. d \in Nat
      BY GraphRight
  <2> HIDE DEF w, d
  <2> QED
      BY <2>1, <2>2
<1>2. \A a, b : Sum(w, a, b) = RangeSum(w, a, b)
    BY DEF Sum, RangeSum
<1> HIDE DEF w, d
<1>3. ASSUME NEW a \in 1..d + 1, NEW b \in 0..d PROVE RangeSum(w, a, b) \in Nat
  <2>1. a \in Int /\ b \in Int /\ \A p \in a..b : w[p] \in Nat
      BY <1>1
  <2> QED
      BY <2>1, RangeSumRight
<1>4. ASSUME NEW a \in 0..d, NEW b \in 0..d, a <= b
      PROVE  RangeSum(w, 1, b) = RangeSum(w, 1, a) + RangeSum(w, a + 1, b)
  <2>1. 1 \in Int /\ a \in Int /\ b \in Int /\ 1 <= a + 1 /\ \A p \in 1..b : w[p] \in Nat
      BY <1>1
  <2> QED
      BY <1>4, <2>1, RangeSumSplit
<1> QED
    BY <1>2, <1>3, <1>4 DEF w, d

(* The slices of the alias arena, and of the arena of cumulative totals. *)
LEMMA OffsetsRight ==
    ASSUME InputInv, phase # "unbuilt"
    PROVE  /\ offset_of(N) \in Nat
           /\ \A u \in Vertices : /\ offset_of(u) \in Nat
                                  /\ offset_of(u) + degree(u) <= offset_of(N)
           /\ \A u, v \in Vertices : u < v => offset_of(u) + degree(u) <= offset_of(v)
<1> DEFINE d == [v \in Vertices |-> degree(v)]
           o == [v \in 0..N |-> RangeSum(d, 0, v - 1)]
<1>1. N \in Nat /\ Vertices = 0..N - 1 /\ d \in [0..N - 1 -> Nat]
    BY GraphRight
<1>2. ASSUME NEW u \in 0..N PROVE o[u] = offset_of(u)
  <2>1. [v \in 0..u - 1 |-> d[v]] = [v \in 0..u - 1 |-> degree(v)]
    <3>1. \A v \in 0..u - 1 : v \in Vertices
        BY <1>1
    <3> QED
        BY <3>1
  <2> QED
      BY <2>1 DEF RangeSum, offset_of
<1>3. \A v \in Vertices : d[v] = degree(v)
    OBVIOUS
<1>4. o = [v \in 0..N |-> RangeSum(d, 0, v - 1)]
    OBVIOUS
<1> HIDE DEF d, o
<1>5. /\ o \in [0..N -> Nat] /\ Consecutive(o, d, N)
      /\ \A v \in 0..N - 1 : o[v] + d[v] <= o[N]
      /\ \A v, w \in 0..N - 1 : v < w => o[v] + d[v] <= o[w]
    BY <1>1, <1>4, SlicesOfSums
<1>6. N \in 0..N /\ \A v \in 0..N - 1 : v \in 0..N
    BY <1>1
<1>7. \A u \in 0..N : offset_of(u) \in Nat
    BY <1>2, <1>5
<1> QED
    BY <1>1, <1>2, <1>3, <1>5, <1>6, <1>7

LEMMA CountsRight ==
    ASSUME InputInv, phase \in {"layout", "fill", "built"}
    PROVE  /\ Counts \in [0..N - 1 -> Nat] /\ N \in Nat
           /\ Vertices = 0..N - 1 /\ sized = Vertices /\ phase # "unbuilt"
<1>1. N \in Nat /\ Vertices = 0..N - 1 /\ sized = Vertices /\ phase # "unbuilt"
    BY GraphRight DEF InputInv
<1>2. \A u \in Vertices : TrunkCount(u) \in Nat
    BY <1>1, TrunkRange
<1> QED
    BY <1>1, <1>2 DEF Counts

LEMMA CumsumSlices ==
    ASSUME InputInv, LayoutInv, phase \in {"fill", "built"}
    PROVE  /\ cumsum_offsets[N] \in Nat
           /\ \A u \in Vertices : /\ cumsum_offsets[u] \in Nat
                                  /\ cumsum_offsets[u + 1] = cumsum_offsets[u] + TrunkCount(u)
                                  /\ cumsum_offsets[u] + TrunkCount(u) <= cumsum_offsets[N]
           /\ \A u, v \in Vertices :
                  u < v => cumsum_offsets[u] + TrunkCount(u) <= cumsum_offsets[v]
<1>1. /\ Counts \in [0..N - 1 -> Nat] /\ N \in Nat /\ Vertices = 0..N - 1
      /\ cumsum_offsets \in [0..N -> Nat] /\ Consecutive(cumsum_offsets, Counts, N)
    BY CountsRight DEF LayoutInv
<1>2. /\ \A v \in 0..N - 1 : cumsum_offsets[v] + Counts[v] <= cumsum_offsets[N]
      /\ \A v, w \in 0..N - 1 : v < w => cumsum_offsets[v] + Counts[v] <= cumsum_offsets[w]
    BY <1>1, SlicesDisjoint
<1>3. \A u \in Vertices : Counts[u] = TrunkCount(u)
    BY DEF Counts
<1>4. /\ N \in 0..N /\ \A v \in 0..N - 1 : v \in 0..N
    BY <1>1
<1>5. \A u \in 0..N : cumsum_offsets[u] \in Nat
    BY <1>1
<1>6. \A u \in 0..N - 1 : cumsum_offsets[u + 1] = cumsum_offsets[u] + Counts[u]
    BY <1>1 DEF Consecutive
<1> QED
    BY <1>1, <1>2, <1>3, <1>4, <1>5, <1>6
-----------------------------------------------------------------------------
(* What is derived from the input of a build stays as the input does. *)
LEMMA SameInput ==
    ASSUME UNCHANGED args
    PROVE  /\ N' = N /\ Vertices' = Vertices
           /\ \A u : degree(u)' = degree(u) /\ offset_of(u)' = offset_of(u)
           /\ \A u : weights(u)' = weights(u)
<1>1. graph' = graph /\ bias' = bias /\ min_trunk_size' = min_trunk_size
    BY DEF args
<1>2. N' = N
    BY <1>1 DEF N
<1> QED
    BY <1>1, <1>2 DEF Vertices, degree, offset_of, weights

LEMMA SameTrunks ==
    ASSUME UNCHANGED <<args, trunk_sizes>>
    PROVE  /\ \A u : TrunkCount(u)' = TrunkCount(u) /\ (RightSize(u) <=> RightSize(u)')
           /\ Counts' = Counts
           /\ \A u, i : /\ trunk_lo(u, i)' = trunk_lo(u, i) /\ trunk_hi(u, i)' = trunk_hi(u, i)
                        /\ trunk_sz(u, i)' = trunk_sz(u, i)
                        /\ trunk_weights(u, i)' = trunk_weights(u, i)
<1>1. /\ N' = N /\ Vertices' = Vertices
      /\ \A u : degree(u)' = degree(u) /\ weights(u)' = weights(u)
      /\ trunk_sizes' = trunk_sizes
    BY SameInput
<1>2. \A u : TrunkCount(u)' = TrunkCount(u)
    BY <1>1 DEF TrunkCount, NumTrunks
<1>3. \A u : RightSize(u) <=> RightSize(u)'
    BY <1>1 DEF RightSize
<1>4. \A u, i : trunk_lo(u, i)' = trunk_lo(u, i) /\ trunk_hi(u, i)' = trunk_hi(u, i)
    BY <1>1 DEF trunk_lo, trunk_hi
<1> QED
    BY <1>1, <1>2, <1>3, <1>4 DEF Counts, trunk_sz, trunk_weights

-----------------------------------------------------------------------------
(* Choosing the sizes and laying out the cumulative totals. *)
LEMMA InitRight == Init => IInv
BY DEF Init, IInv, InputInv, LayoutInv, ArenasInv, ProgressInv, StoredInv

LEMMA StartBuildKeeps ==
    ASSUME IInv, StartBuild PROVE IInv'
<1>1. /\ graph' \in Graphs /\ bias' \in Biases /\ min_trunk_size' \in MinTrunkSizes
      /\ DOMAIN trunk_sizes' = DOMAIN graph' /\ sized' = {} /\ phase' = "sizes"
    BY DEF StartBuild
<1>2. DOMAIN graph' = Vertices'
    BY <1>1, ArenasAssumption DEF N, Vertices
<1> QED
    BY <1>1, <1>2 DEF IInv, InputInv, LayoutInv, ArenasInv, ProgressInv, StoredInv

LEMMA SizeVertexKeeps ==
    ASSUME IInv, NEW u \in Vertices, SizeVertex(u) PROVE IInv'
<1>1. /\ phase = "sizes" /\ u \notin sized
      /\ trunk_sizes' = [trunk_sizes EXCEPT ![u] = TrunkSize(degree(u))]
      /\ sized' = sized \cup {u} /\ UNCHANGED <<phase, args>>
    BY DEF SizeVertex
<1>2. /\ phase' = phase /\ graph' = graph /\ bias' = bias /\ min_trunk_size' = min_trunk_size
    BY <1>1 DEF args
<1>3. Vertices' = Vertices /\ \A w : degree(w)' = degree(w)
    BY <1>1, SameInput
<1>4. /\ bias \in Biases /\ graph \in Graphs /\ min_trunk_size \in MinTrunkSizes
      /\ DOMAIN trunk_sizes = Vertices /\ sized \subseteq Vertices
      /\ \A w \in sized : RightSize(w)
    BY <1>1 DEF IInv, InputInv
<1>5. TrunkSize(degree(u)) \in 0..degree(u) /\ (degree(u) > 0 => TrunkSize(degree(u)) > 0)
  <2>1. degree(u) \in Nat /\ min_trunk_size \in Nat
      BY <1>1, <1>4, GraphRight, PatAssumption DEF IInv
  <2> QED
      BY <2>1, TrunkSizeRight
<1>6. ASSUME NEW w \in sized' PROVE RightSize(w)'
  <2>1. CASE w = u
      BY <1>1, <1>3, <1>4, <1>5, <2>1 DEF RightSize
  <2>2. CASE w # u
    <3>1. w \in sized /\ RightSize(w)
        BY <1>1, <1>4, <2>2
    <3>2. trunk_sizes'[w] = trunk_sizes[w] /\ degree(w)' = degree(w)
        BY <1>1, <1>3, <1>4, <2>2, <3>1
    <3> QED
        BY <3>1, <3>2 DEF RightSize
  <2> QED
      BY <2>1, <2>2
<1>7. DOMAIN trunk_sizes' = Vertices' /\ sized' \subseteq Vertices'
    BY <1>1, <1>3, <1>4
<1>8. InputInv'
    BY <1>1, <1>2, <1>4, <1>6, <1>7 DEF InputInv
<1> QED
    BY <1>1, <1>8 DEF IInv, LayoutInv, ArenasInv, ProgressInv, StoredInv

LEMMA StartLayoutKeeps ==
    ASSUME IInv, StartLayout PROVE IInv'
<1>1. /\ phase = "sizes" /\ sized = Vertices /\ cumsum_offsets' = [u \in 0..N |-> 0]
      /\ total_num_trunks' = 0 /\ scan' = 0 /\ phase' = "layout"
      /\ UNCHANGED <<args, trunk_sizes>> /\ sized' = sized
    BY DEF StartLayout
<1>2. N' = N /\ Vertices' = Vertices /\ (\A u : RightSize(u) <=> RightSize(u)')
    BY <1>1, SameInput, SameTrunks
<1>3. InputInv'
    BY <1>1, <1>2 DEF IInv, InputInv, args
<1>4. N \in Nat
    BY <1>1, GraphRight DEF IInv
<1>5. StepsTo(cumsum_offsets, Counts, N, scan, total_num_trunks)'
    BY <1>1, <1>4, <1>2 DEF StepsTo
<1>6. LayoutInv'
    BY <1>1, <1>2, <1>4, <1>5 DEF LayoutInv
<1> QED
    BY <1>1, <1>3, <1>6 DEF IInv, ArenasInv, ProgressInv, StoredInv

LEMMA LayoutVertexKeeps ==
    ASSUME IInv, LayoutVertex PROVE IInv'
<1>1. /\ phase = "layout" /\ scan < N /\ scan' = scan + 1 /\ phase' = phase
      /\ cumsum_offsets' = [cumsum_offsets EXCEPT ![scan] = total_num_trunks]
      /\ total_num_trunks' = total_num_trunks + TrunkCount(scan)
      /\ UNCHANGED <<args, trunk_sizes>> /\ sized' = sized
    BY DEF LayoutVertex, TrunkCount
<1>2. /\ N' = N /\ Vertices' = Vertices /\ Counts' = Counts
      /\ \A u : RightSize(u) <=> RightSize(u)'
    BY <1>1, SameInput, SameTrunks
<1>3. InputInv'
    BY <1>1, <1>2 DEF IInv, InputInv, args
<1>4. /\ Counts \in [0..N - 1 -> Nat] /\ N \in Nat /\ Vertices = 0..N - 1
      /\ cumsum_offsets \in [0..N -> Nat] /\ scan \in 0..N /\ total_num_trunks \in Nat
      /\ StepsTo(cumsum_offsets, Counts, N, scan, total_num_trunks)
    BY <1>1, CountsRight DEF IInv, LayoutInv
<1>5. scan \in 0..N - 1 /\ Counts[scan] = TrunkCount(scan) /\ Counts[scan] \in Nat
    BY <1>1, <1>4 DEF Counts
<1>6. StepsTo(cumsum_offsets', Counts, N, scan', total_num_trunks')
  <2>1. StepsTo([cumsum_offsets EXCEPT ![scan] = total_num_trunks], Counts, N,
                scan + 1, total_num_trunks + Counts[scan])
      BY <1>4, <1>5, StepsOn
  <2> QED
      BY <1>1, <1>5, <2>1
<1>7. StepsTo(cumsum_offsets, Counts, N, scan, total_num_trunks)'
    BY <1>2, <1>6 DEF StepsTo
<1>8. /\ cumsum_offsets' \in [0..N' -> Nat] /\ scan' \in 0..N' /\ total_num_trunks' \in Nat
    BY <1>1, <1>2, <1>4, <1>5
<1>9. LayoutInv'
    BY <1>1, <1>7, <1>8 DEF LayoutInv
<1> QED
    BY <1>1, <1>3, <1>9 DEF IInv, ArenasInv, ProgressInv, StoredInv
LEMMA AllocateArenasKeeps ==
    ASSUME IInv, AllocateArenas PROVE IInv'
<1>1. /\ phase = "layout" /\ scan = N /\ phase' = "fill"
      /\ cumsum_offsets' = [cumsum_offsets EXCEPT ![N] = total_num_trunks]
      /\ alias_arena' = [c \in 0..offset_of(N) - 1 |-> Blank]
      /\ cumsum_arena' = [c \in 0..total_num_trunks - 1 |-> 0]
      /\ bias_params' = [u \in Vertices |-> NoParams]
      /\ at' = [u \in Vertices |-> [i |-> 0, running |-> 0]]
      /\ filled' = {u \in Vertices : degree(u) = 0}
      /\ UNCHANGED <<args, trunk_sizes>> /\ sized' = sized /\ scan' = scan
      /\ total_num_trunks' = total_num_trunks
    BY DEF AllocateArenas
<1>2. /\ N' = N /\ Vertices' = Vertices /\ Counts' = Counts
      /\ \A u : degree(u)' = degree(u) /\ offset_of(u)' = offset_of(u)
      /\ \A u : weights(u)' = weights(u) /\ TrunkCount(u)' = TrunkCount(u)
      /\ \A u, i : trunk_lo(u, i)' = trunk_lo(u, i)
      /\ \A u : RightSize(u) <=> RightSize(u)'
    BY <1>1, SameInput, SameTrunks
<1>3. InputInv'
    BY <1>1, <1>2 DEF IInv, InputInv, args
<1>4. /\ Counts \in [0..N - 1 -> Nat] /\ N \in Nat /\ Vertices = 0..N - 1 /\ sized = Vertices
      /\ cumsum_offsets \in [0..N -> Nat] /\ total_num_trunks \in Nat
      /\ StepsTo(cumsum_offsets, Counts, N, N, total_num_trunks)
    BY <1>1, CountsRight DEF IInv, LayoutInv
<1>5. Consecutive(cumsum_offsets', Counts, N)
    BY <1>1, <1>4, StepsEnd
<1>6. /\ cumsum_offsets' \in [0..N -> Nat] /\ cumsum_offsets'[N] = total_num_trunks
    BY <1>1, <1>4
<1>7. LayoutInv'
  <2>1. Consecutive(cumsum_offsets, Counts, N)'
      BY <1>2, <1>5 DEF Consecutive
  <2> QED
      BY <1>1, <1>2, <1>4, <1>6, <2>1 DEF LayoutInv
<1>8. ArenasInv'
  <2>1. DOMAIN alias_arena' = 0..offset_of(N)' - 1
      BY <1>1, <1>2 DEF offset_of
  <2>2. cumsum_arena' \in [0..cumsum_offsets'[N'] - 1 -> Nat]
      BY <1>1, <1>2, <1>6
  <2>3. bias_params' \in [Vertices' -> Params]
      BY <1>1, <1>2 DEF NoParams, Params
  <2>4. filled' \subseteq Vertices' /\ at' \in [Vertices' -> [i : Nat, running : Nat]]
      BY <1>1, <1>2
  <2> QED
      BY <2>1, <2>2, <2>3, <2>4 DEF ArenasInv
<1>9. ProgressInv'
  <2> SUFFICES ASSUME NEW u \in Vertices
               PROVE  /\ 0 <= TrunkCount(u)
                      /\ degree(u) # 0 =>
                             0 < TrunkCount(u) /\ 0 = Sum(weights(u), 1, trunk_lo(u, 0))
      BY <1>1, <1>2 DEF ProgressInv
  <2>1. /\ degree(u) \in Nat /\ trunk_sizes[u] \in 0..degree(u)
        /\ degree(u) > 0 => trunk_sizes[u] > 0
        /\ TrunkCount(u) \in Nat
      BY <1>1, <1>4, GraphRight, TrunkRange DEF IInv, InputInv, RightSize
  <2>2. ASSUME degree(u) # 0
        PROVE  0 < TrunkCount(u) /\ 0 = Sum(weights(u), 1, trunk_lo(u, 0))
    <3> DEFINE D == degree(u)
               T == trunk_sizes[u]
               n == (D + T - 1) \div T
    <3>1. D \in Nat /\ T \in Nat /\ T > 0 /\ D > 0
        BY <2>1, <2>2
    <3>2. TrunkCount(u) = n
        BY <3>1 DEF TrunkCount, NumTrunks
    <3>3. n \in Nat /\ D <= n * T
      <4> HIDE DEF D, T
      <4> QED
          BY <3>1, CeilDiv
    <3>4. n # 0
      <4> HIDE DEF D, T, n
      <4> QED
          BY <3>1, <3>3
    <3>5. trunk_lo(u, 0) = 0
        BY <3>1 DEF trunk_lo
    <3>6. Sum(weights(u), 1, 0) = 0
      <4>1. Sum(weights(u), 1, 0) = RangeSum(weights(u), 1, 0)
          BY DEF Sum, RangeSum
      <4>2. \A p \in 1..0 : weights(u)[p] \in Nat
          OBVIOUS
      <4>3. RangeSum(weights(u), 1, 0) = SumFunctionOnSet(weights(u), 1..0)
          BY <4>2, RangeSumRight
      <4>4. 1..0 = {}
          OBVIOUS
      <4> QED
          BY <4>1, <4>3, <4>4, SumEmpty
    <3> HIDE DEF n
    <3> QED
        BY <3>2, <3>3, <3>4, <3>5, <3>6
  <2> QED
      BY <2>1, <2>2
<1>10. StoredInv'
    BY <1>1, <1>2 DEF StoredInv
<1> QED
    BY <1>3, <1>7, <1>8, <1>9, <1>10 DEF IInv

-----------------------------------------------------------------------------
(* Filling.  The next trunk of u, its cells, and the total up to its end. *)
LEMMA NextTrunk ==
    ASSUME IInv, phase = "fill", NEW u \in Vertices, u \notin filled
    PROVE  /\ at[u].i \in Nat /\ at[u].i < TrunkCount(u) /\ TrunkCount(u) \in Nat
           /\ NumTrunks(u) = TrunkCount(u)
           /\ Running(u) = Sum(weights(u), 1, trunk_hi(u, at[u].i)) /\ Running(u) \in Nat
           /\ Len(trunk_weights(u, at[u].i)) = trunk_sz(u, at[u].i)
<1> DEFINE i == at[u].i
           lo == trunk_lo(u, i)
           hi == trunk_hi(u, i)
<1>1. /\ i \in Nat /\ i < TrunkCount(u) /\ at[u].running = Sum(weights(u), 1, lo)
      /\ InputInv /\ phase # "unbuilt" /\ sized = Vertices
    BY DEF IInv, InputInv, ArenasInv, ProgressInv
<1>2. /\ TrunkCount(u) \in Nat /\ lo \in Nat /\ hi \in Nat /\ lo < hi /\ hi <= degree(u)
      /\ trunk_sz(u, i) = hi - lo
    BY <1>1, TrunkRange
<1>3. degree(u) \in Nat
    BY <1>1, GraphRight
<1>4. NumTrunks(u) = TrunkCount(u)
    BY <1>2, <1>3 DEF TrunkCount
<1>5. Running(u) = at[u].running + Sum(weights(u), lo + 1, hi)
    BY DEF Running
<1>6. trunk_weights(u, i) = SubSeq(weights(u), lo + 1, hi)
    BY DEF trunk_weights
<1>7. weights(u) \in Seq(Nat) /\ Len(weights(u)) = degree(u)
    BY <1>1, WeightsRight
<1> DEFINE w == weights(u)
<1> HIDE DEF lo, hi, w
<1>8. /\ Sum(w, 1, hi) = Sum(w, 1, lo) + Sum(w, lo + 1, hi)
      /\ Sum(w, 1, hi) \in Nat
  <2>1. /\ \A a \in 1..degree(u) + 1, b \in 0..degree(u) : Sum(w, a, b) \in Nat
        /\ \A a \in 0..degree(u), b \in 0..degree(u) : a <= b =>
               Sum(w, 1, b) = Sum(w, 1, a) + Sum(w, a + 1, b)
      BY <1>1, SumsRight DEF w
  <2>2. lo \in 0..degree(u) /\ hi \in 0..degree(u) /\ 1 \in 1..degree(u) + 1 /\ lo <= hi
      BY <1>2, <1>3
  <2> QED
      BY <2>1, <2>2
<1>9. Len(trunk_weights(u, i)) = hi - lo
    BY <1>2, <1>3, <1>6, <1>7 DEF w
<1> QED
    BY <1>1, <1>2, <1>4, <1>5, <1>8, <1>9 DEF w, lo, hi
(* The cells of a trunk are in the arena, and no other trunk has them. *)
LEMMA CellsOfTrunks ==
    ASSUME InputInv, phase \in {"fill", "built"}, NEW u \in Vertices, NEW v \in Vertices,
           NEW i \in Nat, i < TrunkCount(u), NEW j \in Nat, j < TrunkCount(v),
           NEW m \in 0..trunk_sz(u, i) - 1
    PROVE  /\ offset_of(u) + trunk_lo(u, i) + m \in 0..offset_of(N) - 1
           /\ (offset_of(u) + trunk_lo(u, i) + m) - (offset_of(u) + trunk_lo(u, i)) = m
           /\ u # v \/ i # j =>
                  (offset_of(u) + trunk_lo(u, i) + m) - (offset_of(v) + trunk_lo(v, j))
                      \notin 0..trunk_sz(v, j) - 1
<1>1. phase # "unbuilt" /\ sized = Vertices
    BY DEF InputInv
<1> DEFINE a == offset_of(u)
           b == offset_of(v)
           l == trunk_lo(u, i)
           h == trunk_hi(u, i)
           k == trunk_lo(v, j)
           g == trunk_hi(v, j)
           e == offset_of(N)
<1>2. /\ l \in Nat /\ h \in Nat /\ l < h /\ h <= degree(u) /\ trunk_sz(u, i) = h - l
      /\ k \in Nat /\ g \in Nat /\ k < g /\ g <= degree(v) /\ trunk_sz(v, j) = g - k
    BY <1>1, TrunkRange
<1>3. /\ degree(u) \in Nat /\ degree(v) \in Nat /\ a \in Nat /\ b \in Nat /\ e \in Nat
      /\ a + degree(u) <= e
      /\ u < v => a + degree(u) <= b
      /\ v < u => b + degree(v) <= a
    BY <1>1, GraphRight, OffsetsRight
<1>4. m \in Nat /\ m < h - l
    BY <1>2
<1>5. u = v => a = b /\ (i < j => h <= k) /\ (j < i => g <= l)
    BY <1>1, TrunkRange
<1>6. u < v \/ v < u \/ u = v
    BY <1>1, GraphRight
<1>7. i < j \/ j < i \/ i = j
    OBVIOUS
<1> HIDE DEF a, b, l, h, k, g, e
<1>8. a + l + m \in 0..e - 1 /\ (a + l + m) - (a + l) = m
    BY <1>2, <1>3, <1>4
<1>9. ASSUME u # v \/ i # j PROVE (a + l + m) - (b + k) \notin 0..(g - k) - 1
  <2>1. CASE u < v
      BY <1>2, <1>3, <1>4, <2>1
  <2>2. CASE v < u
      BY <1>2, <1>3, <1>4, <2>2
  <2>3. CASE u = v /\ i < j
      BY <1>2, <1>3, <1>4, <1>5, <2>3
  <2>4. CASE u = v /\ j < i
      BY <1>2, <1>3, <1>4, <1>5, <2>4
  <2> QED
      BY <1>6, <1>7, <1>9, <2>1, <2>2, <2>3, <2>4
<1> QED
    BY <1>2, <1>8, <1>9 DEF a, b, l, h, k, g, e

LEMMA CumsumCells ==
    ASSUME InputInv, LayoutInv, phase \in {"fill", "built"},
           NEW u \in Vertices, NEW v \in Vertices,
           NEW i \in Nat, i < TrunkCount(u), NEW j \in Nat, j < TrunkCount(v)
    PROVE  /\ cumsum_offsets[u] + i \in 0..cumsum_offsets[N] - 1
           /\ u # v \/ i # j => cumsum_offsets[u] + i # cumsum_offsets[v] + j
<1>1. phase # "unbuilt" /\ sized = Vertices /\ Vertices = 0..N - 1 /\ N \in Nat
    BY GraphRight DEF InputInv
<1>2. TrunkCount(u) \in Nat /\ TrunkCount(v) \in Nat
    BY <1>1, TrunkRange
<1> DEFINE a == cumsum_offsets[u]
           b == cumsum_offsets[v]
           e == cumsum_offsets[N]
<1>3. /\ a \in Nat /\ b \in Nat /\ e \in Nat /\ a + TrunkCount(u) <= e
      /\ u < v => a + TrunkCount(u) <= b
      /\ v < u => b + TrunkCount(v) <= a
      /\ u = v => a = b
    BY CumsumSlices
<1>4. u < v \/ v < u \/ u = v
    BY <1>1
<1> HIDE DEF a, b, e
<1>5. a + i \in 0..e - 1
    BY <1>2, <1>3
<1>6. u # v \/ i # j => a + i # b + j
    BY <1>2, <1>3, <1>4
<1> QED
    BY <1>5, <1>6 DEF a, b, e

LEMMA FillTrunkKeeps ==
    ASSUME IInv, NEW u \in Vertices, FillTrunk(u) PROVE IInv'
<1> DEFINE i == at[u].i
           R == Running(u)
           W == trunk_weights(u, i)
           lo == offset_of(u) + trunk_lo(u, i)
           cell == cumsum_offsets[u] + i
<1>1. /\ phase = "fill" /\ u \notin filled
      /\ bias_params' = IF i > 0 THEN bias_params ELSE
             [bias_params EXCEPT ![u] = compute_per_vertex_params(bias, graph[u])]
      /\ alias_arena' = Write(alias_arena, lo, Table(W))
      /\ cumsum_arena' = [cumsum_arena EXCEPT ![cell] = R]
      /\ at' = [at EXCEPT ![u] = [i |-> i + 1, running |-> R]]
      /\ filled' = IF i + 1 = NumTrunks(u) THEN filled \cup {u} ELSE filled
      /\ UNCHANGED <<args, trunk_sizes>> /\ phase' = phase /\ sized' = sized
      /\ cumsum_offsets' = cumsum_offsets /\ scan' = scan
      /\ total_num_trunks' = total_num_trunks
    BY DEF FillTrunk
<1>2. /\ N' = N /\ Vertices' = Vertices /\ Counts' = Counts
      /\ \A v : degree(v)' = degree(v) /\ offset_of(v)' = offset_of(v)
      /\ \A v : weights(v)' = weights(v) /\ TrunkCount(v)' = TrunkCount(v)
      /\ \A v, k : /\ trunk_lo(v, k)' = trunk_lo(v, k) /\ trunk_hi(v, k)' = trunk_hi(v, k)
                   /\ trunk_sz(v, k)' = trunk_sz(v, k)
                   /\ trunk_weights(v, k)' = trunk_weights(v, k)
      /\ \A v : RightSize(v) <=> RightSize(v)'
    BY <1>1, SameInput, SameTrunks
<1>3. /\ InputInv /\ LayoutInv /\ phase # "unbuilt" /\ sized = Vertices
      /\ DOMAIN alias_arena = 0..offset_of(N) - 1
      /\ cumsum_arena \in [0..cumsum_offsets[N] - 1 -> Nat]
      /\ bias_params \in [Vertices -> Params] /\ filled \subseteq Vertices
      /\ at \in [Vertices -> [i : Nat, running : Nat]]
    BY <1>1 DEF IInv, InputInv, ArenasInv
<1>4. /\ i \in Nat /\ i < TrunkCount(u) /\ NumTrunks(u) = TrunkCount(u) /\ TrunkCount(u) \in Nat
      /\ R = Sum(weights(u), 1, trunk_hi(u, i)) /\ R \in Nat /\ Len(W) = trunk_sz(u, i)
    BY <1>1, NextTrunk
<1>5. InputInv' /\ LayoutInv'
  <2>1. InputInv'
      BY <1>1, <1>2, <1>3 DEF InputInv, args
  <2>2. Consecutive(cumsum_offsets, Counts, N) => Consecutive(cumsum_offsets, Counts, N)'
      BY <1>1, <1>2 DEF Consecutive
  <2> QED
      BY <1>1, <1>2, <1>3, <2>1, <2>2 DEF LayoutInv
<1> HIDE DEF i, R, W, lo, cell
<1>6. /\ at' \in [Vertices -> [i : Nat, running : Nat]]
      /\ at'[u].i = i + 1 /\ at'[u].running = R
      /\ \A v \in Vertices : v # u => at'[v] = at[v]
    BY <1>1, <1>3, <1>4
<1>7. ArenasInv'
  <2>1. DOMAIN alias_arena' = 0..offset_of(N)' - 1
    <3>1. offset_of(N)' = offset_of(N)
        BY <1>2 DEF offset_of
    <3> QED
        BY <1>1, <1>3, <3>1 DEF Write
  <2>2. cumsum_arena' \in [0..cumsum_offsets'[N'] - 1 -> Nat]
      BY <1>1, <1>2, <1>3, <1>4
  <2>3. bias_params' \in [Vertices' -> Params]
    <3>1. compute_per_vertex_params(bias, graph[u]) \in Params
        BY <1>3, WeightsRight
    <3> QED
        BY <1>1, <1>2, <1>3, <3>1
  <2>4. filled' \subseteq Vertices'
      BY <1>1, <1>2, <1>3
  <2> QED
      BY <1>2, <1>6, <2>1, <2>2, <2>3, <2>4 DEF ArenasInv
<1>8. ProgressInv'
  <2> SUFFICES ASSUME NEW v \in Vertices
               PROVE  /\ at'[v].i <= TrunkCount(v)
                      /\ v \notin filled' =>
                             /\ at'[v].i < TrunkCount(v)
                             /\ at'[v].running = Sum(weights(v), 1, trunk_lo(v, at'[v].i))
      BY <1>2 DEF ProgressInv
  <2>1. CASE v = u
    <3>1. i + 1 < TrunkCount(u) => trunk_hi(u, i) = trunk_lo(u, i + 1)
        BY <1>3, <1>4, TrunkRange
    <3>2. u \notin filled' => i + 1 # TrunkCount(u)
        BY <1>1, <1>4
    <3> QED
        BY <1>4, <1>6, <2>1, <3>1, <3>2
  <2>2. CASE v # u
    <3>1. v \notin filled' => v \notin filled
        BY <1>1, <2>2
    <3> QED
        BY <1>1, <1>6, <2>2, <3>1 DEF IInv, ProgressInv
  <2> QED
      BY <2>1, <2>2
<1>9. ASSUME NEW v \in Vertices, NEW j \in 0..at'[v].i - 1 PROVE Stored(v, j)'
  <2>1. /\ j \in Nat /\ j < TrunkCount(v) /\ TrunkCount(v) \in Nat
    <3>1. TrunkCount(v) \in Nat
        BY <1>3, TrunkRange
    <3>2. at'[v].i \in Nat /\ at'[v].i <= TrunkCount(v)
        BY <1>1, <1>2, <1>6, <1>8 DEF ProgressInv
    <3> QED
        BY <3>1, <3>2
  <2> DEFINE spot(m) == offset_of(v) + trunk_lo(v, j) + m
             place == cumsum_offsets[v] + j
             M == 0..trunk_sz(v, j) - 1
  <2>2. SUFFICES /\ \A m \in M : alias_arena'[spot(m)] = <<trunk_weights(v, j), m>>
                 /\ cumsum_arena'[place] = Sum(weights(v), 1, trunk_hi(v, j))
    <3>1. cumsum_offsets'[v] = cumsum_offsets[v]
        BY <1>1
    <3> QED
        BY <1>2, <2>2, <3>1 DEF Stored
  <2>3. ASSUME NEW m \in M
        PROVE  /\ spot(m) \in DOMAIN alias_arena
               /\ v = u /\ j = i => spot(m) - lo = m
               /\ v # u \/ j # i => spot(m) - lo \notin 0..trunk_sz(u, i) - 1
      BY <1>1, <1>3, <1>4, <2>1, CellsOfTrunks DEF lo
  <2>4. /\ place \in DOMAIN cumsum_arena
        /\ v = u /\ j = i => place = cell
        /\ v # u \/ j # i => place # cell
    <3>1. /\ place \in 0..cumsum_offsets[N] - 1
          /\ v # u \/ j # i => place # cell
        BY <1>1, <1>3, <1>4, <2>1, CumsumCells DEF cell
    <3> QED
        BY <1>3, <3>1 DEF cell
  <2>5. \A c \in DOMAIN alias_arena :
            alias_arena'[c] = IF c - lo \in 0..trunk_sz(u, i) - 1 THEN <<W, c - lo>>
                              ELSE alias_arena[c]
      BY <1>1, <1>4 DEF Write, Table
  <2> HIDE DEF spot, place
  <2>6. CASE v = u /\ j = i
    <3>1. cumsum_arena'[place] = R
        BY <1>1, <2>4, <2>6
    <3>2. ASSUME NEW m \in M PROVE alias_arena'[spot(m)] = <<W, m>>
        BY <2>3, <2>5, <2>6
    <3> QED
        BY <1>4, <2>6, <3>1, <3>2 DEF W
  <2>7. CASE v # u \/ j # i
    <3>1. Stored(v, j)
      <4>1. j \in 0..at[v].i - 1
        <5>1. at[v].i \in Nat /\ at'[v].i = IF v = u THEN i + 1 ELSE at[v].i
            BY <1>3, <1>6
        <5>2. at[u].i = i
            BY DEF i
        <5> QED
            BY <1>4, <2>1, <2>7, <5>1, <5>2
      <4> QED
          BY <1>1, <4>1 DEF IInv, StoredInv
    <3>2. ASSUME NEW m \in M PROVE alias_arena'[spot(m)] = <<trunk_weights(v, j), m>>
      <4>1. alias_arena'[spot(m)] = alias_arena[spot(m)]
          BY <2>3, <2>5, <2>7
      <4> QED
          BY <3>1, <4>1 DEF Stored, spot
    <3>3. cumsum_arena'[place] = cumsum_arena[place]
        BY <1>1, <2>4, <2>7
    <3> QED
        BY <3>1, <3>2, <3>3 DEF Stored, place
  <2> QED
      BY <2>6, <2>7
<1>10. StoredInv'
    BY <1>2, <1>9 DEF StoredInv
<1> QED
    BY <1>5, <1>7, <1>8, <1>10 DEF IInv

LEMMA FinishBuildKeeps ==
    ASSUME IInv, FinishBuild PROVE IInv'
<1>1. /\ phase = "fill" /\ phase' = "built" /\ UNCHANGED <<args, trunk_sizes>>
      /\ sized' = sized /\ cumsum_offsets' = cumsum_offsets /\ scan' = scan
      /\ total_num_trunks' = total_num_trunks /\ alias_arena' = alias_arena
      /\ cumsum_arena' = cumsum_arena /\ bias_params' = bias_params
      /\ at' = at /\ filled' = filled
    BY DEF FinishBuild, fills
<1>2. graph' = graph /\ bias' = bias /\ min_trunk_size' = min_trunk_size /\ trunk_sizes' = trunk_sizes
    BY <1>1 DEF args
<1>3. InputInv' /\ LayoutInv'
    BY <1>1, <1>2 DEF IInv, InputInv, LayoutInv, RightSize, degree, Vertices, N, Counts,
                      TrunkCount, NumTrunks, Consecutive
<1>4. /\ N' = N /\ Vertices' = Vertices
      /\ \A v : offset_of(v)' = offset_of(v) /\ weights(v)' = weights(v)
      /\ \A v : TrunkCount(v)' = TrunkCount(v)
      /\ \A v, k : /\ trunk_lo(v, k)' = trunk_lo(v, k) /\ trunk_hi(v, k)' = trunk_hi(v, k)
                   /\ trunk_sz(v, k)' = trunk_sz(v, k)
                   /\ trunk_weights(v, k)' = trunk_weights(v, k)
    BY <1>1, SameInput, SameTrunks
<1>5. ArenasInv'
  <2>1. offset_of(N)' = offset_of(N)
      BY <1>4 DEF offset_of
  <2> QED
      BY <1>1, <1>4, <2>1 DEF IInv, ArenasInv
<1>6. ProgressInv'
    BY <1>1, <1>4 DEF IInv, ProgressInv
<1>7. \A v, k : Stored(v, k) => Stored(v, k)'
    BY <1>1, <1>4 DEF Stored
<1>8. StoredInv'
    BY <1>1, <1>4, <1>7 DEF IInv, StoredInv
<1> QED
    BY <1>3, <1>5, <1>6, <1>8 DEF IInv
-----------------------------------------------------------------------------
LEMMA NextKeeps == IInv /\ [Next]_vars => IInv'
<1> SUFFICES ASSUME IInv, [Next]_vars PROVE IInv'
    OBVIOUS
<1>1. CASE StartBuild
    BY <1>1, StartBuildKeeps
<1>2. ASSUME NEW u \in Vertices, SizeVertex(u) PROVE IInv'
    BY <1>2, SizeVertexKeeps
<1>3. ASSUME NEW u \in Vertices, FillTrunk(u) PROVE IInv'
    BY <1>3, FillTrunkKeeps
<1>4. CASE StartLayout
    BY <1>4, StartLayoutKeeps
<1>5. CASE LayoutVertex
    BY <1>5, LayoutVertexKeeps
<1>6. CASE AllocateArenas
    BY <1>6, AllocateArenasKeeps
<1>7. CASE FinishBuild
    BY <1>7, FinishBuildKeeps
<1>8. CASE UNCHANGED vars
  <2>1. /\ UNCHANGED <<args, trunk_sizes>> /\ phase' = phase /\ graph' = graph /\ bias' = bias
        /\ min_trunk_size' = min_trunk_size /\ trunk_sizes' = trunk_sizes
        /\ sized' = sized /\ cumsum_offsets' = cumsum_offsets /\ scan' = scan
        /\ total_num_trunks' = total_num_trunks /\ alias_arena' = alias_arena
        /\ cumsum_arena' = cumsum_arena /\ bias_params' = bias_params
        /\ at' = at /\ filled' = filled
      BY <1>8 DEF vars, args, fills
  <2>2. /\ N' = N /\ Vertices' = Vertices
        /\ \A v : offset_of(v)' = offset_of(v) /\ weights(v)' = weights(v)
        /\ \A v : TrunkCount(v)' = TrunkCount(v)
        /\ \A v, k : /\ trunk_lo(v, k)' = trunk_lo(v, k) /\ trunk_hi(v, k)' = trunk_hi(v, k)
                     /\ trunk_sz(v, k)' = trunk_sz(v, k)
                     /\ trunk_weights(v, k)' = trunk_weights(v, k)
      BY <2>1, SameInput, SameTrunks
  <2>3. InputInv'
      BY <2>1 DEF IInv, InputInv, RightSize, degree, Vertices, N
  <2>4. LayoutInv'
      BY <2>1 DEF IInv, LayoutInv, degree, Vertices, N, Counts, TrunkCount, NumTrunks,
                  StepsTo, Consecutive
  <2>5. ArenasInv'
    <3>1. offset_of(N)' = offset_of(N)
        BY <2>2 DEF offset_of
    <3> QED
        BY <2>1, <2>2, <3>1 DEF IInv, ArenasInv
  <2>6. ProgressInv'
      BY <2>1, <2>2 DEF IInv, ProgressInv
  <2>7. \A v, k : Stored(v, k) => Stored(v, k)'
      BY <2>1, <2>2 DEF Stored
  <2>8. StoredInv'
      BY <2>1, <2>2, <2>7 DEF IInv, StoredInv
  <2> QED
      BY <2>3, <2>4, <2>5, <2>6, <2>8 DEF IInv
<1> QED
    BY <1>1, <1>2, <1>3, <1>4, <1>5, <1>6, <1>7, <1>8 DEF Next

(* The inductive invariant holds in every state of a Pat, whatever it is  *)
(* built from and however the parallel loops are scheduled.               *)
THEOREM Invariance == Spec => []IInv
<1>1. Init => IInv
    BY InitRight
<1>2. IInv /\ [Next]_vars => IInv'
    BY NextKeeps
<1> QED
    BY <1>1, <1>2, PTL DEF Spec

(* The members and the state of a running build have the types they are   *)
(* declared with, and the arenas the sizes that were reserved.            *)
THEOREM TypeCorrect == Spec => []TypeOK
<1>1. IInv => TypeOK
  <2> SUFFICES ASSUME IInv PROVE TypeOK
      OBVIOUS
  <2>1. Params \subseteq [t_pivot : Int, scale : Nat \X Nat]
      BY DEF Params
  <2>2. phase # "unbuilt" => \A u \in sized : trunk_sizes[u] \in 0..degree(u)
      BY DEF IInv, InputInv, RightSize
  <2>3. phase \in {"fill", "built"} =>
            bias_params \in [Vertices -> [t_pivot : Int, scale : Nat \X Nat]]
      BY <2>1 DEF IInv, ArenasInv
  <2> QED
      BY <2>2, <2>3 DEF TypeOK, IInv, InputInv, LayoutInv, ArenasInv
<1> QED
    BY <1>1, Invariance, PTL

(* The accessors find what has been stored. *)
LEMMA ReadBack == IInv => TrunksReadBack
<1> SUFFICES ASSUME IInv, phase \in {"fill", "built"}, NEW u \in Vertices,
                    NEW i \in 0..at[u].i - 1
             PROVE  LET lo == i * trunk_sizes[u]
                        hi == Min({lo + trunk_sizes[u], degree(u)})
                    IN  /\ alias_view_of_trunk(u, i) = Table(SubSeq(weights(u), lo + 1, hi))
                        /\ trunk_cumsums_of(u)[i + 1] = Sum(weights(u), 1, hi)
    BY DEF TrunksReadBack
<1>1. /\ InputInv /\ LayoutInv /\ phase # "unbuilt" /\ sized = Vertices
      /\ Stored(u, i) /\ at[u].i \in Nat /\ at[u].i <= TrunkCount(u)
    BY DEF IInv, InputInv, ArenasInv, ProgressInv, StoredInv
<1>2. TrunkCount(u) \in Nat /\ trunk_sizes[u] \in Nat
    BY <1>1, TrunkRange
<1>3. i \in Nat /\ i < TrunkCount(u)
    BY <1>1, <1>2
<1>4. /\ trunk_lo(u, i) \in Nat /\ trunk_hi(u, i) \in Nat
      /\ trunk_lo(u, i) < trunk_hi(u, i) /\ trunk_hi(u, i) <= degree(u)
      /\ trunk_sz(u, i) = trunk_hi(u, i) - trunk_lo(u, i)
    BY <1>1, <1>3, TrunkRange
<1>5. /\ trunk_lo(u, i) = i * trunk_sizes[u]
      /\ trunk_hi(u, i) = Min({i * trunk_sizes[u] + trunk_sizes[u], degree(u)})
  <2>1. (i + 1) * trunk_sizes[u] = i * trunk_sizes[u] + trunk_sizes[u]
      BY <1>2, <1>3
  <2> QED
      BY <2>1 DEF trunk_lo, trunk_hi
<1>6. Len(trunk_weights(u, i)) = trunk_sz(u, i)
  <2>1. weights(u) \in Seq(Nat) /\ Len(weights(u)) = degree(u) /\ degree(u) \in Nat
      BY <1>1, WeightsRight, GraphRight
  <2> QED
      BY <1>4, <2>1 DEF trunk_weights
<1>7. alias_view_of_trunk(u, i) = Table(trunk_weights(u, i))
    BY <1>1, <1>6 DEF alias_view_of_trunk, Table, Stored
<1>8. trunk_cumsums_of(u)[i + 1] = Sum(weights(u), 1, trunk_hi(u, i))
  <2>1. /\ cumsum_offsets[u] \in Nat
        /\ cumsum_offsets[u + 1] = cumsum_offsets[u] + TrunkCount(u)
      BY <1>1, CumsumSlices
  <2>2. /\ i + 1 \in 1..cumsum_offsets[u + 1] - cumsum_offsets[u]
        /\ cumsum_offsets[u] + (i + 1) - 1 = cumsum_offsets[u] + i
      BY <1>2, <1>3, <2>1
  <2> QED
      BY <1>1, <2>2 DEF trunk_cumsums_of, Stored
<1> QED
    BY <1>5, <1>7, <1>8 DEF trunk_weights

(* Whatever vertices are being filled, in whatever order, a trunk that has *)
(* been stored stays what the accessors find: its own alias table, and the *)
(* sum of all weights of the vertex up to its end.                         *)
THEOREM StoredTrunksReadBack == Spec => []TrunksReadBack
BY ReadBack, Invariance, PTL

-----------------------------------------------------------------------------
(* Sampling from arenas. *)
LEMMA SumIsRangeSum == \A w, a, b : Sum(w, a, b) = RangeSum(w, a, b)
BY DEF Sum, RangeSum

(* A table that is asked once for each unit of the weight it was built     *)
(* from gives every slot its weight.                                       *)
LEMMA TableShareRight ==
    ASSUME NEW w \in Seq(Nat), NEW q \in 1..Len(w)
    PROVE  TableShare(TableWeights(Table(w)), q, Sum(w, 1, Len(w))) = w[q]
<1> DEFINE S == Sum(w, 1, Len(w))
           t == IF S = 0 THEN [j \in 1..Len(w) |-> 1] ELSE w
<1>1. TableWeights(Table(w)) = t
  <2>1. Table(w)[0][1] = w
      BY DEF Table
  <2> QED
      BY <2>1 DEF TableWeights
<1>2. (S * t[q]) \div Sum(t, 1, Len(t)) = w[q]
  <2>1. \A v, a, b : Sum(v, a, b) = RangeSum(v, a, b)
      BY SumIsRangeSum
  <2>2. LET R == RangeSum(w, 1, Len(w))
            r == IF R = 0 THEN [j \in 1..Len(w) |-> 1] ELSE w
        IN  (R * r[q]) \div RangeSum(r, 1, Len(r)) = w[q]
      BY Zenon, SharesRight
  <2> QED
      BY Zenon, <2>1, <2>2
<1> HIDE DEF S, t
<1> QED
    BY Zenon, <1>1, <1>2 DEF TableShare, S

(* Inverse transform sampling over climbing totals: as many draws select   *)
(* element j as its total exceeds the one before.                          *)
LEMMA ItsPicks ==
    ASSUME NEW cs \in Seq(Nat), \A i, j \in 1..Len(cs) : i <= j => cs[i] <= cs[j],
           NEW j \in 1..Len(cs), NEW a \in Nat
    PROVE  LET before == IF j = 1 THEN 0 ELSE cs[j - 1]
           IN  Cardinality({r \in a..a + cs[Len(cs)] - 1 : Its(cs, r - a) = j}) = cs[j] - before
<1>1. \A x : Its(cs, x) = FirstAbove(cs, x)
    BY Zenon DEF Its, Min, FirstAbove
<1>2. {r \in a..a + cs[Len(cs)] - 1 : Its(cs, r - a) = j}
          = {r \in a..a + cs[Len(cs)] - 1 : FirstAbove(cs, r - a) = j}
    BY <1>1
<1> QED
    BY <1>2, DrawsOfFirst

(* The totals of a list of weights. *)
LEMMA CumulativeRight ==
    ASSUME NEW w \in Seq(Nat)
    PROVE  LET c == Cumulative(w)
           IN  /\ c \in Seq(Nat) /\ Len(c) = Len(w)
               /\ \A i, j \in 1..Len(w) : i <= j => c[i] <= c[j]
               /\ \A j \in 1..Len(w) : c[j] - (IF j = 1 THEN 0 ELSE c[j - 1]) = w[j]
               /\ \A j \in 1..Len(w) : c[j] = Sum(w, 1, j)
<1> DEFINE c == RunningTotals(w)
<1>1. Cumulative(w) = c
    BY SumIsRangeSum DEF Cumulative, RunningTotals
<1>2. /\ c \in Seq(Nat) /\ Len(c) = Len(w)
      /\ \A i, j \in 1..Len(w) : i <= j => c[i] <= c[j]
      /\ \A j \in 1..Len(w) : c[j] - (IF j = 1 THEN 0 ELSE c[j - 1]) = w[j]
      /\ \A j \in 1..Len(w) : c[j] = RangeSum(w, 1, j)
    BY Zenon, TotalsRight
<1> HIDE DEF c
<1>3. \A j \in 1..Len(w) : c[j] = Sum(w, 1, j)
    BY <1>2, SumIsRangeSum
<1> QED
    BY Zenon, <1>1, <1>2, <1>3

(* The weights the build uses are those the abstract sampler promises.     *)
LEMMA WeightIsPromised ==
    ASSUME InputInv, phase # "unbuilt", NEW u \in Vertices, NEW p \in 1..degree(u)
    PROVE  weights(u)[p] = PrefixSampler!Weight(bias, graph[u], p)
<1>1. /\ graph \in Graphs /\ u \in DOMAIN graph /\ graph[u] \in Seq(Int) /\ p \in 1..Len(graph[u])
    BY GraphRight DEF InputInv, degree
<1>2. \A i, j \in 1..Len(graph[u]) : i < j => graph[u][i] <= graph[u][j]
    BY <1>1, ArenasAssumption
<1>3. bias.kind \in Kinds /\ bias.timescale_bound \in Int
    BY ArenasAssumption DEF InputInv, Kinds
<1>4. weights(u)[p] = CASE bias.kind = "uniform" -> 1
                        [] bias.kind = "linear" -> p
                        [] bias.kind = "exponential" -> Exp(AgeOf(bias, graph[u], p))
    BY <1>1, <1>2, <1>3, WeightByAge DEF weights
<1>5. PrefixSampler!Age(bias, graph[u], p) = AgeOf(bias, graph[u], p)
    BY DEF PrefixSampler!Age, AgeOf
<1>6. \A x : PrefixSampler!Exp(x) = Exp(x)
    BY DEF PrefixSampler!Exp, Exp
<1> QED
    BY Zenon, <1>4, <1>5, <1>6 DEF PrefixSampler!Weight

(* The weights of the trunk a candidate set ends in, computed again.       *)
LEMMA WeightsAgain ==
    ASSUME InputInv, phase # "unbuilt", NEW u \in Vertices,
           bias_params[u] = compute_per_vertex_params(bias, graph[u]),
           NEW k \in Nat, NEW G \in Nat, k <= G, G <= degree(u)
    PROVE  LET v == compute_weights(bias, SubSeq(graph[u], k + 1, G), bias_params[u], k)
           IN  /\ v \in Seq(Nat) /\ Len(v) = G - k
               /\ \A j \in 1..G - k : v[j] = weights(u)[k + j]
<1>1. bias.kind \in Kinds
    BY ArenasAssumption DEF InputInv, Kinds
<1> DEFINE ts == graph[u]
           params == compute_per_vertex_params(bias, ts)
           v == compute_weights(bias, SubSeq(ts, k + 1, G), params, k)
           all == compute_weights(bias, ts, params, 0)
<1>2. ts \in Seq(Int) /\ G <= Len(ts) /\ params \in Params
    BY GraphRight, WeightsRight DEF degree
<1>3. weights(u) = all
    BY Zenon DEF weights, compute_weights_full
<1>4. compute_weights(bias, SubSeq(graph[u], k + 1, G), bias_params[u], k) = v
    BY Zenon
<1> HIDE DEF ts, params
<1>5. v \in Seq(Nat) /\ Len(v) = G - k /\ \A j \in 1..G - k : v[j] = all[k + j]
    BY ZenonT(40), <1>1, <1>2, WeightsOfPart
<1> HIDE DEF v, all
<1> QED
    BY Zenon, <1>3, <1>4, <1>5

(* What sampling reads besides the arenas: the parameters of a vertex that *)
(* has a trunk; and a vertex that is done has all of its trunks.           *)
ReadyInv ==
    /\ phase \in {"fill", "built"} =>
           \A u \in Vertices :
               /\ at[u].i > 0 => bias_params[u] = compute_per_vertex_params(bias, graph[u])
               /\ u \in filled => at[u].i = TrunkCount(u)
    /\ phase = "built" => filled = Vertices

LEMMA ReadyKept == IInv /\ ReadyInv /\ [Next]_vars => ReadyInv'
<1> SUFFICES ASSUME IInv, ReadyInv, [Next]_vars PROVE ReadyInv'
    OBVIOUS
<1>1. CASE \/ StartBuild \/ StartLayout \/ LayoutVertex \/ \E u \in Vertices : SizeVertex(u)
  <2>1. phase' \notin {"fill", "built"}
      BY <1>1 DEF StartBuild, StartLayout, LayoutVertex, SizeVertex
  <2> QED
      BY <2>1 DEF ReadyInv
<1>2. CASE AllocateArenas
  <2>1. /\ at' = [u \in Vertices |-> [i |-> 0, running |-> 0]]
        /\ filled' = {u \in Vertices : degree(u) = 0} /\ phase' = "fill"
        /\ UNCHANGED <<args, trunk_sizes>>
      BY <1>2 DEF AllocateArenas
  <2>2. Vertices' = Vertices /\ \A u : TrunkCount(u)' = TrunkCount(u)
      BY <2>1, SameInput, SameTrunks
  <2>3. ASSUME NEW u \in Vertices PROVE at'[u].i = 0
      BY <2>1
  <2>4. ASSUME NEW u \in filled' PROVE TrunkCount(u) = 0
      BY <2>1 DEF TrunkCount
  <2>5. \A u \in Vertices' : /\ ~(at'[u].i > 0)
                             /\ u \in filled' => at'[u].i = TrunkCount(u)'
      BY <2>2, <2>3, <2>4
  <2> QED
      BY <2>1, <2>5 DEF ReadyInv
<1>3. CASE \E u \in Vertices : FillTrunk(u)
  <2> PICK u \in Vertices : FillTrunk(u)
      BY <1>3
  <2>1. /\ phase = "fill" /\ phase' = "fill" /\ u \notin filled
        /\ UNCHANGED <<args, trunk_sizes>>
        /\ at' = [at EXCEPT ![u] = [i |-> at[u].i + 1, running |-> Running(u)]]
        /\ bias_params' = IF at[u].i > 0 THEN bias_params ELSE
               [bias_params EXCEPT ![u] = compute_per_vertex_params(bias, graph[u])]
        /\ filled' = IF at[u].i + 1 = NumTrunks(u) THEN filled \cup {u} ELSE filled
      BY DEF FillTrunk
  <2>2. /\ Vertices' = Vertices /\ graph' = graph /\ bias' = bias
        /\ \A v : TrunkCount(v)' = TrunkCount(v)
      BY <2>1, SameInput, SameTrunks DEF args
  <2>3. /\ at \in [Vertices -> [i : Nat, running : Nat]]
        /\ bias_params \in [Vertices -> Params]
        /\ at[u].i < TrunkCount(u) /\ degree(u) > 0
    <3>1. /\ at \in [Vertices -> [i : Nat, running : Nat]]
          /\ bias_params \in [Vertices -> Params]
          /\ at[u].i < TrunkCount(u)
        BY <2>1 DEF IInv, ArenasInv, ProgressInv
    <3> QED
        BY <3>1 DEF TrunkCount
  <2>4. /\ at'[u].i = at[u].i + 1
        /\ \A v \in Vertices : v # u => at'[v] = at[v]
      BY <2>1, <2>3
  <2>5. /\ bias_params'[u] = compute_per_vertex_params(bias, graph[u])
        /\ \A v \in Vertices : v # u => bias_params'[v] = bias_params[v]
      BY <2>1, <2>3 DEF ReadyInv
  <2>6. \A v \in Vertices : at'[v].i > 0 =>
            bias_params'[v] = compute_per_vertex_params(bias, graph[v])
      BY <2>1, <2>4, <2>5 DEF ReadyInv
  <2>7. \A v \in filled' : v \in Vertices => at'[v].i = TrunkCount(v)
    <3>1. TrunkCount(u) = NumTrunks(u)
        BY <2>3 DEF TrunkCount
    <3> QED
        BY <2>1, <2>4, <3>1 DEF ReadyInv
  <2> QED
      BY <2>1, <2>2, <2>6, <2>7 DEF ReadyInv
<1>4. CASE FinishBuild
  <2>1. /\ phase = "fill" /\ filled = Vertices /\ UNCHANGED <<args, trunk_sizes>>
        /\ at' = at /\ bias_params' = bias_params /\ filled' = filled
      BY <1>4 DEF FinishBuild, fills
  <2>2. /\ Vertices' = Vertices /\ graph' = graph /\ bias' = bias
        /\ \A v : TrunkCount(v)' = TrunkCount(v)
      BY <2>1, SameInput, SameTrunks DEF args
  <2> QED
      BY <2>1, <2>2 DEF ReadyInv
<1>5. CASE UNCHANGED vars
  <2>1. /\ phase' = phase /\ UNCHANGED <<args, trunk_sizes>>
        /\ at' = at /\ bias_params' = bias_params /\ filled' = filled
      BY <1>5 DEF vars, fills
  <2>2. /\ Vertices' = Vertices /\ graph' = graph /\ bias' = bias
        /\ \A v : TrunkCount(v)' = TrunkCount(v)
      BY <2>1, SameInput, SameTrunks DEF args
  <2> QED
      BY <2>1, <2>2 DEF ReadyInv
<1> QED
    BY <1>1, <1>2, <1>3, <1>4, <1>5 DEF Next

(* In every state: a vertex with a trunk has the parameters of its bias,   *)
(* and one that is done has all of its trunks.                             *)
THEOREM SamplingReady == Spec => [](IInv /\ ReadyInv)
<1>1. Init => IInv /\ ReadyInv
    BY InitRight DEF Init, ReadyInv
<1>2. IInv /\ ReadyInv /\ [Next]_vars => (IInv /\ ReadyInv)'
    BY NextKeeps, ReadyKept
<1> QED
    BY <1>1, <1>2, PTL DEF Spec

(* A full trunk of a vertex, as sampling finds it.                         *)
LEMMA FullTrunk ==
    ASSUME IInv, ReadyInv, phase = "built", NEW u \in Vertices, degree(u) > 0,
           NEW i \in Nat, (i + 1) * trunk_sizes[u] <= degree(u)
    PROVE  LET T == trunk_sizes[u]
           IN  /\ T \in Nat /\ T > 0 /\ i < TrunkCount(u)
               /\ alias_view_of_trunk(u, i) = Table(SubSeq(weights(u), i * T + 1, i * T + T))
               /\ trunk_cumsums_of(u)[i + 1] = Sum(weights(u), 1, (i + 1) * T)
<1> DEFINE T == trunk_sizes[u]
           D == degree(u)
           n == TrunkCount(u)
           lo == i * T
<1>1. InputInv /\ phase # "unbuilt" /\ sized = Vertices /\ filled = Vertices /\ u \in sized
    BY DEF IInv, InputInv, ReadyInv
<1>2. D \in Nat /\ T \in Nat /\ T > 0 /\ D > 0
  <2>1. degree(u) \in Nat
      BY <1>1, GraphRight
  <2>2. RightSize(u)
      BY <1>1 DEF InputInv
  <2> QED
      BY <2>1, <2>2 DEF RightSize
<1>3. lo \in Nat /\ (i + 1) * T = lo + T /\ lo + T <= D
  <2>1. (i + 1) * T <= D
      OBVIOUS
  <2> HIDE DEF T, D
  <2> QED
      BY <1>2, <2>1
<1>4. n \in Nat /\ D <= n * T
  <2>1. n = (D + T - 1) \div T
      BY DEF TrunkCount, NumTrunks
  <2> HIDE DEF n, D, T
  <2> QED
      BY <1>2, <2>1, CeilDiv
<1>5. i < n
  <2> HIDE DEF n, D, T, lo
  <2> SUFFICES ASSUME n <= i PROVE FALSE
      BY <1>4
  <2>1. n * T <= i * T
      BY <1>2, <1>4, TimesMonotone
  <2>2. i * T = lo
      BY DEF lo
  <2> QED
      BY <1>2, <1>3, <1>4, <2>1, <2>2
<1>6. at[u].i = n
    BY <1>1 DEF ReadyInv
<1>7. /\ alias_view_of_trunk(u, i) = Table(SubSeq(weights(u), lo + 1, Min({lo + T, D})))
      /\ trunk_cumsums_of(u)[i + 1] = Sum(weights(u), 1, Min({lo + T, D}))
  <2>1. i \in 0..at[u].i - 1
      BY <1>4, <1>5, <1>6
  <2> QED
      BY <2>1, ReadBack DEF TrunksReadBack
<1>8. Min({lo + T, D}) = lo + T
  <2> HIDE DEF lo, T, D
  <2>1. Min({lo + T, D}) = IF lo + T <= D THEN lo + T ELSE D
      BY <1>2, <1>3, MinOfTwo
  <2> QED
      BY <1>3, <2>1
<1> QED
    BY <1>2, <1>3, <1>5, <1>7, <1>8

(* sample_pat gives every candidate its weight, and no other edge any:     *)
(* from the table of a full trunk, and from the trunk the set ends in.     *)
LEMMA SampleRight ==
    ASSUME IInv, ReadyInv, phase = "built", NEW u \in Vertices,
           NEW G \in 1..degree(u), NEW p \in 1..degree(u)
    PROVE  sample_pat(u, G, p) = IF p <= G THEN weights(u)[p] ELSE 0
<1> DEFINE T == trunk_sizes[u]
           D == degree(u)
           W == weights(u)
           f == G \div T
           full == SubSeq(trunk_cumsums_of(u), 1, f)
           ft == IF f > 0 THEN full[f] ELSE 0
           v == compute_weights(bias, SubSeq(graph[u], f * T + 1, G), bias_params[u], f * T)
           partial == Cumulative(v)
           total == ft + IF partial # <<>> THEN partial[Len(partial)] ELSE 0
           i == (p - 1) \div T
<1>1. /\ InputInv /\ LayoutInv /\ phase # "unbuilt" /\ sized = Vertices /\ filled = Vertices
    BY DEF IInv, InputInv, ReadyInv
<1>2. D \in Nat /\ D > 0 /\ G \in 1..D /\ p \in 1..D /\ T \in Nat /\ T > 0
  <2>1. degree(u) \in Nat
      BY <1>1, GraphRight
  <2>2. RightSize(u)
      BY <1>1 DEF InputInv
  <2> QED
      BY <2>1, <2>2 DEF RightSize
<1>3. W \in Seq(Nat) /\ Len(W) = D /\ \A q \in 1..D : W[q] \in Nat
  <2>1. W \in Seq(Nat) /\ Len(W) = D
      BY <1>1, WeightsRight
  <2> HIDE DEF W, D
  <2> QED
      BY <2>1
<1>4. f \in Nat /\ f * T \in Nat /\ f * T <= G /\ G < f * T + T
  <2> HIDE DEF T, D
  <2>1. G \in Nat
      BY <1>2
  <2> QED
      BY <1>2, <2>1, QuotientRight
<1>5. /\ i \in Nat /\ i * T \in Nat /\ (i + 1) * T = i * T + T
      /\ i * T < p /\ p <= i * T + T
  <2> PICK x \in Nat : x = p - 1
      BY <1>2
  <2>1. i = x \div T
      OBVIOUS
  <2> HIDE DEF i
  <2>2. i \in Nat /\ i * T \in Nat /\ i * T <= x /\ x < i * T + T
      BY <1>2, <2>1, QuotientRight
  <2>3. (i + 1) * T = i * T + T
      BY <1>2, <2>2
  <2> QED
      BY <1>2, <2>2, <2>3
<1>6. sample_pat(u, G, p) =
          IF p > G THEN 0
          ELSE IF i < f
               THEN TableShare(TableWeights(alias_view_of_trunk(u, i)), p - i * T,
                               Cardinality({r \in 0..ft - 1 : Its(full, r) = i + 1}))
               ELSE Cardinality({r \in ft..total - 1 : Its(partial, r - ft) = p - f * T})
    BY Zenon DEF sample_pat
<1>7. ASSUME NEW k \in 1..f PROVE k * T \in 0..G
  <2> HIDE DEF T, f, D
  <2>1. k \in Nat /\ k <= f
      BY <1>4
  <2>2. k * T <= f * T /\ k * T \in Nat
      BY <1>2, <1>4, <2>1, TimesMonotone
  <2> QED
      BY <1>2, <1>4, <2>2
<1>8. ASSUME NEW k \in 1..f
      PROVE  /\ k <= TrunkCount(u)
             /\ trunk_cumsums_of(u)[k] = Sum(W, 1, k * T)
  <2> PICK j \in Nat : k = j + 1
      BY <1>4
  <2>1. (j + 1) * T <= D
      BY <1>2, <1>7
  <2>2. /\ j < TrunkCount(u)
        /\ trunk_cumsums_of(u)[j + 1] = Sum(W, 1, (j + 1) * T)
      BY <1>2, <2>1, FullTrunk
  <2>3. TrunkCount(u) \in Nat
      BY <1>1, TrunkRange
  <2> QED
      BY <2>2, <2>3
<1>9. /\ full \in Seq(Nat) /\ Len(full) = f
      /\ \A k \in 1..f : full[k] = Sum(W, 1, k * T)
  <2> DEFINE c == trunk_cumsums_of(u)
             n == TrunkCount(u)
  <2>1. /\ cumsum_offsets[u] \in Nat /\ n \in Nat /\ cumsum_offsets[N] \in Nat
        /\ cumsum_offsets[u + 1] = cumsum_offsets[u] + n
        /\ cumsum_offsets[u] + n <= cumsum_offsets[N]
        /\ cumsum_arena \in [0..cumsum_offsets[N] - 1 -> Nat]
      BY <1>1, CumsumSlices, TrunkRange DEF IInv, ArenasInv
  <2>2. c = [j \in 1..n |-> cumsum_arena[cumsum_offsets[u] + j - 1]]
    <3>1. cumsum_offsets[u + 1] - cumsum_offsets[u] = n
        BY <2>1
    <3> QED
        BY <3>1 DEF trunk_cumsums_of
  <2> HIDE DEF c, n
  <2>3. c \in [1..n -> Nat]
    <3>1. \A j \in 1..n : cumsum_offsets[u] + j - 1 \in 0..cumsum_offsets[N] - 1
        BY <2>1
    <3> QED
        BY <2>1, <2>2, <3>1
  <2>4. c \in Seq(Nat) /\ Len(c) = n
      BY <2>1, <2>3, ListIsSeq
  <2>5. f <= n
    <3>1. f > 0 => f \in 1..f
        BY <1>4
    <3> QED
        BY <1>4, <1>8, <2>1, <3>1 DEF n
  <2>6. /\ full \in Seq(Nat) /\ Len(full) = f /\ \A k \in 1..f : full[k] = c[k]
    <3>1. full = SubSeq(c, 1, f)
        BY DEF c
    <3> HIDE DEF full, f
    <3> QED
      <4>1. f \in Nat /\ f <= Len(c)
          BY <1>4, <2>4, <2>5
      <4> QED
          BY ZenonT(20), <2>4, <3>1, <4>1, PrefixOf
  <2> QED
      BY <1>8, <2>6 DEF c
<1>10. /\ v \in Seq(Nat) /\ Len(v) = G - f * T
       /\ \A j \in 1..G - f * T : v[j] = W[f * T + j]
  <2>1. bias_params[u] = compute_per_vertex_params(bias, graph[u])
    <3>1. at[u].i = TrunkCount(u)
        BY <1>1 DEF ReadyInv
    <3>2. TrunkCount(u) > 0
      <4>1. TrunkCount(u) = (D + T - 1) \div T
          BY <1>2 DEF TrunkCount, NumTrunks
      <4> HIDE DEF T, D
      <4> PICK n : n = TrunkCount(u)
          OBVIOUS
      <4>2. n \in Nat /\ D <= n * T
          BY <1>2, <4>1, CeilDiv
      <4>3. n # 0
          BY <1>2, <4>2
      <4> QED
          BY <4>2, <4>3
    <3> QED
        BY <3>1, <3>2 DEF ReadyInv
  <2> PICK k \in Nat : k = f * T
      BY <1>4
  <2>2. G \in Nat /\ k <= G /\ G <= degree(u)
      BY <1>2, <1>4
  <2>3. v = compute_weights(bias, SubSeq(graph[u], k + 1, G), bias_params[u], k)
      OBVIOUS
  <2> HIDE DEF v, f, T
  <2> QED
      BY <1>1, <2>1, <2>2, <2>3, WeightsAgain
<1> HIDE DEF T, D, W, f, full, v, i
<1>11. /\ RangeSum(W, 1, 0) = 0
       /\ \A a \in 0..D : RangeSum(W, 1, a) \in Nat
       /\ \A a, b \in 0..D : a <= b => RangeSum(W, 1, a) <= RangeSum(W, 1, b)
       /\ \A a, b \in 0..D : a <= b =>
              RangeSum(W, 1, b) = RangeSum(W, 1, a) + RangeSum(W, a + 1, b)
  <2>1. D \in Nat /\ \A q \in 1..D : W[q] \in Nat
      BY <1>2, <1>3
  <2> QED
      BY <2>1, PrefixSums
<1>12. ft \in Nat
    <2>1. f > 0 => f \in 1..f /\ f \in DOMAIN full
        BY <1>4, <1>9
    <2> QED
        BY <1>9, <2>1
<1>13. CASE p > G
    BY <1>2, <1>6, <1>13
<1>14. CASE p <= G /\ i < f
  <2> DEFINE lo == i * T
             w == SubSeq(W, lo + 1, lo + T)
             q == p - lo
  <2>1. /\ lo \in Nat /\ lo + T <= D /\ (i + 1) * T = lo + T /\ i + 1 \in 1..f
        /\ q \in 1..T
    <3>1. i + 1 \in 1..f
        BY <1>4, <1>5, <1>14
    <3>2. (i + 1) * T \in 0..G
        BY <1>7, <3>1
    <3> QED
        BY <1>2, <1>5, <3>1, <3>2
  <2>8. f > 0 => ft = full[f]
      OBVIOUS
  <2> HIDE DEF lo, q, ft, partial, total
  <2>2. /\ w \in Seq(Nat) /\ Len(w) = T /\ \A j \in 1..T : w[j] = W[lo + j] /\ W[lo + j] \in Nat
    <3>1. w \in Seq(Nat) /\ Len(w) = T /\ \A j \in 1..T : w[j] = W[lo + j]
      <4>1. lo + 1 \in 1..Len(W) + 1 /\ lo + T \in 1..Len(W)
          BY <1>2, <1>3, <2>1
      <4> QED
          BY <1>2, <1>3, <2>1, <4>1
    <3>2. \A j \in 1..T : lo + j \in 1..D
        BY <1>2, <2>1
    <3> QED
        BY <1>3, <3>1, <3>2
  <2> HIDE DEF w
  <2>3. alias_view_of_trunk(u, i) = Table(w)
    <3>1. (i + 1) * trunk_sizes[u] <= degree(u) /\ degree(u) > 0
        BY <1>2, <2>1 DEF T, D
    <3>2. alias_view_of_trunk(u, i)
              = Table(SubSeq(weights(u), i * trunk_sizes[u] + 1,
                             i * trunk_sizes[u] + trunk_sizes[u]))
        BY <1>5, <3>1, FullTrunk
    <3> QED
        BY <3>2 DEF w, lo, T, W
  <2>4. Cardinality({r \in 0..ft - 1 : Its(full, r) = i + 1}) = Sum(w, 1, T)
    <3>1. \A a, b \in 1..Len(full) : a <= b => full[a] <= full[b]
      <4> SUFFICES ASSUME NEW a \in 1..f, NEW b \in 1..f, a <= b PROVE full[a] <= full[b]
          BY <1>9
      <4>1. a * T \in 0..G /\ b * T \in 0..G /\ G \in 0..D
          BY <1>2, <1>7
      <4>2. a * T <= b * T
          BY <1>2, <1>4, TimesMonotone
      <4> PICK x \in 0..D, y \in 0..D : x = a * T /\ y = b * T /\ x <= y
          BY <1>2, <4>1, <4>2
      <4>3. RangeSum(W, 1, x) <= RangeSum(W, 1, y)
          BY <1>11
      <4> QED
          BY <1>9, <4>3, SumIsRangeSum
    <3>2. Cardinality({r \in 0..0 + full[Len(full)] - 1 : Its(full, r - 0) = i + 1})
              = full[i + 1] - (IF i + 1 = 1 THEN 0 ELSE full[(i + 1) - 1])
      <4>1. i + 1 \in 1..Len(full) /\ 0 \in Nat /\ full \in Seq(Nat)
          BY <1>9, <2>1
      <4> QED
          BY <3>1, <4>1, ItsPicks
    <3>3. {r \in 0..0 + full[Len(full)] - 1 : Its(full, r - 0) = i + 1}
              = {r \in 0..ft - 1 : Its(full, r) = i + 1}
      <4>1. 0 + full[Len(full)] = ft
        <5>1. Len(full) = f /\ f > 0 /\ ft = full[f]
            BY <1>9, <2>1, <2>8
        <5> QED
            BY <1>12, <5>1
      <4> DEFINE last == 0 + full[Len(full)]
      <4>2. last = ft /\ 0 + full[Len(full)] - 1 = last - 1
        <5>1. full[Len(full)] \in Nat
          <6>1. Len(full) \in 1..f /\ \A k \in 1..f : full[k] \in Nat
            <7>1. f \in 1..f
                BY <1>4, <2>1
            <7>2. \A k \in 1..f : full[k] \in Nat
                BY <1>9
            <7> QED
                BY <1>9, <7>1, <7>2
          <6> QED
              BY <6>1
        <5> QED
            BY <4>1, <5>1
      <4> HIDE DEF last
      <4>3. \A r \in 0..last - 1 : r - 0 = r
        <5>1. \A r \in Int : r - 0 = r
            OBVIOUS
        <5>2. \A r \in 0..last - 1 : r \in Int
            OBVIOUS
        <5> QED
            BY <5>1, <5>2
      <4>4. {r \in 0..last - 1 : Its(full, r - 0) = i + 1}
                = {r \in 0..last - 1 : Its(full, r) = i + 1}
          BY <4>3
      <4> QED
          BY <4>2, <4>4, Zenon
    <3>4. /\ RangeSum(W, 1, 0) = 0
          /\ RangeSum(W, 1, lo) \in Nat /\ RangeSum(W, 1, lo + T) \in Nat
          /\ RangeSum(W, 1, lo + T) = RangeSum(W, 1, lo) + RangeSum(W, lo + 1, lo + T)
      <4>1. lo \in 0..D /\ lo + T \in 0..D /\ lo <= lo + T
          BY <1>2, <2>1
      <4> QED
          BY <1>11, <4>1
    <3>5. full[i + 1] = RangeSum(W, 1, lo + T)
        BY <1>9, <2>1, SumIsRangeSum
    <3>6. (IF i + 1 = 1 THEN 0 ELSE full[(i + 1) - 1]) = RangeSum(W, 1, lo)
      <4>1. CASE i = 0
        <5>1. lo = 0
          <6>1. lo = 0 * T
              BY <4>1 DEF lo
          <6>2. 0 * T = 0
              BY <1>2
          <6> QED
              BY <6>1, <6>2
        <5> QED
            BY <3>4, <4>1, <5>1
      <4>2. CASE i # 0
        <5>1. (i + 1) - 1 = i /\ i \in 1..f /\ i + 1 # 1
            BY <1>4, <1>5, <2>1, <4>2
        <5>2. full[i] = Sum(W, 1, lo)
            BY <1>9, <5>1 DEF lo
        <5> QED
            BY <5>1, <5>2, SumIsRangeSum
      <4> QED
          BY <4>1, <4>2
    <3>7. RangeSum(W, lo + 1, lo + T) = RangeSum(w, 1, T)
      <4>1. lo \in Int /\ T \in Nat
          BY <1>2, <2>1
      <4>2. SamePart(W, lo, w, T)
          BY <2>2 DEF SamePart
      <4> QED
          BY <4>1, <4>2, SameSum
    <3>8. RangeSum(W, lo + 1, lo + T) \in Nat
      <4>1. \A a \in lo + 1..lo + T : W[a] \in Nat
          BY <1>2, <1>3, <2>1
      <4>2. lo + 1 \in Int /\ lo + T \in Int
          BY <1>2, <2>1
      <4> QED
          BY <4>1, <4>2, RangeSumRight
    <3> QED
      <4>1. Cardinality({r \in 0..ft - 1 : Its(full, r) = i + 1})
                = RangeSum(W, 1, lo + T) - RangeSum(W, 1, lo)
          BY <3>2, <3>3, <3>5, <3>6
      <4>2. RangeSum(W, 1, lo + T) - RangeSum(W, 1, lo) = RangeSum(W, lo + 1, lo + T)
          BY <3>4, <3>8
      <4> QED
          BY <3>7, <4>1, <4>2, SumIsRangeSum
  <2>5. TableShare(TableWeights(Table(w)), q, Sum(w, 1, Len(w))) = w[q]
    <3>1. q \in 1..Len(w)
        BY <2>1, <2>2
    <3> QED
        BY <2>2, <3>1, TableShareRight
  <2>6. w[q] = W[p]
    <3>1. lo + q = p
        BY <1>2, <2>1 DEF q
    <3> QED
        BY <2>1, <2>2, <3>1
  <2>7. sample_pat(u, G, p) = TableShare(TableWeights(Table(w)), q, Sum(w, 1, Len(w)))
    <3>1. ~(p > G)
        BY <1>2, <1>14
    <3>2. p - i * T = q
        BY DEF q, lo
    <3> QED
        BY <1>6, <1>14, <2>2, <2>3, <2>4, <3>1, <3>2
  <2> QED
      BY <1>14, <2>5, <2>6, <2>7 DEF W
<1>15. CASE p <= G /\ ~(i < f)
  <2> DEFINE k == f * T
             j == p - k
             n == G - k
  <2>1. k \in Nat /\ j \in 1..n /\ n \in Nat /\ n > 0 /\ k + j = p
    <3>1. f <= i
        BY <1>4, <1>5, <1>15
    <3>2. f * T <= i * T
        BY <1>2, <1>4, <1>5, <3>1, TimesMonotone
    <3> QED
        BY <1>2, <1>4, <1>5, <1>15, <3>2
  <2>2. v \in Seq(Nat) /\ Len(v) = n /\ v[j] = W[p]
    <3>1. \A l \in 1..n : v[l] = W[k + l]
        BY <1>10
    <3>2. v \in Seq(Nat) /\ Len(v) = n
        BY <1>10
    <3> HIDE DEF k, j, n
    <3> QED
        BY <2>1, <3>1, <3>2
  <2>3. /\ partial \in Seq(Nat) /\ Len(partial) = n
        /\ \A a, b \in 1..n : a <= b => partial[a] <= partial[b]
        /\ partial[j] - (IF j = 1 THEN 0 ELSE partial[j - 1]) = v[j]
    <3> HIDE DEF k, j, n
    <3> QED
        BY <2>1, <2>2, CumulativeRight
  <2> HIDE DEF partial, k, j, n
  <2>4. total = ft + partial[Len(partial)]
    <3>1. partial # <<>>
        BY <2>1, <2>3
    <3> QED
        BY <3>1
  <2>5. Cardinality({r \in ft..ft + partial[Len(partial)] - 1 : Its(partial, r - ft) = j})
            = partial[j] - (IF j = 1 THEN 0 ELSE partial[j - 1])
    <3>1. /\ j \in 1..Len(partial)
          /\ \A a, b \in 1..Len(partial) : a <= b => partial[a] <= partial[b]
        BY <2>1, <2>3
    <3> HIDE DEF ft
    <3> QED
        BY <1>12, <2>3, <3>1, ItsPicks
  <2>6. sample_pat(u, G, p) = Cardinality({r \in ft..total - 1 : Its(partial, r - ft) = j})
    <3>1. ~(p > G)
        BY <1>2, <1>15
    <3>2. p - f * T = j
        BY DEF j, k
    <3> HIDE DEF total, ft
    <3> QED
        BY <1>6, <1>15, <3>1, <3>2
  <2>7. sample_pat(u, G, p) = v[j]
    <3> HIDE DEF ft, total
    <3>0. {r \in ft..total - 1 : Its(partial, r - ft) = j}
              = {r \in ft..ft + partial[Len(partial)] - 1 : Its(partial, r - ft) = j}
      <4>1. total - 1 = ft + partial[Len(partial)] - 1
        <5>1. partial[Len(partial)] \in Nat
            BY <2>1, <2>3
        <5> QED
            BY <1>12, <2>4, <5>1
      <4> DEFINE a == total - 1
                 b == ft + partial[Len(partial)] - 1
      <4>2. a = b
          BY <4>1
      <4> HIDE DEF a, b
      <4>3. {r \in ft..a : Its(partial, r - ft) = j} = {r \in ft..b : Its(partial, r - ft) = j}
          BY <4>2
      <4> QED
          BY <4>3 DEF a, b
    <3>1. Cardinality({r \in ft..total - 1 : Its(partial, r - ft) = j}) = v[j]
        BY <2>3, <2>5, <3>0
    <3> QED
        BY <2>6, <3>1, Zenon
  <2> QED
      BY <1>15, <2>2, <2>7 DEF W
<1> QED
    BY <1>2, <1>13, <1>14, <1>15

AbstractBuilding == IF phase \in {"unbuilt", "built"} THEN {} ELSE {<<graph, bias>>}
AbstractMass ==
    IF phase # "built" THEN <<>> ELSE
        [u \in Vertices |-> [G \in 1..degree(u) |->
            [p \in 1..degree(u) |-> sample_pat(u, G, p)]]]

LEMMA MassPromised ==
    IInv /\ ReadyInv /\ phase = "built" => AbstractMass = PrefixSampler!Exact(graph, bias)
<1> SUFFICES ASSUME IInv, ReadyInv, phase = "built"
             PROVE  AbstractMass = PrefixSampler!Exact(graph, bias)
    OBVIOUS
<1>1. InputInv /\ phase # "unbuilt" /\ DOMAIN graph = Vertices
    BY GraphRight DEF IInv
<1>2. ASSUME NEW u \in Vertices, NEW G \in 1..degree(u), NEW p \in 1..degree(u)
      PROVE  sample_pat(u, G, p) = IF p <= G THEN PrefixSampler!Weight(bias, graph[u], p) ELSE 0
    BY <1>1, SampleRight, WeightIsPromised
<1>3. PrefixSampler!Exact(graph, bias)
          = [u \in Vertices |-> [G \in 1..degree(u) |-> [p \in 1..degree(u) |->
                IF p <= G THEN PrefixSampler!Weight(bias, graph[u], p) ELSE 0]]]
    BY <1>1 DEF PrefixSampler!Exact, degree
<1> QED
    BY <1>2, <1>3 DEF AbstractMass

LEMMA SamplerStep ==
    IInv /\ ReadyInv /\ IInv' /\ ReadyInv' /\ [Next]_vars
        => [PrefixSampler!Next]_<<AbstractBuilding, AbstractMass>>
<1> SUFFICES ASSUME IInv, ReadyInv, IInv', ReadyInv', [Next]_vars
             PROVE  [PrefixSampler!Next]_<<AbstractBuilding, AbstractMass>>
    OBVIOUS
<1> DEFINE b == AbstractBuilding
           m == AbstractMass
<1>1. CASE StartBuild
  <2>1. /\ b = {} /\ b' = {<<graph', bias'>>} /\ m' = <<>>
        /\ graph' \in Graphs /\ bias' \in Biases
      BY <1>1 DEF StartBuild, AbstractBuilding, AbstractMass
  <2>2. PrefixSampler!Begin
      BY <2>1 DEF PrefixSampler!Begin, PrefixSampler!NoIndex, AbstractBuilding, AbstractMass
  <2> QED
      BY <2>2 DEF PrefixSampler!Next
<1>2. CASE FinishBuild
  <2>1. phase = "fill" /\ phase' = "built" /\ graph' = graph /\ bias' = bias
      BY <1>2 DEF FinishBuild, args
  <2>2. (AbstractMass = PrefixSampler!Exact(graph, bias))'
    <3>1. IInv' /\ ReadyInv' /\ (phase = "built")'
        BY <2>1
    <3> QED
        BY <3>1, MassPromised, PTL
  <2>3. AbstractMass' = PrefixSampler!Exact(graph, bias)
      BY <2>1, <2>2
  <2>4. b = {<<graph, bias>>} /\ b' = {}
      BY <2>1 DEF AbstractBuilding
  <2>5. PrefixSampler!Finish
      BY <2>3, <2>4 DEF PrefixSampler!Finish, AbstractBuilding, AbstractMass
  <2> QED
      BY <2>5 DEF PrefixSampler!Next
<1>3. CASE \/ \E u \in Vertices : SizeVertex(u) \/ FillTrunk(u)
           \/ StartLayout \/ LayoutVertex \/ AllocateArenas
  <2>1. /\ phase \in {"sizes", "layout", "fill"} /\ phase' \in {"sizes", "layout", "fill"}
        /\ graph' = graph /\ bias' = bias
      BY <1>3 DEF SizeVertex, FillTrunk, StartLayout, LayoutVertex, AllocateArenas, args
  <2> QED
      BY <2>1 DEF AbstractBuilding, AbstractMass
<1>4. CASE UNCHANGED vars
  <2>1. UNCHANGED <<phase, graph, bias>>
      BY <1>4 DEF vars, args
  <2>2. UNCHANGED AbstractMass
    <3>1. CASE phase = "built"
      <4>1. AbstractMass = PrefixSampler!Exact(graph, bias)
          BY <3>1, MassPromised
      <4>2. (AbstractMass = PrefixSampler!Exact(graph, bias))'
        <5>1. IInv' /\ ReadyInv' /\ (phase = "built")'
            BY <2>1, <3>1
        <5> QED
            BY <5>1, MassPromised, PTL
      <4> QED
          BY <2>1, <4>1, <4>2
    <3>2. CASE phase # "built"
        BY <2>1, <3>2 DEF AbstractMass
    <3> QED
        BY <3>1, <3>2
  <2> QED
      BY <2>1, <2>2 DEF AbstractBuilding
<1> QED
    BY <1>1, <1>2, <1>3, <1>4 DEF Next

(* For every graph, bias, trunk size and schedule: once a build is over,   *)
(* sample_pat gives each candidate of every prefix of every vertex exactly *)
(* its weight's share, whatever is computed when, and no other edge any.   *)
THEOREM Refinement == Spec => ImplementsPrefixSampler
<1>1. Init => AbstractBuilding = {} /\ AbstractMass = <<>>
    BY DEF Init, AbstractBuilding, AbstractMass
<1>2. IInv /\ ReadyInv /\ IInv' /\ ReadyInv' /\ [Next]_vars
          => [PrefixSampler!Next]_<<AbstractBuilding, AbstractMass>>
    BY SamplerStep
<1> QED
    BY <1>1, <1>2, SamplingReady, PTL
       DEF Spec, ImplementsPrefixSampler, PrefixSampler!Spec, PrefixSampler!Init,
           PrefixSampler!NoIndex, AbstractBuilding, AbstractMass
=============================================================================
