------------------------------ MODULE HpatProofs ------------------------------
(***************************************************************************)
(* For every graph, bias, threshold, budget and schedule: the fill of      *)
(* Hpat::build keeps to each vertex's slice of the two arenas and to each  *)
(* trunk's part of the slice, the auxiliary index holds the covers that    *)
(* decompose_to_trunks computes, and Hpat implements PrefixSampler.        *)
(***************************************************************************)
EXTENDS Hpat, DataLemmas

Deep(u) == degree(u) > kHpatDegreeThreshold
Shape(u) == /\ is_solo[u] <=> degree(u) > 0 /\ degree(u) <= kHpatDegreeThreshold
            /\ K_max[u] = IF Deep(u) THEN FloorLog2(degree(u)) ELSE -1

(* The lengths of the slices. *)
AliasSizes ==
    [u \in Vertices |-> IF Deep(u) THEN hpat_alias_entries_per_vertex(degree(u)) ELSE degree(u)]
TotalsSizes ==
    [u \in Vertices |-> IF Deep(u) THEN hpat_trunks_per_vertex(degree(u)) ELSE 0]

Filling == phase \notin {"unbuilt", "layout"}

InputInv ==
    /\ bias \in Biases
    /\ phase \in {"unbuilt", "layout", "fill", "aux_layout", "aux_fill", "built"}
    /\ phase # "unbuilt" =>
           /\ graph \in Graphs /\ aux_budget_bytes \in Budgets
           /\ bias_params \in [Vertices -> Params]
    /\ phase \in {"aux_layout", "aux_fill"} => aux_budget_bytes > 0

LayoutInv ==
    /\ phase # "unbuilt" =>
           /\ K_max \in [Vertices -> Nat \cup {-1}] /\ is_solo \in [Vertices -> BOOLEAN]
           /\ alias_offsets \in [0..N -> Nat] /\ totals_offsets \in [0..N -> Nat]
    /\ phase = "layout" =>
           /\ scan \in 0..N /\ alias_size \in Nat /\ totals_size \in Nat
           /\ StepsTo(alias_offsets, AliasSizes, N, scan, alias_size)
           /\ StepsTo(totals_offsets, TotalsSizes, N, scan, totals_size)
           /\ \A u \in Vertices : u < scan => Shape(u)
           /\ \A u \in Vertices : u >= scan => K_max[u] = -1
    /\ Filling =>
           /\ Consecutive(alias_offsets, AliasSizes, N)
           /\ Consecutive(totals_offsets, TotalsSizes, N)
           /\ \A u \in Vertices : Shape(u)

ArenasInv ==
    Filling =>
        /\ DOMAIN alias_arena = 0..alias_offsets[N] - 1
        /\ trunk_totals \in [0..totals_offsets[N] - 1 -> Nat]
        /\ filled \subseteq Vertices /\ \A u \in Vertices : degree(u) = 0 => u \in filled
        /\ at \in [Vertices -> [k : Nat, i : Nat, alias : Nat, totals : Nat]]

(* Where trunk (k, i) of u is in the slices of the two arenas. *)
AliasAt(u, k, i) == hpat_alias_level_offset(degree(u), k) + i * 2^k
TotalAt(u, k, i) == hpat_totals_level_offset(degree(u), k) + i

(* The cursors of the build are where the next trunk belongs. *)
ProgressInv ==
    Filling =>
        \A u \in Vertices : Deep(u) =>
            LET c == at[u]
            IN  /\ c.k <= K_max[u] => c.i < degree(u) \div 2^c.k
                /\ c.k <= K_max[u] + 1
                /\ c.k > K_max[u] => c.i = 0
                /\ u \notin filled => c.k <= K_max[u]
                /\ c.alias = AliasAt(u, c.k, c.i)
                /\ c.totals = TotalAt(u, c.k, c.i)

Behind(u, k, i) == k < at[u].k \/ (k = at[u].k /\ i < at[u].i)

(* What has been stored. *)
TrunkWeights(u, k, i) == SubSeq(weights(u), i * 2^k + 1, i * 2^k + 2^k)
StoredTrunk(u, k, i) ==
    /\ \A j \in 0..2^k - 1 :
           alias_arena[alias_offsets[u] + AliasAt(u, k, i) + j] = <<TrunkWeights(u, k, i), j>>
    /\ trunk_totals[totals_offsets[u] + TotalAt(u, k, i)] =
           Sum(weights(u), i * 2^k + 1, i * 2^k + 2^k)
StoredSolo(u) ==
    \A j \in 0..degree(u) - 1 : alias_arena[alias_offsets[u] + j] = <<weights(u), j>>
StoredInv ==
    Filling =>
        \A u \in Vertices :
            /\ is_solo[u] /\ u \in filled => StoredSolo(u)
            /\ Deep(u) =>
                   \A k \in 0..K_max[u] : \A i \in 0..degree(u) \div 2^k - 1 :
                       Behind(u, k, i) => StoredTrunk(u, k, i)

(* The auxiliary index: how many prefixes, and how many trunks, a vertex   *)
(* has in it.                                                              *)
PrefixCounts == [u \in Vertices |-> IF is_solo[u] THEN 0 ELSE Prefixes(u)]
EntriesUpTo(L) == SumFunction([l \in 1..L |-> popcount(l)])
CoverCounts == [u \in Vertices |-> IF is_solo[u] THEN 0 ELSE EntriesUpTo(degree(u))]

(* The cover of prefix L of u. *)
Cover(u, L) == decompose_to_trunks(L, K_max[u])
StoredCover(u, L) ==
    LET first == entries_start[u] + EntriesUpTo(L - 1)
    IN  /\ L_offsets[L_base[u] + L] = first
        /\ \A j \in 1..Len(Cover(u, L)) : entries[first + j - 1] = Cover(u, L)[j]

IndexInv ==
    /\ L_base \in [0..N -> Nat] /\ Consecutive(L_base, PrefixCounts, N)
    /\ entries_start \in [0..N -> Nat] /\ Consecutive(entries_start, CoverCounts, N)
    /\ L_offsets \in [0..L_base[N] -> Nat]
    /\ DOMAIN entries = 0..entries_start[N] - 1
    /\ cum_L = L_base[N] /\ cum_e = entries_start[N]

AuxInv ==
    /\ phase = "aux_layout" =>
           /\ scan \in 0..N /\ cum_L \in Nat /\ cum_e \in Nat
           /\ L_base \in [0..N -> Nat] /\ StepsTo(L_base, PrefixCounts, N, scan, cum_L)
           /\ entries_start \in [0..N -> Nat]
           /\ StepsTo(entries_start, CoverCounts, N, scan, cum_e)
    /\ phase = "aux_fill" =>
           /\ IndexInv
           /\ next_L \in [Vertices -> Nat] /\ cur \in [Vertices -> Nat]
           /\ \A u \in Vertices : ~is_solo[u] =>
                  /\ next_L[u] <= Prefixes(u)
                  /\ cur[u] = entries_start[u] + EntriesUpTo(next_L[u] - 1)
                  /\ \A L \in 0..next_L[u] - 1 : StoredCover(u, L)
    /\ phase = "built" /\ active /\ aux_budget_bytes > 0 =>
           /\ IndexInv /\ L_offsets[cum_L] = cum_e
           /\ \A u \in Vertices : ~is_solo[u] => \A L \in 0..degree(u) : StoredCover(u, L)

(* Only a build with a budget activates the index. *)
ActiveInv == /\ active \in BOOLEAN
             /\ active => \E b \in Budgets : b > 0

FillInv == InputInv /\ LayoutInv /\ ArenasInv /\ ProgressInv /\ StoredInv
IInv == FillInv /\ AuxInv /\ ActiveInv

-----------------------------------------------------------------------------
(* Quotients by powers of two. *)
LEMMA Quotient ==
    ASSUME NEW a \in Nat, NEW d \in Nat, d > 0
    PROVE  /\ a \div d \in Nat /\ a \div d <= a
           /\ (a \div d) * d \in Nat /\ (a \div d) * d <= a /\ a < (a \div d) * d + d
           /\ a >= d => a \div d > 0
           /\ a < d => a \div d = 0
<1> DEFINE q == a \div d
           r == a % d
<1>1. q \in Int /\ r \in 0..d - 1 /\ a = d * q + r
    OBVIOUS
<1> HIDE DEF q, r
<1>2. q \in Nat
  <2>1. ASSUME q < 0 PROVE FALSE
    <3>1. d * q <= d * (-1)
        BY <1>1, <2>1
    <3> QED
        BY <1>1, <3>1
  <2> QED
      BY <1>1, <2>1
<1>3. q * d = d * q /\ q * d \in Nat
    BY <1>2
<1>4. q <= q * d
  <2>1. q * 1 <= q * d
      BY <1>2, TimesMonotone
  <2> QED
      BY <1>2, <2>1
<1>5. a < d => q = 0
  <2> SUFFICES ASSUME q >= 1 PROVE d <= a
      BY <1>2
  <2>1. 1 * d <= q * d
      BY <1>2, TimesMonotone
  <2> QED
      BY <1>1, <1>3, <2>1
<1>6. a >= d => q > 0
  <2> SUFFICES ASSUME q = 0 PROVE a < d
      BY <1>2
  <2> QED
      BY <1>1
<1> QED
    BY <1>1, <1>2, <1>3, <1>4, <1>5, <1>6 DEF q

(* The greatest level of a vertex with D edges. *)
LEMMA FloorLog2Right ==
    ASSUME NEW D \in Nat, D > 0
    PROVE  /\ FloorLog2(D) \in Nat
           /\ 2^FloorLog2(D) <= D /\ D < 2^(FloorLog2(D) + 1)
<1> DEFINE S == {k \in Nat : k <= D /\ 2^k <= D}
<1>1. IsFiniteSet(S) /\ S \in SUBSET Int
  <2>1. S \in SUBSET (0..D) /\ IsFiniteSet(0..D)
      BY FS_Interval
  <2> QED
      BY <2>1, FS_Subset
<1>2. 0 \in S
    BY PowersRight
<1>3. PICK m \in S : \A y \in S : y <= m
    BY <1>1, <1>2, GreatestElement
<1>4. m \in 0..D /\ 2^m <= D
    BY <1>3
<1>5. D < 2^(m + 1)
  <2> SUFFICES ASSUME ~(D < 2^(m + 1)) PROVE FALSE
      OBVIOUS
  <2>1. 2^(m + 1) \in Nat /\ m + 1 < 2^(m + 1) /\ m + 1 \in Nat
      BY <1>4, PowersRight
  <2>2. m + 1 \in S
      BY <2>1
  <2> QED
      BY <1>3, <1>4, <2>2
<1>6. \E k \in 0..D : 2^k <= D /\ D < 2^(k + 1)
    BY <1>4, <1>5
<1>7. /\ FloorLog2(D) \in 0..D
      /\ 2^FloorLog2(D) <= D /\ D < 2^(FloorLog2(D) + 1)
    BY <1>6, Zenon DEF FloorLog2
<1> QED
    BY <1>7

(* There is one multiple of m that is at most x and less than m below it.  *)
LEMMA QuotientIs ==
    ASSUME NEW x \in Nat, NEW m \in Nat, m > 0, NEW g \in Nat, g * m <= x, x < g * m + m
    PROVE  x \div m = g
<1> PICK h : h = x \div m
    OBVIOUS
<1>1. h \in Nat /\ h * m \in Nat /\ h * m <= x /\ x < h * m + m
    BY Quotient
<1>2. ASSUME NEW a \in Nat, NEW b \in Nat, a < b PROVE a * m + m <= b * m
  <2>1. (a + 1) * m <= b * m
      BY <1>2, TimesMonotone
  <2>2. (a + 1) * m = a * m + m
      OBVIOUS
  <2> QED
      BY <2>1, <2>2
<1>3. g * m \in Nat
    OBVIOUS
<1>4. ~(g < h)
    BY <1>1, <1>2, <1>3
<1>5. ~(h < g)
    BY <1>1, <1>2, <1>3
<1> QED
    BY <1>1, <1>4, <1>5

(* The block of 2 * d edges that x ends in begins where the block of d     *)
(* does, or one such block before.                                         *)
SplitsBlock(x, d, p) ==
    /\ p \in Nat /\ p <= x /\ p \div d \in Nat /\ (p \div d) * d = p
    /\ (x \div d) % 2 = 1 => p + d = (x \div d) * d /\ p + d <= x
    /\ (x \div d) % 2 # 1 => p = (x \div d) * d
LEMMA HalfBlocks ==
    ASSUME NEW x \in Nat, NEW d \in Nat, d > 0
    PROVE  SplitsBlock(x, d, (x \div (d + d)) * (d + d))
<1> PICK p : p = (x \div (d + d)) * (d + d)
    OBVIOUS
<1> PICK q : q = x \div d
    OBVIOUS
<1> PICK m : m = d + d
    OBVIOUS
<1>1. q \in Nat /\ q * d \in Nat /\ q * d <= x /\ x < q * d + d
    BY Quotient
<1> PICK g : g = q \div 2
    OBVIOUS
<1>2. g \in Nat /\ (q = g + g \/ q = g + g + 1) /\ (q % 2 = 1 <=> q = g + g + 1)
    BY <1>1
<1>0. m \in Nat /\ m > 0
    OBVIOUS
<1>3. g * m = (g + g) * d /\ (g + g + 1) * d = g * m + d /\ g * m \in Nat
  <2>1. g * (d + d) = g * d + g * d /\ (g + g) * d = g * d + g * d /\ g * d \in Nat
        /\ (g + g + 1) * d = g * d + g * d + d
      BY <1>2
  <2> QED
      BY <1>0, <1>2, <2>1
<1>4. g * m <= x /\ x < g * m + m
    BY <1>1, <1>2, <1>3
<1>5. x \div m = g
    BY <1>0, <1>2, <1>4, QuotientIs
<1>6. p = g * m
    BY <1>5
<1>7. p \div d = g + g
  <2> PICK h \in Nat : h = g + g
      BY <1>2
  <2>1. h * d = p /\ p \in Nat /\ p < h * d + d
      BY <1>3, <1>6
  <2>2. p \div d = h
      BY <2>1, QuotientIs
  <2> QED
      BY <2>2
<1>8. (p \div d) * d = p /\ p \div d \in Nat /\ p \in Nat
    BY <1>2, <1>3, <1>6, <1>7
<1>9. q % 2 = 1 => p + d = q * d
    BY <1>2, <1>3, <1>6
<1>10. q % 2 # 1 => p = q * d
    BY <1>2, <1>3, <1>6
<1>11. SplitsBlock(x, d, p)
    BY <1>1, <1>4, <1>6, <1>8, <1>9, <1>10 DEF SplitsBlock
<1> QED
    BY <1>11

-----------------------------------------------------------------------------
(* The levels of a vertex with D edges. *)
LEMMA LevelSize ==
    ASSUME NEW D \in Nat, D > 0, NEW k \in 0..FloorLog2(D)
    PROVE  /\ D \div 2^k \in Nat /\ D \div 2^k > 0
           /\ 2^k \in Nat /\ 2^k > 0
           /\ (D \div 2^k) * 2^k \in Nat /\ (D \div 2^k) * 2^k <= D
<1>1. /\ FloorLog2(D) \in Nat /\ 2^FloorLog2(D) <= D
    BY FloorLog2Right
<1>2. k \in Nat /\ 2^k \in Nat /\ 2^k > 0 /\ 2^k <= 2^FloorLog2(D) /\ 2^FloorLog2(D) \in Nat
    BY <1>1, PowersRight
<1> DEFINE p == 2^k
<1>3. p \in Nat /\ p > 0 /\ D >= p
    BY <1>1, <1>2
<1> HIDE DEF p
<1>4. /\ D \div p \in Nat /\ D \div p > 0
      /\ (D \div p) * p \in Nat /\ (D \div p) * p <= D
    BY <1>3, Quotient
<1> QED
    BY <1>3, <1>4 DEF p

(* The edges of trunk (k, i) are edges of the vertex. *)
LEMMA TrunkSpan ==
    ASSUME NEW D \in Nat, D > 0, NEW k \in 0..FloorLog2(D),
           NEW i \in Nat, i < D \div 2^k
    PROVE  /\ i * 2^k \in Nat /\ (i + 1) * 2^k = i * 2^k + 2^k
           /\ i * 2^k + 2^k <= (D \div 2^k) * 2^k
           /\ i * 2^k + 2^k <= D
           /\ \A j \in Nat : i < j => i * 2^k + 2^k <= j * 2^k /\ j * 2^k \in Nat
<1> DEFINE p == 2^k
           q == D \div p
<1>1. q \in Nat /\ p \in Nat /\ p > 0 /\ q * p \in Nat /\ q * p <= D
    BY LevelSize
<1>2. i < q
    OBVIOUS
<1> HIDE DEF p, q
<1>3. (i + 1) * p = i * p + p /\ i * p \in Nat
    BY <1>1
<1>4. (i + 1) * p <= q * p
    BY <1>1, <1>2, TimesMonotone
<1>5. ASSUME NEW j \in Nat, i < j PROVE i * p + p <= j * p /\ j * p \in Nat
  <2>1. (i + 1) * p <= j * p
      BY <1>1, <1>5, TimesMonotone
  <2> QED
      BY <1>1, <1>3, <2>1
<1>6. i * p + p <= D
    BY <1>1, <1>3, <1>4
<1> QED
    BY <1>3, <1>4, <1>5, <1>6 DEF p, q

(* The levels of a vertex follow one another in its slices of the arenas. *)
LEMMA AliasLevels ==
    ASSUME NEW D \in Nat, D > 0
    PROVE  LET K == FloorLog2(D)
               o(k) == hpat_alias_level_offset(D, k)
               size(k) == (D \div 2^k) * 2^k
           IN  /\ \A k \in 0..K + 1 : o(k) \in Nat
               /\ o(0) = 0 /\ hpat_alias_entries_per_vertex(D) = o(K + 1)
               /\ \A k \in 0..K : o(k + 1) = o(k) + size(k) /\ o(k) + size(k) <= o(K + 1)
               /\ \A k, l \in 0..K : k < l => o(k) + size(k) <= o(l)
<1> DEFINE K == FloorLog2(D)
           n == K + 1
           size(k) == (D \div 2^k) * 2^k
           d == [k \in 0..K |-> size(k)]
           o == [k \in 0..n |-> RangeSum(d, 0, k - 1)]
<1>1. K \in Nat /\ n \in Nat /\ n - 1 = K
    BY FloorLog2Right
<1>2. \A k \in 0..K : size(k) \in Nat
    BY LevelSize
<1>3. d \in [0..n - 1 -> Nat] /\ \A k \in 0..K : d[k] = size(k)
    BY <1>1, <1>2
<1>4. ASSUME NEW k \in 0..n PROVE o[k] = hpat_alias_level_offset(D, k)
  <2>1. [kk \in 0..k - 1 |-> d[kk]] = [kk \in 0..k - 1 |-> (D \div 2^kk) * 2^kk]
    <3>1. \A kk \in 0..k - 1 : kk \in 0..K
        BY <1>1
    <3> QED
        BY <3>1
  <2> QED
      BY <2>1 DEF RangeSum, hpat_alias_level_offset
<1>5. o = [k \in 0..n |-> RangeSum(d, 0, k - 1)]
    OBVIOUS
<1>6. o[0] = 0
  <2>1. \A p \in 0..-1 : d[p] \in Nat
      OBVIOUS
  <2>2. RangeSum(d, 0, -1) = SumFunctionOnSet(d, 0..-1)
      BY <2>1, RangeSumRight
  <2>3. 0..-1 = {} /\ 0 \in 0..n /\ 0 - 1 = -1
      BY <1>1
  <2> QED
      BY <2>2, <2>3, SumEmpty
<1>7. hpat_alias_entries_per_vertex(D) = hpat_alias_level_offset(D, n)
  <2>1. ~(D <= 0)
      OBVIOUS
  <2>2. hpat_alias_entries_per_vertex(D) = SumFunction([kk \in 0..K |-> (D \div 2^kk) * 2^kk])
      BY <2>1 DEF hpat_alias_entries_per_vertex
  <2>3. hpat_alias_level_offset(D, n) = SumFunction([kk \in 0..n - 1 |-> (D \div 2^kk) * 2^kk])
      BY DEF hpat_alias_level_offset
  <2> QED
      BY <1>1, <2>2, <2>3
<1> HIDE DEF n, d, o, size
<1>8. /\ o \in [0..n -> Nat] /\ Consecutive(o, d, n)
      /\ \A v \in 0..n - 1 : o[v] + d[v] <= o[n]
      /\ \A v, w \in 0..n - 1 : v < w => o[v] + d[v] <= o[w]
    BY <1>1, <1>3, <1>5, SlicesOfSums
<1>9. /\ n \in 0..n /\ 0 \in 0..n
      /\ \A k \in 0..K : k \in 0..n /\ k + 1 \in 0..n /\ k \in 0..n - 1
    BY <1>1 DEF n
<1>10. \A k \in 0..K : o[k + 1] = o[k] + d[k]
    BY <1>8, <1>9 DEF Consecutive
<1>11. \A k \in 0..n : hpat_alias_level_offset(D, k) \in Nat
    BY <1>4, <1>8
<1>12. hpat_alias_level_offset(D, 0) = 0
    BY <1>4, <1>6, <1>9
<1>13. ASSUME NEW k \in 0..K
       PROVE  /\ hpat_alias_level_offset(D, k + 1) = hpat_alias_level_offset(D, k) + size(k)
              /\ hpat_alias_level_offset(D, k) + size(k) <= hpat_alias_level_offset(D, n)
    BY <1>3, <1>4, <1>8, <1>9, <1>10
<1>14. ASSUME NEW k \in 0..K, NEW l \in 0..K, k < l
       PROVE  hpat_alias_level_offset(D, k) + size(k) <= hpat_alias_level_offset(D, l)
    BY <1>3, <1>4, <1>8, <1>9, <1>14
<1> QED
    BY <1>7, <1>11, <1>12, <1>13, <1>14 DEF n, size

LEMMA TotalsLevels ==
    ASSUME NEW D \in Nat, D > 0
    PROVE  LET K == FloorLog2(D)
               o(k) == hpat_totals_level_offset(D, k)
               size(k) == D \div 2^k
           IN  /\ \A k \in 0..K + 1 : o(k) \in Nat
               /\ o(0) = 0 /\ hpat_trunks_per_vertex(D) = o(K + 1)
               /\ \A k \in 0..K : o(k + 1) = o(k) + size(k) /\ o(k) + size(k) <= o(K + 1)
               /\ \A k, l \in 0..K : k < l => o(k) + size(k) <= o(l)
<1> DEFINE K == FloorLog2(D)
           n == K + 1
           size(k) == D \div 2^k
           d == [k \in 0..K |-> size(k)]
           o == [k \in 0..n |-> RangeSum(d, 0, k - 1)]
<1>1. K \in Nat /\ n \in Nat /\ n - 1 = K
    BY FloorLog2Right
<1>2. \A k \in 0..K : size(k) \in Nat
    BY LevelSize
<1>3. d \in [0..n - 1 -> Nat] /\ \A k \in 0..K : d[k] = size(k)
    BY <1>1, <1>2
<1>4. ASSUME NEW k \in 0..n PROVE o[k] = hpat_totals_level_offset(D, k)
  <2>1. [kk \in 0..k - 1 |-> d[kk]] = [kk \in 0..k - 1 |-> D \div 2^kk]
    <3>1. \A kk \in 0..k - 1 : kk \in 0..K
        BY <1>1
    <3> QED
        BY <3>1
  <2> QED
      BY <2>1 DEF RangeSum, hpat_totals_level_offset
<1>5. o = [k \in 0..n |-> RangeSum(d, 0, k - 1)]
    OBVIOUS
<1>6. o[0] = 0
  <2>1. \A p \in 0..-1 : d[p] \in Nat
      OBVIOUS
  <2>2. RangeSum(d, 0, -1) = SumFunctionOnSet(d, 0..-1)
      BY <2>1, RangeSumRight
  <2>3. 0..-1 = {} /\ 0 \in 0..n /\ 0 - 1 = -1
      BY <1>1
  <2> QED
      BY <2>2, <2>3, SumEmpty
<1>7. hpat_trunks_per_vertex(D) = hpat_totals_level_offset(D, n)
  <2>1. ~(D <= 0)
      OBVIOUS
  <2>2. hpat_trunks_per_vertex(D) = SumFunction([kk \in 0..K |-> D \div 2^kk])
      BY <2>1 DEF hpat_trunks_per_vertex
  <2>3. hpat_totals_level_offset(D, n) = SumFunction([kk \in 0..n - 1 |-> D \div 2^kk])
      BY DEF hpat_totals_level_offset
  <2> QED
      BY <1>1, <2>2, <2>3
<1> HIDE DEF n, d, o, size
<1>8. /\ o \in [0..n -> Nat] /\ Consecutive(o, d, n)
      /\ \A v \in 0..n - 1 : o[v] + d[v] <= o[n]
      /\ \A v, w \in 0..n - 1 : v < w => o[v] + d[v] <= o[w]
    BY <1>1, <1>3, <1>5, SlicesOfSums
<1>9. /\ n \in 0..n /\ 0 \in 0..n
      /\ \A k \in 0..K : k \in 0..n /\ k + 1 \in 0..n /\ k \in 0..n - 1
    BY <1>1 DEF n
<1>10. \A k \in 0..K : o[k + 1] = o[k] + d[k]
    BY <1>8, <1>9 DEF Consecutive
<1>11. \A k \in 0..n : hpat_totals_level_offset(D, k) \in Nat
    BY <1>4, <1>8
<1>12. hpat_totals_level_offset(D, 0) = 0
    BY <1>4, <1>6, <1>9
<1>13. ASSUME NEW k \in 0..K
       PROVE  /\ hpat_totals_level_offset(D, k + 1) = hpat_totals_level_offset(D, k) + size(k)
              /\ hpat_totals_level_offset(D, k) + size(k) <= hpat_totals_level_offset(D, n)
    BY <1>3, <1>4, <1>8, <1>9, <1>10
<1>14. ASSUME NEW k \in 0..K, NEW l \in 0..K, k < l
       PROVE  hpat_totals_level_offset(D, k) + size(k) <= hpat_totals_level_offset(D, l)
    BY <1>3, <1>4, <1>8, <1>9, <1>14
<1> QED
    BY <1>7, <1>11, <1>12, <1>13, <1>14 DEF n, size
-----------------------------------------------------------------------------
(* Weights and slices. *)
LEMMA GraphRight ==
    ASSUME InputInv, phase # "unbuilt"
    PROVE  /\ N \in Nat /\ DOMAIN graph = Vertices /\ Vertices = 0..N - 1
           /\ \A u \in Vertices : graph[u] \in Seq(Int) /\ degree(u) \in Nat
<1>1. /\ IsFiniteSet(DOMAIN graph) /\ DOMAIN graph = 0..Cardinality(DOMAIN graph) - 1
      /\ \A v \in DOMAIN graph : graph[v] \in Seq(Int)
    BY ArenasAssumption DEF InputInv
<1>2. N \in Nat
    BY <1>1, FS_CardinalityType DEF N
<1>3. DOMAIN graph = Vertices /\ Vertices = 0..N - 1
    BY <1>1 DEF N, Vertices
<1>4. \A u \in Vertices : graph[u] \in Seq(Int)
    BY <1>1, <1>3
<1> QED
    BY <1>2, <1>3, <1>4 DEF degree

LEMMA WeightsRight ==
    ASSUME InputInv, phase # "unbuilt", NEW u \in Vertices
    PROVE  /\ weights(u) \in Seq(Nat) /\ Len(weights(u)) = degree(u)
           /\ compute_per_vertex_params(bias, graph[u]) \in Params
<1>1. bias.kind \in Kinds /\ bias.timescale_bound \in Int
    BY ArenasAssumption DEF InputInv, Kinds
<1>2. graph[u] \in Seq(Int)
    BY GraphRight
<1>3. compute_per_vertex_params(bias, graph[u]) \in Params
    BY <1>1, <1>2, ParamsTyped
<1> QED
    BY <1>1, <1>2, <1>3, WeightsTyped DEF weights, compute_weights_full, degree

LEMMA SumsRight ==
    ASSUME InputInv, phase # "unbuilt", NEW u \in Vertices,
           NEW a \in 1..degree(u) + 1, NEW b \in 0..degree(u)
    PROVE  Sum(weights(u), a, b) \in Nat
<1> DEFINE w == weights(u)
           d == degree(u)
<1>1. d \in Nat /\ \A p \in 1..d : w[p] \in Nat
  <2>1. w \in Seq(Nat) /\ Len(w) = d
      BY WeightsRight
  <2>2. d \in Nat
      BY GraphRight
  <2> HIDE DEF w, d
  <2> QED
      BY <2>1, <2>2
<1>2. Sum(w, a, b) = RangeSum(w, a, b)
    BY DEF Sum, RangeSum
<1>3. a \in Int /\ b \in Int /\ \A p \in a..b : w[p] \in Nat
    BY <1>1
<1> HIDE DEF w, d
<1>4. RangeSum(w, a, b) \in Nat
    BY <1>3, RangeSumRight
<1> QED
    BY <1>2, <1>4 DEF w

LEMMA DeepRight ==
    ASSUME InputInv, phase # "unbuilt", NEW u \in Vertices, Deep(u)
    PROVE  /\ degree(u) \in Nat /\ degree(u) > 0
           /\ Shape(u) => K_max[u] = FloorLog2(degree(u)) /\ K_max[u] \in Nat /\ ~is_solo[u]
<1>1. degree(u) \in Nat /\ kHpatDegreeThreshold \in Nat
    BY GraphRight, HpatAssumption
<1>2. degree(u) > 0
    BY <1>1 DEF Deep
<1> QED
    BY <1>1, <1>2, FloorLog2Right DEF Shape, Deep

LEMMA SizesRight ==
    ASSUME InputInv, phase # "unbuilt"
    PROVE  AliasSizes \in [0..N - 1 -> Nat] /\ TotalsSizes \in [0..N - 1 -> Nat]
<1>1. Vertices = 0..N - 1
    BY GraphRight
<1>2. ASSUME NEW u \in Vertices, Deep(u)
      PROVE  /\ hpat_alias_entries_per_vertex(degree(u)) \in Nat
             /\ hpat_trunks_per_vertex(degree(u)) \in Nat
  <2> DEFINE D == degree(u)
             K == FloorLog2(D)
  <2>1. D \in Nat /\ D > 0
      BY <1>2, DeepRight
  <2> HIDE DEF D
  <2>2. K \in Nat /\ K + 1 \in 0..K + 1
      BY <2>1, FloorLog2Right
  <2>3. hpat_alias_entries_per_vertex(D) \in Nat
      BY <2>1, <2>2, AliasLevels
  <2>4. hpat_trunks_per_vertex(D) \in Nat
      BY <2>1, <2>2, TotalsLevels
  <2> QED
      BY <2>3, <2>4 DEF D
<1> QED
    BY <1>1, <1>2, GraphRight DEF AliasSizes, TotalsSizes

LEMMA SlicesRight ==
    ASSUME InputInv, LayoutInv, Filling
    PROVE  /\ phase # "unbuilt" /\ N \in Nat /\ Vertices = 0..N - 1
           /\ alias_offsets[N] \in Nat /\ totals_offsets[N] \in Nat
           /\ \A u \in Vertices :
                  /\ Shape(u)
                  /\ alias_offsets[u] \in Nat /\ totals_offsets[u] \in Nat
                  /\ AliasSizes[u] \in Nat /\ TotalsSizes[u] \in Nat
                  /\ alias_offsets[u] + AliasSizes[u] <= alias_offsets[N]
                  /\ totals_offsets[u] + TotalsSizes[u] <= totals_offsets[N]
           /\ \A u, v \in Vertices : u < v =>
                  /\ alias_offsets[u] + AliasSizes[u] <= alias_offsets[v]
                  /\ totals_offsets[u] + TotalsSizes[u] <= totals_offsets[v]
<1>1. /\ phase # "unbuilt" /\ N \in Nat /\ Vertices = 0..N - 1
      /\ AliasSizes \in [0..N - 1 -> Nat] /\ TotalsSizes \in [0..N - 1 -> Nat]
    BY GraphRight, SizesRight DEF Filling
<1>2. /\ alias_offsets \in [0..N -> Nat] /\ Consecutive(alias_offsets, AliasSizes, N)
      /\ totals_offsets \in [0..N -> Nat] /\ Consecutive(totals_offsets, TotalsSizes, N)
      /\ \A u \in Vertices : Shape(u)
    BY <1>1 DEF LayoutInv
<1>3. /\ \A v \in 0..N - 1 : alias_offsets[v] + AliasSizes[v] <= alias_offsets[N]
      /\ \A v, w \in 0..N - 1 : v < w => alias_offsets[v] + AliasSizes[v] <= alias_offsets[w]
    BY <1>1, <1>2, SlicesDisjoint
<1>4. /\ \A v \in 0..N - 1 : totals_offsets[v] + TotalsSizes[v] <= totals_offsets[N]
      /\ \A v, w \in 0..N - 1 : v < w => totals_offsets[v] + TotalsSizes[v] <= totals_offsets[w]
    BY <1>1, <1>2, SlicesDisjoint
<1>5. N \in 0..N /\ \A v \in 0..N - 1 : v \in 0..N
    BY <1>1
<1> QED
    BY <1>1, <1>2, <1>3, <1>4, <1>5

(* Two blocks of cells in the slices of two vertices, or two that follow   *)
(* one another in one slice, have no cell in common.                       *)
LEMMA BlocksApart ==
    ASSUME InputInv, LayoutInv, Filling, NEW u \in Vertices, NEW v \in Vertices,
           NEW a \in Nat, NEW n \in Nat, a + n <= AliasSizes[u],
           NEW b \in Nat, NEW r \in Nat, b + r <= AliasSizes[v],
           NEW m \in 0..n - 1
    PROVE  /\ alias_offsets[u] + a + m \in 0..alias_offsets[N] - 1
           /\ (alias_offsets[u] + a + m) - (alias_offsets[u] + a) = m
           /\ u # v \/ a + n <= b \/ b + r <= a =>
                  (alias_offsets[u] + a + m) - (alias_offsets[v] + b) \notin 0..r - 1
<1> DEFINE o == alias_offsets[u]
           q == alias_offsets[v]
           e == alias_offsets[N]
           x == AliasSizes[u]
           y == AliasSizes[v]
<1>1. /\ o \in Nat /\ q \in Nat /\ e \in Nat /\ x \in Nat /\ y \in Nat /\ o + x <= e
      /\ u < v => o + x <= q
      /\ v < u => q + y <= o
      /\ u = v => o = q
    BY SlicesRight
<1>2. u < v \/ v < u \/ u = v
    BY SlicesRight
<1>3. a + n <= x /\ b + r <= y /\ m \in Nat /\ m < n
    OBVIOUS
<1> HIDE DEF o, q, e, x, y
<1>4. o + a + m \in 0..e - 1 /\ (o + a + m) - (o + a) = m
    BY <1>1, <1>3
<1>5. ASSUME u # v \/ a + n <= b \/ b + r <= a PROVE (o + a + m) - (q + b) \notin 0..r - 1
    BY <1>1, <1>2, <1>3, <1>5
<1> QED
    BY <1>4, <1>5 DEF o, q, e

LEMMA BlockCells ==
    ASSUME InputInv, LayoutInv, Filling, NEW u \in Vertices,
           NEW a \in Nat, NEW n \in Nat, a + n <= AliasSizes[u], NEW m \in 0..n - 1
    PROVE  /\ alias_offsets[u] + a + m \in 0..alias_offsets[N] - 1
           /\ (alias_offsets[u] + a + m) - (alias_offsets[u] + a) = m
<1> DEFINE o == alias_offsets[u]
           e == alias_offsets[N]
           x == AliasSizes[u]
<1>1. o \in Nat /\ e \in Nat /\ x \in Nat /\ o + x <= e
    BY SlicesRight
<1>2. a + n <= x
    OBVIOUS
<1> HIDE DEF o, e, x
<1>3. o + a + m \in 0..e - 1 /\ (o + a + m) - (o + a) = m
    BY <1>1, <1>2
<1> QED
    BY <1>3 DEF o, e

LEMMA TotalsApart ==
    ASSUME InputInv, LayoutInv, Filling, NEW u \in Vertices, NEW v \in Vertices,
           NEW a \in Nat, a < TotalsSizes[u], NEW b \in Nat, b < TotalsSizes[v]
    PROVE  /\ totals_offsets[u] + a \in 0..totals_offsets[N] - 1
           /\ u # v \/ a # b => totals_offsets[u] + a # totals_offsets[v] + b
<1> DEFINE o == totals_offsets[u]
           q == totals_offsets[v]
           e == totals_offsets[N]
           x == TotalsSizes[u]
           y == TotalsSizes[v]
<1>1. /\ o \in Nat /\ q \in Nat /\ e \in Nat /\ x \in Nat /\ y \in Nat /\ o + x <= e
      /\ u < v => o + x <= q
      /\ v < u => q + y <= o
      /\ u = v => o = q
    BY SlicesRight
<1>2. u < v \/ v < u \/ u = v
    BY SlicesRight
<1>3. a < x /\ b < y
    OBVIOUS
<1> HIDE DEF o, q, e, x, y
<1>4. o + a \in 0..e - 1
    BY <1>1, <1>3
<1>5. u # v \/ a # b => o + a # q + b
    BY <1>1, <1>2, <1>3
<1> QED
    BY <1>4, <1>5 DEF o, q, e

(* Where the trunks of one vertex are in its slices. *)
LEMMA TrunkPlaces ==
    ASSUME InputInv, LayoutInv, Filling, NEW u \in Vertices, Deep(u),
           NEW k \in 0..K_max[u], NEW i \in Nat, i < degree(u) \div 2^k
    PROVE  /\ AliasAt(u, k, i) \in Nat /\ 2^k \in Nat /\ 2^k > 0 /\ TotalAt(u, k, i) \in Nat
           /\ AliasAt(u, k, i) + 2^k <= AliasSizes[u] /\ TotalAt(u, k, i) < TotalsSizes[u]
           /\ i * 2^k \in Nat /\ (i + 1) * 2^k = i * 2^k + 2^k /\ i * 2^k + 2^k <= degree(u)
           /\ AliasAt(u, k, i + 1) = AliasAt(u, k, i) + 2^k
           /\ TotalAt(u, k, i + 1) = TotalAt(u, k, i) + 1
           /\ i + 1 = degree(u) \div 2^k =>
                  /\ AliasAt(u, k + 1, 0) = AliasAt(u, k, i) + 2^k
                  /\ TotalAt(u, k + 1, 0) = TotalAt(u, k, i) + 1
<1> DEFINE D == degree(u)
           K == FloorLog2(D)
           o == hpat_alias_level_offset(D, k)
           t == hpat_totals_level_offset(D, k)
           p == 2^k
           n == D \div p
<1>1. /\ D \in Nat /\ D > 0 /\ K_max[u] = K /\ K \in Nat
    BY SlicesRight, DeepRight DEF Filling
<1>2. /\ AliasSizes[u] = hpat_alias_level_offset(D, K + 1)
      /\ TotalsSizes[u] = hpat_totals_level_offset(D, K + 1)
    BY <1>1, AliasLevels, TotalsLevels DEF AliasSizes, TotalsSizes
<1>3. /\ AliasAt(u, k, i) = o + i * p /\ TotalAt(u, k, i) = t + i
      /\ AliasAt(u, k, i + 1) = o + (i + 1) * p /\ TotalAt(u, k, i + 1) = t + (i + 1)
    BY DEF AliasAt, TotalAt
<1>4. k \in 0..K /\ k \in 0..K + 1 /\ k \in Nat /\ i < n
    BY <1>1
<1> HIDE DEF D
<1>5. o \in Nat /\ o + n * p <= hpat_alias_level_offset(D, K + 1)
      /\ hpat_alias_level_offset(D, k + 1) = o + n * p
    BY <1>1, <1>4, AliasLevels
<1>6. t \in Nat /\ t + n <= hpat_totals_level_offset(D, K + 1)
      /\ hpat_totals_level_offset(D, k + 1) = t + n
    BY <1>1, <1>4, TotalsLevels
<1>7. /\ n \in Nat /\ n > 0 /\ p \in Nat /\ p > 0 /\ n * p \in Nat /\ n * p <= D
    BY <1>1, <1>4, LevelSize
<1>8. /\ i * p \in Nat /\ (i + 1) * p = i * p + p /\ i * p + p <= n * p /\ i * p + p <= D
    BY <1>1, <1>4, TrunkSpan
<1>9. ASSUME i + 1 = n
      PROVE  AliasAt(u, k + 1, 0) = o + i * p + p /\ TotalAt(u, k + 1, 0) = t + i + 1
  <2>1. 0 * 2^(k + 1) = 0
    <3>1. 2^(k + 1) \in Nat
        BY <1>4, PowersRight
    <3> QED
        BY <3>1
  <2>2. AliasAt(u, k + 1, 0) = o + n * p /\ TotalAt(u, k + 1, 0) = t + n
      BY <1>5, <1>6, <1>7, <2>1 DEF AliasAt, TotalAt, D
  <2>3. n * p = i * p + p
      BY <1>8, <1>9
  <2> HIDE DEF o, t, p, n
  <2> DEFINE x == i * p
  <2>4. x \in Nat
      BY <1>8
  <2> HIDE DEF x
  <2>5. n * p = x + p
      BY <2>3 DEF x
  <2>6. o + (x + p) = o + x + p /\ t + n = t + i + 1
      BY <1>5, <1>6, <1>7, <1>9, <2>4
  <2> QED
      BY <2>2, <2>5, <2>6 DEF x
<1> DEFINE x == i * p
           z == n * p
<1> HIDE DEF o, t, p, n, x, z, K
<1>10. /\ o \in Nat /\ x \in Nat /\ p \in Nat /\ p > 0 /\ o + z <= AliasSizes[u] /\ z \in Nat
       /\ x + p <= z /\ AliasSizes[u] \in Nat
    BY <1>2, <1>5, <1>7, <1>8, SlicesRight DEF x, z
<1>11. t \in Nat /\ n \in Nat /\ i < n /\ t + n <= TotalsSizes[u] /\ TotalsSizes[u] \in Nat
    BY <1>2, <1>4, <1>6, <1>7, SlicesRight
<1>12. o + x \in Nat /\ (o + x) + p <= AliasSizes[u] /\ o + (x + p) = (o + x) + p
    BY <1>10
<1>13. t + i \in Nat /\ t + i < TotalsSizes[u] /\ t + (i + 1) = (t + i) + 1
    BY <1>11
<1>14. (i + 1) * p = x + p /\ x + p <= D
    BY <1>8 DEF x
<1> QED
    BY <1>3, <1>9, <1>10, <1>12, <1>13, <1>14 DEF x, p, n, D

LEMMA TrunksApart ==
    ASSUME InputInv, LayoutInv, Filling, NEW u \in Vertices, Deep(u),
           NEW k \in 0..K_max[u], NEW i \in Nat, i < degree(u) \div 2^k,
           NEW l \in 0..K_max[u], NEW j \in Nat, j < degree(u) \div 2^l,
           k < l \/ (k = l /\ i < j)
    PROVE  AliasAt(u, k, i) + 2^k <= AliasAt(u, l, j) /\ TotalAt(u, k, i) < TotalAt(u, l, j)
<1> DEFINE D == degree(u)
           K == FloorLog2(D)
           p == 2^k
           q == 2^l
           n == D \div p
           o == hpat_alias_level_offset(D, k)
           t == hpat_totals_level_offset(D, k)
           a == hpat_alias_level_offset(D, l)
           b == hpat_totals_level_offset(D, l)
<1>1. /\ D \in Nat /\ D > 0 /\ K_max[u] = K /\ K \in Nat
    BY SlicesRight, DeepRight DEF Filling
<1>2. /\ AliasAt(u, k, i) = o + i * p /\ TotalAt(u, k, i) = t + i
      /\ AliasAt(u, l, j) = a + j * q /\ TotalAt(u, l, j) = b + j
    BY DEF AliasAt, TotalAt
<1>3. /\ k \in 0..K /\ k \in 0..K + 1 /\ i < n
      /\ l \in 0..K /\ l \in 0..K + 1 /\ j < D \div q
    BY <1>1
<1> HIDE DEF D
<1>4. /\ o \in Nat /\ a \in Nat
      /\ k < l => o + n * p <= a
    BY <1>1, <1>3, AliasLevels
<1>5. /\ t \in Nat /\ b \in Nat
      /\ k < l => t + n <= b
    BY <1>1, <1>3, TotalsLevels
<1>6. /\ n \in Nat /\ n > 0 /\ p \in Nat /\ p > 0 /\ n * p \in Nat
    BY <1>1, <1>3, LevelSize
<1>7. /\ i * p \in Nat /\ i * p + p <= n * p
      /\ \A x \in Nat : i < x => i * p + p <= x * p /\ x * p \in Nat
    BY <1>1, <1>3, TrunkSpan
<1>8. j * q \in Nat
    BY <1>1, <1>3, TrunkSpan
<1>9. k = l => o = a /\ t = b /\ p = q
    OBVIOUS
<1>10. k = l => i * p + p <= j * q
    BY <1>7, <1>9
<1> DEFINE x == i * p
           y == j * q
           z == n * p
<1> HIDE DEF p, q, n, o, t, a, b, x, y, z, K
<1>11. /\ o \in Nat /\ a \in Nat /\ x \in Nat /\ y \in Nat /\ z \in Nat /\ p \in Nat /\ x + p <= z
       /\ k < l => o + z <= a
       /\ k = l => o = a /\ x + p <= y
    BY <1>4, <1>6, <1>7, <1>8, <1>9, <1>10 DEF x, y, z
<1>12. (o + x) + p <= a + y
    BY <1>11
<1>13. t + i < b + j
    BY <1>3, <1>5, <1>6, <1>9
<1> QED
    BY <1>2, <1>12, <1>13 DEF x, y, p

-----------------------------------------------------------------------------
(* What is derived from the input of a build stays as the input does. *)
LEMMA SameInput ==
    ASSUME UNCHANGED args
    PROVE  /\ N' = N /\ Vertices' = Vertices
           /\ graph' = graph /\ bias' = bias /\ aux_budget_bytes' = aux_budget_bytes
           /\ \A u : /\ degree(u)' = degree(u) /\ weights(u)' = weights(u)
                     /\ (Deep(u) <=> Deep(u)')
           /\ AliasSizes' = AliasSizes /\ TotalsSizes' = TotalsSizes
           /\ \A u, k, i : /\ AliasAt(u, k, i)' = AliasAt(u, k, i)
                           /\ TotalAt(u, k, i)' = TotalAt(u, k, i)
                           /\ TrunkWeights(u, k, i)' = TrunkWeights(u, k, i)
<1>1. graph' = graph /\ bias' = bias /\ aux_budget_bytes' = aux_budget_bytes
    BY DEF args
<1>2. N' = N
    BY <1>1 DEF N
<1>3. Vertices' = Vertices
    BY <1>2 DEF Vertices
<1>4. \A u : degree(u)' = degree(u) /\ weights(u)' = weights(u)
    BY <1>1 DEF degree, weights
<1>5. \A u : Deep(u) <=> Deep(u)'
    BY <1>4 DEF Deep
<1>6. AliasSizes' = AliasSizes /\ TotalsSizes' = TotalsSizes
    BY <1>3, <1>4, <1>5 DEF AliasSizes, TotalsSizes
<1>7. \A u, k, i : /\ AliasAt(u, k, i)' = AliasAt(u, k, i)
                   /\ TotalAt(u, k, i)' = TotalAt(u, k, i)
                   /\ TrunkWeights(u, k, i)' = TrunkWeights(u, k, i)
    BY <1>4 DEF AliasAt, TotalAt, TrunkWeights
<1> QED
    BY <1>1, <1>2, <1>3, <1>4, <1>5, <1>6, <1>7

-----------------------------------------------------------------------------
(* Laying out the slices. *)
LEMMA InitFill == Init => FillInv
BY DEF Init, FillInv, InputInv, LayoutInv, ArenasInv, ProgressInv, StoredInv, Filling

LEMMA NoSteps == ASSUME NEW m \in Nat PROVE \A o, d : StepsTo(o, d, m, 0, 0)
<1>1. \A v \in 0..m - 1 : ~(v < 0)
    OBVIOUS
<1> QED
    BY <1>1, Zenon DEF StepsTo

LEMMA StartBuildFill ==
    ASSUME FillInv, StartBuild PROVE FillInv'
<1>1. /\ graph' \in Graphs /\ bias' \in Biases /\ aux_budget_bytes' \in Budgets
      /\ phase' = "layout" /\ scan' = 0 /\ alias_size' = 0 /\ totals_size' = 0
      /\ K_max' = [u \in DOMAIN graph' |-> -1] /\ is_solo' = [u \in DOMAIN graph' |-> FALSE]
      /\ bias_params' = [u \in DOMAIN graph' |-> NoParams]
    BY DEF StartBuild
<1>2. /\ alias_offsets' = [u \in 0..N' |-> 0] /\ totals_offsets' = [u \in 0..N' |-> 0]
    BY DEF StartBuild, N
<1>3. /\ IsFiniteSet(DOMAIN graph') /\ DOMAIN graph' = 0..Cardinality(DOMAIN graph') - 1
    BY <1>1, ArenasAssumption
<1>4. N' \in Nat
    BY <1>3, FS_CardinalityType DEF N
<1>5. DOMAIN graph' = Vertices' /\ Vertices' = 0..N' - 1
    BY <1>3 DEF N, Vertices
<1>6. NoParams \in Params
    BY DEF NoParams, Params
<1>7. InputInv'
    BY <1>1, <1>5, <1>6 DEF InputInv
<1>8. /\ StepsTo(alias_offsets, AliasSizes, N, scan, alias_size)'
      /\ StepsTo(totals_offsets, TotalsSizes, N, scan, totals_size)'
  <2>1. /\ StepsTo(alias_offsets', AliasSizes', N', 0, 0)
        /\ StepsTo(totals_offsets', TotalsSizes', N', 0, 0)
      BY <1>4, NoSteps
  <2>2. /\ StepsTo(alias_offsets', AliasSizes', N', scan', alias_size')
        /\ StepsTo(totals_offsets', TotalsSizes', N', scan', totals_size')
      BY <1>1, <2>1
  <2> QED
      BY <2>2 DEF StepsTo
<1>9. LayoutInv'
  <2>1. /\ K_max' \in [Vertices' -> Nat \cup {-1}] /\ is_solo' \in [Vertices' -> BOOLEAN]
        /\ alias_offsets' \in [0..N' -> Nat] /\ totals_offsets' \in [0..N' -> Nat]
      BY <1>1, <1>2, <1>5
  <2>2. \A u \in Vertices' : ~(u < scan') /\ K_max'[u] = -1
      BY <1>1, <1>4, <1>5
  <2>3. scan' \in 0..N' /\ alias_size' \in Nat /\ totals_size' \in Nat
      BY <1>1, <1>4
  <2> QED
      BY <1>1, <1>8, <2>1, <2>2, <2>3 DEF LayoutInv, Filling
<1> QED
    BY <1>1, <1>7, <1>9 DEF FillInv, ArenasInv, ProgressInv, StoredInv, Filling

LEMMA LayoutVertexFill ==
    ASSUME FillInv, LayoutVertex PROVE FillInv'
<1> DEFINE D == degree(scan)
<1>1. /\ phase = "layout" /\ phase' = phase /\ scan < N /\ scan' = scan + 1
      /\ alias_offsets' = [alias_offsets EXCEPT ![scan] = alias_size]
      /\ totals_offsets' = [totals_offsets EXCEPT ![scan] = totals_size]
      /\ is_solo' = [is_solo EXCEPT ![scan] = (D > 0 /\ D <= kHpatDegreeThreshold)]
      /\ K_max' = [K_max EXCEPT ![scan] = IF Deep(scan) THEN FloorLog2(D) ELSE @]
      /\ alias_size' = alias_size +
             IF Deep(scan) THEN hpat_alias_entries_per_vertex(D) ELSE D
      /\ totals_size' = totals_size + IF Deep(scan) THEN hpat_trunks_per_vertex(D) ELSE 0
      /\ UNCHANGED args /\ bias_params' = bias_params
    BY DEF LayoutVertex, Deep
<1>2. /\ N' = N /\ Vertices' = Vertices /\ AliasSizes' = AliasSizes /\ TotalsSizes' = TotalsSizes
      /\ \A u : degree(u)' = degree(u) /\ (Deep(u) <=> Deep(u)')
      /\ graph' = graph /\ bias' = bias /\ aux_budget_bytes' = aux_budget_bytes
    BY <1>1, SameInput
<1>3. InputInv'
    BY <1>1, <1>2 DEF FillInv, InputInv
<1>4. /\ InputInv /\ phase # "unbuilt" /\ N \in Nat /\ Vertices = 0..N - 1
      /\ AliasSizes \in [0..N - 1 -> Nat] /\ TotalsSizes \in [0..N - 1 -> Nat]
    BY <1>1, GraphRight, SizesRight DEF FillInv
<1>5. /\ alias_offsets \in [0..N -> Nat] /\ totals_offsets \in [0..N -> Nat]
      /\ scan \in 0..N /\ alias_size \in Nat /\ totals_size \in Nat
      /\ StepsTo(alias_offsets, AliasSizes, N, scan, alias_size)
      /\ StepsTo(totals_offsets, TotalsSizes, N, scan, totals_size)
      /\ K_max \in [Vertices -> Nat \cup {-1}] /\ is_solo \in [Vertices -> BOOLEAN]
      /\ \A u \in Vertices : u < scan => Shape(u)
      /\ \A u \in Vertices : u >= scan => K_max[u] = -1
    BY <1>1 DEF FillInv, LayoutInv
<1>6. scan \in 0..N - 1 /\ scan \in Vertices
    BY <1>1, <1>4, <1>5
<1>7. /\ alias_size' = alias_size + AliasSizes[scan]
      /\ totals_size' = totals_size + TotalsSizes[scan]
    BY <1>1, <1>6 DEF AliasSizes, TotalsSizes
<1>8. StepsTo(alias_offsets', AliasSizes, N, scan', alias_size')
    BY <1>1, <1>4, <1>5, <1>6, <1>7, StepsOn
<1>9. StepsTo(totals_offsets', TotalsSizes, N, scan', totals_size')
    BY <1>1, <1>4, <1>5, <1>6, <1>7, StepsOn
<1>10. /\ StepsTo(alias_offsets, AliasSizes, N, scan, alias_size)'
       /\ StepsTo(totals_offsets, TotalsSizes, N, scan, totals_size)'
    BY <1>2, <1>8, <1>9 DEF StepsTo
<1>11. /\ AliasSizes[scan] \in Nat /\ TotalsSizes[scan] \in Nat
       /\ alias_size' \in Nat /\ totals_size' \in Nat
  <2>1. AliasSizes[scan] \in Nat /\ TotalsSizes[scan] \in Nat
      BY <1>4, <1>6
  <2>2. alias_size \in Nat /\ totals_size \in Nat
      BY <1>5
  <2> QED
      BY <1>7, <2>1, <2>2
<1>12. D \in Nat
    BY <1>4, <1>6, GraphRight
<1>13. Deep(scan) => FloorLog2(D) \in Nat
    BY <1>4, <1>6, DeepRight, FloorLog2Right
<1>14. /\ K_max' \in [Vertices -> Nat \cup {-1}] /\ is_solo' \in [Vertices -> BOOLEAN]
       /\ \A u \in Vertices : u # scan => K_max'[u] = K_max[u] /\ is_solo'[u] = is_solo[u]
       /\ K_max'[scan] = IF Deep(scan) THEN FloorLog2(D) ELSE -1
       /\ is_solo'[scan] <=> D > 0 /\ D <= kHpatDegreeThreshold
  <2>1. K_max[scan] = -1
      BY <1>5, <1>6
  <2> HIDE DEF D
  <2> QED
      BY <1>1, <1>5, <1>6, <1>13, <2>1
<1>15. ASSUME NEW u \in Vertices, u < scan + 1 PROVE Shape(u)'
  <2>1. CASE u = scan
      BY <1>2, <1>14, <2>1 DEF Shape
  <2>2. CASE u # scan
    <3>1. Shape(u)
        BY <1>4, <1>5, <1>15, <2>2
    <3> QED
        BY <1>2, <1>14, <2>2, <3>1 DEF Shape
  <2> QED
      BY <2>1, <2>2
<1>16. ASSUME NEW u \in Vertices, u >= scan + 1 PROVE K_max'[u] = -1
    BY <1>4, <1>5, <1>14, <1>16
<1>17. /\ alias_offsets' \in [0..N -> Nat] /\ totals_offsets' \in [0..N -> Nat]
       /\ scan' \in 0..N
  <2>1. /\ alias_offsets \in [0..N -> Nat] /\ totals_offsets \in [0..N -> Nat]
        /\ alias_size \in Nat /\ totals_size \in Nat
      BY <1>5
  <2>2. scan + 1 \in 0..N
      BY <1>4, <1>6
  <2> QED
      BY <1>1, <2>1, <2>2
<1> HIDE DEF D
<1>18. LayoutInv'
  <2>1. \A u \in Vertices' : u < scan' => Shape(u)'
      BY <1>1, <1>2, <1>15
  <2>2. \A u \in Vertices' : u >= scan' => K_max'[u] = -1
      BY <1>1, <1>2, <1>16
  <2> QED
      BY <1>1, <1>2, <1>10, <1>11, <1>14, <1>17, <2>1, <2>2 DEF LayoutInv, Filling
<1> QED
    BY <1>1, <1>3, <1>18 DEF FillInv, ArenasInv, ProgressInv, StoredInv, Filling

LEMMA AllocateArenasFill ==
    ASSUME FillInv, AllocateArenas PROVE FillInv'
<1>1. /\ phase = "layout" /\ scan = N /\ phase' = "fill"
      /\ alias_offsets' = [alias_offsets EXCEPT ![N] = alias_size]
      /\ totals_offsets' = [totals_offsets EXCEPT ![N] = totals_size]
      /\ alias_arena' = [c \in 0..alias_size - 1 |-> Blank]
      /\ trunk_totals' = [c \in 0..totals_size - 1 |-> 0]
      /\ at' = [u \in Vertices |-> [k |-> 0, i |-> 0, alias |-> 0, totals |-> 0]]
      /\ filled' = {u \in Vertices : degree(u) = 0}
      /\ UNCHANGED args /\ K_max' = K_max /\ is_solo' = is_solo /\ bias_params' = bias_params
    BY DEF AllocateArenas
<1>2. /\ N' = N /\ Vertices' = Vertices /\ AliasSizes' = AliasSizes /\ TotalsSizes' = TotalsSizes
      /\ \A u : degree(u)' = degree(u) /\ (Deep(u) <=> Deep(u)')
      /\ graph' = graph /\ bias' = bias /\ aux_budget_bytes' = aux_budget_bytes
      /\ \A u, k, i : AliasAt(u, k, i)' = AliasAt(u, k, i) /\ TotalAt(u, k, i)' = TotalAt(u, k, i)
    BY <1>1, SameInput
<1>3. InputInv'
    BY <1>1, <1>2 DEF FillInv, InputInv
<1>4. /\ InputInv /\ phase # "unbuilt" /\ N \in Nat /\ Vertices = 0..N - 1
      /\ AliasSizes \in [0..N - 1 -> Nat] /\ TotalsSizes \in [0..N - 1 -> Nat]
    BY <1>1, GraphRight, SizesRight DEF FillInv
<1>5. /\ alias_offsets \in [0..N -> Nat] /\ totals_offsets \in [0..N -> Nat]
      /\ alias_size \in Nat /\ totals_size \in Nat
      /\ StepsTo(alias_offsets, AliasSizes, N, N, alias_size)
      /\ StepsTo(totals_offsets, TotalsSizes, N, N, totals_size)
      /\ K_max \in [Vertices -> Nat \cup {-1}] /\ is_solo \in [Vertices -> BOOLEAN]
      /\ \A u \in Vertices : u < N => Shape(u)
    BY <1>1 DEF FillInv, LayoutInv
<1>6. Consecutive(alias_offsets', AliasSizes, N) /\ Consecutive(totals_offsets', TotalsSizes, N)
    BY <1>1, <1>4, <1>5, StepsEnd
<1>7. /\ Consecutive(alias_offsets, AliasSizes, N)' /\ Consecutive(totals_offsets, TotalsSizes, N)'
    BY <1>2, <1>6 DEF Consecutive
<1>8. /\ alias_offsets' \in [0..N -> Nat] /\ alias_offsets'[N] = alias_size
      /\ totals_offsets' \in [0..N -> Nat] /\ totals_offsets'[N] = totals_size
  <2>1. /\ alias_offsets \in [0..N -> Nat] /\ totals_offsets \in [0..N -> Nat]
        /\ alias_size \in Nat /\ totals_size \in Nat
      BY <1>5
  <2>2. N \in 0..N
      BY <1>4
  <2> QED
      BY <1>1, <2>1, <2>2
<1>9. ASSUME NEW u \in Vertices PROVE Shape(u) /\ Shape(u)'
  <2>1. Shape(u)
      BY <1>4, <1>5
  <2> QED
      BY <1>1, <1>2, <2>1 DEF Shape
<1>10. LayoutInv'
  <2>1. /\ K_max' \in [Vertices' -> Nat \cup {-1}] /\ is_solo' \in [Vertices' -> BOOLEAN]
        /\ alias_offsets' \in [0..N' -> Nat] /\ totals_offsets' \in [0..N' -> Nat]
      BY <1>1, <1>2, <1>5, <1>8
  <2>2. \A u \in Vertices' : Shape(u)'
      BY <1>2, <1>9
  <2> QED
      BY <1>1, <1>7, <2>1, <2>2 DEF LayoutInv
<1>11. at' \in [Vertices -> [k : Nat, i : Nat, alias : Nat, totals : Nat]]
    BY <1>1
<1>12. ArenasInv'
  <2>1. DOMAIN alias_arena' = 0..alias_offsets'[N'] - 1
      BY <1>1, <1>2, <1>8
  <2>2. trunk_totals' \in [0..totals_offsets'[N'] - 1 -> Nat]
      BY <1>1, <1>2, <1>8
  <2>3. filled' \subseteq Vertices' /\ \A u \in Vertices' : degree(u)' = 0 => u \in filled'
      BY <1>1, <1>2
  <2> QED
      BY <1>2, <1>11, <2>1, <2>2, <2>3 DEF ArenasInv
<1>13. ASSUME NEW u \in Vertices, Deep(u)
       PROVE  /\ K_max[u] \in Nat /\ 0 < degree(u) \div 2^0
              /\ 0 = AliasAt(u, 0, 0) /\ 0 = TotalAt(u, 0, 0)
  <2> DEFINE D == degree(u)
             K == FloorLog2(D)
  <2>1. D \in Nat /\ D > 0 /\ K_max[u] = K /\ K \in Nat
      BY <1>4, <1>9, <1>13, DeepRight
  <2>2. 0 \in 0..K
      BY <2>1
  <2>3. AliasAt(u, 0, 0) = hpat_alias_level_offset(D, 0) + 0 * 2^0
      BY DEF AliasAt
  <2>4. TotalAt(u, 0, 0) = hpat_totals_level_offset(D, 0) + 0
      BY DEF TotalAt
  <2> HIDE DEF D
  <2>5. hpat_alias_level_offset(D, 0) = 0 /\ hpat_totals_level_offset(D, 0) = 0
      BY <2>1, AliasLevels, TotalsLevels
  <2>6. D \div 2^0 \in Nat /\ D \div 2^0 > 0 /\ 2^0 \in Nat
      BY <2>1, <2>2, LevelSize
  <2>7. 0 * 2^0 = 0
      BY <2>6
  <2> QED
      BY <2>1, <2>3, <2>4, <2>5, <2>6, <2>7 DEF D
<1>14. ProgressInv'
  <2> SUFFICES ASSUME NEW u \in Vertices, Deep(u)
               PROVE  LET c == at'[u]
                      IN  /\ c.k <= K_max'[u] => c.i < degree(u) \div 2^c.k
                          /\ c.k <= K_max'[u] + 1
                          /\ c.k > K_max'[u] => c.i = 0
                          /\ u \notin filled' => c.k <= K_max'[u]
                          /\ c.alias = AliasAt(u, c.k, c.i)
                          /\ c.totals = TotalAt(u, c.k, c.i)
      BY <1>2 DEF ProgressInv
  <2>1. at'[u].k = 0 /\ at'[u].i = 0 /\ at'[u].alias = 0 /\ at'[u].totals = 0
      BY <1>1
  <2>2. /\ K_max'[u] \in Nat /\ 0 < degree(u) \div 2^0
        /\ 0 = AliasAt(u, 0, 0) /\ 0 = TotalAt(u, 0, 0)
      BY <1>1, <1>13
  <2> QED
      BY <2>1, <2>2
<1>15. StoredInv'
  <2> SUFFICES ASSUME NEW u \in Vertices
               PROVE  /\ ~(is_solo'[u] /\ u \in filled')
                      /\ \A k \in Nat, i \in Nat : ~Behind(u, k, i)'
    <3>1. ASSUME NEW v \in Vertices, Deep(v)
          PROVE  /\ K_max'[v] \in Nat
                 /\ \A k \in 0..K_max'[v] : \A i \in 0..degree(v) \div 2^k - 1 :
                        k \in Nat /\ i \in Nat
        BY <1>1, <1>13, <3>1
    <3> QED
        BY <1>2, <3>1 DEF StoredInv
  <2>1. is_solo'[u] => degree(u) # 0
    <3>1. degree(u) \in Nat /\ Shape(u)
        BY <1>4, <1>9, GraphRight
    <3> QED
        BY <1>1, <3>1 DEF Shape
  <2>2. u \in filled' => degree(u) = 0
      BY <1>1
  <2>3. at'[u].k = 0 /\ at'[u].i = 0
      BY <1>1
  <2> QED
      BY <2>1, <2>2, <2>3 DEF Behind
<1> QED
    BY <1>3, <1>10, <1>12, <1>14, <1>15 DEF FillInv

-----------------------------------------------------------------------------
(* Filling the arenas. *)
LEMMA SameShape ==
    ASSUME UNCHANGED args, UNCHANGED layout
    PROVE  /\ K_max' = K_max /\ is_solo' = is_solo
           /\ alias_offsets' = alias_offsets /\ totals_offsets' = totals_offsets
           /\ LayoutInv /\ Filling /\ Filling' => LayoutInv'
<1>1. /\ K_max' = K_max /\ is_solo' = is_solo
      /\ alias_offsets' = alias_offsets /\ totals_offsets' = totals_offsets
    BY DEF layout
<1>2. /\ N' = N /\ Vertices' = Vertices /\ AliasSizes' = AliasSizes /\ TotalsSizes' = TotalsSizes
      /\ \A u : degree(u)' = degree(u) /\ (Deep(u) <=> Deep(u)')
    BY SameInput
<1>3. \A u : Shape(u) => Shape(u)'
    BY <1>1, <1>2 DEF Shape
<1>4. /\ Consecutive(alias_offsets, AliasSizes, N) => Consecutive(alias_offsets, AliasSizes, N)'
      /\ Consecutive(totals_offsets, TotalsSizes, N) => Consecutive(totals_offsets, TotalsSizes, N)'
    BY <1>1, <1>2 DEF Consecutive
<1>5. ASSUME LayoutInv, Filling, Filling' PROVE LayoutInv'
  <2>1. /\ K_max' \in [Vertices' -> Nat \cup {-1}] /\ is_solo' \in [Vertices' -> BOOLEAN]
        /\ alias_offsets' \in [0..N' -> Nat] /\ totals_offsets' \in [0..N' -> Nat]
      BY <1>1, <1>2, <1>5 DEF LayoutInv, Filling
  <2>2. /\ Consecutive(alias_offsets, AliasSizes, N)'
        /\ Consecutive(totals_offsets, TotalsSizes, N)'
        /\ \A u \in Vertices' : Shape(u)'
      BY <1>2, <1>3, <1>4, <1>5 DEF LayoutInv
  <2>3. phase' # "layout"
      BY <1>5 DEF Filling
  <2> QED
      BY <2>1, <2>2, <2>3 DEF LayoutInv
<1> QED
    BY <1>1, <1>5

LEMMA FillSoloFill ==
    ASSUME FillInv, NEW u \in Vertices, FillSolo(u) PROVE FillInv'
<1>1. /\ phase = "fill" /\ phase' = phase /\ u \notin filled /\ is_solo[u]
      /\ alias_arena' = Write(alias_arena, alias_offsets[u], Table(weights(u)))
      /\ bias_params' = [bias_params EXCEPT ![u] = compute_per_vertex_params(bias, graph[u])]
      /\ filled' = filled \cup {u}
      /\ UNCHANGED args /\ UNCHANGED layout /\ trunk_totals' = trunk_totals /\ at' = at
    BY DEF FillSolo, StoredParams
<1>2. /\ Filling /\ Filling' /\ InputInv /\ LayoutInv /\ phase # "unbuilt"
    BY <1>1 DEF FillInv, Filling
<1>3. /\ N' = N /\ Vertices' = Vertices /\ AliasSizes' = AliasSizes
      /\ graph' = graph /\ bias' = bias /\ aux_budget_bytes' = aux_budget_bytes
      /\ \A v : degree(v)' = degree(v) /\ weights(v)' = weights(v) /\ (Deep(v) <=> Deep(v)')
      /\ \A v, k, i : /\ AliasAt(v, k, i)' = AliasAt(v, k, i)
                      /\ TotalAt(v, k, i)' = TotalAt(v, k, i)
                      /\ TrunkWeights(v, k, i)' = TrunkWeights(v, k, i)
      /\ K_max' = K_max /\ is_solo' = is_solo
      /\ alias_offsets' = alias_offsets /\ totals_offsets' = totals_offsets
      /\ LayoutInv'
    BY <1>1, <1>2, SameInput, SameShape
<1>4. /\ DOMAIN alias_arena = 0..alias_offsets[N] - 1 /\ filled \subseteq Vertices
      /\ trunk_totals \in [0..totals_offsets[N] - 1 -> Nat]
      /\ \A v \in Vertices : degree(v) = 0 => v \in filled
      /\ at \in [Vertices -> [k : Nat, i : Nat, alias : Nat, totals : Nat]]
    BY <1>2 DEF FillInv, ArenasInv
<1>5. InputInv'
  <2>1. compute_per_vertex_params(bias, graph[u]) \in Params
      BY <1>2, WeightsRight
  <2> QED
      BY <1>1, <1>2, <1>3, <2>1 DEF InputInv
<1>6. ASSUME NEW v \in Vertices, is_solo[v]
      PROVE  /\ ~Deep(v) /\ degree(v) \in Nat /\ AliasSizes[v] = degree(v)
             /\ alias_offsets[v] \in Nat
  <2>1. Shape(v) /\ alias_offsets[v] \in Nat /\ degree(v) \in Nat
      BY <1>2, SlicesRight, GraphRight
  <2>2. ~Deep(v)
      BY <1>6, <2>1, HpatAssumption DEF Shape, Deep
  <2> QED
      BY <2>1, <2>2 DEF AliasSizes
<1>7. /\ DOMAIN alias_arena' = DOMAIN alias_arena
      /\ \A m \in 0..degree(u) - 1 : alias_arena'[alias_offsets[u] + m] = <<weights(u), m>>
      /\ \A v \in Vertices, b \in Nat, r \in Nat :
             b + r <= AliasSizes[v] /\ v # u =>
                 \A m \in 0..r - 1 :
                     alias_arena'[alias_offsets[v] + b + m] =
                         alias_arena[alias_offsets[v] + b + m]
  <2> DEFINE d == degree(u)
             W == weights(u)
             lo == alias_offsets[u]
  <2>1. d \in Nat /\ Len(W) = d /\ AliasSizes[u] = d /\ lo \in Nat
      BY <1>1, <1>2, <1>6, WeightsRight
  <2>2. alias_arena' = Write(alias_arena, lo, Table(W))
      BY <1>1
  <2> HIDE DEF d, W
  <2>3. /\ DOMAIN alias_arena' = DOMAIN alias_arena
        /\ \A c \in DOMAIN alias_arena :
               alias_arena'[c] = IF c - lo \in 0..d - 1 THEN <<W, c - lo>> ELSE alias_arena[c]
      BY <2>1, <2>2 DEF Write, Table
  <2>0. PICK z \in Nat : z = 0
      OBVIOUS
  <2>4. z + d <= AliasSizes[u] /\ lo + z = lo
      BY <2>0, <2>1
  <2>5. ASSUME NEW m \in 0..d - 1 PROVE alias_arena'[lo + m] = <<W, m>>
    <3>1. lo + z + m = lo + m
        BY <2>0, <2>1
    <3>2. lo + z + m \in 0..alias_offsets[N] - 1 /\ (lo + z + m) - (lo + z) = m
        BY <1>2, <2>1, <2>4, BlockCells
    <3> QED
        BY <1>4, <2>3, <2>4, <3>1, <3>2
  <2>6. ASSUME NEW v \in Vertices, NEW b \in Nat, NEW r \in Nat, b + r <= AliasSizes[v], v # u,
               NEW m \in 0..r - 1
        PROVE  alias_arena'[alias_offsets[v] + b + m] = alias_arena[alias_offsets[v] + b + m]
    <3>1. b + r <= AliasSizes[v]
        BY <2>6
    <3>2. /\ alias_offsets[v] + b + m \in 0..alias_offsets[N] - 1
          /\ (alias_offsets[v] + b + m) - (lo + z) \notin 0..d - 1
        BY <1>2, <2>1, <2>4, <2>6, <3>1, BlocksApart
    <3> QED
        BY <1>4, <2>3, <2>4, <3>2
  <2>7. \A m \in 0..degree(u) - 1 : alias_arena'[alias_offsets[u] + m] = <<weights(u), m>>
      BY <2>5 DEF W, d
  <2> QED
      BY <2>3, <2>6, <2>7, Zenon
<1>8. ArenasInv'
  <2>1. DOMAIN alias_arena' = 0..alias_offsets'[N'] - 1
      BY <1>3, <1>4, <1>7
  <2>2. trunk_totals' \in [0..totals_offsets'[N'] - 1 -> Nat]
      BY <1>1, <1>3, <1>4
  <2>3. filled' \subseteq Vertices' /\ \A v \in Vertices' : degree(v)' = 0 => v \in filled'
      BY <1>1, <1>3, <1>4
  <2> QED
      BY <1>1, <1>3, <1>4, <2>1, <2>2, <2>3 DEF ArenasInv
<1>9. ProgressInv'
  <2>1. \A v \in Vertices : v \notin filled' => v \notin filled
      BY <1>1
  <2> QED
      BY <1>1, <1>2, <1>3, <2>1 DEF FillInv, ProgressInv
<1>10. ASSUME NEW v \in Vertices, is_solo[v], v \in filled' PROVE StoredSolo(v)'
  <2>1. SUFFICES ASSUME NEW j \in 0..degree(v) - 1
                 PROVE  alias_arena'[alias_offsets[v] + j] = <<weights(v), j>>
      BY <1>3, <2>1 DEF StoredSolo
  <2>2. CASE v = u
      BY <1>7, <2>2
  <2>3. CASE v # u
    <3>1. StoredSolo(v)
        BY <1>1, <1>2, <1>10, <2>3 DEF FillInv, StoredInv
    <3>2. alias_arena[alias_offsets[v] + j] = <<weights(v), j>>
        BY <3>1 DEF StoredSolo
    <3>6. PICK z \in Nat : z = 0
        OBVIOUS
    <3>3. alias_offsets[v] + z + j = alias_offsets[v] + j
        BY <1>6, <1>10, <3>6
    <3>4. degree(v) \in Nat /\ z + degree(v) <= AliasSizes[v]
        BY <1>6, <1>10, <3>6
    <3>5. alias_arena'[alias_offsets[v] + z + j] = alias_arena[alias_offsets[v] + z + j]
        BY <1>7, <2>3, <3>4
    <3> QED
        BY <3>2, <3>3, <3>5
  <2> QED
      BY <2>2, <2>3
<1>11. ASSUME NEW v \in Vertices, Deep(v), NEW k \in 0..K_max[v],
              NEW i \in 0..degree(v) \div 2^k - 1, Behind(v, k, i)
       PROVE  StoredTrunk(v, k, i)'
  <2> DEFINE b == AliasAt(v, k, i)
             r == 2^k
             n == degree(v) \div r
  <2>1. v # u
      BY <1>1, <1>6, <1>11
  <2>2. StoredTrunk(v, k, i)
      BY <1>2, <1>11 DEF FillInv, StoredInv
  <2>3. i \in Nat /\ i < degree(v) \div 2^k
    <3>1. n \in Int
      <4>1. degree(v) \in Nat /\ degree(v) > 0 /\ k \in 0..FloorLog2(degree(v))
          BY <1>2, <1>11, SlicesRight, DeepRight
      <4> QED
          BY <4>1, LevelSize
    <3>2. i \in 0..n - 1
        OBVIOUS
    <3> HIDE DEF n
    <3>3. i \in Nat /\ i < n
        BY <3>1, <3>2
    <3> QED
        BY <3>3 DEF n
  <2>4. b \in Nat /\ r \in Nat /\ b + r <= AliasSizes[v]
      BY <1>2, <1>11, <2>3, TrunkPlaces
  <2> HIDE DEF b, r
  <2>5. \A m \in 0..r - 1 :
            alias_arena'[alias_offsets[v] + b + m] = alias_arena[alias_offsets[v] + b + m]
      BY <1>7, <2>1, <2>4
  <2> QED
      BY <1>1, <1>3, <2>2, <2>5 DEF StoredTrunk, b, r
<1>12. \A v, k, i : Behind(v, k, i)' <=> Behind(v, k, i)
    BY <1>1 DEF Behind
<1>13. StoredInv'
    BY <1>3, <1>10, <1>11, <1>12 DEF StoredInv
<1> QED
    BY <1>3, <1>5, <1>8, <1>9, <1>13 DEF FillInv

(* The trunk that a vertex in progress comes to next. *)
LEMMA NextTrunk ==
    ASSUME FillInv, phase = "fill", NEW u \in Vertices, u \notin filled, ~is_solo[u]
    PROVE  /\ Deep(u) /\ K_max[u] \in Nat
           /\ at[u].k \in 0..K_max[u] /\ at[u].i \in Nat
           /\ at[u].i < degree(u) \div 2^at[u].k
           /\ at[u].alias = AliasAt(u, at[u].k, at[u].i)
           /\ at[u].totals = TotalAt(u, at[u].k, at[u].i)
<1>1. Filling /\ InputInv /\ LayoutInv /\ phase # "unbuilt"
    BY DEF FillInv, Filling
<1>2. Deep(u)
  <2>1. Shape(u) /\ degree(u) \in Nat /\ kHpatDegreeThreshold \in Nat
      BY <1>1, SlicesRight, GraphRight, HpatAssumption
  <2>2. degree(u) # 0
      BY <1>1 DEF FillInv, ArenasInv
  <2> QED
      BY <2>1, <2>2 DEF Shape, Deep
<1>3. K_max[u] \in Nat
    BY <1>1, <1>2, SlicesRight, DeepRight
<1>4. at[u].k \in Nat /\ at[u].i \in Nat
    BY <1>1 DEF FillInv, ArenasInv
<1>5. /\ at[u].k <= K_max[u]
      /\ at[u].k <= K_max[u] => at[u].i < degree(u) \div 2^at[u].k
      /\ at[u].alias = AliasAt(u, at[u].k, at[u].i)
      /\ at[u].totals = TotalAt(u, at[u].k, at[u].i)
    BY <1>1, <1>2 DEF FillInv, ProgressInv
<1>6. at[u].k \in 0..K_max[u]
    BY <1>3, <1>4, <1>5
<1> QED
    BY <1>2, <1>3, <1>4, <1>5, <1>6

LEMMA LevelNumber ==
    ASSUME InputInv, LayoutInv, Filling, NEW u \in Vertices, Deep(u), NEW k \in 0..K_max[u]
    PROVE  degree(u) \div 2^k \in Nat /\ degree(u) \div 2^k > 0 /\ 2^k \in Nat
<1>1. /\ degree(u) \in Nat /\ degree(u) > 0 /\ k \in 0..FloorLog2(degree(u))
    BY SlicesRight, DeepRight DEF Filling
<1> QED
    BY <1>1, LevelSize

LEMMA FillTrunkFill ==
    ASSUME FillInv, NEW u \in Vertices, FillTrunk(u) PROVE FillInv'
<1>1. Filling /\ InputInv /\ LayoutInv /\ phase # "unbuilt" /\ phase = "fill"
    BY DEF FillInv, Filling, FillTrunk
<1>2. PICK k : k = at[u].k
    OBVIOUS
<1>3. PICK i : i = at[u].i
    OBVIOUS
<1>4. PICK p : p = 2^k
    OBVIOUS
<1>5. PICK n : n = degree(u) \div p
    OBVIOUS
<1>6. PICK a : a = AliasAt(u, k, i)
    OBVIOUS
<1>7. PICK t : t = TotalAt(u, k, i)
    OBVIOUS
<1>8. /\ Deep(u) /\ K_max[u] \in Nat /\ k \in 0..K_max[u] /\ k \in Nat /\ i \in Nat
      /\ i < degree(u) \div 2^k /\ at[u].alias = a /\ at[u].totals = t
  <2>1. u \notin filled /\ ~is_solo[u]
      BY DEF FillTrunk
  <2> QED
      BY <1>1, <1>2, <1>3, <1>6, <1>7, <2>1, NextTrunk
<1>9. /\ n \in Nat /\ i < n /\ p \in Nat /\ p > 0
      /\ a \in Nat /\ a + p <= AliasSizes[u] /\ t \in Nat /\ t < TotalsSizes[u]
      /\ i * p \in Nat /\ i * p + p <= degree(u)
      /\ AliasAt(u, k, i + 1) = a + p /\ TotalAt(u, k, i + 1) = t + 1
      /\ i + 1 = n => AliasAt(u, k + 1, 0) = a + p /\ TotalAt(u, k + 1, 0) = t + 1
  <2>1. /\ AliasAt(u, k, i) \in Nat /\ 2^k \in Nat /\ 2^k > 0 /\ TotalAt(u, k, i) \in Nat
        /\ AliasAt(u, k, i) + 2^k <= AliasSizes[u] /\ TotalAt(u, k, i) < TotalsSizes[u]
        /\ i * 2^k \in Nat /\ i * 2^k + 2^k <= degree(u)
        /\ AliasAt(u, k, i + 1) = AliasAt(u, k, i) + 2^k
        /\ TotalAt(u, k, i + 1) = TotalAt(u, k, i) + 1
        /\ i + 1 = degree(u) \div 2^k =>
               /\ AliasAt(u, k + 1, 0) = AliasAt(u, k, i) + 2^k
               /\ TotalAt(u, k + 1, 0) = TotalAt(u, k, i) + 1
      BY <1>1, <1>8, TrunkPlaces
  <2>2. degree(u) \div 2^k \in Nat
      BY <1>1, <1>8, LevelNumber
  <2>3. i < degree(u) \div 2^k
      BY <1>8
  <2> QED
      BY <1>4, <1>5, <1>6, <1>7, <1>8, <2>1, <2>2, <2>3
<1>10. PICK W : W = TrunkWeights(u, k, i)
    OBVIOUS
<1>11. PICK R : R = Sum(weights(u), i * p + 1, i * p + p)
    OBVIOUS
<1>12. Len(W) = p /\ R \in Nat
  <2>1. /\ weights(u) \in Seq(Nat) /\ Len(weights(u)) = degree(u) /\ degree(u) \in Nat
      BY <1>1, WeightsRight, GraphRight
  <2>2. W = SubSeq(weights(u), i * p + 1, i * p + p)
      BY <1>4, <1>10 DEF TrunkWeights
  <2> DEFINE w == weights(u)
             x == i * p
             d == degree(u)
  <2>3. w \in Seq(Nat) /\ Len(w) = d /\ d \in Nat /\ x \in Nat /\ p \in Nat /\ p > 0 /\ x + p <= d
      BY <1>9, <2>1
  <2> HIDE DEF w, x, d
  <2>4. Len(SubSeq(w, x + 1, x + p)) = p
      BY <2>3
  <2>5. x + 1 \in 1..d + 1 /\ x + p \in 0..d
      BY <2>3
  <2>6. Sum(w, x + 1, x + p) \in Nat
      BY <1>1, <2>5, SumsRight DEF w, d
  <2> QED
      BY <1>11, <2>2, <2>4, <2>6 DEF w, x
<1>13. PICK done \in BOOLEAN : done <=> i + 1 = n
  <2>1. (i + 1 = n) \in BOOLEAN
      OBVIOUS
  <2> QED
      BY <2>1
<1>14. LevelDone(u) <=> done
    BY <1>2, <1>3, <1>4, <1>5, <1>9, <1>8, <1>13 DEF LevelDone
<1>15. /\ phase' = phase /\ UNCHANGED args /\ UNCHANGED layout
       /\ alias_arena' = Write(alias_arena, alias_offsets[u] + a, Table(W))
       /\ bias_params' = IF t = 0
                         THEN [bias_params EXCEPT ![u] = compute_per_vertex_params(bias, graph[u])]
                         ELSE bias_params
       /\ trunk_totals' = [trunk_totals EXCEPT ![totals_offsets[u] + t] = R]
       /\ at' = [at EXCEPT ![u] = [k |-> IF done THEN k + 1 ELSE k,
                                   i |-> IF done THEN 0 ELSE i + 1,
                                   alias |-> a + p, totals |-> t + 1]]
       /\ filled' = IF at'[u].k > K_max[u] THEN filled \cup {u} ELSE filled
    BY <1>2, <1>3, <1>4, <1>8, <1>10, <1>11, <1>14 DEF FillTrunk, StoredParams, TrunkWeights
<1>16. /\ N' = N /\ Vertices' = Vertices /\ AliasSizes' = AliasSizes
       /\ graph' = graph /\ bias' = bias /\ aux_budget_bytes' = aux_budget_bytes
       /\ \A v : degree(v)' = degree(v) /\ weights(v)' = weights(v) /\ (Deep(v) <=> Deep(v)')
       /\ \A v, l, j : /\ AliasAt(v, l, j)' = AliasAt(v, l, j)
                       /\ TotalAt(v, l, j)' = TotalAt(v, l, j)
                       /\ TrunkWeights(v, l, j)' = TrunkWeights(v, l, j)
    BY <1>15, SameInput
<1>17. Filling'
    BY <1>1, <1>15 DEF Filling
<1>18. /\ K_max' = K_max /\ is_solo' = is_solo
       /\ alias_offsets' = alias_offsets /\ totals_offsets' = totals_offsets
       /\ LayoutInv'
    BY <1>1, <1>15, <1>17, SameShape
<1>19. /\ DOMAIN alias_arena = 0..alias_offsets[N] - 1 /\ filled \subseteq Vertices
       /\ trunk_totals \in [0..totals_offsets[N] - 1 -> Nat]
       /\ \A v \in Vertices : degree(v) = 0 => v \in filled
       /\ at \in [Vertices -> [k : Nat, i : Nat, alias : Nat, totals : Nat]]
    BY <1>1 DEF FillInv, ArenasInv
<1>20. InputInv'
  <2>1. compute_per_vertex_params(bias, graph[u]) \in Params
      BY <1>1, WeightsRight
  <2>2. bias_params \in [Vertices -> Params]
      BY <1>1 DEF InputInv
  <2>3. bias_params' \in [Vertices' -> Params]
      BY <1>15, <1>16, <2>1, <2>2
  <2> QED
      BY <1>1, <1>15, <1>16, <2>3 DEF InputInv
<1>21. /\ at' \in [Vertices -> [k : Nat, i : Nat, alias : Nat, totals : Nat]]
       /\ at'[u] = [k |-> IF done THEN k + 1 ELSE k, i |-> IF done THEN 0 ELSE i + 1,
                    alias |-> a + p, totals |-> t + 1]
       /\ \A v \in Vertices : v # u => at'[v] = at[v]
  <2> DEFINE e == [k |-> IF done THEN k + 1 ELSE k, i |-> IF done THEN 0 ELSE i + 1,
                   alias |-> a + p, totals |-> t + 1]
  <2>1. e \in [k : Nat, i : Nat, alias : Nat, totals : Nat]
    <3>1. k + 1 \in Nat /\ i + 1 \in Nat /\ a + p \in Nat /\ t + 1 \in Nat /\ k \in Nat
        BY <1>8, <1>9
    <3> QED
        BY <3>1
  <2>2. at' = [at EXCEPT ![u] = e]
      BY <1>15
  <2> HIDE DEF e
  <2>3. /\ at' \in [Vertices -> [k : Nat, i : Nat, alias : Nat, totals : Nat]]
        /\ at'[u] = e /\ \A v \in Vertices : v # u => at'[v] = at[v]
      BY <1>19, <2>1, <2>2
  <2> QED
      BY <2>3 DEF e
<1>22. /\ DOMAIN alias_arena' = DOMAIN alias_arena
       /\ \A c \in DOMAIN alias_arena :
              alias_arena'[c] = IF c - (alias_offsets[u] + a) \in 0..p - 1
                                THEN <<W, c - (alias_offsets[u] + a)>> ELSE alias_arena[c]
    BY <1>12, <1>15 DEF Write, Table
<1>23. ArenasInv'
  <2>1. DOMAIN alias_arena' = 0..alias_offsets'[N'] - 1
      BY <1>16, <1>18, <1>19, <1>22
  <2>2. trunk_totals' \in [0..totals_offsets'[N'] - 1 -> Nat]
      BY <1>12, <1>15, <1>16, <1>18, <1>19
  <2>3. filled' \subseteq Vertices' /\ \A v \in Vertices' : degree(v)' = 0 => v \in filled'
      BY <1>15, <1>16, <1>19
  <2> QED
      BY <1>16, <1>21, <2>1, <2>2, <2>3 DEF ArenasInv

<1>24. ASSUME NEW v \in Vertices, Deep(v)
       PROVE  LET c == at'[v]
              IN  /\ c.k <= K_max[v] => c.i < degree(v) \div 2^c.k
                  /\ c.k <= K_max[v] + 1
                  /\ c.k > K_max[v] => c.i = 0
                  /\ v \notin filled' => c.k <= K_max[v]
                  /\ c.alias = AliasAt(v, c.k, c.i)
                  /\ c.totals = TotalAt(v, c.k, c.i)
  <2>1. CASE v # u
    <3>1. at'[v] = at[v] /\ (v \notin filled' => v \notin filled)
        BY <1>15, <1>21, <2>1
    <3> QED
        BY <1>1, <1>24, <3>1 DEF FillInv, ProgressInv
  <2>2. CASE v = u /\ done
    <3>1. i + 1 = n
        BY <1>13, <2>2
    <3>2. at'[u].k = k + 1 /\ at'[u].i = 0 /\ at'[u].alias = a + p /\ at'[u].totals = t + 1
        BY <1>21, <2>2
    <3>3. /\ AliasAt(u, k + 1, 0) = a + p /\ TotalAt(u, k + 1, 0) = t + 1
        BY <1>9, <3>1
    <3>4. k + 1 <= K_max[u] => 0 < degree(u) \div 2^(k + 1)
      <4>1. ASSUME k + 1 <= K_max[u] PROVE 0 < degree(u) \div 2^(k + 1)
        <5>1. k + 1 \in 0..K_max[u]
            BY <1>8, <4>1
        <5> QED
            BY <1>1, <1>8, <5>1, LevelNumber
      <4> QED
          BY <4>1
    <3>5. u \notin filled' => k + 1 <= K_max[u]
        BY <1>8, <1>15, <3>2
    <3>6. k + 1 <= K_max[u] + 1
        BY <1>8
    <3> QED
        BY <2>2, <3>2, <3>3, <3>4, <3>5, <3>6
  <2>3. CASE v = u /\ ~done
    <3>1. i + 1 < n
        BY <1>8, <1>9, <1>13, <2>3
    <3>2. /\ at'[u].k = k /\ at'[u].i = i + 1 /\ at'[u].alias = a + p /\ at'[u].totals = t + 1
        BY <1>21, <2>3
    <3>3. i + 1 < degree(u) \div 2^k
        BY <1>4, <1>5, <3>1
    <3>4. k <= K_max[u] /\ k <= K_max[u] + 1 /\ ~(k > K_max[u])
        BY <1>8
    <3> QED
        BY <1>9, <2>3, <3>2, <3>3, <3>4
  <2> QED
      BY <2>1, <2>2, <2>3
<1>25. ProgressInv'
    BY <1>16, <1>18, <1>24 DEF ProgressInv
<1>26. ASSUME NEW v \in Vertices, is_solo[v], v \in filled' PROVE StoredSolo(v)'
  <2>1. /\ ~Deep(v) /\ degree(v) \in Nat /\ AliasSizes[v] = degree(v) /\ alias_offsets[v] \in Nat
    <3>1. Shape(v) /\ alias_offsets[v] \in Nat /\ degree(v) \in Nat
        BY <1>1, SlicesRight, GraphRight
    <3>2. ~Deep(v)
        BY <1>26, <3>1, HpatAssumption DEF Shape, Deep
    <3> QED
        BY <3>1, <3>2 DEF AliasSizes
  <2>2. v # u
      BY <1>8, <2>1
  <2>3. StoredSolo(v)
    <3>1. v \in filled
        BY <1>15, <1>26, <2>2
    <3> QED
        BY <1>1, <1>26, <3>1 DEF FillInv, StoredInv
  <2>4. ASSUME NEW j \in 0..degree(v) - 1
        PROVE  alias_arena'[alias_offsets[v] + j] = alias_arena[alias_offsets[v] + j]
    <3>1. PICK z \in Nat : z = 0
        OBVIOUS
    <3>2. PICK d \in Nat : d = degree(v)
        BY <2>1
    <3>3. z + d <= AliasSizes[v] /\ alias_offsets[v] + z + j = alias_offsets[v] + j
        BY <2>1, <3>1, <3>2
    <3>4. j \in 0..d - 1
        BY <3>2
    <3>5. /\ alias_offsets[v] + z + j \in 0..alias_offsets[N] - 1
          /\ (alias_offsets[v] + z + j) - (alias_offsets[u] + a) \notin 0..p - 1
        BY <1>1, <1>9, <2>2, <3>3, <3>4, BlocksApart
    <3> QED
        BY <1>19, <1>22, <3>3, <3>5
  <2> QED
      BY <1>16, <1>18, <2>3, <2>4 DEF StoredSolo
<1>27. ASSUME NEW v \in Vertices, Deep(v), NEW l \in 0..K_max[v],
              NEW j \in 0..degree(v) \div 2^l - 1, Behind(v, l, j)'
       PROVE  StoredTrunk(v, l, j)'
  <2>1. PICK q : q = 2^l
      OBVIOUS
  <2>2. l \in Nat /\ j \in Nat /\ j < degree(v) \div 2^l /\ q \in Nat
    <3> DEFINE x == degree(v) \div 2^l
    <3>1. x \in Nat /\ j \in 0..x - 1 /\ 2^l \in Nat /\ K_max[v] \in Nat
        BY <1>1, <1>27, LevelNumber, SlicesRight, DeepRight
    <3> HIDE DEF x
    <3>2. j \in Nat /\ j < x /\ l \in Nat
        BY <3>1
    <3> QED
        BY <2>1, <3>1, <3>2 DEF x
  <2>3. PICK b : b = AliasAt(v, l, j)
      OBVIOUS
  <2>4. PICK y : y = TotalAt(v, l, j)
      OBVIOUS
  <2>5. b \in Nat /\ b + q <= AliasSizes[v] /\ y \in Nat /\ y < TotalsSizes[v]
      BY <1>1, <1>27, <2>1, <2>2, <2>3, <2>4, TrunkPlaces
  <2>6. SUFFICES /\ \A m \in 0..q - 1 :
                       alias_arena'[alias_offsets[v] + b + m] = <<TrunkWeights(v, l, j), m>>
                 /\ trunk_totals'[totals_offsets[v] + y] = Sum(weights(v), j * q + 1, j * q + q)
      BY <1>16, <1>18, <2>1, <2>3, <2>4, <2>6 DEF StoredTrunk
  <2>7. CASE v = u /\ l = k /\ j = i
    <3>1. /\ b = a /\ y = t /\ q = p
        BY <1>4, <1>6, <1>7, <2>1, <2>3, <2>4, <2>7
    <3>2. ASSUME NEW m \in 0..q - 1
          PROVE  alias_arena'[alias_offsets[v] + b + m] = <<TrunkWeights(v, l, j), m>>
      <4>1. m \in 0..p - 1
          BY <3>1
      <4>2. /\ alias_offsets[u] + a + m \in 0..alias_offsets[N] - 1
            /\ (alias_offsets[u] + a + m) - (alias_offsets[u] + a) = m
        <5>1. InputInv /\ LayoutInv /\ Filling
            BY <1>1
        <5>2. a \in Nat /\ p \in Nat /\ a + p <= AliasSizes[u]
            BY <1>9
        <5> QED
            BY <4>1, <5>1, <5>2, BlockCells, Zenon
      <4>3. alias_arena'[alias_offsets[u] + a + m] = <<W, m>>
          BY <1>19, <1>22, <4>1, <4>2
      <4> QED
          BY <1>10, <2>7, <3>1, <4>3
    <3>3. totals_offsets[u] + t \in 0..totals_offsets[N] - 1
        BY <1>1, <1>9, TotalsApart
    <3>4. trunk_totals'[totals_offsets[u] + t] = R
        BY <1>15, <1>19, <3>3
    <3> QED
        BY <1>11, <2>7, <3>1, <3>2, <3>4
  <2>8. CASE ~(v = u /\ l = k /\ j = i)
    <3>1. v = u => l < k \/ (l = k /\ j < i)
      <4>1. ASSUME v = u PROVE l < k \/ (l = k /\ j < i)
        <5>1. l < at'[u].k \/ (l = at'[u].k /\ j < at'[u].i)
            BY <1>27, <4>1 DEF Behind
        <5>2. CASE done
          <6>1. at'[u].k = k + 1 /\ at'[u].i = 0 /\ i + 1 = n
              BY <1>13, <1>21, <5>2
          <6>2. l = k => j < n
              BY <1>4, <1>5, <2>2, <4>1
          <6> QED
              BY <1>8, <1>9, <2>2, <2>8, <4>1, <5>1, <6>1, <6>2
        <5>3. CASE ~done
          <6>1. at'[u].k = k /\ at'[u].i = i + 1
              BY <1>21, <5>3
          <6> QED
              BY <1>8, <2>2, <2>8, <4>1, <5>1, <6>1
        <5> QED
            BY <5>2, <5>3
      <4> QED
          BY <4>1
    <3>2. Behind(v, l, j)
      <4>1. CASE v = u
          BY <1>2, <1>3, <3>1, <4>1 DEF Behind
      <4>2. CASE v # u
          BY <1>21, <1>27, <4>2 DEF Behind
      <4> QED
          BY <4>1, <4>2
    <3>3. StoredTrunk(v, l, j)
        BY <1>1, <1>27, <3>2 DEF FillInv, StoredInv
    <3>4. v # u \/ b + q <= a
      <4>1. ASSUME v = u PROVE b + q <= a
        <5>1. l \in 0..K_max[u] /\ j < degree(u) \div 2^l
            BY <2>2, <4>1
        <5>2. AliasAt(u, l, j) + 2^l <= AliasAt(u, k, i)
            BY <1>1, <1>8, <2>2, <3>1, <4>1, <5>1, TrunksApart
        <5> QED
            BY <1>6, <2>1, <2>3, <4>1, <5>2
      <4> QED
          BY <4>1
    <3>5. v # u \/ y # t
      <4>1. ASSUME v = u PROVE y < t
        <5>1. l \in 0..K_max[u] /\ j < degree(u) \div 2^l
            BY <2>2, <4>1
        <5>2. TotalAt(u, l, j) < TotalAt(u, k, i)
            BY <1>1, <1>8, <2>2, <3>1, <4>1, <5>1, TrunksApart
        <5> QED
            BY <1>7, <2>4, <4>1, <5>2
      <4> QED
          BY <1>9, <2>5, <4>1
    <3>6. ASSUME NEW m \in 0..q - 1
          PROVE  alias_arena'[alias_offsets[v] + b + m] = <<TrunkWeights(v, l, j), m>>
      <4>1. /\ alias_offsets[v] + b + m \in 0..alias_offsets[N] - 1
            /\ (alias_offsets[v] + b + m) - (alias_offsets[u] + a) \notin 0..p - 1
          BY <1>1, <1>9, <2>2, <2>5, <3>4, BlocksApart
      <4>2. alias_arena'[alias_offsets[v] + b + m] = alias_arena[alias_offsets[v] + b + m]
          BY <1>19, <1>22, <4>1
      <4> QED
          BY <2>1, <2>3, <3>3, <4>2 DEF StoredTrunk
    <3>7. /\ totals_offsets[v] + y \in 0..totals_offsets[N] - 1
          /\ totals_offsets[v] + y # totals_offsets[u] + t
        BY <1>1, <1>9, <2>5, <3>5, TotalsApart
    <3>8. trunk_totals'[totals_offsets[v] + y] = trunk_totals[totals_offsets[v] + y]
        BY <1>15, <1>19, <3>7
    <3> QED
        BY <2>1, <2>4, <3>3, <3>6, <3>8 DEF StoredTrunk
  <2> QED
      BY <2>7, <2>8
<1>28. StoredInv'
    BY <1>16, <1>18, <1>26, <1>27 DEF StoredInv
<1> QED
    BY <1>18, <1>20, <1>23, <1>25, <1>28 DEF FillInv

(* The auxiliary index is built beside the arenas. *)
LEMMA FillStays ==
    ASSUME FillInv, Filling, UNCHANGED <<args, layout, fills, bias_params>>,
           phase' \in {"fill", "aux_layout", "aux_fill", "built"},
           phase' \in {"aux_layout", "aux_fill"} => aux_budget_bytes > 0
    PROVE  FillInv'
<1>1. InputInv /\ LayoutInv /\ phase # "unbuilt" /\ Filling'
    BY DEF FillInv, Filling
<1>2. /\ UNCHANGED args /\ UNCHANGED layout /\ bias_params' = bias_params
      /\ alias_arena' = alias_arena /\ trunk_totals' = trunk_totals /\ at' = at
      /\ filled' = filled
    BY DEF fills
<1>3. /\ N' = N /\ Vertices' = Vertices
      /\ graph' = graph /\ bias' = bias /\ aux_budget_bytes' = aux_budget_bytes
      /\ \A v : degree(v)' = degree(v) /\ weights(v)' = weights(v) /\ (Deep(v) <=> Deep(v)')
      /\ \A v, l, j : /\ AliasAt(v, l, j)' = AliasAt(v, l, j)
                      /\ TotalAt(v, l, j)' = TotalAt(v, l, j)
                      /\ TrunkWeights(v, l, j)' = TrunkWeights(v, l, j)
    BY <1>2, SameInput
<1>4. /\ K_max' = K_max /\ is_solo' = is_solo
      /\ alias_offsets' = alias_offsets /\ totals_offsets' = totals_offsets
      /\ LayoutInv'
    BY <1>1, <1>2, SameShape
<1>5. InputInv'
    BY <1>1, <1>2, <1>3 DEF InputInv
<1>6. ArenasInv'
    BY <1>2, <1>3, <1>4 DEF FillInv, ArenasInv
<1>7. ProgressInv'
    BY <1>2, <1>3, <1>4 DEF FillInv, ProgressInv
<1>8. /\ \A v, l, j : Behind(v, l, j)' <=> Behind(v, l, j)
      /\ \A v, l, j : StoredTrunk(v, l, j) => StoredTrunk(v, l, j)'
      /\ \A v : StoredSolo(v) => StoredSolo(v)'
  <2>1. \A v, l, j : Behind(v, l, j)' <=> Behind(v, l, j)
      BY <1>2 DEF Behind
  <2>2. \A v, l, j : StoredTrunk(v, l, j) => StoredTrunk(v, l, j)'
      BY <1>2, <1>3, <1>4 DEF StoredTrunk
  <2>3. \A v : StoredSolo(v) => StoredSolo(v)'
      BY <1>2, <1>3, <1>4 DEF StoredSolo
  <2> QED
      BY <2>1, <2>2, <2>3
<1>9. StoredInv'
    BY <1>2, <1>3, <1>4, <1>8 DEF FillInv, StoredInv
<1> QED
    BY <1>4, <1>5, <1>6, <1>7, <1>9 DEF FillInv

LEMMA NextFill == FillInv /\ [Next]_vars => FillInv'
<1> SUFFICES ASSUME FillInv, [Next]_vars PROVE FillInv'
    OBVIOUS
<1>1. CASE StartBuild
    BY <1>1, StartBuildFill
<1>2. CASE LayoutVertex
    BY <1>2, LayoutVertexFill
<1>3. CASE AllocateArenas
    BY <1>3, AllocateArenasFill
<1>4. ASSUME NEW u \in Vertices, FillSolo(u) PROVE FillInv'
    BY <1>4, FillSoloFill
<1>5. ASSUME NEW u \in Vertices, FillTrunk(u) PROVE FillInv'
    BY <1>5, FillTrunkFill
<1>6. CASE SkipAux \/ StartAux
  <2>1. /\ Filling /\ UNCHANGED <<args, layout, fills, bias_params>>
        /\ phase' \in {"fill", "aux_layout", "aux_fill", "built"}
        /\ phase' \in {"aux_layout", "aux_fill"} => aux_budget_bytes > 0
      BY <1>6 DEF SkipAux, StartAux, Filling, build_vars
  <2> QED
      BY <2>1, FillStays
<1>7. CASE AuxLayoutVertex \/ RefuseAux \/ AllocateAux \/ FinishAux
           \/ \E u \in Vertices : FillCover(u)
  <2>1. /\ phase \in {"aux_layout", "aux_fill"}
        /\ UNCHANGED <<args, layout, fills, bias_params>>
        /\ phase' \in {"fill", "aux_layout", "aux_fill", "built"}
      BY <1>7 DEF AuxLayoutVertex, RefuseAux, AllocateAux, FinishAux, FillCover, build_vars
  <2>2. Filling /\ aux_budget_bytes > 0
      BY <2>1 DEF Filling, FillInv, InputInv
  <2> QED
      BY <2>1, <2>2, FillStays
<1>8. CASE UNCHANGED vars
  <2>1. /\ UNCHANGED <<args, layout, fills, bias_params>> /\ phase' = phase /\ scan' = scan
        /\ UNCHANGED args /\ UNCHANGED layout
      BY <1>8 DEF vars, build_vars
  <2>2. CASE Filling
    <3>1. /\ phase' \in {"fill", "aux_layout", "aux_fill", "built"}
          /\ phase' \in {"aux_layout", "aux_fill"} => aux_budget_bytes > 0
        BY <2>1, <2>2 DEF Filling, FillInv, InputInv
    <3> QED
        BY <2>1, <2>2, <3>1, FillStays
  <2>3. CASE ~Filling
    <3>1. /\ N' = N /\ Vertices' = Vertices /\ AliasSizes' = AliasSizes
          /\ TotalsSizes' = TotalsSizes
          /\ graph' = graph /\ bias' = bias /\ aux_budget_bytes' = aux_budget_bytes
          /\ \A v : degree(v)' = degree(v) /\ (Deep(v) <=> Deep(v)')
        BY <2>1, SameInput
    <3>2. /\ K_max' = K_max /\ is_solo' = is_solo
          /\ alias_offsets' = alias_offsets /\ totals_offsets' = totals_offsets
          /\ alias_size' = alias_size /\ totals_size' = totals_size
        BY <2>1 DEF layout
    <3>3. \A v : Shape(v) => Shape(v)'
        BY <3>1, <3>2 DEF Shape
    <3>4. /\ StepsTo(alias_offsets, AliasSizes, N, scan, alias_size) =>
                 StepsTo(alias_offsets, AliasSizes, N, scan, alias_size)'
          /\ StepsTo(totals_offsets, TotalsSizes, N, scan, totals_size) =>
                 StepsTo(totals_offsets, TotalsSizes, N, scan, totals_size)'
        BY <2>1, <3>1, <3>2 DEF StepsTo
    <3>5. InputInv'
        BY <2>1, <3>1 DEF FillInv, InputInv
    <3>6. ~Filling'
        BY <2>1, <2>3 DEF Filling
    <3>7. LayoutInv'
        BY <2>1, <3>1, <3>2, <3>3, <3>4, <3>6 DEF FillInv, LayoutInv
    <3> QED
        BY <3>5, <3>6, <3>7 DEF FillInv, ArenasInv, ProgressInv, StoredInv
  <2> QED
      BY <2>2, <2>3
<1> QED
    BY <1>1, <1>2, <1>3, <1>4, <1>5, <1>6, <1>7, <1>8 DEF Next, BuildStep

(* The invariant of the layout and the fill holds in every state of an    *)
(* Hpat, whatever it is built from and however the loops are scheduled.   *)
THEOREM FillInvariance == Spec => []FillInv
<1>1. FillInv /\ [Next]_vars => FillInv'
    BY NextFill
<1> QED
    BY InitFill, <1>1, PTL DEF Spec

(* What has been stored is what the accessors of the read side find.      *)
LEMMA ReadBack == FillInv => TrunksReadBack
<1> SUFFICES ASSUME FillInv, phase \in {"fill", "aux_layout", "aux_fill", "built"},
                    NEW u \in Vertices
             PROVE  /\ is_solo[u] /\ u \in filled => solo_alias_view(u) = Table(weights(u))
                    /\ \A t \in FilledTrunks(u) :
                           /\ alias_view_of_trunk(u, t[1], t[2]) =
                                  Table(SubSeq(weights(u), t[2] * 2^t[1] + 1,
                                               (t[2] + 1) * 2^t[1]))
                           /\ trunk_total_of(u, t[1], t[2]) =
                                  Sum(weights(u), t[2] * 2^t[1] + 1, (t[2] + 1) * 2^t[1])
    BY DEF TrunksReadBack
<1>1. Filling /\ InputInv /\ LayoutInv /\ StoredInv /\ phase # "unbuilt"
    BY DEF FillInv, Filling
<1>2. weights(u) \in Seq(Nat) /\ Len(weights(u)) = degree(u) /\ degree(u) \in Nat
    BY <1>1, WeightsRight, GraphRight
<1>3. ASSUME is_solo[u], u \in filled PROVE solo_alias_view(u) = Table(weights(u))
  <2>1. StoredSolo(u)
      BY <1>1, <1>3 DEF StoredInv
  <2> QED
      BY <1>2, <2>1 DEF solo_alias_view, Table, StoredSolo
<1>4. ASSUME NEW t \in FilledTrunks(u)
      PROVE  /\ alias_view_of_trunk(u, t[1], t[2]) =
                    Table(SubSeq(weights(u), t[2] * 2^t[1] + 1, (t[2] + 1) * 2^t[1]))
             /\ trunk_total_of(u, t[1], t[2]) =
                    Sum(weights(u), t[2] * 2^t[1] + 1, (t[2] + 1) * 2^t[1])
  <2>1. PICK l \in 0..K_max[u] : t \in {l} \X (0..degree(u) \div 2^l - 1)
      BY <1>4 DEF FilledTrunks
  <2>2. PICK j \in 0..degree(u) \div 2^l - 1 : t = <<l, j>>
      BY <2>1
  <2>3. Behind(u, l, j)
      BY <1>4, <2>2 DEF FilledTrunks, Behind
  <2>4. Deep(u)
    <3>1. Shape(u)
        BY <1>1, SlicesRight
    <3> QED
        BY <2>1, <3>1 DEF Shape
  <2>5. StoredTrunk(u, l, j)
      BY <1>1, <2>3, <2>4 DEF StoredInv
  <2>6. j \in Nat /\ j < degree(u) \div 2^l
    <3> DEFINE x == degree(u) \div 2^l
    <3>1. x \in Nat /\ j \in 0..x - 1
        BY <1>1, <2>4, LevelNumber
    <3> HIDE DEF x
    <3>2. j \in Nat /\ j < x
        BY <3>1
    <3> QED
        BY <3>2 DEF x
  <2>7. /\ 2^l \in Nat /\ 2^l > 0 /\ AliasAt(u, l, j) \in Nat
        /\ j * 2^l \in Nat /\ (j + 1) * 2^l = j * 2^l + 2^l /\ j * 2^l + 2^l <= degree(u)
      BY <1>1, <2>4, <2>6, TrunkPlaces
  <2>8. Len(TrunkWeights(u, l, j)) = 2^l
    <3> DEFINE w == weights(u)
               x == j * 2^l
               d == degree(u)
               p == 2^l
    <3>1. w \in Seq(Nat) /\ Len(w) = d /\ d \in Nat /\ x \in Nat /\ p \in Nat /\ x + p <= d
        BY <1>2, <2>7
    <3> HIDE DEF w, x, d, p
    <3>2. Len(SubSeq(w, x + 1, x + p)) = p
        BY <3>1
    <3> QED
        BY <3>2 DEF TrunkWeights, w, x, p
  <2>9. alias_view_of_trunk(u, l, j) = Table(TrunkWeights(u, l, j))
    <3> DEFINE p == 2^l
    <3>1. alias_view_of_trunk(u, l, j) =
              [m \in 0..p - 1 |->
                  alias_arena[alias_offsets[u] + hpat_alias_level_offset(degree(u), l)
                              + j * p + m]]
        BY DEF alias_view_of_trunk
    <3>2. ASSUME NEW m \in 0..p - 1
          PROVE  alias_offsets[u] + hpat_alias_level_offset(degree(u), l) + j * p + m =
                     alias_offsets[u] + AliasAt(u, l, j) + m
      <4> DEFINE x == j * p
                 o == hpat_alias_level_offset(degree(u), l)
      <4>1. alias_offsets[u] \in Nat /\ p \in Nat /\ x \in Nat /\ AliasAt(u, l, j) = o + x
          BY <1>1, <2>7, SlicesRight DEF AliasAt
      <4>2. o \in Nat
        <5> DEFINE D == degree(u)
        <5>1. D \in Nat /\ D > 0 /\ l \in 0..FloorLog2(D) /\ FloorLog2(D) \in Nat
            BY <1>1, <2>1, <2>4, SlicesRight, DeepRight
        <5> HIDE DEF D
        <5>2. l \in 0..FloorLog2(D) + 1
            BY <5>1
        <5>3. hpat_alias_level_offset(D, l) \in Nat
            BY <5>1, <5>2, AliasLevels
        <5> QED
            BY <5>3 DEF D
      <4> DEFINE a == alias_offsets[u]
      <4> HIDE DEF x, o, p, a
      <4>3. a + o + x + m = a + (o + x) + m
          BY <4>1, <4>2 DEF a
      <4>4. a + (o + x) + m = a + AliasAt(u, l, j) + m
          BY <4>1, Zenon
      <4> QED
          BY <4>3, <4>4, Zenon DEF x, o, a
    <3>3. ASSUME NEW m \in 0..p - 1
          PROVE  alias_arena[alias_offsets[u] + AliasAt(u, l, j) + m] =
                     <<TrunkWeights(u, l, j), m>>
        BY <2>5 DEF StoredTrunk
    <3>4. Table(TrunkWeights(u, l, j)) = [m \in 0..p - 1 |-> <<TrunkWeights(u, l, j), m>>]
        BY <2>8 DEF Table
    <3> HIDE DEF p
    <3>5. ASSUME NEW m \in 0..p - 1
          PROVE  alias_arena[alias_offsets[u] + hpat_alias_level_offset(degree(u), l)
                             + j * p + m] = <<TrunkWeights(u, l, j), m>>
        BY <3>2, <3>3
    <3>6. alias_view_of_trunk(u, l, j) = [m \in 0..p - 1 |-> <<TrunkWeights(u, l, j), m>>]
        BY <3>1, <3>5, Zenon
    <3> QED
        BY <3>4, <3>6
  <2>10. trunk_total_of(u, l, j) = Sum(weights(u), j * 2^l + 1, j * 2^l + 2^l)
    <3> DEFINE o == hpat_totals_level_offset(degree(u), l)
    <3>1. totals_offsets[u] \in Nat /\ TotalAt(u, l, j) = o + j
        BY <1>1, SlicesRight DEF TotalAt
    <3>2. o \in Nat
      <4> DEFINE D == degree(u)
      <4>1. D \in Nat /\ D > 0 /\ l \in 0..FloorLog2(D) /\ FloorLog2(D) \in Nat
          BY <1>1, <2>1, <2>4, SlicesRight, DeepRight
      <4> HIDE DEF D
      <4>2. l \in 0..FloorLog2(D) + 1
          BY <4>1
      <4>3. hpat_totals_level_offset(D, l) \in Nat
          BY <4>1, <4>2, TotalsLevels
      <4> QED
          BY <4>3 DEF D
    <3>3. trunk_total_of(u, l, j) = trunk_totals[totals_offsets[u] + o + j]
        BY DEF trunk_total_of
    <3> HIDE DEF o
    <3>4. totals_offsets[u] + o + j = totals_offsets[u] + TotalAt(u, l, j)
        BY <2>6, <3>1, <3>2
    <3> QED
        BY <2>5, <3>3, <3>4 DEF StoredTrunk
  <2>11. /\ t[1] = l /\ t[2] = j
      BY <2>2
  <2> QED
      BY <2>7, <2>9, <2>10, <2>11 DEF TrunkWeights
<1> QED
    BY <1>3, <1>4

(* Whatever vertices are being filled, in whatever order, and while the   *)
(* index is built, a trunk that has been stored stays what the accessors  *)
(* of the read side find: its own alias table and its own total.          *)
THEOREM StoredTrunksReadBack == Spec => []TrunksReadBack
<1>1. FillInv => TrunksReadBack
    BY ReadBack
<1> QED
    BY <1>1, FillInvariance, PTL

-----------------------------------------------------------------------------
(* The recursion of decompose_to_trunks, with its parts named. *)
CoverPlaces(K) == (-1..K) \X Nat
Taken(s) == <<s[1] - 1, s[2] + 2^s[1]>>
Passed(s) == <<s[1] - 1, s[2]>>
TrunkOf(s) == [level |-> s[1], index |-> s[2] \div 2^s[1]]
CoverStep(L, g, s) ==
    IF s[1] = -1 THEN <<>>
    ELSE IF Bit(L, s[1]) THEN <<TrunkOf(s)>> \o g[Taken(s)] ELSE g[Passed(s)]
CoverScan(L, K) == CHOOSE g : g = [s \in CoverPlaces(K) |-> CoverStep(L, g, s)]

LEMMA CoverIsRecursion ==
    ASSUME NEW L, NEW K
    PROVE  decompose_to_trunks(L, K) = CoverScan(L, K)[<<K, 0>>]
BY Zenon DEF decompose_to_trunks, CoverScan, CoverPlaces, CoverStep, TrunkOf, Taken, Passed

LEMMA NextPlaces ==
    ASSUME NEW K \in Int, NEW s \in CoverPlaces(K), s[1] # -1
    PROVE  /\ Taken(s) \in CoverPlaces(K) /\ Passed(s) \in CoverPlaces(K)
           /\ s[1] \in Nat /\ Taken(s)[1] = s[1] - 1 /\ Passed(s)[1] = s[1] - 1
<1> PICK k \in -1..K, p \in Nat : s = <<k, p>>
    BY DEF CoverPlaces
<1>1. k \in Nat /\ k - 1 \in -1..K
    OBVIOUS
<1>2. p + 2^k \in Nat
    BY <1>1, PowersRight
<1> QED
    BY <1>1, <1>2 DEF CoverPlaces, Taken, Passed

(* The recursion is defined: lower levels first. *)
LEMMA CoverDefined ==
    ASSUME NEW L, NEW K \in Int, K >= -1
    PROVE  \A s \in CoverPlaces(K) : CoverScan(L, K)[s] = CoverStep(L, CoverScan(L, K), s)
<1> DEFINE S == CoverPlaces(K)
           Solves(g, n) == \A s \in S : s[1] < n => g[s] = CoverStep(L, g, s)
           T == {n \in Nat : \E g : Solves(g, n)}
<1>0. \A s \in S : s[1] \in Int
    BY DEF CoverPlaces
<1>1. 0 \in T
  <2> DEFINE g == [s \in S |-> <<>>]
  <2>1. \A s \in S : s[1] < 0 => s[1] = -1
      BY DEF CoverPlaces
  <2>2. \A s \in S : s[1] < 0 => g[s] = CoverStep(L, g, s)
    <3> HIDE DEF S
    <3> QED
        BY <2>1 DEF CoverStep
  <2> QED
      BY <2>2
<1>2. ASSUME NEW n \in Nat, n \in T PROVE n + 1 \in T
  <2>1. PICK g : Solves(g, n)
      BY <1>2
  <2> DEFINE h == [s \in S |-> IF s[1] < n THEN g[s] ELSE CoverStep(L, g, s)]
  <2> HIDE DEF S
  <2>2. ASSUME NEW s \in S, s[1] < n + 1 PROVE h[s] = CoverStep(L, h, s)
    <3>1. h[s] = CoverStep(L, g, s)
        BY <2>1
    <3>2. CASE s[1] = -1
        BY <3>1, <3>2 DEF CoverStep
    <3>3. CASE s[1] # -1
      <4>1. /\ Taken(s) \in S /\ Passed(s) \in S
            /\ s[1] \in Nat /\ Taken(s)[1] < n /\ Passed(s)[1] < n
          BY <2>2, <3>3, NextPlaces DEF S
      <4>2. h[Taken(s)] = g[Taken(s)] /\ h[Passed(s)] = g[Passed(s)]
          BY <4>1
      <4> QED
          BY <3>1, <4>2 DEF CoverStep
    <3> QED
        BY <3>2, <3>3
  <2> HIDE DEF h
  <2>3. Solves(h, n + 1)
      BY <2>2
  <2> QED
      BY <2>3
<1>3. K + 1 \in T
  <2> HIDE DEF T
  <2>1. K + 1 \in Nat
      OBVIOUS
  <2> QED
      BY <1>1, <1>2, <2>1, SetInduction
<1>4. PICK g : Solves(g, K + 1)
    BY <1>3
<1> DEFINE h == [s \in S |-> g[s]]
<1>5. \A s \in S : s[1] < K + 1
    BY DEF CoverPlaces
<1> HIDE DEF S
<1>6. ASSUME NEW s \in S PROVE h[s] = CoverStep(L, h, s)
  <2>1. h[s] = CoverStep(L, g, s)
      BY <1>4, <1>5
  <2>2. CASE s[1] = -1
      BY <2>1, <2>2 DEF CoverStep
  <2>3. CASE s[1] # -1
    <3>1. Taken(s) \in S /\ Passed(s) \in S
        BY <2>3, NextPlaces DEF S
    <3>2. h[Taken(s)] = g[Taken(s)] /\ h[Passed(s)] = g[Passed(s)]
        BY <3>1
    <3> QED
        BY <2>1, <3>2 DEF CoverStep
  <2> QED
      BY <2>2, <2>3
<1>7. h = [s \in S |-> CoverStep(L, h, s)]
  <2>1. h = [s \in S |-> h[s]]
      OBVIOUS
  <2> HIDE DEF h
  <2> QED
      BY <1>6, <2>1
<1> HIDE DEF h
<1> DEFINE c == CoverScan(L, K)
<1>8. c = [s \in S |-> CoverStep(L, c, s)]
    BY <1>7, Zenon DEF CoverScan, S
<1> HIDE DEF c
<1>9. \A s \in S : c[s] = CoverStep(L, c, s)
    BY <1>8
<1> QED
    BY <1>9 DEF c, S

LEMMA SeqConcat ==
    ASSUME NEW S, NEW s \in Seq(S), NEW t \in Seq(S)
    PROVE  s \o t \in Seq(S) /\ Len(s \o t) = Len(s) + Len(t) /\ Len(t) \in Nat
OBVIOUS

(* A cover has one trunk for each bit at or below its greatest level. *)
CoverTrunk == [level : Int, index : Int]
BitsOf(L, K) == {b \in 0..K : Bit(L, b)}

LEMMA BitsRight ==
    ASSUME NEW L, NEW k \in Nat
    PROVE  /\ BitsOf(L, -1) = {}
           /\ IsFiniteSet(BitsOf(L, k)) /\ Cardinality(BitsOf(L, k)) \in Nat
           /\ Bit(L, k) => Cardinality(BitsOf(L, k)) = Cardinality(BitsOf(L, k - 1)) + 1
           /\ ~Bit(L, k) => BitsOf(L, k) = BitsOf(L, k - 1)
<1>1. /\ IsFiniteSet(0..k) /\ IsFiniteSet(0..k - 1)
      /\ 0..k = (0..k - 1) \cup {k} /\ k \notin 0..k - 1
    BY FS_Interval
<1>2. BitsOf(L, k) \in SUBSET (0..k) /\ BitsOf(L, k - 1) \in SUBSET (0..k - 1)
    BY DEF BitsOf
<1>3. /\ IsFiniteSet(BitsOf(L, k)) /\ Cardinality(BitsOf(L, k)) \in Nat
      /\ IsFiniteSet(BitsOf(L, k - 1))
    BY <1>1, <1>2, FS_Subset, FS_CardinalityType
<1>4. ASSUME Bit(L, k) PROVE Cardinality(BitsOf(L, k)) = Cardinality(BitsOf(L, k - 1)) + 1
  <2>1. BitsOf(L, k) = BitsOf(L, k - 1) \cup {k} /\ k \notin BitsOf(L, k - 1)
      BY <1>1, <1>4 DEF BitsOf
  <2> QED
      BY <1>3, <2>1, FS_AddElement
<1>5. ~Bit(L, k) => BitsOf(L, k) = BitsOf(L, k - 1)
    BY <1>1 DEF BitsOf
<1>6. BitsOf(L, -1) = {}
    BY DEF BitsOf
<1> QED
    BY <1>3, <1>4, <1>5, <1>6

LEMMA CoverBits ==
    ASSUME NEW L, NEW K \in Int, K >= -1
    PROVE  /\ decompose_to_trunks(L, K) \in Seq(CoverTrunk)
           /\ Len(decompose_to_trunks(L, K)) = Cardinality(BitsOf(L, K))
<1> DEFINE c == CoverScan(L, K)
           Right(k) == \A p \in Nat : /\ c[<<k, p>>] \in Seq(CoverTrunk)
                                      /\ Len(c[<<k, p>>]) = Cardinality(BitsOf(L, k))
           T == {n \in Nat : n - 1 <= K => Right(n - 1)}
<1>1. \A k \in -1..K : \A p \in Nat :
          /\ <<k, p>> \in CoverPlaces(K)
          /\ c[<<k, p>>] = CoverStep(L, c, <<k, p>>)
    BY CoverDefined DEF CoverPlaces
<1> HIDE DEF c
<1>2. 0 \in T
  <2>1. BitsOf(L, -1) = {}
      BY BitsRight
  <2>2. Cardinality(BitsOf(L, -1)) = 0
      BY <2>1, FS_EmptySet
  <2>3. -1 \in -1..K
      OBVIOUS
  <2>4. \A p \in Nat : c[<<-1, p>>] = <<>>
      BY <1>1, <2>3 DEF CoverStep
  <2>5. <<>> \in Seq(CoverTrunk) /\ Len(<<>>) = 0
      OBVIOUS
  <2>6. Right(-1)
      BY <2>2, <2>4, <2>5, Zenon
  <2>7. 0 - 1 = -1
      OBVIOUS
  <2> HIDE DEF Right
  <2> QED
      BY <2>6, <2>7
<1>3. ASSUME NEW k \in Nat, k \in T PROVE k + 1 \in T
  <2> SUFFICES ASSUME k <= K, NEW p \in Nat
               PROVE  /\ c[<<k, p>>] \in Seq(CoverTrunk)
                      /\ Len(c[<<k, p>>]) = Cardinality(BitsOf(L, k))
    <3>1. (k + 1) - 1 = k
        OBVIOUS
    <3> QED
        BY <3>1
  <2>1. Right(k - 1)
      BY <1>3
  <2>2. k # -1 /\ k \in -1..K
      OBVIOUS
  <2>3. c[<<k, p>>] = IF Bit(L, k) THEN <<TrunkOf(<<k, p>>)>> \o c[<<k - 1, p + 2^k>>]
                      ELSE c[<<k - 1, p>>]
      BY <1>1, <2>2 DEF CoverStep, Taken, Passed
  <2>4. 2^k \in Nat /\ 2^k > 0
      BY PowersRight
  <2>5. TrunkOf(<<k, p>>) \in CoverTrunk
    <3> PICK d : d = 2^k
        OBVIOUS
    <3>1. p \div d \in Int
        BY <2>4
    <3> QED
        BY <3>1 DEF TrunkOf, CoverTrunk
  <2>6. CASE ~Bit(L, k)
    <3>1. c[<<k, p>>] = c[<<k - 1, p>>]
        BY <2>3, <2>6
    <3>2. BitsOf(L, k) = BitsOf(L, k - 1)
        BY <2>6, BitsRight
    <3> QED
        BY <2>1, <3>1, <3>2
  <2>7. CASE Bit(L, k)
    <3> DEFINE q == p + 2^k
               a == <<TrunkOf(<<k, p>>)>>
               r == c[<<k - 1, q>>]
    <3>1. q \in Nat
        BY <2>4
    <3>2. c[<<k, p>>] = a \o r
        BY <2>3, <2>7
    <3>3. a \in Seq(CoverTrunk) /\ Len(a) = 1
        BY <2>5
    <3> HIDE DEF q, a
    <3>4. r \in Seq(CoverTrunk) /\ Len(r) = Cardinality(BitsOf(L, k - 1))
        BY <2>1, <3>1
    <3> HIDE DEF r
    <3>5. a \o r \in Seq(CoverTrunk) /\ Len(a \o r) = Len(a) + Len(r) /\ Len(r) \in Nat
        BY <3>3, <3>4, SeqConcat
    <3>6. Cardinality(BitsOf(L, k)) = Cardinality(BitsOf(L, k - 1)) + 1
        BY <2>7, BitsRight
    <3> QED
        BY <3>2, <3>3, <3>4, <3>5, <3>6
  <2> QED
      BY <2>6, <2>7
<1>4. \A n \in Nat : n \in T
  <2> HIDE DEF T
  <2> QED
      BY <1>2, <1>3, SetInduction
<1>5. K + 1 \in Nat /\ (K + 1) - 1 = K /\ K <= K
    OBVIOUS
<1>6. Right(K)
  <2> HIDE DEF Right
  <2>1. (K + 1) \in T
    <3> HIDE DEF T
    <3> QED
        BY <1>4, <1>5
  <2> QED
      BY <1>5, <2>1
<1> QED
    BY <1>6, CoverIsRecursion DEF c

(* A bit of L is at a level whose trunks are no longer than L. *)
LEMMA BitsBelow ==
    ASSUME NEW L \in Nat, NEW k \in Nat, Bit(L, k)
    PROVE  2^k <= L /\ k < L
<1>1. PICK d : d = 2^k
    OBVIOUS
<1>2. d \in Nat /\ d > 0 /\ k < d
    BY <1>1, PowersRight
<1>3. L \div d # 0
  <2>1. L \div d % 2 = 1
      BY <1>1 DEF Bit
  <2> QED
      BY <2>1
<1>4. d <= L
    BY <1>2, <1>3, Quotient
<1> QED
    BY <1>1, <1>2, <1>4

LEMMA CoverLength ==
    ASSUME NEW L \in Nat, NEW K \in Int, K >= -1, L < 2^(K + 1)
    PROVE  /\ decompose_to_trunks(L, K) \in Seq(CoverTrunk)
           /\ Len(decompose_to_trunks(L, K)) = popcount(L)
<1>1. ASSUME NEW b \in Nat, Bit(L, b) PROVE b \in 0..K /\ b \in 0..L
  <2>1. 2^b <= L /\ b < L
      BY <1>1, BitsBelow
  <2>2. b <= K
    <3> SUFFICES ASSUME K + 1 <= b PROVE FALSE
        OBVIOUS
    <3>1. 2^(K + 1) <= 2^b /\ 2^b \in Nat /\ 2^(K + 1) \in Nat
        BY PowersRight
    <3> QED
        BY <2>1, <3>1
  <2> QED
      BY <2>1, <2>2
<1>2. BitsOf(L, K) = {b \in 0..L : Bit(L, b)}
    BY <1>1 DEF BitsOf
<1> QED
    BY <1>2, CoverBits DEF popcount

LEMMA PopcountRight == \A L \in Nat : popcount(L) \in Nat
<1> SUFFICES ASSUME NEW L \in Nat PROVE popcount(L) \in Nat
    OBVIOUS
<1>1. popcount(L) = Cardinality(BitsOf(L, L))
    BY DEF popcount, BitsOf
<1> QED
    BY <1>1, BitsRight

(* How many trunks the covers of the first prefixes have together. *)
LEMMA EntriesRight ==
    /\ EntriesUpTo(-1) = 0
    /\ \A L \in Nat : /\ EntriesUpTo(L) \in Nat /\ EntriesUpTo(L - 1) \in Nat
                      /\ EntriesUpTo(L) = EntriesUpTo(L - 1) + popcount(L)
    /\ \A K, L \in Nat : K < L => EntriesUpTo(K) <= EntriesUpTo(L - 1)
<1> DEFINE w == [l \in Nat |-> popcount(l)]
<1>1. \A l \in Nat : w[l] \in Nat /\ w[l] = popcount(l)
    BY PopcountRight
<1>2. ASSUME NEW L \in Int PROVE EntriesUpTo(L) = RangeSum(w, 1, L)
  <2>1. \A l \in 1..L : w[l] = popcount(l)
      BY <1>1
  <2> HIDE DEF w
  <2>2. [l \in 1..L |-> popcount(l)] = [p \in 1..L |-> w[p]]
      BY <2>1
  <2> QED
      BY <2>2 DEF EntriesUpTo, RangeSum
<1> HIDE DEF w
<1>3. ASSUME NEW L \in Int PROVE RangeSum(w, 1, L) \in Nat
  <2>1. \A p \in 1..L : w[p] \in Nat
      BY <1>1
  <2>2. 1 \in Int
      OBVIOUS
  <2> QED
      BY <2>1, <2>2, RangeSumRight
<1>4. ASSUME NEW L \in Int, L <= 0 PROVE RangeSum(w, 1, L) = 0
  <2>1. 1..L = {} /\ 1 \in Int /\ \A p \in 1..L : w[p] \in Nat
      BY <1>4
  <2>2. RangeSum(w, 1, L) = SumFunctionOnSet(w, 1..L)
      BY <2>1, RangeSumRight
  <2> QED
      BY <2>1, <2>2, SumEmpty
<1>5. ASSUME NEW K \in Nat, NEW L \in Nat, K <= L
      PROVE  RangeSum(w, 1, L) = RangeSum(w, 1, K) + RangeSum(w, K + 1, L)
  <2>1. /\ 1 \in Int /\ K \in Int /\ L \in Int /\ 1 <= K + 1
        /\ \A p \in 1..L : w[p] \in Nat
      BY <1>1
  <2> QED
      BY <1>5, <2>1, RangeSumSplit
<1>6. ASSUME NEW K \in Nat, NEW L \in Nat PROVE RangeSum(w, K + 1, L) \in Nat
  <2>1. K + 1 \in Int /\ L \in Int /\ \A p \in K + 1..L : w[p] \in Nat
      BY <1>1
  <2> QED
      BY <2>1, RangeSumRight
<1>7. ASSUME NEW L \in Nat
      PROVE  /\ EntriesUpTo(L) \in Nat /\ EntriesUpTo(L - 1) \in Nat
             /\ EntriesUpTo(L) = EntriesUpTo(L - 1) + popcount(L)
  <2>1. /\ EntriesUpTo(L) = RangeSum(w, 1, L) /\ EntriesUpTo(L - 1) = RangeSum(w, 1, L - 1)
        /\ RangeSum(w, 1, L) \in Nat /\ RangeSum(w, 1, L - 1) \in Nat
      BY <1>2, <1>3
  <2>2. CASE L = 0
    <3>1. popcount(0) = 0
      <4>1. \A k \in 0..0 : ~Bit(0, k)
        <5>1. ASSUME NEW k \in 0..0, Bit(0, k) PROVE FALSE
          <6>1. 0 \in Nat /\ k \in Nat
              OBVIOUS
          <6>2. k < 0
              BY <5>1, <6>1, BitsBelow
          <6> QED
              BY <6>1, <6>2
        <5> QED
            BY <5>1
      <4>2. {k \in 0..0 : Bit(0, k)} = {}
          BY <4>1
      <4> QED
          BY <4>2, FS_EmptySet DEF popcount
    <3>2. RangeSum(w, 1, L) = 0 /\ RangeSum(w, 1, L - 1) = 0
        BY <1>4, <2>2
    <3> QED
        BY <2>1, <2>2, <3>1, <3>2
  <2>3. CASE L # 0
    <3> PICK K \in Nat : L = K + 1
        BY <2>3
    <3>1. RangeSum(w, 1, L) = RangeSum(w, 1, K) + RangeSum(w, L, L)
        BY <1>5
    <3>2. RangeSum(w, L, L) = popcount(L)
      <4>1. L \in Int /\ \A p \in L..L : w[p] \in Nat
          BY <1>1
      <4>2. RangeSum(w, L, L) = SumFunctionOnSet(w, L..L)
          BY <4>1, RangeSumRight
      <4>3. /\ L..L = {} \cup {L} /\ L \notin {} /\ IsFiniteSet({})
            /\ w[L] \in Int /\ w[L] = popcount(L)
          BY <1>1, FS_EmptySet
      <4>4. SumFunctionOnSet(w, {} \cup {L}) = w[L] + SumFunctionOnSet(w, {})
          BY <4>3, SumAdd
      <4> QED
          BY <4>2, <4>3, <4>4, SumEmpty
    <3>3. K = L - 1
        OBVIOUS
    <3> QED
        BY <2>1, <3>1, <3>2, <3>3
  <2> QED
      BY <2>1, <2>2, <2>3
<1>8. ASSUME NEW K \in Nat, NEW L \in Nat, K < L PROVE EntriesUpTo(K) <= EntriesUpTo(L - 1)
  <2> PICK M \in Nat : M = L - 1
      BY <1>8
  <2>1. RangeSum(w, 1, M) = RangeSum(w, 1, K) + RangeSum(w, K + 1, M)
      BY <1>5, <1>8
  <2>2. EntriesUpTo(K) = RangeSum(w, 1, K) /\ EntriesUpTo(M) = RangeSum(w, 1, M)
      BY <1>2
  <2>3. RangeSum(w, 1, K) \in Nat /\ RangeSum(w, K + 1, M) \in Nat
      BY <1>3, <1>6
  <2> QED
      BY <2>1, <2>2, <2>3
<1>9. EntriesUpTo(-1) = 0
    BY <1>2, <1>4
<1> QED
    BY <1>7, <1>8, <1>9


-----------------------------------------------------------------------------
(* The auxiliary index. *)
LEMMA CountsRight ==
    ASSUME InputInv, LayoutInv, Filling
    PROVE  /\ phase # "unbuilt" /\ N \in Nat /\ Vertices = 0..N - 1
           /\ PrefixCounts \in [0..N - 1 -> Nat] /\ CoverCounts \in [0..N - 1 -> Nat]
           /\ \A u \in Vertices : degree(u) \in Nat
           /\ \A u \in Vertices : is_solo[u] => PrefixCounts[u] = 0 /\ CoverCounts[u] = 0
           /\ \A u \in Vertices : ~is_solo[u] => /\ PrefixCounts[u] = degree(u) + 1
                                                 /\ CoverCounts[u] = EntriesUpTo(degree(u))
<1>1. phase # "unbuilt" /\ N \in Nat /\ Vertices = 0..N - 1
    BY SlicesRight
<1>2. \A u \in Vertices : degree(u) \in Nat
    BY <1>1, GraphRight
<1>3. \A u \in Vertices : EntriesUpTo(degree(u)) \in Nat
    BY <1>2, EntriesRight
<1>4. PrefixCounts \in [Vertices -> Nat]
    BY <1>2 DEF PrefixCounts, Prefixes
<1>5. CoverCounts \in [Vertices -> Nat]
    BY <1>3 DEF CoverCounts
<1> QED
    BY <1>1, <1>2, <1>4, <1>5 DEF PrefixCounts, CoverCounts, Prefixes

LEMMA CoversRight ==
    ASSUME InputInv, LayoutInv, Filling, NEW u \in Vertices, ~is_solo[u],
           NEW L \in 0..degree(u)
    PROVE  Cover(u, L) \in Seq(CoverTrunk) /\ Len(Cover(u, L)) = popcount(L)
<1> DEFINE D == degree(u)
           K == K_max[u]
<1>1. D \in Nat /\ Shape(u) /\ phase # "unbuilt" /\ L \in Nat /\ L <= D
    BY SlicesRight, GraphRight
<1>2. CASE Deep(u)
  <2>1. D > 0 /\ K = FloorLog2(D)
      BY <1>1, <1>2, DeepRight
  <2>2. K \in Nat /\ D < 2^(K + 1) /\ 2^(K + 1) \in Nat
      BY <1>1, <2>1, FloorLog2Right, PowersRight
  <2> HIDE DEF D, K
  <2>3. K \in Int /\ K >= -1 /\ L < 2^(K + 1)
      BY <1>1, <2>2
  <2> QED
      BY <1>1, <2>3, CoverLength DEF Cover, K
<1>3. CASE ~Deep(u)
  <2>1. D = 0 /\ K = -1
      BY <1>1, <1>3, HpatAssumption DEF Shape, Deep
  <2>2. 2^(K + 1) = 1
      BY <2>1, PowersRight
  <2> HIDE DEF D, K
  <2>3. K \in Int /\ K >= -1 /\ L < 2^(K + 1)
      BY <1>1, <2>1, <2>2
  <2> QED
      BY <1>1, <2>3, CoverLength DEF Cover, K
<1> QED
    BY <1>2, <1>3

LEMMA IndexRight ==
    ASSUME InputInv, LayoutInv, Filling, IndexInv
    PROVE  /\ L_base[N] \in Nat /\ entries_start[N] \in Nat
           /\ \A u \in Vertices :
                  /\ L_base[u] \in Nat /\ entries_start[u] \in Nat
                  /\ PrefixCounts[u] \in Nat /\ CoverCounts[u] \in Nat
                  /\ L_base[u] + PrefixCounts[u] <= L_base[N]
                  /\ entries_start[u] + CoverCounts[u] <= entries_start[N]
           /\ \A u, v \in Vertices : u < v =>
                  /\ L_base[u] + PrefixCounts[u] <= L_base[v]
                  /\ entries_start[u] + CoverCounts[u] <= entries_start[v]
<1>1. /\ N \in Nat /\ Vertices = 0..N - 1
      /\ PrefixCounts \in [0..N - 1 -> Nat] /\ CoverCounts \in [0..N - 1 -> Nat]
    BY CountsRight
<1>2. /\ L_base \in [0..N -> Nat] /\ Consecutive(L_base, PrefixCounts, N)
      /\ entries_start \in [0..N -> Nat] /\ Consecutive(entries_start, CoverCounts, N)
    BY DEF IndexInv
<1>3. /\ \A v \in 0..N - 1 : L_base[v] + PrefixCounts[v] <= L_base[N]
      /\ \A v, w \in 0..N - 1 : v < w => L_base[v] + PrefixCounts[v] <= L_base[w]
    BY <1>1, <1>2, SlicesDisjoint
<1>4. /\ \A v \in 0..N - 1 : entries_start[v] + CoverCounts[v] <= entries_start[N]
      /\ \A v, w \in 0..N - 1 : v < w => entries_start[v] + CoverCounts[v] <= entries_start[w]
    BY <1>1, <1>2, SlicesDisjoint
<1>5. N \in 0..N /\ \A v \in 0..N - 1 : v \in 0..N
    BY <1>1
<1> QED
    BY <1>1, <1>2, <1>3, <1>4, <1>5

LEMMA SameCovers ==
    ASSUME UNCHANGED args, UNCHANGED <<K_max, is_solo>>
    PROVE  /\ PrefixCounts' = PrefixCounts /\ CoverCounts' = CoverCounts
           /\ \A u : Prefixes(u)' = Prefixes(u)
           /\ \A u, L : Cover(u, L)' = Cover(u, L)
<1>1. Vertices' = Vertices /\ \A u : degree(u)' = degree(u)
    BY SameInput
<1>2. \A u : Prefixes(u)' = Prefixes(u)
    BY <1>1 DEF Prefixes
<1> QED
    BY <1>1, <1>2 DEF PrefixCounts, CoverCounts, Cover

LEMMA StartAuxAux ==
    ASSUME FillInv, StartAux PROVE AuxInv'
<1>1. /\ UNCHANGED args /\ phase = "fill" /\ phase' = "aux_layout" /\ scan' = 0
      /\ cum_L' = 0 /\ cum_e' = 0
      /\ L_base' = [u \in 0..N |-> 0] /\ entries_start' = [u \in 0..N |-> 0]
    BY DEF StartAux
<1>2. N' = N
    BY <1>1, SameInput
<1>3. N \in Nat
    BY <1>1, GraphRight DEF FillInv
<1>4. /\ StepsTo(L_base', PrefixCounts', N', scan', cum_L')
      /\ StepsTo(entries_start', CoverCounts', N', scan', cum_e')
  <2>1. /\ StepsTo(L_base', PrefixCounts', N', 0, 0)
        /\ StepsTo(entries_start', CoverCounts', N', 0, 0)
      BY <1>2, <1>3, NoSteps
  <2> QED
      BY <1>1, <2>1
<1>5. /\ StepsTo(L_base, PrefixCounts, N, scan, cum_L)'
      /\ StepsTo(entries_start, CoverCounts, N, scan, cum_e)'
    BY <1>4 DEF StepsTo
<1>6. /\ L_base' \in [0..N' -> Nat] /\ entries_start' \in [0..N' -> Nat]
      /\ scan' \in 0..N' /\ cum_L' \in Nat /\ cum_e' \in Nat
    BY <1>1, <1>2, <1>3
<1> QED
    BY <1>1, <1>5, <1>6 DEF AuxInv

LEMMA AuxLayoutVertexAux ==
    ASSUME FillInv, AuxInv, AuxLayoutVertex PROVE AuxInv'
<1>1. /\ UNCHANGED args /\ UNCHANGED layout /\ phase = "aux_layout" /\ phase' = phase
      /\ scan < N /\ scan' = scan + 1
      /\ L_base' = [L_base EXCEPT ![scan] = cum_L]
      /\ entries_start' = [entries_start EXCEPT ![scan] = cum_e]
      /\ cum_L' = IF is_solo[scan] THEN cum_L ELSE cum_L + Prefixes(scan)
      /\ cum_e' = IF is_solo[scan] THEN cum_e ELSE cum_e + EntriesUpTo(degree(scan))
    BY DEF AuxLayoutVertex, EntriesUpTo
<1>2. N' = N /\ PrefixCounts' = PrefixCounts /\ CoverCounts' = CoverCounts
    BY <1>1, SameInput, SameCovers DEF layout
<1>3. /\ N \in Nat /\ Vertices = 0..N - 1
      /\ PrefixCounts \in [0..N - 1 -> Nat] /\ CoverCounts \in [0..N - 1 -> Nat]
    BY <1>1, CountsRight DEF FillInv, Filling
<1>4. /\ scan \in 0..N /\ cum_L \in Nat /\ cum_e \in Nat
      /\ L_base \in [0..N -> Nat] /\ StepsTo(L_base, PrefixCounts, N, scan, cum_L)
      /\ entries_start \in [0..N -> Nat]
      /\ StepsTo(entries_start, CoverCounts, N, scan, cum_e)
    BY <1>1 DEF AuxInv
<1>5. scan \in 0..N - 1 /\ scan \in Vertices /\ scan + 1 \in 0..N
    BY <1>1, <1>3, <1>4
<1>6. cum_L' = cum_L + PrefixCounts[scan] /\ cum_e' = cum_e + CoverCounts[scan]
    BY <1>1, <1>4, <1>5 DEF PrefixCounts, CoverCounts
<1>7. StepsTo(L_base', PrefixCounts, N, scan', cum_L')
    BY <1>1, <1>3, <1>4, <1>5, <1>6, StepsOn
<1>8. StepsTo(entries_start', CoverCounts, N, scan', cum_e')
    BY <1>1, <1>3, <1>4, <1>5, <1>6, StepsOn
<1>9. /\ StepsTo(L_base, PrefixCounts, N, scan, cum_L)'
      /\ StepsTo(entries_start, CoverCounts, N, scan, cum_e)'
    BY <1>2, <1>7, <1>8 DEF StepsTo
<1>10. cum_L' \in Nat /\ cum_e' \in Nat
    BY SMTT(30), <1>3, <1>4, <1>5, <1>6
<1>11. L_base' \in [0..N -> Nat] /\ entries_start' \in [0..N -> Nat]
    BY <1>1, <1>4
<1> QED
    BY <1>1, <1>2, <1>5, <1>9, <1>10, <1>11 DEF AuxInv

LEMMA AllocateAuxAux ==
    ASSUME FillInv, AuxInv, AllocateAux PROVE AuxInv'
<1>1. /\ UNCHANGED args /\ UNCHANGED <<K_max, is_solo>>
      /\ phase = "aux_layout" /\ phase' = "aux_fill" /\ scan = N
      /\ L_base' = [L_base EXCEPT ![N] = cum_L]
      /\ entries_start' = [entries_start EXCEPT ![N] = cum_e]
      /\ L_offsets' = [c \in 0..cum_L |-> 0] /\ entries' = [c \in 0..cum_e - 1 |-> NoTrunk]
      /\ next_L' = [u \in Vertices |-> 0] /\ cur' = [u \in Vertices |-> entries_start[u]]
      /\ cum_L' = cum_L /\ cum_e' = cum_e
    BY DEF AllocateAux, build_vars, layout
<1>2. /\ N' = N /\ Vertices' = Vertices /\ is_solo' = is_solo
      /\ PrefixCounts' = PrefixCounts /\ CoverCounts' = CoverCounts
      /\ \A u : Prefixes(u)' = Prefixes(u)
    BY <1>1, SameInput, SameCovers
<1>3. /\ N \in Nat /\ Vertices = 0..N - 1
      /\ PrefixCounts \in [0..N - 1 -> Nat] /\ CoverCounts \in [0..N - 1 -> Nat]
      /\ \A u \in Vertices : degree(u) \in Nat
    BY <1>1, CountsRight DEF FillInv, Filling
<1>4. /\ cum_L \in Nat /\ cum_e \in Nat
      /\ L_base \in [0..N -> Nat] /\ StepsTo(L_base, PrefixCounts, N, N, cum_L)
      /\ entries_start \in [0..N -> Nat]
      /\ StepsTo(entries_start, CoverCounts, N, N, cum_e)
    BY <1>1 DEF AuxInv
<1>5. Consecutive(L_base', PrefixCounts, N)
  <2> PICK q : q = L_base'
      OBVIOUS
  <2>1. q = [L_base EXCEPT ![N] = cum_L]
      BY <1>1
  <2>2. Consecutive(q, PrefixCounts, N)
      BY <1>3, <1>4, <2>1, StepsEnd
  <2> QED
      BY <2>2
<1>6. Consecutive(entries_start', CoverCounts, N)
  <2> PICK q : q = entries_start'
      OBVIOUS
  <2>1. q = [entries_start EXCEPT ![N] = cum_e]
      BY <1>1
  <2>2. Consecutive(q, CoverCounts, N)
      BY <1>3, <1>4, <2>1, StepsEnd
  <2> QED
      BY <2>2
<1>7. /\ Consecutive(L_base, PrefixCounts, N)'
      /\ Consecutive(entries_start, CoverCounts, N)'
    BY <1>2, <1>5, <1>6 DEF Consecutive
<1>8. /\ L_base' \in [0..N -> Nat] /\ entries_start' \in [0..N -> Nat]
      /\ L_base'[N] = cum_L /\ entries_start'[N] = cum_e
      /\ \A u \in Vertices : entries_start'[u] = entries_start[u]
    BY SMTT(30), <1>1, <1>3, <1>4
<1>9. L_offsets' \in [0..L_base'[N] -> Nat] /\ DOMAIN entries' = 0..entries_start'[N] - 1
    BY <1>1, <1>8
<1>10. IndexInv'
    BY <1>1, <1>2, <1>7, <1>8, <1>9 DEF IndexInv
<1>11. next_L' \in [Vertices -> Nat] /\ cur' \in [Vertices -> Nat]
    BY <1>1, <1>3, <1>4
<1>12. ASSUME NEW u \in Vertices
       PROVE  /\ next_L'[u] <= Prefixes(u)
              /\ cur'[u] = entries_start'[u] + EntriesUpTo(next_L'[u] - 1)
              /\ next_L'[u] = 0
  <2>1. next_L'[u] = 0 /\ cur'[u] = entries_start[u]
      BY <1>1
  <2>2. EntriesUpTo(next_L'[u] - 1) = 0
    <3>1. next_L'[u] - 1 = -1
        BY <2>1
    <3> QED
        BY <3>1, EntriesRight
  <2>3. entries_start[u] \in Nat
      BY <1>3, <1>4
  <2>4. 0 <= Prefixes(u)
      BY <1>3 DEF Prefixes
  <2> QED
      BY <1>8, <2>1, <2>2, <2>3, <2>4
<1>13. \A u \in Vertices : \A L \in 0..next_L'[u] - 1 : FALSE
    BY <1>12
<1> QED
    BY <1>1, <1>2, <1>10, <1>11, <1>12, <1>13 DEF AuxInv


(* Where the cover of prefix L of u is in the table of entries. *)
FirstEntry(u, L) == entries_start[u] + EntriesUpTo(L - 1)

LEMMA CoverSlice ==
    ASSUME InputInv, LayoutInv, Filling, IndexInv, NEW u \in Vertices, ~is_solo[u],
           NEW L \in 0..degree(u)
    PROVE  /\ FirstEntry(u, L) \in Nat /\ entries_start[u] \in Nat /\ L_base[u] \in Nat
           /\ entries_start[u] <= FirstEntry(u, L) /\ popcount(L) \in Nat
           /\ FirstEntry(u, L) + popcount(L) = entries_start[u] + EntriesUpTo(L)
           /\ FirstEntry(u, L) + popcount(L) <= entries_start[u] + CoverCounts[u]
           /\ FirstEntry(u, L) + popcount(L) <= entries_start[N]
           /\ L_base[u] + L < L_base[u] + PrefixCounts[u] /\ L_base[u] + L < L_base[N]
<1> DEFINE D == degree(u)
           e == entries_start[u]
           b == L_base[u]
<1>1. /\ D \in Nat /\ L \in Nat /\ L <= D
      /\ PrefixCounts[u] = D + 1 /\ CoverCounts[u] = EntriesUpTo(D)
    BY CountsRight
<1>2. /\ e \in Nat /\ b \in Nat /\ CoverCounts[u] \in Nat /\ L_base[N] \in Nat
      /\ e + CoverCounts[u] <= entries_start[N] /\ b + PrefixCounts[u] <= L_base[N]
      /\ entries_start[N] \in Nat
    BY IndexRight
<1>3. /\ EntriesUpTo(L) \in Nat /\ EntriesUpTo(L - 1) \in Nat /\ popcount(L) \in Nat
      /\ EntriesUpTo(L) = EntriesUpTo(L - 1) + popcount(L)
    BY <1>1, EntriesRight, PopcountRight
<1>4. EntriesUpTo(L) <= EntriesUpTo(D)
  <2>1. CASE L = D
      BY <1>3, <2>1
  <2>2. CASE L < D
    <3> HIDE DEF D
    <3>1. /\ EntriesUpTo(L) <= EntriesUpTo(D - 1)
          /\ EntriesUpTo(D) = EntriesUpTo(D - 1) + popcount(D)
          /\ EntriesUpTo(D - 1) \in Nat /\ popcount(D) \in Nat
        BY <1>1, <2>2, EntriesRight, PopcountRight
    <3> QED
        BY <1>3, <3>1
  <2> QED
      BY <1>1, <2>1, <2>2
<1> HIDE DEF D, e, b
<1>5. FirstEntry(u, L) = e + EntriesUpTo(L - 1)
    BY DEF FirstEntry, e
<1> QED
    BY <1>1, <1>2, <1>3, <1>4, <1>5 DEF e, b

LEMMA CoversApart ==
    ASSUME InputInv, LayoutInv, Filling, IndexInv,
           NEW u \in Vertices, ~is_solo[u], NEW L \in 0..degree(u),
           NEW v \in Vertices, ~is_solo[v], NEW M \in 0..degree(v),
           v = u => M < L
    PROVE  /\ L_base[v] + M # L_base[u] + L
           /\ \/ FirstEntry(v, M) + popcount(M) <= FirstEntry(u, L)
              \/ FirstEntry(u, L) + popcount(L) <= FirstEntry(v, M)
<1>1. /\ FirstEntry(u, L) \in Nat /\ entries_start[u] \in Nat /\ L_base[u] \in Nat
      /\ entries_start[u] <= FirstEntry(u, L) /\ popcount(L) \in Nat
      /\ FirstEntry(u, L) + popcount(L) <= entries_start[u] + CoverCounts[u]
      /\ L_base[u] + L < L_base[u] + PrefixCounts[u]
    BY CoverSlice
<1>2. /\ FirstEntry(v, M) \in Nat /\ entries_start[v] \in Nat /\ L_base[v] \in Nat
      /\ entries_start[v] <= FirstEntry(v, M) /\ popcount(M) \in Nat
      /\ FirstEntry(v, M) + popcount(M) = entries_start[v] + EntriesUpTo(M)
      /\ FirstEntry(v, M) + popcount(M) <= entries_start[v] + CoverCounts[v]
      /\ L_base[v] + M < L_base[v] + PrefixCounts[v]
    BY CoverSlice
<1>3. /\ u \in Int /\ v \in Int /\ degree(u) \in Nat /\ degree(v) \in Nat
      /\ PrefixCounts[u] \in Nat /\ PrefixCounts[v] \in Nat
      /\ CoverCounts[u] \in Nat /\ CoverCounts[v] \in Nat
    BY CountsRight, IndexRight
<1>4. L \in Nat /\ M \in Nat
    BY <1>3
<1>5. CASE u = v
  <2>1. M < L
      BY <1>5
  <2>2. EntriesUpTo(M) <= EntriesUpTo(L - 1) /\ EntriesUpTo(M) \in Nat /\ EntriesUpTo(L - 1) \in Nat
      BY <1>4, <2>1, EntriesRight
  <2>3. FirstEntry(u, L) = entries_start[u] + EntriesUpTo(L - 1)
      BY DEF FirstEntry
  <2>4. FirstEntry(v, M) + popcount(M) = entries_start[u] + EntriesUpTo(M)
      BY <1>2, <1>5
  <2>5. FirstEntry(v, M) + popcount(M) <= FirstEntry(u, L)
      BY <1>1, <2>2, <2>3, <2>4
  <2>6. L_base[v] + M # L_base[u] + L
      BY <1>1, <1>4, <1>5, <2>1
  <2> QED
      BY <2>5, <2>6
<1>6. CASE u < v
  <2>1. /\ L_base[u] + PrefixCounts[u] <= L_base[v]
        /\ entries_start[u] + CoverCounts[u] <= entries_start[v]
      BY <1>6, IndexRight
  <2> QED
      BY <1>1, <1>2, <1>3, <1>4, <2>1
<1>7. CASE v < u
  <2>1. /\ L_base[v] + PrefixCounts[v] <= L_base[u]
        /\ entries_start[v] + CoverCounts[v] <= entries_start[u]
      BY <1>7, IndexRight
  <2> QED
      BY <1>1, <1>2, <1>3, <1>4, <2>1
<1> QED
    BY <1>3, <1>5, <1>6, <1>7

LEMMA FillCoverAux ==
    ASSUME FillInv, AuxInv, NEW u \in Vertices, FillCover(u) PROVE AuxInv'
<1>0. PICK L : L = next_L[u]
    OBVIOUS
<1> DEFINE cover == Cover(u, L)
           n == Len(cover)
           first == FirstEntry(u, L)
           filling == [j \in 0..n - 1 |-> cover[j + 1]]
<1>1. /\ UNCHANGED args /\ UNCHANGED <<K_max, is_solo>>
      /\ phase = "aux_fill" /\ phase' = phase /\ ~is_solo[u] /\ L <= degree(u)
      /\ L_offsets' = [L_offsets EXCEPT ![L_base[u] + L] = cur[u]]
      /\ entries' = Write(entries, cur[u], filling)
      /\ cur' = [cur EXCEPT ![u] = @ + n]
      /\ next_L' = [next_L EXCEPT ![u] = @ + 1]
      /\ L_base' = L_base /\ entries_start' = entries_start /\ cum_L' = cum_L /\ cum_e' = cum_e
    BY <1>0 DEF FillCover, build_vars, layout, Cover
<1>2. /\ N' = N /\ Vertices' = Vertices /\ is_solo' = is_solo
      /\ PrefixCounts' = PrefixCounts /\ CoverCounts' = CoverCounts
      /\ \A v : Prefixes(v)' = Prefixes(v) /\ degree(v)' = degree(v)
      /\ \A v, M : Cover(v, M)' = Cover(v, M)
    BY <1>1, SameInput, SameCovers
<1>3. InputInv /\ LayoutInv /\ Filling
    BY <1>1 DEF FillInv, Filling
<1>4. /\ IndexInv /\ next_L \in [Vertices -> Nat] /\ cur \in [Vertices -> Nat]
      /\ \A v \in Vertices : ~is_solo[v] =>
             /\ next_L[v] <= Prefixes(v)
             /\ cur[v] = entries_start[v] + EntriesUpTo(next_L[v] - 1)
             /\ \A M \in 0..next_L[v] - 1 : StoredCover(v, M)
    BY <1>1 DEF AuxInv
<1>5. degree(u) \in Nat /\ L \in Nat /\ L \in 0..degree(u)
    BY <1>0, <1>1, <1>3, <1>4, CountsRight
<1>6. cur[u] = first /\ cur[u] \in Nat
    BY <1>0, <1>1, <1>4 DEF FirstEntry
<1>7. cover \in Seq(CoverTrunk) /\ n = popcount(L) /\ n \in Nat
    BY <1>1, <1>3, <1>5, CoversRight, PopcountRight
<1>8. /\ first \in Nat /\ L_base[u] \in Nat /\ L_base[N] \in Nat /\ entries_start[N] \in Nat
      /\ first + n = entries_start[u] + EntriesUpTo(L)
      /\ first + n <= entries_start[N] /\ L_base[u] + L < L_base[N]
    BY <1>1, <1>3, <1>4, <1>5, <1>7, CoverSlice, IndexRight
<1> HIDE DEF cover, n, first, filling
<1>9. ASSUME NEW c \in 0..entries_start[N] - 1
      PROVE  entries'[c] = IF c - first \in 0..n - 1 THEN cover[c - first + 1] ELSE entries[c]
  <2>1. DOMAIN entries = 0..entries_start[N] - 1
      BY <1>4 DEF IndexInv
  <2>2. DOMAIN filling = 0..n - 1 /\ \A j \in 0..n - 1 : filling[j] = cover[j + 1]
      BY DEF filling
  <2>3. entries'[c] = IF c - first \in DOMAIN filling THEN filling[c - first] ELSE entries[c]
      BY <1>1, <1>6, <2>1 DEF Write
  <2> QED
      BY <2>2, <2>3
<1>10. DOMAIN entries' = 0..entries_start'[N'] - 1
    BY <1>1, <1>2, <1>4 DEF IndexInv, Write
<1>11. /\ L_offsets \in [0..L_base[N] -> Nat] /\ L_base[u] + L \in 0..L_base[N]
  <2>1. L_offsets \in [0..L_base[N] -> Nat]
      BY <1>4 DEF IndexInv
  <2>2. L_base[u] + L \in 0..L_base[N]
      BY <1>5, <1>8
  <2> QED
      BY <2>1, <2>2
<1>12. L_offsets' \in [0..L_base[N] -> Nat]
    BY <1>1, <1>6, <1>11
<1>13. IndexInv'
  <2>1. Consecutive(L_base, PrefixCounts, N)' /\ Consecutive(entries_start, CoverCounts, N)'
      BY <1>1, <1>2, <1>4 DEF IndexInv, Consecutive
  <2> QED
      BY <1>1, <1>2, <1>4, <1>10, <1>12, <2>1 DEF IndexInv
<1>14. /\ next_L' \in [Vertices -> Nat] /\ cur' \in [Vertices -> Nat]
       /\ \A v \in Vertices : v # u => next_L'[v] = next_L[v] /\ cur'[v] = cur[v]
       /\ next_L'[u] = L + 1 /\ cur'[u] = first + n
    BY SMTT(30), <1>1, <1>4, <1>5, <1>6, <1>7, <1>8, <1>0
<1>15. ASSUME NEW v \in Vertices, ~is_solo[v]
       PROVE  /\ next_L'[v] <= Prefixes(v)
              /\ cur'[v] = entries_start[v] + EntriesUpTo(next_L'[v] - 1)
  <2>1. CASE v = u
    <3>1. L + 1 <= Prefixes(u) /\ (L + 1) - 1 = L
        BY <1>1, <1>5 DEF Prefixes
    <3> QED
        BY <1>8, <1>14, <2>1, <3>1
  <2>2. CASE v # u
      BY <1>4, <1>14, <1>15, <2>2
  <2> QED
      BY <2>1, <2>2
<1>16. ASSUME NEW v \in Vertices, ~is_solo[v], NEW M \in 0..next_L[v] - 1
       PROVE  StoredCover(v, M)' /\ ~(v = u /\ M = L)
  <2>1. StoredCover(v, M) /\ next_L[v] <= degree(v) + 1 /\ next_L[v] \in Nat
      BY <1>4, <1>16 DEF Prefixes
  <2>2. degree(v) \in Nat
      BY <1>3, CountsRight
  <2>3. M \in 0..degree(v) /\ (v = u => M < L)
      BY <1>0, <2>1, <2>2
  <2>4. /\ L_base[v] + M # L_base[u] + L
        /\ \/ FirstEntry(v, M) + popcount(M) <= first
           \/ first + n <= FirstEntry(v, M)
      BY <1>1, <1>3, <1>4, <1>5, <1>7, <1>16, <2>3, CoversApart DEF first
  <2>5. /\ FirstEntry(v, M) \in Nat /\ popcount(M) \in Nat /\ L_base[v] \in Nat
        /\ FirstEntry(v, M) + popcount(M) <= entries_start[N] /\ L_base[v] + M < L_base[N]
      BY <1>3, <1>4, <1>16, <2>3, CoverSlice
  <2>6. Len(Cover(v, M)) = popcount(M)
      BY <1>3, <1>16, <2>3, CoversRight
  <2>7. /\ L_offsets[L_base[v] + M] = FirstEntry(v, M)
        /\ \A j \in 1..popcount(M) : entries[FirstEntry(v, M) + j - 1] = Cover(v, M)[j]
      BY <2>1, <2>6 DEF StoredCover, FirstEntry
  <2>8. L_offsets'[L_base[v] + M] = FirstEntry(v, M)
    <3>1. L_base[v] + M \in 0..L_base[N]
        BY <1>8, <2>3, <2>5
    <3> QED
        BY <1>1, <1>11, <2>4, <2>7, <3>1
  <2>9. ASSUME NEW j \in 1..popcount(M)
        PROVE  entries'[FirstEntry(v, M) + j - 1] = Cover(v, M)[j]
    <3> DEFINE c == FirstEntry(v, M) + j - 1
    <3>1. c \in 0..entries_start[N] - 1 /\ ~(c - first \in 0..n - 1)
      <4> DEFINE f == FirstEntry(v, M)
                 p == popcount(M)
                 e == entries_start[N]
      <4>1. /\ f \in Nat /\ p \in Nat /\ j \in 1..p /\ f + p <= e /\ e \in Nat
            /\ first \in Nat /\ n \in Nat /\ (f + p <= first \/ first + n <= f)
          BY <1>7, <1>8, <2>4, <2>5
      <4> HIDE DEF f, p, e
      <4>2. f + j - 1 \in 0..e - 1 /\ ~((f + j - 1) - first \in 0..n - 1)
          BY <4>1
      <4> QED
          BY <4>2 DEF f, e
    <3> HIDE DEF c
    <3>2. entries'[c] = entries[c]
        BY <1>9, <3>1
    <3> QED
        BY <2>7, <3>2 DEF c
  <2>10. FirstEntry(v, M) = entries_start[v] + EntriesUpTo(M - 1)
      BY DEF FirstEntry
  <2> QED
      BY <1>1, <1>2, <2>3, <2>6, <2>8, <2>9, <2>10 DEF StoredCover
<1>17. StoredCover(u, L)'
  <2>1. L_offsets'[L_base[u] + L] = first
      BY <1>1, <1>6, <1>11
  <2>2. ASSUME NEW j \in 1..n PROVE entries'[first + j - 1] = cover[j]
    <3> DEFINE c == first + j - 1
    <3>1. c \in 0..entries_start[N] - 1 /\ c - first \in 0..n - 1 /\ c - first + 1 = j
        BY SMTT(30), <1>7, <1>8
    <3> HIDE DEF c
    <3>2. entries'[c] = cover[j]
        BY <1>9, <3>1
    <3> QED
        BY <3>2 DEF c
  <2>3. first = entries_start[u] + EntriesUpTo(L - 1)
      BY DEF FirstEntry, first
  <2> QED
      BY <1>1, <1>2, <2>1, <2>2, <2>3 DEF StoredCover, cover, n
<1>18. ASSUME NEW v \in Vertices, ~is_solo[v], NEW M \in 0..next_L'[v] - 1
       PROVE  StoredCover(v, M)'
  <2>1. CASE v = u /\ M = L
      BY <1>17, <2>1
  <2>2. CASE ~(v = u /\ M = L)
    <3>1. M \in 0..next_L[v] - 1
        BY <1>0, <1>4, <1>5, <1>14, <1>18, <2>2
    <3> QED
        BY <1>16, <1>18, <3>1
  <2> QED
      BY <2>1, <2>2
<1>19. \A v \in Vertices' : ~is_solo'[v] =>
           /\ next_L'[v] <= Prefixes(v)'
           /\ cur'[v] = entries_start'[v] + EntriesUpTo(next_L'[v] - 1)
           /\ \A M \in 0..next_L'[v] - 1 : StoredCover(v, M)'
    BY <1>1, <1>2, <1>15, <1>18
<1>20. next_L' \in [Vertices' -> Nat] /\ cur' \in [Vertices' -> Nat]
    BY <1>2, <1>14
<1> QED
    BY <1>1, <1>13, <1>19, <1>20 DEF AuxInv


LEMMA FinishAuxAux ==
    ASSUME FillInv, AuxInv, FinishAux PROVE AuxInv'
<1>1. /\ UNCHANGED args /\ UNCHANGED <<K_max, is_solo>>
      /\ phase = "aux_fill" /\ phase' = "built"
      /\ \A u \in Vertices : is_solo[u] \/ next_L[u] > degree(u)
      /\ L_offsets' = [L_offsets EXCEPT ![cum_L] = cum_e]
      /\ L_base' = L_base /\ entries_start' = entries_start /\ entries' = entries
      /\ cum_L' = cum_L /\ cum_e' = cum_e
    BY DEF FinishAux, build_vars, layout, aux_locals
<1>2. /\ N' = N /\ Vertices' = Vertices /\ is_solo' = is_solo
      /\ PrefixCounts' = PrefixCounts /\ CoverCounts' = CoverCounts
      /\ \A v : degree(v)' = degree(v)
      /\ \A v, M : Cover(v, M)' = Cover(v, M)
    BY <1>1, SameInput, SameCovers
<1>3. InputInv /\ LayoutInv /\ Filling
    BY <1>1 DEF FillInv, Filling
<1>4. /\ IndexInv /\ next_L \in [Vertices -> Nat]
      /\ \A v \in Vertices : ~is_solo[v] => \A M \in 0..next_L[v] - 1 : StoredCover(v, M)
    BY <1>1 DEF AuxInv
<1>5. /\ cum_L = L_base[N] /\ cum_e = entries_start[N]
      /\ L_offsets \in [0..L_base[N] -> Nat] /\ L_base[N] \in Nat /\ entries_start[N] \in Nat
    BY <1>3, <1>4, IndexRight DEF IndexInv
<1>6. /\ L_offsets' \in [0..L_base[N] -> Nat] /\ L_offsets'[cum_L] = cum_e
      /\ \A x \in 0..L_base[N] - 1 : L_offsets'[x] = L_offsets[x]
    BY <1>1, <1>5
<1>7. IndexInv'
  <2>1. Consecutive(L_base, PrefixCounts, N)' /\ Consecutive(entries_start, CoverCounts, N)'
      BY <1>1, <1>2, <1>4 DEF IndexInv, Consecutive
  <2> QED
      BY <1>1, <1>2, <1>4, <1>6, <2>1 DEF IndexInv
<1>8. ASSUME NEW v \in Vertices, ~is_solo[v], NEW M \in 0..degree(v) PROVE StoredCover(v, M)'
  <2>1. next_L[v] > degree(v) /\ next_L[v] \in Nat /\ degree(v) \in Nat
      BY <1>1, <1>3, <1>4, <1>8, CountsRight
  <2>2. M \in 0..next_L[v] - 1
      BY <2>1
  <2>3. StoredCover(v, M)
      BY <1>4, <1>8, <2>2
  <2>4. L_base[v] + M < L_base[N] /\ L_base[v] \in Nat
      BY <1>3, <1>4, <1>8, CoverSlice
  <2>5. L_base[v] + M \in 0..L_base[N] - 1
      BY <1>5, <2>1, <2>4
  <2>6. L_offsets'[L_base[v] + M] = L_offsets[L_base[v] + M]
      BY <1>6, <2>5
  <2> QED
      BY <1>1, <1>2, <2>3, <2>6 DEF StoredCover
<1>9. L_offsets'[cum_L'] = cum_e'
    BY <1>1, <1>6
<1>10. \A v \in Vertices' : ~is_solo'[v] => \A M \in 0..degree(v)' : StoredCover(v, M)'
    BY <1>2, <1>8
<1> QED
    BY <1>1, <1>7, <1>9, <1>10 DEF AuxInv

LEMMA NextInv == IInv /\ [Next]_vars => IInv'
<1> SUFFICES ASSUME IInv, [Next]_vars PROVE IInv'
    OBVIOUS
<1>0. FillInv /\ AuxInv /\ ActiveInv
    BY DEF IInv
<1>1. FillInv'
    BY <1>0, NextFill
<1>2. ASSUME phase' \notin {"aux_layout", "aux_fill"},
             phase' = "built" => ~active' \/ ~(aux_budget_bytes' > 0)
      PROVE  AuxInv'
    BY <1>2 DEF AuxInv
<1>3. ASSUME active' = active PROVE ActiveInv'
    BY <1>0, <1>3 DEF ActiveInv
<1>4. CASE StartBuild \/ LayoutVertex \/ AllocateArenas \/ SkipAux
  <2>1. active' = active /\ phase' \in {"layout", "fill", "built"}
      BY <1>4 DEF StartBuild, LayoutVertex, AllocateArenas, SkipAux, aux_table
  <2>2. phase' = "built" => ~(aux_budget_bytes' > 0)
      BY <1>4 DEF StartBuild, LayoutVertex, AllocateArenas, SkipAux, args
  <2> QED
      BY <1>1, <1>2, <1>3, <2>1, <2>2 DEF IInv
<1>5. ASSUME NEW u \in Vertices, FillSolo(u) \/ FillTrunk(u) PROVE IInv'
  <2>1. active' = active /\ phase' = "fill"
      BY <1>5 DEF FillSolo, FillTrunk, aux_table
  <2> QED
      BY <1>1, <1>2, <1>3, <2>1 DEF IInv
<1>6. ASSUME NEW u \in Vertices, FillCover(u) PROVE IInv'
  <2>1. active' = active
      BY <1>6 DEF FillCover
  <2> QED
      BY <1>0, <1>1, <1>3, <1>6, <2>1, FillCoverAux DEF IInv
<1>7. CASE StartAux
  <2>1. active' = active
      BY <1>7 DEF StartAux
  <2> QED
      BY <1>0, <1>1, <1>3, <1>7, <2>1, StartAuxAux DEF IInv
<1>8. CASE AuxLayoutVertex
  <2>1. active' = active
      BY <1>8 DEF AuxLayoutVertex
  <2> QED
      BY <1>0, <1>1, <1>3, <1>8, <2>1, AuxLayoutVertexAux DEF IInv
<1>9. CASE RefuseAux
  <2>1. active' = FALSE /\ phase' = "built"
      BY <1>9 DEF RefuseAux
  <2> QED
      BY <1>1, <1>2, <2>1 DEF IInv, ActiveInv
<1>10. CASE AllocateAux
  <2>1. active' = active
      BY <1>10 DEF AllocateAux
  <2> QED
      BY <1>0, <1>1, <1>3, <1>10, <2>1, AllocateAuxAux DEF IInv
<1>11. CASE FinishAux
  <2>1. active' = TRUE /\ phase = "aux_fill"
      BY <1>11 DEF FinishAux
  <2>2. aux_budget_bytes \in Budgets /\ aux_budget_bytes > 0
      BY <1>0, <2>1 DEF FillInv, InputInv
  <2>3. ActiveInv'
      BY <2>1, <2>2 DEF ActiveInv
  <2> QED
      BY <1>0, <1>1, <1>11, <2>3, FinishAuxAux DEF IInv
<1>12. CASE UNCHANGED vars
  <2>1. UNCHANGED args /\ UNCHANGED layout /\ UNCHANGED <<phase, scan>>
        /\ UNCHANGED aux_table /\ UNCHANGED aux_locals
      BY <1>12 DEF vars, build_vars
  <2>2. /\ N' = N /\ Vertices' = Vertices /\ aux_budget_bytes' = aux_budget_bytes
        /\ PrefixCounts' = PrefixCounts /\ CoverCounts' = CoverCounts
        /\ \A v : degree(v)' = degree(v) /\ Prefixes(v)' = Prefixes(v)
        /\ \A v, M : Cover(v, M)' = Cover(v, M)
      BY <2>1, SameInput, SameCovers DEF layout
  <2>3. /\ StepsTo(L_base, PrefixCounts, N, scan, cum_L) =>
               StepsTo(L_base, PrefixCounts, N, scan, cum_L)'
        /\ StepsTo(entries_start, CoverCounts, N, scan, cum_e) =>
               StepsTo(entries_start, CoverCounts, N, scan, cum_e)'
        /\ Consecutive(L_base, PrefixCounts, N) => Consecutive(L_base, PrefixCounts, N)'
        /\ Consecutive(entries_start, CoverCounts, N) =>
               Consecutive(entries_start, CoverCounts, N)'
      BY <2>1, <2>2 DEF StepsTo, Consecutive, aux_table, aux_locals
  <2>4. IndexInv => IndexInv'
      BY <2>1, <2>2, <2>3 DEF IndexInv, aux_table, aux_locals
  <2>5. \A v, M : StoredCover(v, M) => StoredCover(v, M)'
      BY <2>1, <2>2 DEF StoredCover, aux_table, aux_locals
  <2>6. AuxInv'
      BY <1>0, <2>1, <2>2, <2>3, <2>4, <2>5 DEF AuxInv, aux_table, aux_locals, layout
  <2> QED
      BY <1>0, <1>1, <1>3, <2>1, <2>6 DEF IInv, aux_table
<1> QED
    BY <1>4, <1>5, <1>6, <1>7, <1>8, <1>9, <1>10, <1>11, <1>12 DEF Next, BuildStep

(* The invariant of all three parts of a build. *)
THEOREM Invariance == Spec => []IInv
<1>1. Init => IInv
    BY InitFill DEF Init, IInv, AuxInv, ActiveInv
<1>2. IInv /\ [Next]_vars => IInv'
    BY NextInv
<1> QED
    BY <1>1, <1>2, PTL DEF Spec

(* Where an index is active after a build with a budget, each prefix of    *)
(* each vertex with covers ends where the next one begins, across solo     *)
(* vertices and at the end of the tables.                                  *)
LEMMA NextOffset ==
    ASSUME InputInv, LayoutInv, Filling, IndexInv, L_offsets[cum_L] = cum_e,
           \A u \in Vertices : ~is_solo[u] => \A L \in 0..degree(u) : StoredCover(u, L)
    PROVE  \A v \in 0..N : L_offsets[L_base[v]] = entries_start[v]
<1> DEFINE T == {n \in Nat : n <= N => L_offsets[L_base[N - n]] = entries_start[N - n]}
<1>1. /\ N \in Nat /\ Vertices = 0..N - 1 /\ cum_L = L_base[N] /\ cum_e = entries_start[N]
      /\ \A u \in Vertices : degree(u) \in Nat
      /\ \A u \in Vertices : is_solo[u] => PrefixCounts[u] = 0 /\ CoverCounts[u] = 0
    BY CountsRight DEF IndexInv
<1>2. 0 \in T
  <2>1. N - 0 = N
      BY <1>1
  <2> QED
      BY <1>1, <2>1
<1>3. ASSUME NEW n \in Nat, n \in T PROVE n + 1 \in T
  <2> SUFFICES ASSUME n + 1 <= N
               PROVE  L_offsets[L_base[N - (n + 1)]] = entries_start[N - (n + 1)]
      OBVIOUS
  <2> PICK v \in Nat : v = N - (n + 1)
      BY <1>1
  <2>1. v \in Vertices /\ v \in 0..N - 1 /\ N - n = v + 1
      BY <1>1
  <2>2. L_offsets[L_base[v + 1]] = entries_start[v + 1]
      BY <1>1, <1>3, <2>1
  <2>3. L_base[v] \in Nat /\ entries_start[v] \in Nat
      BY <2>1, IndexRight
  <2>4. CASE is_solo[v]
    <3>1. /\ L_base[v + 1] = L_base[v] + 0 /\ entries_start[v + 1] = entries_start[v] + 0
        BY <1>1, <2>1, <2>4 DEF IndexInv, Consecutive
    <3> QED
        BY <2>2, <2>3, <3>1
  <2>5. CASE ~is_solo[v]
    <3>1. StoredCover(v, 0)
        BY <1>1, <2>1, <2>5
    <3>2. L_offsets[L_base[v] + 0] = entries_start[v] + EntriesUpTo(0 - 1)
        BY <3>1 DEF StoredCover
    <3>3. EntriesUpTo(0 - 1) = 0
      <4>1. 0 - 1 = -1
          OBVIOUS
      <4> QED
          BY <4>1, EntriesRight
    <3> QED
        BY <2>3, <3>2, <3>3
  <2> QED
      BY <2>4, <2>5
<1>4. \A n \in Nat : n \in T
  <2> HIDE DEF T
  <2> QED
      BY <1>2, <1>3, SetInduction
<1>5. ASSUME NEW v \in 0..N PROVE L_offsets[L_base[v]] = entries_start[v]
  <2>1. N - v \in Nat /\ N - v <= N /\ N - (N - v) = v
      BY <1>1
  <2>2. N - v \in T
      BY <1>4, <2>1, Zenon
  <2> QED
      BY <2>1, <2>2
<1> QED
    BY <1>5

LEMMA LookupRight ==
    ASSUME FillInv, AuxInv, phase = "built", active, aux_budget_bytes > 0,
           NEW u \in Vertices, ~is_solo[u], NEW L \in 0..degree(u)
    PROVE  cover_for(u, L) = decompose_to_trunks(L, K_max[u])
<1>1. InputInv /\ LayoutInv /\ Filling
    BY DEF FillInv, Filling
<1>2. /\ IndexInv /\ L_offsets[cum_L] = cum_e
      /\ \A v \in Vertices : ~is_solo[v] => \A M \in 0..degree(v) : StoredCover(v, M)
    BY DEF AuxInv
<1>3. /\ degree(u) \in Nat /\ N \in Nat /\ Vertices = 0..N - 1
      /\ PrefixCounts[u] = degree(u) + 1 /\ CoverCounts[u] = EntriesUpTo(degree(u))
    BY <1>1, CountsRight
<1> DEFINE cover == Cover(u, L)
           n == popcount(L)
           first == FirstEntry(u, L)
<1>4. cover \in Seq(CoverTrunk) /\ Len(cover) = n
    BY <1>1, CoversRight
<1>5. /\ first \in Nat /\ n \in Nat /\ L_base[u] \in Nat /\ entries_start[u] \in Nat
      /\ first + n = entries_start[u] + EntriesUpTo(L)
    BY <1>1, <1>2, CoverSlice
<1>6. /\ L_offsets[L_base[u] + L] = first
      /\ \A j \in 1..n : entries[first + j - 1] = cover[j]
    BY <1>2, <1>4 DEF StoredCover, FirstEntry
<1>7. L_offsets[L_base[u] + L + 1] = first + n
  <2>1. CASE L < degree(u)
    <3>1. L + 1 \in 0..degree(u) /\ (L + 1) - 1 = L /\ L_base[u] + (L + 1) = L_base[u] + L + 1
        BY <1>3, <1>5, <2>1
    <3>2. StoredCover(u, L + 1)
        BY <1>2, <3>1
    <3> QED
        BY <1>5, <3>1, <3>2 DEF StoredCover
  <2>2. CASE L = degree(u)
    <3>1. u + 1 \in 0..N /\ u \in 0..N - 1
        BY <1>3
    <3>2. /\ L_base[u + 1] = L_base[u] + (degree(u) + 1)
          /\ entries_start[u + 1] = entries_start[u] + EntriesUpTo(L)
        BY <1>2, <1>3, <2>2, <3>1 DEF IndexInv, Consecutive
    <3>3. L_offsets[L_base[u + 1]] = entries_start[u + 1]
        BY <1>1, <1>2, <3>1, NextOffset
    <3>4. L_base[u] + (degree(u) + 1) = L_base[u] + L + 1
      <4> DEFINE b == L_base[u]
                 d == degree(u)
      <4>1. b \in Nat /\ d \in Nat /\ L = d
          BY <1>3, <1>5, <2>2
      <4> HIDE DEF b, d
      <4>2. b + (d + 1) = b + L + 1
          BY <4>1
      <4> QED
          BY <4>2 DEF b, d
    <3> QED
        BY <1>5, <3>2, <3>3, <3>4
  <2> QED
      BY <1>3, <2>1, <2>2
<1> HIDE DEF cover, n, first
<1>8. cover_for(u, L) = [j \in 1..(first + n) - first |-> entries[first + j - 1]]
    BY <1>6, <1>7 DEF cover_for
<1>9. (first + n) - first = n
    BY <1>5
<1>10. cover_for(u, L) = [j \in 1..n |-> cover[j]]
    BY <1>6, <1>8, <1>9
<1>11. cover = [j \in 1..n |-> cover[j]]
    BY <1>4
<1> QED
    BY <1>10, <1>11 DEF cover, Cover

(* Unless an Hpat may be built again without a budget, which leaves the    *)
(* index of the earlier graph active (the hpat_stale run), every member    *)
(* of Hpat and of its AuxIndex keeps its type and size.                    *)
THEOREM TypeCorrect ==
    ASSUME 0 \notin Budgets \/ Budgets \subseteq {0}
    PROVE  Spec => []TypeOK
<1>1. IInv => TypeOK
  <2> SUFFICES ASSUME IInv PROVE TypeOK
      OBVIOUS
  <2>1. FillInv /\ AuxInv /\ ActiveInv
      BY DEF IInv
  <2>2. ASSUME active, phase = "built" PROVE aux_budget_bytes > 0
    <3>1. aux_budget_bytes \in Budgets
        BY <2>1, <2>2 DEF FillInv, InputInv
    <3>2. PICK b \in Budgets : b > 0
        BY <2>1, <2>2 DEF ActiveInv
    <3>3. 0 \notin Budgets
        BY <3>2
    <3> QED
        BY <3>1, <3>3, HpatAssumption
  <2>3. ASSUME active, phase = "built"
        PROVE  /\ DOMAIN L_base = 0..N /\ DOMAIN L_offsets = 0..L_base[N]
               /\ DOMAIN entries = 0..L_offsets[L_base[N]] - 1
    <3>1. IndexInv /\ L_offsets[cum_L] = cum_e
        BY <2>1, <2>2, <2>3 DEF AuxInv
    <3> QED
        BY <3>1 DEF IndexInv
  <2>4. phase # "unbuilt" => bias_params \in [Vertices -> [t_pivot : Int, scale : Nat \X Nat]]
      BY <2>1 DEF FillInv, InputInv, Params
  <2> QED
      BY <2>1, <2>3, <2>4
         DEF FillInv, InputInv, LayoutInv, ArenasInv, Filling, ActiveInv, TypeOK
<1> QED
    BY <1>1, Invariance, PTL

(* A cover that is looked up is the one decompose_to_trunks computes, for  *)
(* every prefix of every vertex that has covers, wherever the budget of a  *)
(* later build cannot be 0 after one that was not: the hpat_stale run      *)
(* shows what happens then.                                                *)
THEOREM CoverLookupIsExact ==
    ASSUME 0 \notin Budgets \/ Budgets \subseteq {0}
    PROVE  Spec => []CoverLookupExact
<1>1. IInv => CoverLookupExact
  <2> SUFFICES ASSUME IInv, phase = "built", active,
                      NEW u \in Vertices, ~is_solo[u], NEW L \in 0..degree(u)
               PROVE  cover_for(u, L) = decompose_to_trunks(L, K_max[u])
      BY DEF CoverLookupExact
  <2>1. FillInv /\ AuxInv /\ ActiveInv
      BY DEF IInv
  <2>2. aux_budget_bytes \in Budgets
      BY <2>1 DEF FillInv, InputInv
  <2>3. PICK b \in Budgets : b > 0
      BY <2>1 DEF ActiveInv
  <2>4. 0 \notin Budgets
      BY <2>3
  <2>5. aux_budget_bytes > 0
      BY <2>2, <2>4, HpatAssumption
  <2> QED
      BY <2>1, <2>5, LookupRight
<1> QED
    BY <1>1, Invariance, PTL

-----------------------------------------------------------------------------
(* Sampling from arenas. *)
LEMMA SumIsRangeSum == \A w, a, b : Sum(w, a, b) = RangeSum(w, a, b)
BY DEF Sum, RangeSum

(* A table that is asked once for each unit of the weight it was built     *)
(* from gives every slot its weight.                                       *)
LEMMA TableShareRight ==
    ASSUME NEW w \in Seq(Nat), NEW q \in 1..Len(w)
    PROVE  TableShare(TableWeights(Table(w)), q, Sum(w, 1, Len(w))) = w[q]
<1> DEFINE S == Sum(w, 1, Len(w))
           t == IF S = 0 THEN [j \in 1..Len(w) |-> 1] ELSE w
<1>1. TableWeights(Table(w)) = t
  <2>1. Table(w)[0][1] = w
      BY DEF Table
  <2> QED
      BY <2>1 DEF TableWeights
<1>2. (S * t[q]) \div Sum(t, 1, Len(t)) = w[q]
  <2>1. \A v, a, b : Sum(v, a, b) = RangeSum(v, a, b)
      BY SumIsRangeSum
  <2>2. LET R == RangeSum(w, 1, Len(w))
            r == IF R = 0 THEN [j \in 1..Len(w) |-> 1] ELSE w
        IN  (R * r[q]) \div RangeSum(r, 1, Len(r)) = w[q]
      BY Zenon, SharesRight
  <2> QED
      BY Zenon, <2>1, <2>2
<1> HIDE DEF S, t
<1> QED
    BY Zenon, <1>1, <1>2 DEF TableShare, S

(* Inverse transform sampling over climbing totals: as many draws select   *)
(* element j as its total exceeds the one before.                          *)
LEMMA ItsPicks ==
    ASSUME NEW cs \in Seq(Nat), \A i, j \in 1..Len(cs) : i <= j => cs[i] <= cs[j],
           NEW j \in 1..Len(cs), NEW a \in Nat
    PROVE  LET before == IF j = 1 THEN 0 ELSE cs[j - 1]
           IN  Cardinality({r \in a..a + cs[Len(cs)] - 1 : Its(cs, r - a) = j}) = cs[j] - before
<1>1. \A x : Its(cs, x) = FirstAbove(cs, x)
    BY Zenon DEF Its, Min, FirstAbove
<1>2. {r \in a..a + cs[Len(cs)] - 1 : Its(cs, r - a) = j}
          = {r \in a..a + cs[Len(cs)] - 1 : FirstAbove(cs, r - a) = j}
    BY <1>1
<1> QED
    BY <1>2, DrawsOfFirst

(* The totals of a list of weights. *)
LEMMA CumulativeRight ==
    ASSUME NEW w \in Seq(Nat)
    PROVE  LET c == Cumulative(w)
           IN  /\ c \in Seq(Nat) /\ Len(c) = Len(w)
               /\ \A i, j \in 1..Len(w) : i <= j => c[i] <= c[j]
               /\ \A j \in 1..Len(w) : c[j] - (IF j = 1 THEN 0 ELSE c[j - 1]) = w[j]
               /\ \A j \in 1..Len(w) : c[j] = Sum(w, 1, j)
<1> DEFINE c == RunningTotals(w)
<1>1. Cumulative(w) = c
    BY SumIsRangeSum DEF Cumulative, RunningTotals
<1>2. /\ c \in Seq(Nat) /\ Len(c) = Len(w)
      /\ \A i, j \in 1..Len(w) : i <= j => c[i] <= c[j]
      /\ \A j \in 1..Len(w) : c[j] - (IF j = 1 THEN 0 ELSE c[j - 1]) = w[j]
      /\ \A j \in 1..Len(w) : c[j] = RangeSum(w, 1, j)
    BY Zenon, TotalsRight
<1> HIDE DEF c
<1>3. \A j \in 1..Len(w) : c[j] = Sum(w, 1, j)
    BY <1>2, SumIsRangeSum
<1> QED
    BY Zenon, <1>1, <1>2, <1>3

(* The weights the build uses are those the abstract sampler promises.     *)
LEMMA WeightIsPromised ==
    ASSUME InputInv, phase # "unbuilt", NEW u \in Vertices, NEW p \in 1..degree(u)
    PROVE  weights(u)[p] = PrefixSampler!Weight(bias, graph[u], p)
<1>1. /\ graph \in Graphs /\ u \in DOMAIN graph /\ graph[u] \in Seq(Int) /\ p \in 1..Len(graph[u])
    BY GraphRight DEF InputInv, degree
<1>2. \A i, j \in 1..Len(graph[u]) : i < j => graph[u][i] <= graph[u][j]
    BY <1>1, ArenasAssumption
<1>3. bias.kind \in Kinds /\ bias.timescale_bound \in Int
    BY ArenasAssumption DEF InputInv, Kinds
<1>4. weights(u)[p] = CASE bias.kind = "uniform" -> 1
                        [] bias.kind = "linear" -> p
                        [] bias.kind = "exponential" -> Exp(AgeOf(bias, graph[u], p))
    BY <1>1, <1>2, <1>3, WeightByAge DEF weights
<1>5. PrefixSampler!Age(bias, graph[u], p) = AgeOf(bias, graph[u], p)
    BY DEF PrefixSampler!Age, AgeOf
<1>6. \A x : PrefixSampler!Exp(x) = Exp(x)
    BY DEF PrefixSampler!Exp, Exp
<1> QED
    BY Zenon, <1>4, <1>5, <1>6 DEF PrefixSampler!Weight

(* The weights of the trunk a candidate set ends in, computed again.       *)
LEMMA WeightsAgain ==
    ASSUME InputInv, phase # "unbuilt", NEW u \in Vertices,
           bias_params[u] = compute_per_vertex_params(bias, graph[u]),
           NEW k \in Nat, NEW G \in Nat, k <= G, G <= degree(u)
    PROVE  LET v == compute_weights(bias, SubSeq(graph[u], k + 1, G), bias_params[u], k)
           IN  /\ v \in Seq(Nat) /\ Len(v) = G - k
               /\ \A j \in 1..G - k : v[j] = weights(u)[k + j]
<1>1. bias.kind \in Kinds
    BY ArenasAssumption DEF InputInv, Kinds
<1> DEFINE ts == graph[u]
           params == compute_per_vertex_params(bias, ts)
           v == compute_weights(bias, SubSeq(ts, k + 1, G), params, k)
           all == compute_weights(bias, ts, params, 0)
<1>2. ts \in Seq(Int) /\ G <= Len(ts) /\ params \in Params
    BY GraphRight, WeightsRight DEF degree
<1>3. weights(u) = all
    BY Zenon DEF weights, compute_weights_full
<1>4. compute_weights(bias, SubSeq(graph[u], k + 1, G), bias_params[u], k) = v
    BY Zenon
<1> HIDE DEF ts, params
<1>5. v \in Seq(Nat) /\ Len(v) = G - k /\ \A j \in 1..G - k : v[j] = all[k + j]
    BY ZenonT(40), <1>1, <1>2, WeightsOfPart
<1> HIDE DEF v, all
<1> QED
    BY Zenon, <1>3, <1>4, <1>5

(* As many draws select an element of a list as its weight.                *)
LEMMA ItsMassRight ==
    ASSUME NEW w \in Seq(Nat), NEW j \in 1..Len(w)
    PROVE  ItsMass(Cumulative(w), j) = w[j]
<1> DEFINE c == Cumulative(w)
           n == Len(w)
<1>1. /\ c \in Seq(Nat) /\ Len(c) = n /\ n \in Nat /\ n > 0
      /\ \A i, k \in 1..n : i <= k => c[i] <= c[k]
      /\ c[j] - (IF j = 1 THEN 0 ELSE c[j - 1]) = w[j]
  <2>1. n \in Nat /\ n > 0 /\ j \in 1..n
      OBVIOUS
  <2> QED
      BY <2>1, CumulativeRight
<1> HIDE DEF c
<1>2. Cardinality({r \in 0..0 + c[Len(c)] - 1 : Its(c, r - 0) = j})
          = c[j] - (IF j = 1 THEN 0 ELSE c[j - 1])
  <2>1. j \in 1..Len(c) /\ 0 \in Nat
      BY <1>1
  <2> HIDE DEF n
  <2> QED
      BY <1>1, <2>1, ItsPicks
<1>3. {r \in 0..0 + c[Len(c)] - 1 : Its(c, r - 0) = j} = {r \in 0..c[Len(c)] - 1 : Its(c, r) = j}
  <2> PICK last : last = c[Len(c)]
      OBVIOUS
  <2>1. last \in Nat
    <3>1. Len(c) \in 1..n
        BY <1>1
    <3> QED
        BY <1>1, <3>1
  <2>2. 0 + last - 1 = last - 1 /\ \A r \in 0..last - 1 : r - 0 = r
      BY <2>1
  <2>3. {r \in 0..last - 1 : Its(c, r - 0) = j} = {r \in 0..last - 1 : Its(c, r) = j}
      BY <2>2
  <2> QED
      BY <2>2, <2>3
<1>4. ItsMass(c, j) = Cardinality({r \in 0..c[Len(c)] - 1 : Its(c, r) = j})
  <2>1. c # <<>>
      BY <1>1
  <2> QED
      BY <2>1 DEF ItsMass
<1> QED
    BY <1>1, <1>2, <1>3, <1>4 DEF c

-----------------------------------------------------------------------------
(* Covers tile the edges they cover. *)
(* Trunks of levels up to k that divide the edges from..upto - 1 among     *)
(* them.                                                                   *)
Begins(t) == t.index * 2^t.level
Holds(t, x) == x \in Begins(t)..Begins(t) + 2^t.level - 1
Tiles(s, from, upto, k) ==
    /\ \A j \in 1..Len(s) : /\ s[j].level \in 0..k /\ s[j].index \in Nat
                            /\ from <= Begins(s[j]) /\ Begins(s[j]) + 2^s[j].level <= upto
    /\ \A x \in from..upto - 1 : \E j \in 1..Len(s) : Holds(s[j], x)
    /\ \A i, j \in 1..Len(s) : \A x \in Int : Holds(s[i], x) /\ Holds(s[j], x) => i = j

(* What begins after from + e begins after from. *)
LEMMA BeginsLater ==
    ASSUME NEW from \in Nat, NEW e \in Nat, NEW x \in Nat, NEW b \in Nat, from + e <= x * b
    PROVE  from <= x * b
<1> PICK y : y = x * b
    OBVIOUS
<1>1. y \in Nat
  <2>1. \A f, g \in Nat : f * g \in Nat
      OBVIOUS
  <2> QED
      BY <2>1
<1>2. from <= y
    BY <1>1
<1> QED
    BY <1>2

LEMMA TileMore ==
    ASSUME NEW s \in Seq(CoverTrunk), NEW t \in CoverTrunk, NEW from \in Nat, NEW middle \in Nat,
           NEW upto \in Nat, NEW k \in Nat, t.level = k, t.index \in Nat, Begins(t) = from,
           middle = from + 2^k, middle <= upto, Tiles(s, middle, upto, k - 1)
    PROVE  Tiles(<<t>> \o s, from, upto, k)
<1> DEFINE r == <<t>> \o s
           n == Len(s)
<1>1. /\ r \in Seq(CoverTrunk) /\ n \in Nat /\ Len(r) = n + 1 /\ r[1] = t
      /\ \A j \in 1..n : r[j + 1] = s[j]
    OBVIOUS
<1>2. \A j \in 1..n + 1 : j = 1 \/ \E i \in 1..n : j = i + 1
  <2> SUFFICES ASSUME NEW j \in 1..n + 1, j # 1 PROVE \E i \in 1..n : j = i + 1
      OBVIOUS
  <2>1. j - 1 \in 1..n /\ j = (j - 1) + 1
      BY <1>1
  <2> QED
      BY <2>1
<1>3. ASSUME NEW x \in Int
      PROVE  Holds(t, x) <=> from <= x /\ x < middle
  <2>1. 2^k \in Nat
      BY PowersRight
  <2> QED
      BY <2>1 DEF Holds
<1>4. ASSUME NEW i \in 1..n, NEW x \in Int, Holds(s[i], x) PROVE middle <= x
  <2>1. middle <= Begins(s[i]) /\ s[i].level \in 0..k - 1 /\ s[i].index \in Nat
      BY DEF Tiles
  <2>2. 2^s[i].level \in Nat
      BY <2>1, PowersRight
  <2>3. Begins(s[i]) \in Nat
    <3>1. \A a, b \in Nat : a * b \in Nat
        OBVIOUS
    <3>2. s[i].index * 2^s[i].level \in Nat
        BY <2>1, <2>2, <3>1
    <3> QED
        BY Zenon, <3>2 DEF Begins
  <2> QED
      BY <1>4, <2>1, <2>3 DEF Holds
<1> HIDE DEF r, n
<1>5. ASSUME NEW j \in 1..Len(r)
      PROVE  /\ r[j].level \in 0..k /\ r[j].index \in Nat
             /\ from <= Begins(r[j]) /\ Begins(r[j]) + 2^r[j].level <= upto
  <2>1. CASE j = 1
    <3>1. r[j] = t
        BY <1>1, <2>1
    <3> PICK e : e = 2^k
        OBVIOUS
    <3> PICK y : y = Begins(t)
        OBVIOUS
    <3>2. e \in Nat /\ y = from /\ t.level \in 0..k /\ t.index \in Nat
        BY PowersRight
    <3>3. from <= y /\ y + e <= upto
        BY <3>2
    <3>4. from <= Begins(t) /\ Begins(t) + 2^t.level <= upto
        BY <3>3
    <3> QED
        BY <3>1, <3>2, <3>4
  <2>2. ASSUME NEW i \in 1..n, j = i + 1
        PROVE  /\ r[j].level \in 0..k /\ r[j].index \in Nat
               /\ from <= Begins(r[j]) /\ Begins(r[j]) + 2^r[j].level <= upto
    <3>1. r[j] = s[i]
        BY <1>1, <2>2
    <3>2. /\ s[i].level \in 0..k - 1 /\ s[i].index \in Nat
          /\ middle <= Begins(s[i]) /\ Begins(s[i]) + 2^s[i].level <= upto
        BY DEF Tiles, n
    <3>3. 2^s[i].level \in Nat /\ 2^k \in Nat
      <4>1. s[i].level \in Nat
          BY <3>2
      <4> QED
          BY <4>1, PowersRight
    <3>4. from + 2^k <= s[i].index * 2^s[i].level
        BY Zenon, <3>2 DEF Begins
    <3>7. from <= Begins(s[i])
        BY ZenonT(20), <3>2, <3>3, <3>4, BeginsLater DEF Begins
    <3>8. from <= Begins(s[i]) /\ s[i].level \in 0..k
        BY <3>2, <3>7
    <3> QED
        BY <3>1, <3>2, <3>8
  <2> QED
      BY <1>1, <1>2, <2>1, <2>2
<1>6. ASSUME NEW x \in from..upto - 1 PROVE \E j \in 1..Len(r) : Holds(r[j], x)
  <2>1. CASE x < middle
    <3>1. Holds(r[1], x) /\ 1 \in 1..Len(r)
        BY <1>1, <1>3, <2>1
    <3> QED
        BY <3>1
  <2>2. CASE ~(x < middle)
    <3>1. x \in middle..upto - 1
        BY <2>2
    <3> PICK i \in 1..n : Holds(s[i], x)
        BY <3>1 DEF Tiles, n
    <3>2. i + 1 \in 1..Len(r) /\ r[i + 1] = s[i]
        BY <1>1
    <3> QED
        BY <3>2
  <2> QED
      BY <2>1, <2>2
<1>7. ASSUME NEW i \in 1..Len(r), NEW j \in 1..Len(r), NEW x \in Int,
             Holds(r[i], x), Holds(r[j], x)
      PROVE  i = j
  <2>1. CASE i = 1 /\ j = 1
      BY <2>1
  <2>2. ASSUME NEW a \in 1..n, i = a + 1, j = 1 PROVE FALSE
    <3>1. Holds(s[a], x) /\ Holds(t, x)
        BY <1>1, <1>7, <2>2
    <3>2. x < middle
        BY Zenon, <1>3, <3>1
    <3>3. middle <= x
        BY Zenon, <1>4, <3>1
    <3>4. \A y, z \in Int : ~(y < z /\ z <= y)
        OBVIOUS
    <3>5. x \in Int /\ middle \in Int
        OBVIOUS
    <3> QED
        BY Zenon, <3>2, <3>3, <3>4, <3>5
  <2>3. ASSUME NEW a \in 1..n, j = a + 1, i = 1 PROVE FALSE
    <3>1. Holds(s[a], x) /\ Holds(t, x)
        BY <1>1, <1>7, <2>3
    <3>2. x < middle
        BY Zenon, <1>3, <3>1
    <3>3. middle <= x
        BY Zenon, <1>4, <3>1
    <3>4. \A y, z \in Int : ~(y < z /\ z <= y)
        OBVIOUS
    <3>5. x \in Int /\ middle \in Int
        OBVIOUS
    <3> QED
        BY Zenon, <3>2, <3>3, <3>4, <3>5
  <2>4. ASSUME NEW a \in 1..n, NEW b \in 1..n, i = a + 1, j = b + 1 PROVE i = j
    <3>1. Holds(s[a], x) /\ Holds(s[b], x)
        BY <1>1, <1>7, <2>4
    <3>2. a = b
        BY <3>1 DEF Tiles, n
    <3> QED
        BY <2>4, <3>2
  <2> QED
      BY <1>1, <1>2, <2>1, <2>2, <2>3, <2>4
<1>8. Tiles(r, from, upto, k)
    BY <1>5, <1>6, <1>7 DEF Tiles
<1> QED
    BY <1>8 DEF r

(* The cover of the first L edges: every one of them is in one of its      *)
(* trunks, and no other edge is.                                           *)
LEMMA CoverTiles ==
    ASSUME NEW L \in Nat, NEW K \in Int, K >= -1, L < 2^(K + 1)
    PROVE  Tiles(decompose_to_trunks(L, K), 0, L, K)
<1> DEFINE c == CoverScan(L, K)
           Right(k) == \A p \in Nat : p = (L \div 2^(k + 1)) * 2^(k + 1) =>
                           c[<<k, p>>] \in Seq(CoverTrunk) /\ Tiles(c[<<k, p>>], p, L, k)
           T == {n \in Nat : n - 1 <= K => Right(n - 1)}
<1>1. \A k \in -1..K : \A p \in Nat :
          /\ <<k, p>> \in CoverPlaces(K)
          /\ c[<<k, p>>] = CoverStep(L, c, <<k, p>>)
    BY CoverDefined DEF CoverPlaces
<1> HIDE DEF c
<1>2. 0 \in T
  <2>1. -1 \in -1..K /\ -1 + 1 = 0 /\ 0 - 1 = -1
      OBVIOUS
  <2>2. (L \div 2^0) * 2^0 = L
      BY PowersRight
  <2>3. \A p \in Nat : c[<<-1, p>>] = <<>>
      BY <1>1, <2>1 DEF CoverStep
  <2>4. Tiles(<<>>, L, L, -1)
      BY DEF Tiles
  <2>5. <<>> \in Seq(CoverTrunk)
      OBVIOUS
  <2>6. Right(-1)
      BY <2>1, <2>2, <2>3, <2>4, <2>5
  <2> HIDE DEF Right
  <2> QED
      BY <2>1, <2>6
<1>3. ASSUME NEW k \in Nat, k \in T PROVE k + 1 \in T
  <2> SUFFICES ASSUME k <= K, NEW p \in Nat, p = (L \div 2^(k + 1)) * 2^(k + 1)
               PROVE  c[<<k, p>>] \in Seq(CoverTrunk) /\ Tiles(c[<<k, p>>], p, L, k)
    <3>1. (k + 1) - 1 = k
        OBVIOUS
    <3> QED
        BY <3>1
  <2>1. \A x \in Nat : x = (L \div 2^k) * 2^k =>
            c[<<k - 1, x>>] \in Seq(CoverTrunk) /\ Tiles(c[<<k - 1, x>>], x, L, k - 1)
    <3>1. (k - 1) + 1 = k /\ k - 1 <= K
        OBVIOUS
    <3> QED
        BY <1>3, <3>1
  <2>2. k # -1 /\ k \in -1..K
      OBVIOUS
  <2>3. c[<<k, p>>] = IF Bit(L, k) THEN <<TrunkOf(<<k, p>>)>> \o c[<<k - 1, p + 2^k>>]
                      ELSE c[<<k - 1, p>>]
      BY <1>1, <2>2 DEF CoverStep, Taken, Passed
  <2> PICK d : d = 2^k
      OBVIOUS
  <2>4. d \in Nat /\ d > 0 /\ p = (L \div (d + d)) * (d + d)
      BY PowersRight
  <2> PICK z : z = L \div d
      OBVIOUS
  <2>5. /\ p <= L /\ (p \div d) * d = p /\ p \div d \in Nat
        /\ z % 2 = 1 => p + d = z * d /\ p + d <= L
        /\ z % 2 # 1 => p = z * d
    <3>1. SplitsBlock(L, d, (L \div (d + d)) * (d + d))
        BY ZenonT(20), <2>4, HalfBlocks
    <3>2. SplitsBlock(L, d, p)
        BY Zenon, <2>4, <3>1
    <3> QED
        BY <3>2 DEF SplitsBlock
  <2>6. Bit(L, k) <=> z % 2 = 1
      BY DEF Bit
  <2>7. CASE ~Bit(L, k)
    <3>1. c[<<k, p>>] = c[<<k - 1, p>>]
        BY <2>3, <2>7
    <3>2. c[<<k - 1, p>>] \in Seq(CoverTrunk) /\ Tiles(c[<<k - 1, p>>], p, L, k - 1)
        BY <2>1, <2>5, <2>6, <2>7
    <3> PICK s : s = c[<<k - 1, p>>]
        OBVIOUS
    <3>3. Tiles(s, p, L, k - 1)
        BY <3>2
    <3>4. \A l \in 0..k - 1 : l \in 0..k
        OBVIOUS
    <3>5. Tiles(s, p, L, k)
        BY <3>3, <3>4 DEF Tiles
    <3> QED
        BY <3>1, <3>2, <3>5
  <2>8. CASE Bit(L, k)
    <3> DEFINE t == TrunkOf(<<k, p>>)
               q == p + d
               r == c[<<k - 1, q>>]
    <3>1. q \in Nat /\ q = p + 2^k /\ q <= L /\ q = (L \div d) * d
        BY <2>4, <2>5, <2>6, <2>8
    <3>2. c[<<k, p>>] = <<t>> \o r
        BY <2>3, <2>8
    <3>3. t.level = k /\ t.index \in Nat /\ t \in CoverTrunk /\ Begins(t) = p
      <4>1. t = [level |-> k, index |-> p \div d]
          BY DEF TrunkOf
      <4> HIDE DEF t
      <4> QED
          BY <2>5, <4>1 DEF CoverTrunk, Begins
    <3> HIDE DEF t, q
    <3>4. r \in Seq(CoverTrunk) /\ Tiles(r, q, L, k - 1)
        BY <2>1, <3>1
    <3> HIDE DEF r
    <3>5. Tiles(<<t>> \o r, p, L, k)
        BY <3>1, <3>3, <3>4, TileMore
    <3>6. <<t>> \o r \in Seq(CoverTrunk)
        BY <3>3, <3>4
    <3> QED
        BY <3>2, <3>5, <3>6
  <2> QED
      BY <2>7, <2>8
<1>4. \A n \in Nat : n \in T
  <2> HIDE DEF T
  <2> QED
      BY <1>2, <1>3, SetInduction
<1>5. Right(K)
  <2> HIDE DEF Right
  <2>1. (K + 1) \in T /\ (K + 1) - 1 = K /\ K <= K
    <3> HIDE DEF T
    <3>1. K + 1 \in Nat
        OBVIOUS
    <3> QED
        BY <1>4, <3>1
  <2> QED
      BY <2>1
<1>6. 0 = (L \div 2^(K + 1)) * 2^(K + 1)
  <2> PICK d : d = 2^(K + 1)
      OBVIOUS
  <2>1. d \in Nat /\ L < d
    <3>1. K + 1 \in Nat
        OBVIOUS
    <3> QED
        BY <3>1, PowersRight
  <2>2. L \div d = 0
      BY <2>1, Quotient
  <2> QED
      BY <2>1, <2>2
<1>7. Tiles(c[<<K, 0>>], 0, L, K)
    BY <1>5, <1>6
<1> QED
    BY <1>7, CoverIsRecursion DEF c

-----------------------------------------------------------------------------
(* What sampling reads besides the arenas and the index: the parameters of *)
(* a solo vertex that is done; a vertex with a hierarchy that is done has  *)
(* all of its levels.                                                      *)
ReadyInv ==
    Filling =>
        /\ \A u \in filled :
               /\ is_solo[u] => bias_params[u] = compute_per_vertex_params(bias, graph[u])
               /\ Deep(u) => at[u].k > K_max[u]
        /\ phase # "fill" => filled = Vertices

LEMMA ReadyKept == FillInv /\ ReadyInv /\ [Next]_vars => ReadyInv'
<1> SUFFICES ASSUME FillInv, ReadyInv, [Next]_vars PROVE ReadyInv'
    OBVIOUS
<1>1. CASE StartBuild \/ LayoutVertex
  <2>1. phase' = "layout"
      BY <1>1 DEF StartBuild, LayoutVertex
  <2> QED
      BY <2>1 DEF ReadyInv, Filling
<1>2. CASE AllocateArenas
  <2>1. /\ filled' = {u \in Vertices : degree(u) = 0} /\ phase' = "fill" /\ UNCHANGED args
      BY <1>2 DEF AllocateArenas
  <2>2. Vertices' = Vertices /\ \A u : degree(u)' = degree(u)
      BY <2>1, SameInput
  <2>3. FillInv' /\ Filling'
      BY <1>2, <2>1, AllocateArenasFill DEF Filling
  <2>4. ASSUME NEW u \in filled' PROVE ~is_solo'[u] /\ ~Deep(u)'
    <3>1. Shape(u)' /\ degree(u)' = 0
        BY <2>1, <2>2, <2>3 DEF FillInv, LayoutInv
    <3> QED
        BY <3>1, HpatAssumption DEF Shape, Deep
  <2> QED
      BY <2>1, <2>4 DEF ReadyInv
<1>3. ASSUME NEW u \in Vertices, FillSolo(u) PROVE ReadyInv'
  <2>1. /\ phase = "fill" /\ phase' = phase /\ u \notin filled /\ is_solo[u]
        /\ bias_params' = [bias_params EXCEPT ![u] = compute_per_vertex_params(bias, graph[u])]
        /\ filled' = filled \cup {u} /\ at' = at
        /\ UNCHANGED args /\ UNCHANGED layout /\ K_max' = K_max /\ is_solo' = is_solo
      BY <1>3 DEF FillSolo, StoredParams, layout
  <2>2. /\ Filling /\ graph' = graph /\ bias' = bias
        /\ \A v : Deep(v)' <=> Deep(v)
      BY <2>1, SameInput DEF Filling
  <2>3. /\ bias_params \in [Vertices -> Params] /\ filled \subseteq Vertices
        /\ Shape(u) /\ degree(u) \in Nat /\ phase # "unbuilt"
      BY <2>1, <2>2, GraphRight DEF FillInv, InputInv, LayoutInv, ArenasInv, Filling
  <2>4. ~Deep(u)
      BY <2>1, <2>3, HpatAssumption DEF Shape, Deep
  <2>5. /\ bias_params'[u] = compute_per_vertex_params(bias, graph[u])
        /\ \A v \in Vertices : v # u => bias_params'[v] = bias_params[v]
      BY <2>1, <2>3
  <2>6. ASSUME NEW v \in filled'
        PROVE  /\ is_solo'[v] => bias_params'[v] = compute_per_vertex_params(bias, graph[v])
               /\ Deep(v) => at'[v].k > K_max'[v]
    <3>1. CASE v = u
        BY <2>4, <2>5, <3>1
    <3>2. CASE v # u
      <4>1. v \in filled /\ v \in Vertices
          BY <2>1, <2>3, <3>2
      <4> QED
          BY <2>1, <2>2, <2>5, <3>2, <4>1 DEF ReadyInv
    <3> QED
        BY <3>1, <3>2
  <2> QED
      BY <2>1, <2>2, <2>6 DEF ReadyInv
<1>4. ASSUME NEW u \in Vertices, FillTrunk(u) PROVE ReadyInv'
  <2>1. /\ phase = "fill" /\ phase' = phase /\ u \notin filled /\ ~is_solo[u]
        /\ \A v \in Vertices : v # u => bias_params'[v] = bias_params[v] /\ at'[v] = at[v]
        /\ filled' = IF at'[u].k > K_max[u] THEN filled \cup {u} ELSE filled
        /\ UNCHANGED args /\ UNCHANGED layout /\ K_max' = K_max /\ is_solo' = is_solo
    <3>1. /\ bias_params \in [Vertices -> Params]
          /\ at \in [Vertices -> [k : Nat, i : Nat, alias : Nat, totals : Nat]]
        BY <1>4 DEF FillTrunk, FillInv, InputInv, ArenasInv, Filling
    <3> QED
        BY <1>4, <3>1 DEF FillTrunk, StoredParams, layout
  <2>2. /\ Filling /\ graph' = graph /\ bias' = bias
        /\ \A v : Deep(v)' <=> Deep(v)
      BY <2>1, SameInput DEF Filling
  <2>3. filled \subseteq Vertices
      BY <2>2 DEF FillInv, ArenasInv
  <2>4. ASSUME NEW v \in filled'
        PROVE  /\ is_solo'[v] => bias_params'[v] = compute_per_vertex_params(bias, graph[v])
               /\ Deep(v) => at'[v].k > K_max'[v]
    <3>1. CASE v = u
        BY <2>1, <3>1
    <3>2. CASE v # u
      <4>1. v \in filled /\ v \in Vertices
          BY <2>1, <2>3, <3>2
      <4> QED
          BY <2>1, <2>2, <3>2, <4>1 DEF ReadyInv
    <3> QED
        BY <3>1, <3>2
  <2> QED
      BY <2>1, <2>2, <2>4 DEF ReadyInv
<1>5. CASE \/ SkipAux \/ StartAux \/ AuxLayoutVertex \/ RefuseAux \/ AllocateAux \/ FinishAux
           \/ \E u \in Vertices : FillCover(u)
           \/ UNCHANGED vars
  <2>1. /\ UNCHANGED args /\ UNCHANGED layout /\ K_max' = K_max /\ is_solo' = is_solo
        /\ filled' = filled /\ at' = at /\ bias_params' = bias_params
        /\ Filling' => Filling
        /\ Filling /\ phase' # "fill" => phase # "fill" \/ filled = Vertices
      BY <1>5 DEF SkipAux, StartAux, AuxLayoutVertex, RefuseAux, AllocateAux, FinishAux, FillCover,
                  vars, build_vars, layout, fills, Filling
  <2>2. /\ Vertices' = Vertices /\ graph' = graph /\ bias' = bias
        /\ \A v : Deep(v)' <=> Deep(v)
      BY <2>1, SameInput
  <2> QED
      BY <2>1, <2>2 DEF ReadyInv
<1> QED
    BY <1>1, <1>2, <1>3, <1>4, <1>5 DEF Next, BuildStep

(* In every state: a solo vertex that is done has the parameters of its    *)
(* bias, one with a hierarchy that is done has all of its levels, and      *)
(* nothing is left undone once the index is begun or the build is over.    *)
THEOREM SamplingReady == Spec => [](IInv /\ ReadyInv)
<1>1. Init => ReadyInv
    BY DEF Init, ReadyInv, Filling
<1>2. FillInv /\ ReadyInv /\ [Next]_vars => ReadyInv'
    BY ReadyKept
<1>3. IInv => FillInv
    BY DEF IInv
<1> QED
    BY <1>1, <1>2, <1>3, Invariance, PTL DEF Spec

(* A trunk of a vertex with a hierarchy, as sampling finds it.             *)
LEMMA TrunkFound ==
    ASSUME FillInv, ReadyInv, phase = "built", NEW u \in Vertices, Deep(u),
           NEW l \in 0..K_max[u], NEW i \in Nat, i * 2^l + 2^l <= degree(u)
    PROVE  /\ alias_view_of_trunk(u, l, i) = Table(TrunkWeights(u, l, i))
           /\ trunk_total_of(u, l, i) = Sum(weights(u), i * 2^l + 1, i * 2^l + 2^l)
<1>1. Filling /\ InputInv /\ LayoutInv /\ phase # "unbuilt" /\ filled = Vertices
    BY DEF FillInv, Filling, ReadyInv
<1>2. /\ degree(u) \in Nat /\ l \in Nat /\ K_max[u] \in Nat
      /\ at[u].k > K_max[u] /\ at[u].k \in Nat
  <2>1. degree(u) \in Nat /\ K_max[u] \in Nat
      BY <1>1, SlicesRight, DeepRight
  <2>2. at[u].k > K_max[u] /\ at[u].k \in Nat
      BY <1>1 DEF ReadyInv, FillInv, ArenasInv
  <2> QED
      BY <2>1, <2>2
<1> PICK p : p = 2^l
    OBVIOUS
<1> PICK n : n = degree(u) \div p
    OBVIOUS
<1>3. p \in Nat /\ p > 0
    BY <1>2, PowersRight
<1>4. n \in Nat /\ n * p \in Nat /\ degree(u) < n * p + p
    BY <1>2, <1>3, Quotient
<1>5. i < n
  <2> SUFFICES ASSUME n <= i PROVE FALSE
      BY <1>4
  <2>1. n * p <= i * p
      BY <1>3, <1>4, TimesMonotone
  <2>2. i * p + p <= degree(u)
      OBVIOUS
  <2>3. i * p \in Nat
    <3>1. \A x, y \in Nat : x * y \in Nat
        OBVIOUS
    <3> QED
        BY <1>3, <3>1
  <2> PICK x \in Nat : x = i * p
      BY <2>3
  <2> PICK y \in Nat : y = n * p
      BY <1>4
  <2> QED
      BY <1>2, <1>3, <1>4, <2>1, <2>2
<1>6. <<l, i>> \in FilledTrunks(u)
  <2>1. i \in 0..degree(u) \div 2^l - 1
      BY <1>4, <1>5
  <2>2. <<l, i>> \in {l} \X (0..degree(u) \div 2^l - 1)
      BY <2>1
  <2>3. l < at[u].k
      BY <1>2
  <2> QED
      BY <2>2, <2>3 DEF FilledTrunks
<1>7. /\ alias_view_of_trunk(u, l, i) = Table(SubSeq(weights(u), i * 2^l + 1, (i + 1) * 2^l))
      /\ trunk_total_of(u, l, i) = Sum(weights(u), i * 2^l + 1, (i + 1) * 2^l)
  <2>1. \A t \in FilledTrunks(u) :
            /\ alias_view_of_trunk(u, t[1], t[2]) =
                   Table(SubSeq(weights(u), t[2] * 2^t[1] + 1, (t[2] + 1) * 2^t[1]))
            /\ trunk_total_of(u, t[1], t[2]) =
                   Sum(weights(u), t[2] * 2^t[1] + 1, (t[2] + 1) * 2^t[1])
      BY ReadBack DEF TrunksReadBack
  <2>2. <<l, i>>[1] = l /\ <<l, i>>[2] = i
      OBVIOUS
  <2> QED
      BY <1>6, <2>1, <2>2
<1>8. (i + 1) * 2^l = i * 2^l + 2^l
  <2>1. (i + 1) * p = i * p + p
      BY <1>3
  <2> QED
      BY <2>1
<1> QED
    BY <1>7, <1>8 DEF TrunkWeights

-----------------------------------------------------------------------------
LEMMA InBlock ==
    ASSUME NEW p \in Nat, NEW x \in Nat, NEW size \in Nat, p - 1 \in x..x + size - 1
    PROVE  p - x \in 1..size /\ x + (p - x) = p /\ p <= x + size
OBVIOUS

LEMMA EndsBefore ==
    ASSUME NEW p \in Nat, NEW x \in Nat, NEW size \in Nat, NEW n \in Nat,
           x + size <= n, p <= x + size
    PROVE  p <= n
OBVIOUS

(* A trunk's table, asked as often as the trunk is picked by its total,    *)
(* gives each of its edges its weight; and no weight exceeds the total.    *)
GivesWeight(u, l, i, q) ==
    LET x == i * 2^l
        n == trunk_total_of(u, l, i)
    IN  /\ n \in Nat /\ weights(u)[x + q] <= n
        /\ TableShare(TableWeights(alias_view_of_trunk(u, l, i)), q, n) = weights(u)[x + q]

LEMMA TrunkGives ==
    ASSUME FillInv, ReadyInv, phase = "built", NEW u \in Vertices, Deep(u),
           NEW l \in 0..K_max[u], NEW i \in Nat, i * 2^l + 2^l <= degree(u), NEW q \in 1..2^l
    PROVE  GivesWeight(u, l, i, q)
<1> DEFINE D == degree(u)
           W == weights(u)
           size == 2^l
           x == i * size
           w == SubSeq(W, x + 1, x + size)
           n == trunk_total_of(u, l, i)
<1>1. InputInv /\ phase # "unbuilt"
    BY DEF FillInv
<1>2. D \in Nat /\ W \in Seq(Nat) /\ Len(W) = D
    BY <1>1, WeightsRight, GraphRight
<1>3. size \in Nat /\ size > 0 /\ x \in Nat /\ x + size <= D /\ q \in 1..size
  <2>1. l \in Nat
      OBVIOUS
  <2>2. size \in Nat /\ size > 0
      BY <2>1, PowersRight
  <2>3. x \in Nat
    <3>1. \A a, b \in Nat : a * b \in Nat
        OBVIOUS
    <3> QED
        BY <2>2, <3>1
  <2> QED
      BY <2>2, <2>3
<1>4. alias_view_of_trunk(u, l, i) = Table(w) /\ n = Sum(W, x + 1, x + size)
    BY TrunkFound DEF TrunkWeights
<1>5. GivesWeight(u, l, i, q) <=>
          /\ n \in Nat /\ W[x + q] <= n
          /\ TableShare(TableWeights(alias_view_of_trunk(u, l, i)), q, n) = W[x + q]
    BY Zenon DEF GivesWeight
<1> HIDE DEF D, W, w, n, x, size
<1>6. /\ w \in Seq(Nat) /\ Len(w) = size /\ \A j \in 1..size : w[j] = W[x + j]
      /\ RangeSum(W, x + 1, x + size) = RangeSum(w, 1, size)
    BY <1>2, <1>3, PartSum DEF w
<1>7. n = Sum(w, 1, size)
    BY <1>4, <1>6, SumIsRangeSum
<1>8. n \in Nat /\ w[q] <= n
  <2>1. \A p \in 1..size : w[p] \in Nat
      BY <1>6
  <2>2. n = SumFunctionOnSet(w, 1..size)
      BY <1>3, <1>7, <2>1, SumIsRangeSum, RangeSumRight
  <2>3. IsFiniteSet(1..size)
      BY <1>3, FS_Interval
  <2> QED
      BY <1>3, <2>1, <2>2, <2>3, SumNat
<1>9. TableShare(TableWeights(Table(w)), q, Sum(w, 1, Len(w))) = w[q]
    BY <1>3, <1>6, TableShareRight
<1>10. TableShare(TableWeights(alias_view_of_trunk(u, l, i)), q, n) = w[q]
    BY <1>4, <1>6, <1>7, <1>9
<1>11. w[q] = W[x + q]
    BY <1>3, <1>6
<1> QED
    BY <1>5, <1>8, <1>10, <1>11

(* sample_hpat, for a vertex with a hierarchy and the cover of the first G *)
(* of its edges: the trunk that edge p is in is picked by its total, the   *)
(* edge by its share of the table.                                         *)
LEMMA CoverGives ==
    ASSUME FillInv, ReadyInv, phase = "built", NEW u \in Vertices, Deep(u),
           NEW G \in 1..degree(u), NEW p \in 1..degree(u),
           CoverOf(u, G) \in Seq(CoverTrunk), Tiles(CoverOf(u, G), 0, G, K_max[u])
    PROVE  TrunkMass(u, G, p) = IF p <= G THEN weights(u)[p] ELSE 0
<1> DEFINE c == CoverOf(u, G)
           M == Len(c)
           total(j) == trunk_total_of(u, c[j].level, c[j].index)
           first(j) == c[j].index * 2^c[j].level
           totals == [j \in 1..M |-> total(j)]
           cs == Cumulative(totals)
           inside == {j \in 1..M : p - 1 \in first(j)..first(j) + 2^c[j].level - 1}
           share(j) == TableShare(TableWeights(alias_view_of_trunk(u, c[j].level, c[j].index)),
                                  p - first(j), ItsMass(cs, j))
           picked == {i \in inside : ItsMass(cs, i) > 0}
<1>1. TrunkMass(u, G, p) = SumFunction([j \in picked |-> share(j)])
    BY Zenon DEF TrunkMass
<1>2. InputInv /\ LayoutInv /\ Filling /\ phase # "unbuilt"
    BY DEF FillInv, Filling
<1>3. degree(u) \in Nat /\ G \in Nat /\ G > 0 /\ G <= degree(u) /\ p \in Nat /\ p > 0
    BY <1>2, GraphRight
<1>4. /\ \A j \in 1..M : /\ c[j].level \in 0..K_max[u] /\ c[j].index \in Nat
                         /\ first(j) + 2^c[j].level <= G
      /\ \A x \in 0..G - 1 : \E j \in 1..M : x \in first(j)..first(j) + 2^c[j].level - 1
      /\ \A i, j \in 1..M : \A x \in Int :
             x \in first(i)..first(i) + 2^c[i].level - 1
                 /\ x \in first(j)..first(j) + 2^c[j].level - 1 => i = j
    BY Zenon DEF Tiles, Holds, Begins
<1>5. M \in Nat
    OBVIOUS
<1>6. ASSUME NEW j \in 1..M, NEW q \in 1..2^c[j].level
      PROVE  /\ total(j) \in Nat /\ weights(u)[first(j) + q] <= total(j)
             /\ TableShare(TableWeights(alias_view_of_trunk(u, c[j].level, c[j].index)), q, total(j))
                    = weights(u)[first(j) + q]
  <2> PICK l \in 0..K_max[u], i \in Nat : l = c[j].level /\ i = c[j].index
      BY <1>4
  <2>1. i * 2^l + 2^l <= degree(u)
    <3> PICK size : size = 2^l
        OBVIOUS
    <3> PICK x : x = i * size
        OBVIOUS
    <3>1. x + size <= G
        BY <1>4
    <3>2. x \in Nat /\ size \in Nat
      <4>1. \A a, b \in Nat : a * b \in Nat
          OBVIOUS
      <4>2. l \in Nat
          OBVIOUS
      <4>3. 2^l \in Nat
          BY <4>2, PowersRight
      <4>4. i * 2^l \in Nat
          BY Zenon, <4>1, <4>3
      <4> QED
          BY <4>3, <4>4
    <3>3. x + size <= degree(u)
        BY <1>3, <3>1, <3>2
    <3> QED
        BY <3>3
  <2>2. q \in 1..2^l
      OBVIOUS
  <2>3. GivesWeight(u, l, i, q)
      BY ZenonT(20), <2>1, <2>2, TrunkGives
  <2> QED
      BY Zenon, <2>3 DEF GivesWeight
<1>7. ASSUME NEW j \in 1..M PROVE total(j) \in Nat /\ 2^c[j].level \in Nat /\ first(j) \in Nat
  <2>1. c[j].level \in Nat /\ c[j].index \in Nat
      BY <1>4
  <2> PICK size : size = 2^c[j].level
      OBVIOUS
  <2>2. size \in Nat /\ size > 0
      BY <2>1, PowersRight
  <2>3. c[j].index * size \in Nat
    <3>1. \A a, b \in Nat : a * b \in Nat
        OBVIOUS
    <3> QED
        BY <2>1, <2>2, <3>1
  <2>4. 1 \in 1..size
      BY <2>2
  <2> HIDE DEF c
  <2>5. total(j) \in Nat
      BY <1>6, <2>4
  <2> QED
      BY <2>2, <2>3, <2>5
<1>8. ASSUME NEW j \in 1..M PROVE ItsMass(cs, j) = total(j)
  <2>1. totals \in [1..M -> Nat]
    <3> HIDE DEF total
    <3> QED
        BY <1>7
  <2>2. totals[j] = total(j)
      OBVIOUS
  <2> HIDE DEF totals, total, M
  <2>3. totals \in Seq(Nat) /\ Len(totals) = M
      BY <1>5, <2>1, ListIsSeq
  <2>4. ItsMass(Cumulative(totals), j) = totals[j]
      BY <2>3, ItsMassRight
  <2> QED
      BY <2>2, <2>4
<1>9. CASE p > G
  <2>1. ASSUME NEW j \in inside PROVE FALSE
    <3>1. j \in 1..M /\ p - 1 \in first(j)..first(j) + 2^c[j].level - 1
        OBVIOUS
    <3>2. first(j) + 2^c[j].level <= G /\ first(j) \in Nat /\ 2^c[j].level \in Nat
        BY <1>4, <1>7, <3>1
    <3>3. p <= first(j) + 2^c[j].level
        BY ZenonT(20), <1>3, <3>1, <3>2, InBlock
    <3>4. p <= G
        BY ZenonT(20), <1>3, <3>2, <3>3, EndsBefore
    <3> QED
        BY <1>3, <1>9, <3>4
  <2>2. picked = {}
      BY <2>1
  <2> DEFINE f == [j \in picked |-> share(j)]
  <2>3. DOMAIN f = {}
      BY <2>2
  <2> HIDE DEF f
  <2>4. SumFunction(f) = 0
      BY <2>3, SumOfFunction, SumEmpty
  <2> QED
      BY <1>1, <1>3, <1>9, <2>4 DEF f
<1>10. CASE p <= G
  <2>1. p - 1 \in 0..G - 1 /\ p - 1 \in Int
      BY <1>3, <1>10
  <2> PICK j \in 1..M : p - 1 \in first(j)..first(j) + 2^c[j].level - 1
      BY <1>4, <2>1
  <2>2. inside = {j}
    <3>1. \A i \in 1..M : p - 1 \in first(i)..first(i) + 2^c[i].level - 1 => i = j
        BY <1>4, <2>1
    <3> HIDE DEF c, M, first
    <3> QED
        BY <3>1
  <2> PICK q : q = p - first(j)
      OBVIOUS
  <2>3. q \in 1..2^c[j].level /\ first(j) + q = p
    <3>1. first(j) \in Nat /\ 2^c[j].level \in Nat
        BY <1>7
    <3>2. p - first(j) \in 1..2^c[j].level /\ first(j) + (p - first(j)) = p
        BY ZenonT(20), <1>3, <3>1, InBlock
    <3> QED
        BY Zenon, <3>2
  <2>4. /\ total(j) \in Nat /\ weights(u)[p] <= total(j)
        /\ share(j) = weights(u)[p]
    <3>1. /\ total(j) \in Nat /\ weights(u)[first(j) + q] <= total(j)
          /\ TableShare(TableWeights(alias_view_of_trunk(u, c[j].level, c[j].index)), q, total(j))
                 = weights(u)[first(j) + q]
        BY ZenonT(20), <1>6, <2>3
    <3>2. ItsMass(cs, j) = total(j)
        BY <1>8
    <3> HIDE DEF total, cs, c, first
    <3> QED
        BY <2>3, <3>1, <3>2
  <2>5. weights(u)[p] \in Nat
    <3>1. p \in 1..degree(u) /\ weights(u) \in Seq(Nat) /\ Len(weights(u)) = degree(u)
        BY <1>2, WeightsRight
    <3> QED
        BY ZenonT(20), <3>1, ElementOf
  <2> DEFINE f == [i \in picked |-> share(i)]
  <2>6. CASE total(j) > 0
    <3>1. picked = {j}
      <4>1. ItsMass(cs, j) = total(j)
          BY <1>8
      <4> HIDE DEF inside, cs, total
      <4> QED
          BY <2>2, <2>6, <4>1
    <3> HIDE DEF picked, share
    <3>2. DOMAIN f = {j} /\ f[j] = weights(u)[p]
        BY <2>4, <3>1
    <3> HIDE DEF f
    <3>3. SumFunctionOnSet(f, {} \cup {j}) = f[j] + SumFunctionOnSet(f, {})
      <4>1. IsFiniteSet({}) /\ j \notin {} /\ f[j] \in Int /\ \A i \in {} : f[i] \in Int
          BY <2>5, <3>2, FS_EmptySet
      <4> QED
          BY <4>1, SumAdd
    <3>4. {} \cup {j} = {j} /\ SumFunctionOnSet(f, {}) = 0
        BY SumEmpty
    <3>5. SumFunction(f) = weights(u)[p]
        BY <2>5, <3>2, <3>3, <3>4, SumOfFunction
    <3> QED
        BY <1>1, <1>10, <3>5 DEF f
  <2>7. CASE ~(total(j) > 0)
    <3>1. picked = {}
      <4>1. ItsMass(cs, j) = total(j)
          BY <1>8
      <4> HIDE DEF inside, cs, total
      <4> QED
          BY <2>2, <2>7, <4>1
    <3> HIDE DEF picked, share
    <3>2. DOMAIN f = {}
        BY <3>1
    <3> HIDE DEF f
    <3>3. SumFunction(f) = 0
        BY <3>2, SumOfFunction, SumEmpty
    <3>4. weights(u)[p] = 0
      <4> HIDE DEF total
      <4> QED
          BY <2>4, <2>5, <2>7
    <3> QED
        BY <1>1, <1>10, <3>3, <3>4 DEF f
  <2> QED
      BY <2>6, <2>7
<1> QED
    BY <1>3, <1>9, <1>10

(* The newest edge of a vertex has a weight that is not 0.                 *)
LEMMA NewestWeight ==
    ASSUME InputInv, phase # "unbuilt", NEW u \in Vertices, degree(u) > 0
    PROVE  weights(u)[degree(u)] # 0
<1> DEFINE ts == graph[u]
<1> PICK n : n = degree(u)
    OBVIOUS
<1>1. ts \in Seq(Int) /\ n = Len(ts) /\ n \in Nat /\ n > 0
    BY GraphRight DEF degree
<1>2. \A i, j \in 1..Len(ts) : i < j => ts[i] <= ts[j]
  <2>1. graph \in Graphs /\ u \in DOMAIN graph
      BY GraphRight DEF InputInv
  <2> QED
      BY <2>1, ArenasAssumption
<1>3. bias.kind \in Kinds /\ bias.timescale_bound \in Int
    BY ArenasAssumption DEF InputInv, Kinds
<1> HIDE DEF ts
<1>4. weights(u)[n] = CASE bias.kind = "uniform" -> 1
                        [] bias.kind = "linear" -> n
                        [] bias.kind = "exponential" -> Exp(AgeOf(bias, ts, n))
  <2>1. n \in 1..Len(ts)
      BY <1>1
  <2> QED
      BY <1>1, <1>2, <1>3, <2>1, WeightByAge DEF weights, ts
<1>5. AgeOf(bias, ts, n) = 0
  <2> PICK b : b = bias.timescale_bound
      OBVIOUS
  <2> PICK x, y : x = ts[Len(ts)] /\ y = ts[1]
      OBVIOUS
  <2> PICK r : r = x - y
      OBVIOUS
  <2>1. x \in Int /\ y \in Int /\ r \in Int /\ b \in Int
      BY <1>1, <1>3
  <2>2. AgeOf(bias, ts, n) = IF b > 0 /\ r > 0 THEN ((x - x) * b) \div r ELSE x - x
      BY <1>1 DEF AgeOf
  <2>3. x - x = 0 /\ 0 * b = 0
      BY <2>1
  <2>4. r > 0 => 0 \div r = 0
      BY <2>1
  <2> QED
      BY <2>2, <2>3, <2>4
<1>6. Exp(0) # 0
  <2>1. Horizon \in Nat /\ Horizon - 0 = Horizon /\ ~(0 > Horizon)
      BY HorizonAssumption
  <2>2. 2^Horizon > 0 /\ 2^Horizon \in Nat
      BY <2>1, PowersRight
  <2>3. 2^Horizon # 0
      BY <2>2
  <2> QED
      BY <2>1, <2>3 DEF Exp
<1> QED
    BY <1>1, <1>3, <1>4, <1>5, <1>6 DEF Kinds

(* sample_hpat, for a solo vertex: all of its edges from the table, fewer  *)
(* by weights computed again.                                              *)
LEMMA SoloGives ==
    ASSUME FillInv, ReadyInv, phase = "built", NEW u \in Vertices, is_solo[u], degree(u) > 0,
           NEW G \in 1..degree(u), NEW p \in 1..degree(u)
    PROVE  sample_hpat(u, G, p) = IF p <= G THEN weights(u)[p] ELSE 0
<1> DEFINE W == weights(u)
           v == compute_weights(bias, SubSeq(graph[u], 1, G), bias_params[u], 0)
<1> PICK D : D = degree(u)
    OBVIOUS
<1>1. InputInv /\ LayoutInv /\ Filling /\ phase # "unbuilt" /\ filled = Vertices
    BY DEF FillInv, Filling, ReadyInv
<1>2. /\ D \in Nat /\ D > 0 /\ W \in Seq(Nat) /\ Len(W) = D
      /\ G \in 1..D /\ p \in 1..D
    BY <1>1, GraphRight, WeightsRight
<1>3. sample_hpat(u, G, p) =
          IF G = D THEN TableWeights(solo_alias_view(u))[p]
          ELSE IF p > G THEN 0 ELSE ItsMass(Cumulative(v), p)
    BY DEF sample_hpat
<1>4. CASE G = D
  <2>1. solo_alias_view(u) = Table(W)
      BY <1>1, ReadBack DEF TrunksReadBack
  <2>2. W[D] # 0
      BY <1>1, NewestWeight
  <2> HIDE DEF W
  <2>3. \A q \in 1..D : W[q] \in Nat
      BY <1>2
  <2>4. Sum(W, 1, D) # 0
    <3>1. RangeSum(W, 1, D) = SumFunctionOnSet(W, 1..D)
        BY <1>2, <2>3, RangeSumRight
    <3>2. IsFiniteSet(1..D) /\ D \in 1..D
      <4>1. D \in 1..D
          BY <1>2
      <4>2. \A a, b \in Int : IsFiniteSet(a..b)
          BY FS_Interval
      <4> QED
          BY <1>2, <4>1, <4>2
    <3>3. SumFunctionOnSet(W, 1..D) \in Nat /\ W[D] <= SumFunctionOnSet(W, 1..D)
        BY <2>3, <3>2, SumNat
    <3>4. W[D] \in Nat
        BY <2>3, <3>2
    <3>5. SumFunctionOnSet(W, 1..D) # 0
        BY <2>2, <3>3, <3>4
    <3> QED
        BY <3>1, <3>5, SumIsRangeSum
  <2>5. Table(W)[0][1] = W
    <3>1. 0 \in 0..Len(W) - 1
        BY <1>2
    <3> QED
        BY <3>1 DEF Table
  <2>6. TableWeights(Table(W)) = W
      BY <1>2, <2>4, <2>5 DEF TableWeights
  <2>7. p <= G
      BY <1>2, <1>4
  <2>8. sample_hpat(u, G, p) = TableWeights(solo_alias_view(u))[p]
      BY Zenon, <1>3, <1>4
  <2>9. sample_hpat(u, G, p) = W[p]
      BY Zenon, <2>1, <2>6, <2>8
  <2> QED
      BY Zenon, <2>7, <2>9 DEF W
<1>5. CASE G # D
  <2>1. bias_params[u] = compute_per_vertex_params(bias, graph[u])
      BY <1>1 DEF ReadyInv
  <2>2. v \in Seq(Nat) /\ Len(v) = G /\ \A j \in 1..G : v[j] = W[j]
    <3> PICK k \in Nat : k = 0
        OBVIOUS
    <3> DEFINE vk == compute_weights(bias, SubSeq(graph[u], k + 1, G), bias_params[u], k)
    <3>1. G \in Nat /\ k <= G /\ G <= degree(u)
        BY <1>2
    <3>2. vk \in Seq(Nat) /\ Len(vk) = G - k /\ \A j \in 1..G - k : vk[j] = W[k + j]
        BY ZenonT(30), <1>1, <2>1, <3>1, WeightsAgain
    <3>3. vk = v
        OBVIOUS
    <3> HIDE DEF vk, v, W
    <3>4. G - k = G /\ \A j \in 1..G : k + j = j
        BY <3>1
    <3> QED
        BY <3>2, <3>3, <3>4
  <2> HIDE DEF v, W
  <2>3. CASE p <= G
    <3>1. p \in 1..Len(v) /\ p \in 1..G /\ ~(p > G)
        BY <1>2, <2>2, <2>3
    <3>2. ItsMass(Cumulative(v), p) = v[p]
        BY <2>2, <3>1, ItsMassRight
    <3> QED
        BY <1>3, <1>5, <2>2, <2>3, <3>1, <3>2 DEF W
  <2>4. CASE ~(p <= G)
    <3>1. p > G
        BY <1>2, <2>4
    <3> QED
        BY <1>3, <1>5, <2>4, <3>1
  <2> QED
      BY <2>3, <2>4
<1> QED
    BY <1>4, <1>5

(* The covers sampling uses, looked up or computed.                        *)
LEMMA CoverUsed ==
    ASSUME IInv, phase = "built", 0 \notin Budgets \/ Budgets \subseteq {0},
           NEW u \in Vertices, ~is_solo[u], NEW G \in 0..degree(u)
    PROVE  CoverOf(u, G) = decompose_to_trunks(G, K_max[u])
<1>1. FillInv /\ AuxInv /\ ActiveInv
    BY DEF IInv
<1>2. CASE active
  <2>1. aux_budget_bytes \in Budgets
      BY <1>1 DEF FillInv, InputInv
  <2>2. PICK b \in Budgets : b > 0
      BY <1>1, <1>2 DEF ActiveInv
  <2>3. 0 \notin Budgets
      BY <2>2
  <2>4. aux_budget_bytes > 0
      BY <2>1, <2>3, HpatAssumption
  <2> QED
      BY <1>1, <1>2, <2>4, LookupRight DEF CoverOf
<1>3. CASE ~active
    BY <1>3 DEF CoverOf
<1> QED
    BY <1>2, <1>3

(* sample_hpat gives every candidate its weight, and no other edge any.    *)
LEMMA SampleRight ==
    ASSUME IInv, ReadyInv, phase = "built", 0 \notin Budgets \/ Budgets \subseteq {0},
           NEW u \in Vertices, NEW G \in 1..degree(u), NEW p \in 1..degree(u)
    PROVE  sample_hpat(u, G, p) = IF p <= G THEN weights(u)[p] ELSE 0
<1>1. FillInv /\ InputInv /\ LayoutInv /\ Filling /\ phase # "unbuilt"
    BY DEF IInv, FillInv, Filling
<1>2. degree(u) \in Nat /\ degree(u) > 0 /\ Shape(u)
  <2>1. degree(u) \in Nat /\ Shape(u)
      BY <1>1, GraphRight DEF LayoutInv
  <2> QED
      BY <2>1
<1>3. CASE is_solo[u]
    BY <1>1, <1>2, <1>3, SoloGives
<1>4. CASE ~is_solo[u]
  <2>1. Deep(u)
      BY <1>2, <1>4, HpatAssumption DEF Shape, Deep
  <2> DEFINE K == K_max[u]
             c == CoverOf(u, G)
  <2>2. G \in 0..degree(u) /\ G \in Nat /\ G <= degree(u)
      BY <1>2
  <2>3. c = decompose_to_trunks(G, K)
      BY <1>4, <2>2, CoverUsed
  <2>4. c \in Seq(CoverTrunk)
      BY <1>1, <1>4, <2>2, <2>3, CoversRight DEF Cover
  <2>5. K \in Nat /\ degree(u) < 2^(K + 1) /\ 2^(K + 1) \in Nat
    <3>1. K = FloorLog2(degree(u)) /\ K \in Nat
        BY <1>1, <1>2, <2>1, DeepRight
    <3>2. K + 1 \in Nat
        BY <3>1
    <3> QED
        BY <1>2, <3>1, <3>2, FloorLog2Right, PowersRight
  <2>6. Tiles(c, 0, G, K)
    <3> HIDE DEF c, K
    <3>1. K \in Int /\ K >= -1 /\ G < 2^(K + 1)
        BY <1>2, <2>2, <2>5
    <3> QED
        BY <2>2, <2>3, <3>1, CoverTiles
  <2>7. TrunkMass(u, G, p) = IF p <= G THEN weights(u)[p] ELSE 0
      BY <1>1, <2>1, <2>4, <2>6, CoverGives
  <2> QED
      BY <1>4, <2>7 DEF sample_hpat
<1> QED
    BY <1>3, <1>4

-----------------------------------------------------------------------------
AbstractBuilding == IF phase \in {"unbuilt", "built"} THEN {} ELSE {<<graph, bias>>}
AbstractMass ==
    IF phase # "built" THEN <<>> ELSE
        [u \in Vertices |-> [G \in 1..degree(u) |->
            [p \in 1..degree(u) |-> sample_hpat(u, G, p)]]]

LEMMA MassPromised ==
    ASSUME 0 \notin Budgets \/ Budgets \subseteq {0}
    PROVE  IInv /\ ReadyInv /\ phase = "built" => AbstractMass = PrefixSampler!Exact(graph, bias)
<1> SUFFICES ASSUME IInv, ReadyInv, phase = "built"
             PROVE  AbstractMass = PrefixSampler!Exact(graph, bias)
    OBVIOUS
<1>1. InputInv /\ phase # "unbuilt" /\ DOMAIN graph = Vertices
    BY GraphRight DEF IInv, FillInv
<1>2. ASSUME NEW u \in Vertices, NEW G \in 1..degree(u), NEW p \in 1..degree(u)
      PROVE  sample_hpat(u, G, p) = IF p <= G THEN PrefixSampler!Weight(bias, graph[u], p) ELSE 0
    BY <1>1, SampleRight, WeightIsPromised
<1>3. PrefixSampler!Exact(graph, bias)
          = [u \in Vertices |-> [G \in 1..degree(u) |-> [p \in 1..degree(u) |->
                IF p <= G THEN PrefixSampler!Weight(bias, graph[u], p) ELSE 0]]]
    BY <1>1 DEF PrefixSampler!Exact, degree
<1> QED
    BY <1>2, <1>3 DEF AbstractMass

LEMMA SamplerStep ==
    ASSUME 0 \notin Budgets \/ Budgets \subseteq {0}
    PROVE  IInv /\ ReadyInv /\ IInv' /\ ReadyInv' /\ [Next]_vars
               => [PrefixSampler!Next]_<<AbstractBuilding, AbstractMass>>
<1> SUFFICES ASSUME IInv, ReadyInv, IInv', ReadyInv', [Next]_vars
             PROVE  [PrefixSampler!Next]_<<AbstractBuilding, AbstractMass>>
    OBVIOUS
<1> DEFINE b == AbstractBuilding
           m == AbstractMass
<1>0. phase' = "built" => (AbstractMass = PrefixSampler!Exact(graph, bias))'
  <2>1. (IInv /\ ReadyInv /\ phase = "built" =>
             AbstractMass = PrefixSampler!Exact(graph, bias))'
      BY MassPromised, PTL
  <2> QED
      BY <2>1
<1>1. CASE StartBuild
  <2>1. /\ b = {} /\ b' = {<<graph', bias'>>} /\ m' = <<>>
        /\ graph' \in Graphs /\ bias' \in Biases
      BY <1>1 DEF StartBuild, AbstractBuilding, AbstractMass
  <2>2. PrefixSampler!Begin
      BY <2>1 DEF PrefixSampler!Begin, PrefixSampler!NoIndex, AbstractBuilding, AbstractMass
  <2> QED
      BY <2>2 DEF PrefixSampler!Next
<1>2. CASE SkipAux \/ RefuseAux \/ FinishAux
  <2>1. /\ phase \in {"fill", "aux_layout", "aux_fill"} /\ phase' = "built"
        /\ graph' = graph /\ bias' = bias
      BY <1>2 DEF SkipAux, RefuseAux, FinishAux, args
  <2>2. AbstractMass' = PrefixSampler!Exact(graph, bias)
      BY <1>0, <2>1
  <2>3. b = {<<graph, bias>>} /\ b' = {}
      BY <2>1 DEF AbstractBuilding
  <2>4. PrefixSampler!Finish
      BY <2>2, <2>3 DEF PrefixSampler!Finish, AbstractBuilding, AbstractMass
  <2> QED
      BY <2>4 DEF PrefixSampler!Next
<1>3. CASE \/ LayoutVertex \/ AllocateArenas \/ StartAux \/ AuxLayoutVertex \/ AllocateAux
           \/ \E u \in Vertices : FillSolo(u) \/ FillTrunk(u) \/ FillCover(u)
  <2>1. /\ phase \notin {"unbuilt", "built"} /\ phase' \notin {"unbuilt", "built"}
        /\ graph' = graph /\ bias' = bias
      BY <1>3 DEF LayoutVertex, AllocateArenas, StartAux, AuxLayoutVertex, AllocateAux,
                  FillSolo, FillTrunk, FillCover, args
  <2> QED
      BY <2>1 DEF AbstractBuilding, AbstractMass
<1>4. CASE UNCHANGED vars
  <2>1. UNCHANGED <<phase, graph, bias>>
      BY <1>4 DEF vars, args
  <2>2. UNCHANGED AbstractMass
    <3>1. CASE phase = "built"
      <4>1. AbstractMass = PrefixSampler!Exact(graph, bias)
          BY <3>1, MassPromised
      <4> QED
          BY <1>0, <2>1, <3>1, <4>1
    <3>2. CASE phase # "built"
        BY <2>1, <3>2 DEF AbstractMass
    <3> QED
        BY <3>1, <3>2
  <2> QED
      BY <2>1, <2>2 DEF AbstractBuilding
<1> QED
    BY <1>1, <1>2, <1>3, <1>4 DEF Next, BuildStep

(* For every graph, bias, threshold and schedule, and whether covers are   *)
(* looked up or computed: once a build is over, sample_hpat gives each     *)
(* candidate of every prefix of every vertex exactly its weight's share,   *)
(* and no other edge any - unless an Hpat may be built again without a     *)
(* budget, which leaves the covers of an earlier graph in use (the         *)
(* hpat_stale run).                                                        *)
THEOREM Refinement ==
    ASSUME 0 \notin Budgets \/ Budgets \subseteq {0}
    PROVE  Spec => ImplementsPrefixSampler
<1>1. Init => AbstractBuilding = {} /\ AbstractMass = <<>>
    BY DEF Init, AbstractBuilding, AbstractMass
<1>2. IInv /\ ReadyInv /\ IInv' /\ ReadyInv' /\ [Next]_vars
          => [PrefixSampler!Next]_<<AbstractBuilding, AbstractMass>>
    BY SamplerStep
<1> QED
    BY <1>1, <1>2, SamplingReady, PTL
       DEF Spec, ImplementsPrefixSampler, PrefixSampler!Spec, PrefixSampler!Init,
           PrefixSampler!NoIndex, AbstractBuilding, AbstractMass
=============================================================================
