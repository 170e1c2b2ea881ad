-------------------------------- MODULE Trunks --------------------------------
(***************************************************************************)
(* Trunks of a vertex with D edges (include/tea/trunk_ref.hpp and the free *)
(* functions of include/tea/hpat.hpp): trunk (level, index) is the block   *)
(* of 2^level edges that starts at edge index * 2^level, from 0.           *)
(***************************************************************************)
EXTENDS Integers, Sequences, FiniteSets, Functions

Bit(n, k) == (n \div 2^k) % 2 = 1
popcount(n) == Cardinality({k \in 0..n : Bit(n, k)})
FloorLog2(n) == CHOOSE k \in 0..n : 2^k <= n /\ n < 2^(k + 1)

(* The cover of the first L edges: one trunk for each bit of L, the largest *)
(* first.                                                                  *)
decompose_to_trunks(L, k_max) ==
    LET scan[s \in (-1..k_max) \X Nat] ==  \* level, edges covered so far
            LET k == s[1]
                pos == s[2]
            IN  IF k = -1 THEN <<>>
                ELSE IF Bit(L, k)
                     THEN <<[level |-> k, index |-> pos \div 2^k]>>
                              \o scan[<<k - 1, pos + 2^k>>]
                     ELSE scan[<<k - 1, pos>>]
    IN  scan[<<k_max, 0>>]

(* Mutant: level k itself is counted. *)
MutantAliasOffset(D, k) ==
    SumFunction([kk \in 0..k |-> (D \div 2^kk) * 2^kk])

(* Where level k of the vertex starts in its slice of the two arenas. *)
hpat_alias_level_offset(D, k) ==
    SumFunction([kk \in 0..k - 1 |-> (D \div 2^kk) * 2^kk])

hpat_totals_level_offset(D, k) ==
    SumFunction([kk \in 0..k - 1 |-> D \div 2^kk])

(* The sizes of the slices. *)
hpat_alias_entries_per_vertex(D) ==
    IF D <= 0 THEN 0
    ELSE SumFunction([k \in 0..FloorLog2(D) |-> (D \div 2^k) * 2^k])

hpat_trunks_per_vertex(D) ==
    IF D <= 0 THEN 0
    ELSE SumFunction([k \in 0..FloorLog2(D) |-> D \div 2^k])
=============================================================================
