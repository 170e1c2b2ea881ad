----------------------------- MODULE AliasArenas -----------------------------
(***************************************************************************)
(* What Pat and Hpat share: flat arenas of alias tables that many vertices *)
(* have a slice of, and inverse transform sampling over cumulative weights *)
(* (include/tea/sampler.hpp).                                              *)
(*                                                                         *)
(* An alias table is known by the weights w it was built from: its cells   *)
(* are <<w, slot>>.                                                        *)
(***************************************************************************)
EXTENDS Bias, FiniteSets, Functions, FiniteSetsExt

CONSTANTS Graphs,  \* the graphs build() is called with, as PrefixSampler has them
          Biases   \* the biases it is called with

ASSUME ArenasAssumption ==
    /\ \A g \in Graphs :
           /\ IsFiniteSet(DOMAIN g) /\ DOMAIN g = 0..Cardinality(DOMAIN g) - 1
           /\ \A v \in DOMAIN g :
                  /\ g[v] \in Seq(Int)
                  /\ \A i, j \in 1..Len(g[v]) : i < j => g[v][i] <= g[v][j]
    /\ Biases \subseteq [kind : {"uniform", "linear", "exponential"}, timescale_bound : Int]

Sum(w, first, last) == SumFunction([p \in first..last |-> w[p]])
Cumulative(w) == [j \in 1..Len(w) |-> Sum(w, 1, j)]

(* An AliasEntry{0, 0.0f}. *)
Blank == <<<<>>, 0>>

(* build_alias_into from the weights w: the cells. *)
Table(w) == [j \in 0..Len(w) - 1 |-> <<w, j>>]

(* Cells lo.. of an arena are overwritten by those of f. *)
Write(arena, lo, f) ==
    [c \in DOMAIN arena |-> IF c - lo \in DOMAIN f THEN f[c - lo] ELSE arena[c]]

(* The weights an alias table samples its slots by: those it was built     *)
(* from, or equal ones if they are all 0.  Cells that are not one table,   *)
(* in order, sample by no weight.                                          *)
TableWeights(view) ==
    LET w == view[0][1]
    IN  IF view # Table(w) THEN <<>>
        ELSE IF Sum(w, 1, Len(w)) = 0 THEN [j \in 1..Len(w) |-> 1]
        ELSE w

(* The share of slot j in n samples of a table. *)
TableShare(w, j, n) == (n * w[j]) \div Sum(w, 1, Len(w))

(* Mutant: the search stops at r <= cumsum. *)
MutantIts(cs, r) ==
    LET over == {j \in 1..Len(cs) : r <= cs[j]}
    IN  IF over = {} THEN Len(cs) ELSE Min(over)

(***************************************************************************)
(* Inverse transform sampling: the first element whose cumulative weight   *)
(* exceeds r, or the last one.  With integer weights, r = u01 * total is   *)
(* as good as a uniform choice from 0..total - 1.                          *)
(***************************************************************************)
Its(cs, r) ==
    LET over == {j \in 1..Len(cs) : r < cs[j]}
    IN  IF over = {} THEN Len(cs) ELSE Min(over)

(* How many of the draws select element j. *)
ItsMass(cs, j) ==
    IF cs = <<>> THEN 0 ELSE Cardinality({r \in 0..cs[Len(cs)] - 1 : Its(cs, r) = j})
=============================================================================
