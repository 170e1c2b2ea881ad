------------------------------ MODULE AliasTable ------------------------------
(***************************************************************************)
(* build_alias_into (include/tea/alias.hpp): Vose's construction of an     *)
(* alias table, with a scratch that is kept from one table to the next.    *)
(* Every table PAT and HPAT sample from comes from here.                   *)
(*                                                                         *)
(* A probability is a number of units: One units are 1.0.  What is         *)
(* computed in double (a scaled weight, the remainder in the loop) may be  *)
(* off by Rounding.double units, and a threshold, narrowed to float when   *)
(* it is stored, by Rounding.float.  Where both are 0 the arithmetic is    *)
(* exact.                                                                  *)
(***************************************************************************)
EXTENDS Integers, SequencesExt

CONSTANTS Weights,      \* the weight spans tables are built from
          Resolution,   \* units per unit of weight
          Roundings     \* how far a double and a float may be off

ASSUME AliasAssumption ==
    /\ Weights \subseteq Seq(Nat)
    /\ Resolution \in Nat \ {0}
    /\ Roundings \subseteq [double : Nat, float : Nat]

VARIABLES stage,                 \* "idle", "pair" (the while loop), "rest"
          weights, Rounding,     \* of the latest table
          under, over, scaled,   \* AliasBuildScratch
          out                    \* the table: <<alias, prob>> for each slot

tableVars == <<stage, weights, Rounding, under, over, scaled, out>>

(* Slots are 1..n (0..n - 1 in the code). *)
n == Len(weights)
Slots == 1..n
TotalOf(w) == SumFunction(w)
Degenerate == TotalOf(weights) = 0
One == IF Degenerate THEN 1 ELSE TotalOf(weights) * Resolution
Unset == <<0, 0>>
Exact == [double |-> 0, float |-> 0]

Apart(a, b) == IF a < b THEN b - a ELSE a - b

(* The values x may be rounded to: rounding is monotone and 0 is a double  *)
(* and a float, so it stays 0 and nothing else falls below it.             *)
Rounded(x, d) == {y \in x - d .. x + d : y >= 0 /\ (x = 0 => y = 0)}

(* A slot's share of Len(w), before any rounding. *)
Share(w, j) == w[j] * Len(w) * Resolution

(* The weights times n / total.  The factor is rounded once for the table, *)
(* so the products are in the order of the weights.                        *)
ScaledWeights(w, d) ==
    {s \in [1..Len(w) -> UNION {Rounded(Share(w, j), d) : j \in 1..Len(w)}] :
        \A i, j \in 1..Len(w) :
            s[i] \in Rounded(Share(w, i), d) /\ (w[i] <= w[j] => s[i] <= s[j])}

InStack(s, j) == \E k \in 1..Len(s) : s[k] = j

(* The slots of S in the order the loop over the slots pushes them. *)
InOrder(S) ==
    CHOOSE s \in [1..Cardinality(S) -> S] :
        \A a, b \in 1..Cardinality(S) : a < b => s[a] < s[b]

(* The postconditions of the comment; an entry still to be filled is Unset. *)
TableTypeOK ==
    /\ stage \in {"idle", "pair", "rest"}
    /\ weights \in Weights \cup {<<>>} /\ Rounding \in Roundings \cup {Exact}
    /\ stage # "idle" => under \in Seq(Slots) /\ over \in Seq(Slots)
    /\ \A j \in Slots :
           \/ out[j][1] \in Slots /\ out[j][2] \in 0..One
           \/ stage # "idle" /\ out[j] = Unset /\ (InStack(under, j) \/ InStack(over, j))

-----------------------------------------------------------------------------
TableInit == /\ stage = "idle" /\ weights = <<>> /\ Rounding = Exact
        /\ under = <<>> /\ over = <<>> /\ scaled = <<>> /\ out = <<>>

(* No weight, or none but 0: the table is uniform, the scratch untouched. *)
BuildUniform ==
    /\ stage = "idle"
    /\ \E w \in Weights :
           /\ TotalOf(w) = 0
           /\ weights' = w
           /\ out' = [j \in 1..Len(w) |-> <<j, 1>>]
    /\ Rounding' = Exact
    /\ UNCHANGED <<stage, under, over, scaled>>

(* The scaled weights, in units, and the two stacks: which one a slot is   *)
(* pushed on depends on the rounded value.                                 *)
StartTable ==
    /\ stage = "idle"
    /\ \E w \in Weights, d \in Roundings :
           /\ TotalOf(w) > 0
           /\ weights' = w /\ Rounding' = d
           /\ out' = [j \in 1..Len(w) |-> Unset]
           /\ \E s \in ScaledWeights(w, d.double) :
                  LET small == {j \in 1..Len(w) : s[j] < TotalOf(w) * Resolution}
                  IN  /\ scaled' = s
                      /\ under' = InOrder(small)
                      /\ over' = InOrder((1..Len(w)) \ small)
    /\ stage' = "pair"

(* Mutant: the donor's remainder is its old weight less what was missing, *)
(* without the slot's own share.                                          *)
MutantRemainder(i_u, i_o) == scaled[i_o] - scaled[i_u]

(* What is left of slot i_o once it has filled slot i_u up to 1.0, before  *)
(* it is rounded: never below 0, as slot i_o holds at least 1.0.           *)
Remainder(i_u, i_o) == (scaled[i_o] + scaled[i_u]) - One

(* Slot i_u is completed by slot i_o, which goes back to a stack.  The     *)
(* threshold is stored as a float, at most 1.0; the remainder is computed  *)
(* from the double.                                                        *)
PairSlots ==
    LET i_u == Last(under)
        i_o == Last(over)
    IN  /\ stage = "pair" /\ under # <<>> /\ over # <<>>
        /\ \E p \in Rounded(scaled[i_u], Rounding.float) :
               /\ p <= One
               /\ out' = [out EXCEPT ![i_u] = <<i_o, p>>]
        /\ \E r \in Rounded(Remainder(i_u, i_o), Rounding.double) :
               /\ scaled' = [scaled EXCEPT ![i_o] = r]
               /\ under' = IF r < One THEN Append(Front(under), i_o) ELSE Front(under)
               /\ over' = IF r < One THEN Front(over) ELSE Append(Front(over), i_o)
        /\ UNCHANGED <<stage, weights, Rounding>>

StackEmpty ==
    /\ stage = "pair" /\ (under = <<>> \/ over = <<>>)
    /\ stage' = "rest"
    /\ UNCHANGED <<weights, Rounding, under, over, scaled, out>>

(* Mutant: only the slots left over are completed. *)
MutantRest(j) == InStack(over, j)

Rest(j) == InStack(over, j) \/ InStack(under, j)

(* The slots on the stack that is left have 1.0, up to rounding. *)
FillRest ==
    /\ stage = "rest"
    /\ out' = [j \in Slots |-> IF Rest(j) THEN <<j, One>> ELSE out[j]]
    /\ stage' = "idle"
    /\ UNCHANGED <<weights, Rounding, under, over, scaled>>

TableNext == BuildUniform \/ StartTable \/ PairSlots \/ StackEmpty \/ FillRest

TableSpec == TableInit /\ [][TableNext]_tableVars

-----------------------------------------------------------------------------
(* Mutant: the comparison is the wrong way round. *)
MutantSample(s, j) ==
    (IF s = j THEN One - out[s][2] ELSE 0) + (IF out[s][1] = j THEN out[s][2] ELSE 0)

(* Mutant: a draw equal to the threshold still selects the slot. *)
MutantAtMost(s, j) ==
    LET upTo == IF out[s][2] = One THEN One ELSE out[s][2] + 1
    IN  (IF s = j THEN upTo ELSE 0) + (IF out[s][1] = j THEN One - upTo ELSE 0)

(* AliasView::sample in bucket s: the slot itself below its probability,   *)
(* its alias above.  How many of the One outcomes select slot j.           *)
sample(s, j) ==
    (IF s = j THEN out[s][2] ELSE 0) + (IF out[s][1] = j THEN One - out[s][2] ELSE 0)

(* Every bucket is as likely. *)
Mass(j) == SumFunction([s \in Slots |-> sample(s, j)])

(* alias.hpp, postcondition: a table samples each slot in proportion to    *)
(* its weight, but for the rounding: of n scaled weights, and of a         *)
(* remainder and a threshold in each pairing, of which there are fewer     *)
(* than slots.  A table for no weight but 0 samples every slot alike.      *)
ProportionalSampling ==
    stage = "idle" =>
        \A j \in Slots :
            IF Degenerate THEN Mass(j) = One
            ELSE Apart(Mass(j), Share(weights, j))
                     <= n * Rounding.double + (n - 1) * (Rounding.double + Rounding.float)

(* No probability is lost on the way: what the finished slots give to j    *)
(* and what slot j still has make up its weight, up to the rounding of its *)
(* scaled weight and of a remainder and a threshold for each slot that is  *)
(* finished.                                                               *)
MassConserved ==
    stage = "pair" =>
        LET finished == {s \in Slots : ~InStack(under, s) /\ ~InStack(over, s)}
            given(j) == SumFunction([s \in finished |-> sample(s, j)])
        IN  \A j \in Slots :
                Apart(given(j) + IF j \in finished THEN 0 ELSE scaled[j], Share(weights, j))
                    <= Rounding.double
                       + Cardinality(finished) * (Rounding.double + Rounding.float)

(* A slot without weight is never sampled: its threshold stays 0, no slot  *)
(* takes it as its alias, and it is not among those left over and given    *)
(* 1.0, as long as all the rounding in double does not add up to 1.0.      *)
NoWeightNoShare ==
    stage = "idle" /\ ~Degenerate /\ (2 * n - 1) * Rounding.double < One =>
        \A j \in Slots : weights[j] = 0 => Mass(j) = 0
=============================================================================
