---------------------------- MODULE SamplingProofs ----------------------------
(***************************************************************************)
(* The two ways an edge is drawn.                                          *)
(*                                                                         *)
(* build_alias_into, for every weight span and resolution and however far  *)
(* doubles and floats are off: the table is complete and in range when the *)
(* function returns, no probability is lost on the way, and the finished   *)
(* table samples each slot in proportion to its weight, and none that has  *)
(* no weight.                                                              *)
(*                                                                         *)
(* The rejection loop of node2vec, for every input, p and q and every cap: *)
(* short of the cap it returns edges in exactly the prescribed             *)
(* proportions, and at the cap the skew is bounded by a power that shrinks *)
(* with every retry.                                                       *)
(***************************************************************************)
EXTENDS AliasTable, Node2Vec, DataLemmas, SequenceTheorems

-----------------------------------------------------------------------------
(* The alias table. *)

Unfinished == {j \in Slots : InStack(under, j) \/ InStack(over, j)}
Finished == Slots \ Unfinished

(* What slot j is sampled for by the finished slots, and how far that and  *)
(* what it still has are from its weight.                                  *)
Given(j) == SumFunction([s \in Finished |-> sample(s, j)])
Error(j) == (Given(j) + IF j \in Finished THEN 0 ELSE scaled[j])
            - Share(weights, j)

(* What the unfinished slots have above 1.0 each. *)
Excess == SumFunctionOnSet(scaled, Unfinished) - One * Cardinality(Unfinished)

TableInv ==
    /\ stage \in {"idle", "pair", "rest"}
    /\ weights \in Weights \cup {<<>>}
    /\ Rounding \in Roundings \cup {Exact}
    /\ out \in [Slots -> (Slots \X (0..One)) \cup {Unset}]
    /\ stage = "idle" => out \in [Slots -> Slots \X (0..One)]

NoRepeat(s) == \A a, b \in 1..Len(s) : s[a] = s[b] => a = b

StackInv ==
    stage # "idle" =>
        /\ ~Degenerate
        /\ scaled \in [Slots -> Nat]
        /\ under \in Seq(Slots) /\ NoRepeat(under)
        /\ over \in Seq(Slots) /\ NoRepeat(over)
        /\ \A j \in Slots : InStack(under, j) => scaled[j] < One
        /\ \A j \in Slots : InStack(over, j) => scaled[j] >= One
        /\ \A j \in Finished : out[j] \in Slots \X (0..One)
        /\ \A j \in Unfinished : out[j] = Unset
        /\ Unfinished # {}
        /\ stage = "rest" => under = <<>> \/ over = <<>>

(* A slot without weight keeps nothing to give: it is completed with the   *)
(* threshold 0, and never completes another.                               *)
WeightlessInv ==
    stage # "idle" =>
        /\ \A j \in Unfinished : weights[j] = 0 => scaled[j] = 0
        /\ \A s \in Finished : /\ weights[out[s][1]] > 0
                               /\ weights[s] = 0 => out[s][2] = 0

Within(x, bound) == -bound <= x /\ x <= bound

(* What a pairing may be off by: the remainder and the threshold. *)
PerPair == Rounding.double + Rounding.float

MassInv ==
    stage # "idle" =>
        LET pairs == Cardinality(Finished)
        IN  /\ \A j \in Slots :
                   /\ Within(Error(j), Rounding.double + pairs * PerPair)
                   /\ Within(Excess - Error(j), n * Rounding.double + pairs * PerPair)
            /\ Within(Excess, n * Rounding.double + pairs * Rounding.double)

ResultInv == ProportionalSampling /\ NoWeightNoShare

TableIInv == TableInv /\ StackInv /\ WeightlessInv /\ MassInv /\ ResultInv

-----------------------------------------------------------------------------
(* The stacks. *)

LEMMA Popped ==
    ASSUME NEW S, NEW s \in Seq(S), s # <<>>, NoRepeat(s)
    PROVE  /\ Last(s) \in S /\ InStack(s, Last(s))
           /\ Front(s) \in Seq(S) /\ NoRepeat(Front(s))
           /\ \A j : InStack(Front(s), j) <=> InStack(s, j) /\ j # Last(s)
<1>1. Len(s) \in Nat /\ Len(s) >= 1
    OBVIOUS
<1>2. /\ Front(s) \in Seq(S) /\ Len(Front(s)) = Len(s) - 1
      /\ \A k \in 1..(Len(s) - 1) : Front(s)[k] = s[k]
  <2> DEFINE m == Len(s) - 1
             f == SubSeq(s, 1, m)
  <2>1. m \in Nat /\ \A i \in 1..m : s[i] \in S
      BY <1>1
  <2> HIDE DEF m
  <2>2. m \in Int /\ 1 \in Int
      BY <2>1
  <2>3. /\ f \in Seq(S)
        /\ Len(f) = IF 1 <= m THEN m - 1 + 1 ELSE 0
        /\ \A i \in 1..(m - 1 + 1) : f[i] = s[1 + i - 1]
      BY <2>1, <2>2, SubSeqProperties
  <2> HIDE DEF f
  <2>4. Len(f) = m
      BY <2>1, <2>3
  <2>5. \A i \in 1..m : f[i] = s[i]
    <3>1. m - 1 + 1 = m
        BY <2>1
    <3> QED
        BY <2>3, <3>1
  <2> QED
      BY <2>3, <2>4, <2>5 DEF Front, f, m
<1>3. NoRepeat(Front(s))
    BY <1>1, <1>2 DEF NoRepeat
<1>4. Last(s) \in S /\ InStack(s, Last(s))
    BY <1>1 DEF Last, InStack
<1>5. ASSUME NEW j PROVE InStack(Front(s), j) <=> InStack(s, j) /\ j # Last(s)
    BY <1>1, <1>2 DEF NoRepeat, InStack, Last
<1> QED
    BY <1>2, <1>3, <1>4, <1>5

LEMMA Pushed ==
    ASSUME NEW S, NEW s \in Seq(S), NoRepeat(s), NEW x \in S, ~InStack(s, x)
    PROVE  /\ Append(s, x) \in Seq(S) /\ NoRepeat(Append(s, x))
           /\ \A j : InStack(Append(s, x), j) <=> InStack(s, j) \/ j = x
<1>1. /\ Append(s, x) \in Seq(S) /\ Len(Append(s, x)) = Len(s) + 1
      /\ \A i \in 1..Len(s) : Append(s, x)[i] = s[i]
      /\ Append(s, x)[Len(s) + 1] = x
      /\ Len(s) \in Nat
    BY AppendProperties
<1>2. \A i \in 1..(Len(s) + 1) : i \in 1..Len(s) \/ i = Len(s) + 1
    BY <1>1
<1>3. ASSUME NEW j PROVE InStack(Append(s, x), j) <=> InStack(s, j) \/ j = x
    BY <1>1, <1>2 DEF InStack
<1>4. NoRepeat(Append(s, x))
    BY <1>1, <1>2 DEF NoRepeat, InStack
<1> QED
    BY <1>1, <1>3, <1>4

(* The slots of S are pushed each once. *)
LEMMA InOrderStack ==
    ASSUME NEW k \in Nat, NEW S \in SUBSET (1..k)
    PROVE  /\ InOrder(S) \in Seq(1..k) /\ NoRepeat(InOrder(S))
           /\ \A j \in 1..k : InStack(InOrder(S), j) <=> j \in S
<1> DEFINE s == InOrder(S)
           c == Cardinality(S)
<1>0. IsFiniteSet(1..k)
    BY FS_Interval
<1>1. IsFiniteSet(S) /\ c \in Nat /\ S \in SUBSET Int
  <2>1. IsFiniteSet(S)
      BY <1>0, FS_Subset
  <2>2. c \in Nat
      BY <2>1, FS_CardinalityType
  <2> HIDE DEF c
  <2> QED
      BY <2>1, <2>2
<1>2. s \in [1..c -> S] /\ Increasing(s, c)
    BY <1>1, IncreasingExists DEF InOrder, Increasing
<1>3. /\ \A a, b \in 1..c : s[a] = s[b] => a = b
      /\ \A x \in S : \E i \in 1..c : s[i] = x
    BY <1>1, <1>2, IncreasingOnto
<1> HIDE DEF s, c
<1>4. s \in Seq(1..k) /\ Len(s) = c
  <2>1. s \in [1..c -> 1..k]
      BY <1>2
  <2> QED
      BY <1>1, <2>1
<1>5. NoRepeat(s)
    BY <1>3, <1>4 DEF NoRepeat
<1>6. ASSUME NEW j \in 1..k PROVE InStack(s, j) <=> j \in S
  <2>1. InStack(s, j) <=> \E i \in 1..c : s[i] = j
      BY <1>4 DEF InStack
  <2>2. \A i \in 1..c : s[i] \in S
      BY <1>2
  <2> QED
      BY <1>3, <2>1, <2>2
<1> QED
    BY <1>4, <1>5, <1>6 DEF s

-----------------------------------------------------------------------------
(* Sums and types. *)

LEMMA SpanTypes ==
    ASSUME NEW row \in Seq(Nat)
    PROVE  /\ Len(row) \in Nat /\ IsFiniteSet(1..Len(row)) /\ Cardinality(1..Len(row)) = Len(row)
           /\ row \in [1..Len(row) -> Nat]
           /\ TotalOf(row) = SumFunctionOnSet(row, 1..Len(row)) /\ TotalOf(row) \in Nat
<1>1. Len(row) \in Nat /\ row \in [1..Len(row) -> Nat] /\ DOMAIN row = 1..Len(row)
    OBVIOUS
<1>2. IsFiniteSet(1..Len(row)) /\ Cardinality(1..Len(row)) = Len(row)
  <2> DEFINE m == Len(row)
  <2>1. m \in Nat
      BY <1>1
  <2> HIDE DEF m
  <2>2. IsFiniteSet(1..m) /\ Cardinality(1..m) = m
      BY <2>1, FS_Interval
  <2> QED
      BY <2>2 DEF m
<1>3. TotalOf(row) = SumFunctionOnSet(row, 1..Len(row))
    BY <1>1, SumOfFunction DEF TotalOf
<1>4. SumFunctionOnSet(row, 1..Len(row)) \in Nat
    BY <1>1, <1>2, SumNat
<1> QED
    BY <1>1, <1>2, <1>3, <1>4

LEMMA Types ==
    ASSUME TableInv
    PROVE  /\ n \in Nat /\ IsFiniteSet(Slots) /\ Cardinality(Slots) = n
           /\ weights \in Seq(Nat) /\ weights \in [Slots -> Nat]
           /\ One \in Nat /\ One > 0
           /\ Rounding.double \in Nat /\ Rounding.float \in Nat /\ PerPair \in Nat
           /\ Resolution \in Nat
           /\ \A j \in Slots : Share(weights, j) \in Nat
<1>1. /\ weights \in Seq(Nat) /\ Resolution \in Nat /\ Resolution > 0
      /\ Rounding.double \in Nat /\ Rounding.float \in Nat
  <2>1. weights \in Seq(Nat)
    <3>1. <<>> \in Seq(Nat)
        OBVIOUS
    <3> QED
        BY <3>1, AliasAssumption DEF TableInv
  <2>2. Rounding.double \in Nat /\ Rounding.float \in Nat
    <3>1. Rounding \in [double : Nat, float : Nat]
        BY AliasAssumption DEF TableInv, Exact
    <3> QED
        BY <3>1
  <2>3. Resolution \in Nat /\ Resolution > 0
      BY AliasAssumption
  <2> QED
      BY <2>1, <2>2, <2>3
<1>2. /\ n \in Nat /\ IsFiniteSet(Slots) /\ Cardinality(Slots) = n
      /\ weights \in [Slots -> Nat] /\ TotalOf(weights) \in Nat
    BY <1>1, SpanTypes DEF n, Slots
<1>3. One \in Nat /\ One > 0
  <2>1. CASE Degenerate
      BY <2>1 DEF One
  <2>2. CASE ~Degenerate
    <3> DEFINE t == TotalOf(weights)
    <3>1. One = t * Resolution /\ t \in Nat /\ t > 0
        BY <1>2, <2>2 DEF One, Degenerate
    <3> HIDE DEF t
    <3> QED
        BY <1>1, <3>1
  <2> QED
      BY <2>1, <2>2
<1>4. \A j \in Slots : Share(weights, j) \in Nat
    BY <1>1, <1>2 DEF Share, n
<1>5. PerPair \in Nat
    BY <1>1 DEF PerPair
<1> QED
    BY <1>1, <1>2, <1>3, <1>4, <1>5

LEMMA RoundedType ==
    ASSUME NEW x \in Nat, NEW d \in Nat, NEW y \in Rounded(x, d)
    PROVE  y \in Nat /\ Within(y - x, d) /\ (x = 0 => y = 0)
BY DEF Rounded, Within

(* A sum of terms that are each at most d away from 0. *)
LEMMA SumWithin ==
    ASSUME NEW S, IsFiniteSet(S), NEW d \in Nat, NEW f,
           \A x \in S : f[x] \in Int /\ Within(f[x], d)
    PROVE  /\ SumFunctionOnSet(f, S) \in Int
           /\ Within(SumFunctionOnSet(f, S), Cardinality(S) * d)
<1> DEFINE high == [x \in S |-> d]
           low == [x \in S |-> -d]
           c == Cardinality(S)
           t == SumFunctionOnSet(f, S)
<1>1. c \in Nat /\ -d \in Int /\ d \in Int
    BY FS_CardinalityType
<1>2. \A x \in S : /\ f[x] \in Int /\ high[x] = d /\ low[x] = -d
                  /\ low[x] <= f[x] /\ f[x] <= high[x]
    BY DEF Within
<1> HIDE DEF high, low
<1>3. t \in Int
    BY <1>2, SumInt
<1>4. SumFunctionOnSet(high, S) = d * c
    BY <1>1, <1>2, SumConst
<1>5. SumFunctionOnSet(low, S) = (-d) * c
    BY <1>1, <1>2, SumConst
<1>6. t <= SumFunctionOnSet(high, S)
    BY <1>1, <1>2, SumMonotone
<1>7. SumFunctionOnSet(low, S) <= t
    BY <1>1, <1>2, SumMonotone
<1> HIDE DEF c, t
<1>8. d * c = c * d /\ (-d) * c = -(c * d) /\ c * d \in Nat
    BY <1>1
<1>9. -(c * d) <= t /\ t <= c * d
    BY <1>4, <1>5, <1>6, <1>7, <1>8
<1> QED
    BY <1>3, <1>9 DEF Within, t, c

LEMMA SampleType ==
    ASSUME TableInv, NEW s \in Slots, out[s] \in Slots \X (0..One), NEW j \in Slots
    PROVE  sample(s, j) \in Nat
<1>1. One \in Nat /\ out[s][2] \in 0..One
    BY Types
<1> QED
    BY <1>1 DEF sample

LEMMA Sets ==
    ASSUME TableInv
    PROVE  /\ IsFiniteSet(Unfinished) /\ IsFiniteSet(Finished)
           /\ Unfinished \cup Finished = Slots /\ Unfinished \cap Finished = {}
           /\ Cardinality(Finished) \in Nat /\ Cardinality(Unfinished) \in Nat
           /\ Unfinished # {} => Cardinality(Finished) <= n - 1
<1>1. Unfinished \in SUBSET Slots /\ Finished \in SUBSET Slots
    BY DEF Unfinished, Finished
<1>2. IsFiniteSet(Unfinished) /\ IsFiniteSet(Finished)
    BY <1>1, Types, FS_Subset
<1>3. Cardinality(Finished) \in Nat /\ Cardinality(Unfinished) \in Nat
    BY <1>2, FS_CardinalityType
<1>4. Cardinality(Finished) <= Cardinality(Slots)
    BY <1>1, Types, FS_Subset
<1>5. Unfinished # {} => Finished # Slots
    BY DEF Unfinished, Finished
<1>6. Finished # Slots => Cardinality(Finished) # Cardinality(Slots)
    BY <1>1, Types, FS_Subset
<1>7. Unfinished # {} => Cardinality(Finished) <= n - 1
    BY <1>3, <1>4, <1>5, <1>6, Types
<1> QED
    BY <1>1, <1>2, <1>3, <1>7 DEF Finished

LEMMA GivenType ==
    ASSUME TableInv, StackInv, stage # "idle", NEW j \in Slots
    PROVE  /\ Given(j) = SumFunctionOnSet([s \in Finished |-> sample(s, j)], Finished)
           /\ Given(j) \in Nat
<1> DEFINE f == [s \in Finished |-> sample(s, j)]
<1>1. \A s \in Finished : f[s] \in Nat
    BY SampleType DEF StackInv, Finished
<1>2. DOMAIN f = Finished
    OBVIOUS
<1>3. Given(j) = SumFunctionOnSet(f, Finished)
    BY <1>2, SumOfFunction DEF Given
<1> HIDE DEF f
<1>4. SumFunctionOnSet(f, Finished) \in Nat
    BY <1>1, Sets, SumNat
<1> QED
    BY <1>3, <1>4 DEF f

(* The error of a slot and the excess are integers. *)
LEMMA ErrorTypes ==
    ASSUME TableInv, StackInv, stage # "idle"
    PROVE  /\ \A j \in Slots : Error(j) \in Int
           /\ Excess \in Int
<1>1. ASSUME NEW j \in Slots PROVE Error(j) \in Int
  <2> DEFINE aim == Share(weights, j)
  <2>1. aim \in Nat /\ Given(j) \in Nat
      BY Types, GivenType
  <2>2. j \notin Finished => scaled[j] \in Nat
      BY DEF StackInv
  <2>3. Error(j) = (Given(j) + IF j \in Finished THEN 0 ELSE scaled[j]) - aim
      BY DEF Error
  <2> HIDE DEF aim
  <2> QED
      BY <2>1, <2>2, <2>3
<1>2. \A j \in Unfinished : scaled[j] \in Int
    BY DEF StackInv, Unfinished
<1>3. SumFunctionOnSet(scaled, Unfinished) \in Int
    BY <1>2, Sets, SumInt
<1>4. One * Cardinality(Unfinished) \in Int
    BY Types, Sets
<1> QED
    BY <1>1, <1>3, <1>4 DEF Excess

-----------------------------------------------------------------------------
(* PairSlots.  The slot that is completed leaves the stacks, the other one *)
(* goes back to one of them.                                               *)

Donor == Last(over)
Filled == Last(under)
Threshold == out'[Filled][2]

LEMMA PairStacks ==
    ASSUME TableIInv, PairSlots
    PROVE  /\ Filled \in Unfinished /\ Donor \in Unfinished /\ Filled # Donor
           /\ scaled[Filled] < One /\ scaled[Donor] >= One
           /\ Unfinished' = Unfinished \ {Filled}
           /\ Finished' = Finished \cup {Filled} /\ Filled \notin Finished
           /\ One' = One /\ n' = n /\ Slots' = Slots /\ Degenerate' = Degenerate
           /\ stage = "pair" /\ stage' = "pair"
           /\ weights' = weights /\ Rounding' = Rounding
           /\ out' = [out EXCEPT ![Filled] = <<Donor, Threshold>>]
           /\ Threshold \in 0..One /\ Within(Threshold - scaled[Filled], Rounding.float)
           /\ scaled[Filled] = 0 => Threshold = 0
           /\ StackInv'
           /\ \E e \in Int :
                  /\ Within(e, Rounding.double)
                  /\ (scaled[Donor] + scaled[Filled]) - One + e \in Nat
                  /\ scaled' = [scaled EXCEPT
                         ![Donor] = (scaled[Donor] + scaled[Filled]) - One + e]
<1> DEFINE i_u == Last(under)
           i_o == Last(over)
<1>1. /\ stage = "pair" /\ under # <<>> /\ over # <<>>
      /\ \E p \in Rounded(scaled[i_u], Rounding.float) :
             p <= One /\ out' = [out EXCEPT ![i_u] = <<i_o, p>>]
      /\ \E r \in Rounded(Remainder(i_u, i_o), Rounding.double) :
             /\ scaled' = [scaled EXCEPT ![i_o] = r]
             /\ under' = IF r < One THEN Append(Front(under), i_o) ELSE Front(under)
             /\ over' = IF r < One THEN Front(over) ELSE Append(Front(over), i_o)
      /\ UNCHANGED <<stage, weights, Rounding>>
    BY DEF PairSlots
<1>2. /\ One' = One /\ n' = n /\ Slots' = Slots /\ Degenerate' = Degenerate
    BY <1>1 DEF One, Degenerate, n, Slots
<1>3. /\ i_u \in Slots /\ InStack(under, i_u)
      /\ Front(under) \in Seq(Slots) /\ NoRepeat(Front(under))
      /\ \A j : InStack(Front(under), j) <=> InStack(under, j) /\ j # i_u
    BY <1>1, Popped DEF TableIInv, StackInv
<1>4. /\ i_o \in Slots /\ InStack(over, i_o)
      /\ Front(over) \in Seq(Slots) /\ NoRepeat(Front(over))
      /\ \A j : InStack(Front(over), j) <=> InStack(over, j) /\ j # i_o
    BY <1>1, Popped DEF TableIInv, StackInv
<1> HIDE DEF i_u, i_o
<1>5. /\ One \in Nat /\ Rounding.double \in Nat /\ Rounding.float \in Nat
      /\ scaled \in [Slots -> Nat]
      /\ \A j \in Slots : InStack(under, j) => scaled[j] < One
      /\ \A j \in Slots : InStack(over, j) => scaled[j] >= One
      /\ \A j \in Finished : out[j] \in Slots \X (0..One)
      /\ \A j \in Unfinished : out[j] = Unset
      /\ ~Degenerate /\ out \in [Slots -> (Slots \X (0..One)) \cup {Unset}]
    BY <1>1, Types DEF TableIInv, StackInv, TableInv
<1>6. scaled[i_u] < One /\ scaled[i_o] >= One /\ i_u # i_o
    BY <1>3, <1>4, <1>5
<1>7. PICK r \in Rounded(Remainder(i_u, i_o), Rounding.double) :
          /\ scaled' = [scaled EXCEPT ![i_o] = r]
          /\ under' = IF r < One THEN Append(Front(under), i_o) ELSE Front(under)
          /\ over' = IF r < One THEN Front(over) ELSE Append(Front(over), i_o)
    BY <1>1
<1>8. /\ scaled[i_u] \in Nat /\ scaled[i_o] \in Nat
      /\ Remainder(i_u, i_o) = scaled[i_o] + scaled[i_u] - One
      /\ r \in Nat /\ Within(r - Remainder(i_u, i_o), Rounding.double)
  <2>1. /\ scaled[i_u] \in Nat /\ scaled[i_o] \in Nat
        /\ Remainder(i_u, i_o) = scaled[i_o] + scaled[i_u] - One
      BY <1>3, <1>4, <1>5 DEF Remainder
  <2>2. Remainder(i_u, i_o) \in Nat
      BY <1>5, <1>6, <2>1
  <2> QED
      BY <1>5, <1>7, <2>1, <2>2, RoundedType
<1>9. PICK p \in Rounded(scaled[i_u], Rounding.float) :
           p <= One /\ out' = [out EXCEPT ![i_u] = <<i_o, p>>]
    BY <1>1
<1>10. /\ p \in 0..One /\ Within(p - scaled[i_u], Rounding.float)
       /\ scaled[i_u] = 0 => p = 0
  <2>1. p \in Nat /\ Within(p - scaled[i_u], Rounding.float) /\ (scaled[i_u] = 0 => p = 0)
      BY <1>5, <1>8, RoundedType
  <2> QED
      BY <1>5, <1>9, <2>1
<1>11. ~InStack(Front(under), i_o) /\ ~InStack(Front(over), i_o)
    BY <1>3, <1>4, <1>5, <1>6, <1>8
<1>12. /\ under' \in Seq(Slots) /\ NoRepeat(under')
       /\ over' \in Seq(Slots) /\ NoRepeat(over')
       /\ \A j : InStack(under', j) <=>
                     (InStack(under, j) /\ j # i_u) \/ (j = i_o /\ r < One)
       /\ \A j : InStack(over', j) <=>
                     (InStack(over, j) /\ j # i_o) \/ (j = i_o /\ ~(r < One))
  <2>1. CASE r < One
    <3>1. under' = Append(Front(under), i_o) /\ over' = Front(over)
        BY <1>7, <2>1
    <3>2. /\ under' \in Seq(Slots) /\ NoRepeat(under')
          /\ \A j : InStack(under', j) <=> InStack(Front(under), j) \/ j = i_o
        BY <1>3, <1>4, <1>11, <3>1, Pushed
    <3> QED
        BY <1>3, <1>4, <2>1, <3>1, <3>2
  <2>2. CASE ~(r < One)
    <3>1. under' = Front(under) /\ over' = Append(Front(over), i_o)
        BY <1>7, <2>2
    <3>2. /\ over' \in Seq(Slots) /\ NoRepeat(over')
          /\ \A j : InStack(over', j) <=> InStack(Front(over), j) \/ j = i_o
        BY <1>4, <1>11, <3>1, Pushed
    <3> QED
        BY <1>3, <1>4, <2>2, <3>1, <3>2
  <2> QED
      BY <2>1, <2>2
<1>13. /\ i_u \in Unfinished /\ i_o \in Unfinished
       /\ Unfinished' = Unfinished \ {i_u}
  <2>1. i_u \in Unfinished /\ i_o \in Unfinished
      BY <1>3, <1>4 DEF Unfinished
  <2>2. ~InStack(over, i_u)
      BY <1>3, <1>5, <1>6, <1>8
  <2>3. ASSUME NEW j
        PROVE  (InStack(under', j) \/ InStack(over', j))
               <=> (InStack(under, j) \/ InStack(over, j)) /\ j # i_u
      BY <1>4, <1>6, <1>12, <2>2
  <2>4. Unfinished' = {j \in Slots : InStack(under', j) \/ InStack(over', j)}
      BY <1>2 DEF Unfinished, InStack
  <2> QED
      BY <2>1, <2>3, <2>4 DEF Unfinished
<1>14. /\ Finished' = Finished \cup {i_u} /\ i_u \notin Finished
    BY <1>2, <1>3, <1>13 DEF Finished
<1>15. StackInv'
  <2>1. scaled' \in [Slots -> Nat]
      BY <1>5, <1>7, <1>8
  <2>2. \A j \in Slots : InStack(under', j) => scaled'[j] < One
      BY <1>5, <1>7, <1>12, <1>4, <1>6, <1>8
  <2>3. \A j \in Slots : InStack(over', j) => scaled'[j] >= One
      BY <1>5, <1>7, <1>12, <1>4, <1>6, <1>8
  <2>4. ASSUME NEW j \in Finished' PROVE out'[j] \in Slots \X (0..One)
    <3>1. CASE j = i_u
      <4>1. out'[i_u] = <<i_o, p>>
          BY <1>3, <1>5, <1>9
      <4> QED
          BY <1>4, <1>10, <3>1, <4>1
    <3>2. CASE j # i_u
      <4>1. j \in Finished
          BY <1>14, <2>4, <3>2
      <4>2. out'[j] = out[j]
          BY <1>5, <1>9, <3>2, <4>1 DEF Finished
      <4> QED
          BY <1>5, <4>1, <4>2
    <3> QED
        BY <3>1, <3>2
  <2>5. ASSUME NEW j \in Unfinished' PROVE out'[j] = Unset
    <3>1. j \in Unfinished /\ j # i_u
        BY <1>13, <2>5
    <3>2. out'[j] = out[j]
        BY <1>5, <1>9, <3>1 DEF Unfinished
    <3> QED
        BY <1>5, <3>1, <3>2
  <2>6. Unfinished' # {}
      BY <1>6, <1>13
  <2>7. stage' # "rest" /\ ~Degenerate'
      BY <1>1, <1>2, <1>5
  <2>8. /\ \A j \in Slots : InStack(under, j)' <=> InStack(under', j)
        /\ \A j \in Slots : InStack(over, j)' <=> InStack(over', j)
        /\ NoRepeat(under)' <=> NoRepeat(under')
        /\ NoRepeat(over)' <=> NoRepeat(over')
        /\ Unset' = Unset
      BY DEF InStack, NoRepeat, Unset
  <2> QED
      BY <1>2, <1>12, <2>1, <2>2, <2>3, <2>4, <2>5, <2>6, <2>7, <2>8 DEF StackInv
<1>16. \E e \in Int :
           /\ Within(e, Rounding.double)
           /\ (scaled[i_o] + scaled[i_u]) - One + e \in Nat
           /\ scaled' = [scaled EXCEPT ![i_o] = (scaled[i_o] + scaled[i_u]) - One + e]
  <2> DEFINE e == r - Remainder(i_u, i_o)
  <2>1. /\ e \in Int /\ Within(e, Rounding.double)
        /\ (scaled[i_o] + scaled[i_u]) - One + e = r
      BY <1>5, <1>8
  <2> HIDE DEF e
  <2> QED
      BY <1>7, <1>8, <2>1
<1>17. Filled = i_u /\ Donor = i_o
    BY DEF Filled, Donor, i_u, i_o
<1>18. UNCHANGED <<stage, weights, Rounding>>
    BY <1>1
<1>19. Threshold = p
  <2>1. out'[i_u] = <<i_o, p>>
      BY <1>3, <1>5, <1>9
  <2> QED
      BY <1>17, <2>1 DEF Threshold
<1> HIDE DEF Threshold
<1> QED
    BY <1>1, <1>2, <1>6, <1>13, <1>14, <1>15, <1>16, <1>17, <1>18, <1>19, <1>9, <1>10

(* What the finished slots give to j grows by what the slot completed now  *)
(* gives to it.                                                            *)
LEMMA PairGiven ==
    ASSUME TableIInv, PairSlots, NEW j \in Slots
    PROVE  Given(j)' = Given(j) + (IF j = Filled THEN Threshold ELSE 0)
                                + (IF j = Donor THEN One - Threshold ELSE 0)
<1> DEFINE f == [s \in Finished |-> sample(s, j)]
           g == [s \in Finished' |-> sample(s, j)']
           low == Filled
           p == Threshold
<1>1. /\ Finished' = Finished \cup {low} /\ low \notin Finished /\ One' = One
      /\ out' = [out EXCEPT ![low] = <<Donor, p>>]
      /\ TableInv /\ StackInv /\ stage # "idle" /\ low \in Slots
      /\ p \in Nat /\ One \in Nat /\ Filled # Donor
      /\ out \in [Slots -> (Slots \X (0..One)) \cup {Unset}]
  <2>1. TableInv /\ StackInv
      BY DEF TableIInv
  <2>2. stage = "pair" /\ low \in Slots
      BY PairStacks DEF Unfinished
  <2>3. One \in Nat
      BY <2>1, Types
  <2>4. p \in Nat
      BY <2>3, PairStacks
  <2>5. out \in [Slots -> (Slots \X (0..One)) \cup {Unset}]
      BY <2>1 DEF TableInv
  <2> QED
      BY <2>1, <2>2, <2>3, <2>4, <2>5, PairStacks
<1> HIDE DEF low, p
<1>2. \A s \in Finished : f[s] = g[s] /\ f[s] \in Nat
  <2> SUFFICES ASSUME NEW s \in Finished PROVE f[s] = g[s] /\ f[s] \in Nat
      OBVIOUS
  <2>1. out'[s] = out[s] /\ s \in Finished'
      BY <1>1 DEF Finished
  <2>2. sample(s, j)' = sample(s, j)
      BY <1>1, <2>1 DEF sample
  <2>3. sample(s, j) \in Nat
      BY <1>1, SampleType DEF StackInv, Finished
  <2> QED
      BY <2>1, <2>2, <2>3
<1>3. g[low] = (IF j = low THEN p ELSE 0) + (IF j = Donor THEN One - p ELSE 0)
  <2>1. out'[low][1] = Donor /\ out'[low][2] = p
      BY <1>1
  <2>2. ASSUME NEW s \in Slots, s = low
        PROVE  sample(s, j)' = (IF j = low THEN p ELSE 0)
                               + (IF j = Donor THEN One - p ELSE 0)
      BY <1>1, <2>1, <2>2 DEF sample
  <2>3. low \in Slots /\ low \in Finished'
      BY <1>1
  <2> QED
      BY <2>2, <2>3
<1>4. Given(j) = SumFunctionOnSet(f, Finished) /\ Given(j) \in Nat
    BY <1>1, GivenType
<1>5. Given(j)' = SumFunctionOnSet(g, Finished')
  <2>1. Given(j)' = SumFunction(g)
      BY DEF Given
  <2>2. DOMAIN g = Finished'
      OBVIOUS
  <2> HIDE DEF g
  <2> QED
      BY <2>1, <2>2, SumOfFunction
<1> HIDE DEF f, g
<1>6. IsFiniteSet(Finished)
    BY <1>1, Sets
<1>7. g[low] \in Int
    BY <1>1, <1>3
<1>8. \A s \in Finished : g[s] \in Int /\ f[s] = g[s]
    BY <1>2
<1>9. SumFunctionOnSet(g, Finished') = g[low] + SumFunctionOnSet(g, Finished)
    BY <1>1, <1>6, <1>7, <1>8, SumAdd
<1>10. SumFunctionOnSet(f, Finished) = SumFunctionOnSet(g, Finished)
    BY <1>6, <1>8, SumSame
<1>11. Given(j)' = g[low] + Given(j)
    BY <1>4, <1>5, <1>9, <1>10
<1> QED
    BY <1>1, <1>3, <1>4, <1>11 DEF low, p

LEMMA PairMass ==
    ASSUME TableIInv, PairSlots
    PROVE  MassInv'
<1> DEFINE low == Filled
           o == Donor
           p == Threshold
           D == Rounding.double
           F == Rounding.float
           pairs == Cardinality(Finished)
<1>1. /\ TableInv /\ StackInv /\ stage = "pair"
      /\ low \in Unfinished /\ o \in Unfinished /\ low # o
      /\ Unfinished' = Unfinished \ {low}
      /\ Finished' = Finished \cup {low} /\ low \notin Finished
      /\ One' = One /\ n' = n /\ Slots' = Slots /\ weights' = weights /\ Rounding' = Rounding
  <2>1. TableInv /\ StackInv
      BY DEF TableIInv
  <2> QED
      BY <2>1, PairStacks
<1>2. PICK e \in Int :
          /\ Within(e, D)
          /\ (scaled[o] + scaled[low]) - One + e \in Nat
          /\ scaled' = [scaled EXCEPT ![o] = (scaled[o] + scaled[low]) - One + e]
    BY PairStacks
<1>3. /\ scaled \in [Slots -> Nat] /\ low \in Slots /\ o \in Slots
      /\ scaled[low] \in Nat /\ scaled[o] \in Nat /\ One \in Nat
      /\ D \in Nat /\ F \in Nat /\ PerPair \in Nat /\ n \in Nat /\ pairs \in Nat
      /\ p \in Nat /\ Within(p - scaled[low], F)
  <2>1. scaled \in [Slots -> Nat] /\ low \in Slots /\ o \in Slots
      BY <1>1 DEF StackInv, Unfinished
  <2>2. p \in 0..One /\ Within(p - scaled[low], F)
      BY PairStacks
  <2> QED
      BY <1>1, <2>1, <2>2, Types, Sets
<1>4. \A j \in Slots : Given(j)' = Given(j) + (IF j = low THEN p ELSE 0)
                                            + (IF j = o THEN One - p ELSE 0)
    BY PairGiven
<1>5. Cardinality(Finished') = pairs + 1
    BY <1>1, Sets, FS_AddElement
<1> HIDE DEF low, o, p
<1>7. scaled'[o] = (scaled[o] + scaled[low]) - One + e
      /\ \A j \in Slots : j # o => scaled'[j] = scaled[j]
    BY <1>2, <1>3
(* The donor takes the rounding of the remainder, and makes up for that of *)
(* the threshold.                                                          *)
<1>8. ASSUME NEW j \in Slots
      PROVE  Error(j)' = Error(j) + (IF j = low THEN p - scaled[low] ELSE 0)
                                  + (IF j = o THEN (scaled[low] - p) + e ELSE 0)
  <2> DEFINE aim == Share(weights, j)
  <2>1. aim \in Nat /\ Given(j) \in Nat /\ scaled[j] \in Nat
      BY <1>1, <1>3, Types, GivenType
  <2>2. Error(j) = (Given(j) + IF j \in Finished THEN 0 ELSE scaled[j]) - aim
      BY DEF Error
  <2>3. Error(j)' = (Given(j)' + IF j \in Finished' THEN 0 ELSE scaled'[j]) - aim
      BY <1>1 DEF Error, Share
  <2> HIDE DEF aim
  <2>4. CASE j = low
    <3>1. j \in Finished' /\ j \notin Finished /\ j # o
        BY <1>1, <2>4
    <3> QED
        BY <1>3, <1>4, <2>1, <2>2, <2>3, <2>4, <3>1
  <2>5. CASE j = o
    <3>1. j \notin Finished' /\ j \notin Finished /\ j # low
        BY <1>1, <2>5 DEF Finished
    <3>2. Given(j)' = Given(j) + (One - p)
        BY <1>3, <1>4, <2>1, <2>5, <3>1
    <3> QED
        BY <1>3, <1>7, <2>1, <2>2, <2>3, <2>5, <3>1, <3>2
  <2>6. CASE j # low /\ j # o
    <3>1. Given(j)' = Given(j)
        BY <1>4, <2>1, <2>6
    <3>2. j \in Finished' <=> j \in Finished
        BY <1>1, <2>6
    <3> QED
        BY <1>7, <2>1, <2>2, <2>3, <2>6, <3>1, <3>2
  <2> QED
      BY <2>4, <2>5, <2>6
(* The excess moves with the remainder alone. *)
<1>9. Excess' = Excess + e
  <2> DEFINE rest == Unfinished \ {low}
             base == rest \ {o}
             Sum(f, S) == SumFunctionOnSet(f, S)
             C == Cardinality(Unfinished)
  <2>1. /\ IsFiniteSet(Unfinished) /\ IsFiniteSet(rest) /\ IsFiniteSet(base)
        /\ C \in Nat /\ Cardinality(rest) = C - 1
    <3>1. IsFiniteSet(Unfinished) /\ C \in Nat
        BY <1>1, Sets
    <3>2. IsFiniteSet(rest) /\ Cardinality(rest) = C - 1
        BY <1>1, <3>1, FS_RemoveElement
    <3>3. IsFiniteSet(base)
        BY <3>2, FS_Subset
    <3> HIDE DEF C, rest, base
    <3> QED
        BY <3>1, <3>2, <3>3
  <2>2. o \in rest /\ base \in SUBSET Slots /\ rest \in SUBSET Slots
      BY <1>1 DEF Unfinished
  <2>3. scaled' \in [Slots -> Int] /\ \A j \in Slots : scaled[j] \in Int
      BY <1>2, <1>3
  <2>4. \A j \in Unfinished : scaled[j] \in Int
      BY <2>3 DEF Unfinished
  <2>5. \A j \in rest : scaled[j] \in Int /\ scaled'[j] \in Int
      BY <2>2, <2>3
  <2>6. Sum(scaled, Unfinished) = scaled[low] + Sum(scaled, rest)
      BY <1>1, <2>1, <2>4, SumRemove
  <2>7. Sum(scaled, rest) = scaled[o] + Sum(scaled, base)
      BY <2>1, <2>2, <2>5, SumRemove
  <2>8. Sum(scaled', rest) = scaled'[o] + Sum(scaled', base)
    <3> DEFINE h == scaled'
    <3>1. \A j \in rest : h[j] \in Int
        BY <2>5
    <3> HIDE DEF h, base
    <3>2. Sum(h, rest) = h[o] + Sum(h, rest \ {o})
        BY <2>1, <2>2, <3>1, SumRemove
    <3> QED
        BY <3>2 DEF h, base
  <2>9. Sum(scaled', base) = Sum(scaled, base)
    <3> DEFINE h == scaled'
    <3>1. \A j \in base : scaled[j] = h[j]
        BY <1>7, <2>2
    <3> HIDE DEF h, base
    <3>2. Sum(scaled, base) = Sum(h, base)
        BY <2>1, <3>1, SumSame
    <3> QED
        BY <3>2 DEF h
  <2>10. Sum(scaled, base) \in Int
    <3>1. \A j \in base : scaled[j] \in Int
        BY <2>5
    <3> HIDE DEF base
    <3> QED
        BY <2>1, <3>1, SumInt
  <2>11. Excess = Sum(scaled, Unfinished) - One * C
      BY DEF Excess
  <2>12. Excess' = Sum(scaled', rest) - One * (C - 1)
      BY <1>1, <2>1 DEF Excess
  <2> HIDE DEF Sum, C, rest, base
  <2>13. One * (C - 1) = One * C - One /\ One * C \in Int
      BY <1>3, <2>1
  <2> QED
      BY <1>3, <1>7, <2>6, <2>7, <2>8, <2>9, <2>10, <2>11, <2>12, <2>13
<1>10. /\ (pairs + 1) * PerPair = pairs * PerPair + PerPair
       /\ (pairs + 1) * D = pairs * D + D
       /\ pairs * PerPair \in Nat /\ pairs * D \in Nat /\ n * D \in Nat
  <2>1. D \in Nat /\ PerPair \in Nat /\ pairs \in Nat /\ n \in Nat
      BY <1>3
  <2> HIDE DEF D, pairs
  <2>2. (pairs + 1) * PerPair = pairs * PerPair + PerPair /\ pairs * PerPair \in Nat
      BY <2>1
  <2>3. (pairs + 1) * D = pairs * D + D /\ pairs * D \in Nat
      BY <2>1
  <2>4. n * D \in Nat
      BY <2>1
  <2> QED
      BY <2>2, <2>3, <2>4
<1>11. /\ PerPair = D + F /\ D \in Nat /\ F \in Nat
       /\ -D <= e /\ e <= D /\ -F <= p - scaled[low] /\ p - scaled[low] <= F
    BY <1>2, <1>3 DEF PerPair, Within
<1>12. ASSUME NEW j \in Slots
       PROVE  /\ Within(Error(j)', D + (pairs + 1) * PerPair)
              /\ Within(Excess' - Error(j)', n * D + (pairs + 1) * PerPair)
              /\ Within(Excess', n * D + (pairs + 1) * D)
  <2> DEFINE E == Error(j)
             X == Excess
             A == D + pairs * PerPair
             B == n * D + pairs * PerPair
             C == n * D + pairs * D
             t == p - scaled[low]
  <2>1. E \in Int /\ X \in Int
      BY <1>1, ErrorTypes
  <2>2. /\ -A <= E /\ E <= A /\ -B <= X - E /\ X - E <= B
        /\ -C <= X /\ X <= C
      BY <1>1 DEF TableIInv, MassInv, Within
  <2>3. Error(j)' = E + (IF j = low THEN t ELSE 0) + (IF j = o THEN e - t ELSE 0)
    <3>1. scaled[low] - p = -t /\ t \in Int
        BY <1>3
    <3> HIDE DEF t
    <3> QED
        BY <1>8, <2>1, <3>1 DEF t
  <2>4. Excess' = X + e
      BY <1>9
  <2>5. /\ A \in Nat /\ B \in Nat /\ C \in Nat /\ t \in Int /\ -F <= t /\ t <= F
        /\ D + (pairs + 1) * PerPair = A + PerPair
        /\ n * D + (pairs + 1) * PerPair = B + PerPair
        /\ n * D + (pairs + 1) * D = C + D
    <3>1. t \in Int /\ -F <= t /\ t <= F
        BY <1>3, <1>11
    <3> DEFINE a == pairs * PerPair
               d == pairs * D
               m == n * D
    <3>2. a \in Nat /\ d \in Nat /\ m \in Nat
          /\ (pairs + 1) * PerPair = a + PerPair /\ (pairs + 1) * D = d + D
        BY <1>10
    <3> HIDE DEF a, d, m, t
    <3> QED
        BY <1>3, <3>1, <3>2 DEF a, d, m
  <2> HIDE DEF E, X, A, B, C, t
  <2>6. Within(Excess', C + D)
      BY <1>11, <2>1, <2>2, <2>4, <2>5 DEF Within
  <2>7. CASE j = low
    <3>1. Error(j)' = E + t
        BY <1>1, <2>1, <2>3, <2>5, <2>7
    <3> QED
        BY <1>11, <2>1, <2>2, <2>4, <2>5, <2>6, <3>1 DEF Within
  <2>8. CASE j = o
    <3>1. Error(j)' = E + (e - t)
        BY <1>1, <2>1, <2>3, <2>5, <2>8
    <3> QED
        BY <1>11, <2>1, <2>2, <2>4, <2>5, <2>6, <3>1 DEF Within
  <2>9. CASE j # low /\ j # o
    <3>1. Error(j)' = E
        BY <2>1, <2>3, <2>9
    <3> QED
        BY <1>11, <2>1, <2>2, <2>4, <2>5, <2>6, <3>1 DEF Within
  <2> QED
      BY <2>7, <2>8, <2>9
<1>13. /\ Rounding.double' = D /\ PerPair' = PerPair /\ n' = n
    BY <1>1 DEF PerPair
<1>14. Slots # {}
    BY <1>3
<1> QED
    BY <1>1, <1>5, <1>12, <1>13, <1>14 DEF MassInv

(* The slot that is completed keeps no threshold if it has no weight, and  *)
(* the donor has some.                                                     *)
LEMMA PairWeightless ==
    ASSUME TableIInv, PairSlots
    PROVE  WeightlessInv'
<1>1. /\ StackInv /\ WeightlessInv /\ stage = "pair" /\ One \in Nat /\ One > 0
      /\ weights \in [Slots -> Nat] /\ weights' = weights
      /\ out \in [Slots -> (Slots \X (0..One)) \cup {Unset}]
      /\ scaled \in [Slots -> Nat]
    BY PairStacks, Types DEF TableIInv, TableInv, StackInv
<1>2. /\ Filled \in Unfinished /\ Donor \in Unfinished /\ scaled[Donor] >= One
      /\ Unfinished' = Unfinished \ {Filled} /\ Finished' = Finished \cup {Filled}
      /\ Filled \notin Finished
      /\ out' = [out EXCEPT ![Filled] = <<Donor, Threshold>>]
      /\ scaled[Filled] = 0 => Threshold = 0
      /\ \E r \in Int : scaled' = [scaled EXCEPT ![Donor] = r]
  <2>1. PICK e \in Int :
            scaled' = [scaled EXCEPT ![Donor] = (scaled[Donor] + scaled[Filled]) - One + e]
      BY PairStacks
  <2>2. Donor \in Slots /\ Filled \in Slots
      BY PairStacks DEF Unfinished
  <2>3. (scaled[Donor] + scaled[Filled]) - One + e \in Int
      BY <1>1, <2>2
  <2> QED
      BY <2>1, <2>3, PairStacks
<1> HIDE DEF Threshold, Filled, Donor
<1>3. Filled \in Slots /\ Donor \in Slots /\ weights[Donor] > 0
  <2>1. Filled \in Slots /\ Donor \in Slots
      BY <1>2 DEF Unfinished
  <2>2. weights[Donor] # 0
      BY <1>1, <1>2, <2>1 DEF WeightlessInv
  <2>3. weights[Donor] \in Nat
      BY <1>1, <2>1
  <2> QED
      BY <2>1, <2>2, <2>3
<1>4. ASSUME NEW j \in Unfinished', weights[j] = 0 PROVE scaled'[j] = 0
  <2>1. j \in Unfinished /\ j # Donor /\ j \in Slots
      BY <1>2, <1>3, <1>4 DEF Unfinished
  <2>2. scaled'[j] = scaled[j]
      BY <1>1, <1>2, <2>1
  <2> QED
      BY <1>1, <1>4, <2>1, <2>2 DEF WeightlessInv
<1>5. ASSUME NEW k \in Finished'
      PROVE  weights[out'[k][1]] > 0 /\ (weights[k] = 0 => out'[k][2] = 0)
  <2>1. CASE k = Filled
    <3>1. out'[k] = <<Donor, Threshold>>
        BY <1>1, <1>2, <1>3, <2>1
    <3>2. weights[k] = 0 => scaled[Filled] = 0
        BY <1>1, <1>2, <2>1 DEF WeightlessInv
    <3> QED
        BY <1>2, <1>3, <3>1, <3>2
  <2>2. CASE k # Filled
    <3>1. k \in Finished /\ out'[k] = out[k]
        BY <1>1, <1>2, <2>2 DEF Finished
    <3> QED
        BY <1>1, <3>1 DEF WeightlessInv
  <2> QED
      BY <2>1, <2>2
<1> QED
    BY <1>1, <1>4, <1>5 DEF WeightlessInv

-----------------------------------------------------------------------------
(* FillRest.  The slots that are left have more than 1.0 each or less than *)
(* 1.0 each, so that none is further from it than all together.            *)

LEMMA RestWithinExcess ==
    ASSUME TableInv, StackInv, stage = "rest", NEW j \in Unfinished
    PROVE  \/ 0 <= scaled[j] - One /\ scaled[j] - One <= Excess
           \/ 0 <= One - scaled[j] /\ One - scaled[j] <= -Excess
<1> DEFINE ones == [s \in Unfinished |-> One]
           above == [s \in Unfinished |-> scaled[s] - One]
           below == [s \in Unfinished |-> One - scaled[s]]
           U == Unfinished
           C == Cardinality(Unfinished)
<1>1. /\ One \in Nat /\ IsFiniteSet(U) /\ C \in Nat
      /\ \A s \in U : scaled[s] \in Nat
    BY Types, Sets DEF StackInv, Unfinished
<1>2. SumFunctionOnSet(ones, U) = One * C
    BY <1>1, SumConst
<1>3. SumFunctionOnSet(scaled, U) = 1 * SumFunctionOnSet(above, U) + SumFunctionOnSet(ones, U)
  <2>1. \A s \in U : /\ above[s] \in Int /\ ones[s] \in Int
                     /\ scaled[s] = 1 * above[s] + ones[s]
      BY <1>1
  <2> HIDE DEF above, ones, U
  <2> QED
      BY <1>1, <2>1, SumLinear
<1>4. SumFunctionOnSet(ones, U) = 1 * SumFunctionOnSet(below, U) + SumFunctionOnSet(scaled, U)
  <2>1. \A s \in U : /\ below[s] \in Int /\ scaled[s] \in Int
                     /\ ones[s] = 1 * below[s] + scaled[s]
      BY <1>1
  <2> HIDE DEF below, ones, U
  <2> QED
      BY <1>1, <2>1, SumLinear
<1>5. /\ SumFunctionOnSet(above, U) \in Int /\ SumFunctionOnSet(below, U) \in Int
      /\ SumFunctionOnSet(scaled, U) \in Int /\ SumFunctionOnSet(ones, U) \in Int
  <2>1. \A s \in U : /\ above[s] \in Int /\ below[s] \in Int
                     /\ scaled[s] \in Int /\ ones[s] \in Int
      BY <1>1
  <2> HIDE DEF above, below, ones, U
  <2> QED
      BY <1>1, <2>1, SumInt
<1>6. Excess = SumFunctionOnSet(scaled, U) - One * C
    BY DEF Excess
<1>7. SumFunctionOnSet(above, U) = Excess /\ SumFunctionOnSet(below, U) = -Excess
  <2> DEFINE a == SumFunctionOnSet(above, U)
             b == SumFunctionOnSet(below, U)
             t == SumFunctionOnSet(scaled, U)
             o == SumFunctionOnSet(ones, U)
  <2>1. /\ a \in Int /\ b \in Int /\ t \in Int /\ o \in Int
        /\ t = 1 * a + o /\ o = 1 * b + t /\ Excess = t - o
      BY <1>2, <1>3, <1>4, <1>5, <1>6
  <2> HIDE DEF a, b, t, o
  <2>2. a = Excess /\ b = -Excess
      BY <2>1
  <2> QED
      BY <2>2 DEF a, b
<1>8. CASE under = <<>>
  <2>1. \A s \in U : above[s] \in Nat
    <3>1. \A s \in U : InStack(over, s)
        BY <1>8 DEF Unfinished, InStack
    <3>2. \A s \in U : scaled[s] >= One
        BY <3>1 DEF StackInv, Unfinished
    <3> QED
        BY <1>1, <3>2
  <2>2. above[j] <= SumFunctionOnSet(above, U)
    <3> HIDE DEF above
    <3> QED
        BY <1>1, <2>1, SumNat
  <2>3. above[j] = scaled[j] - One /\ above[j] \in Nat
      BY <2>1
  <2> QED
      BY <1>7, <2>2, <2>3
<1>9. CASE over = <<>>
  <2>1. \A s \in U : below[s] \in Nat
    <3>1. \A s \in U : InStack(under, s)
        BY <1>9 DEF Unfinished, InStack
    <3>2. \A s \in U : scaled[s] < One
        BY <3>1 DEF StackInv, Unfinished
    <3> QED
        BY <1>1, <3>2
  <2>2. below[j] <= SumFunctionOnSet(below, U)
    <3> HIDE DEF below
    <3> QED
        BY <1>1, <2>1, SumNat
  <2>3. below[j] = One - scaled[j] /\ below[j] \in Nat
      BY <2>1
  <2> QED
      BY <1>7, <2>2, <2>3
<1> QED
    BY <1>8, <1>9 DEF StackInv

LEMMA FillRestKeeps ==
    ASSUME TableIInv, FillRest
    PROVE  TableIInv'
<1>1. /\ TableInv /\ StackInv /\ WeightlessInv /\ MassInv
      /\ stage = "rest" /\ stage' = "idle"
      /\ out' = [j \in Slots |-> IF Rest(j) THEN <<j, One>> ELSE out[j]]
      /\ UNCHANGED <<weights, Rounding, under, over, scaled>>
    BY DEF TableIInv, FillRest
<1>2. One' = One /\ n' = n /\ Slots' = Slots /\ Degenerate' = Degenerate
    BY <1>1 DEF One, Degenerate, n, Slots
<1>3. \A j \in Slots : Rest(j) <=> j \in Unfinished
    BY DEF Rest, Unfinished
<1>4. /\ One \in Nat /\ One > 0 /\ n \in Nat /\ ~Degenerate
      /\ \A j \in Finished : out[j] \in Slots \X (0..One)
    BY <1>1, Types DEF StackInv
<1>5. /\ \A j \in Unfinished : out'[j] = <<j, One>>
      /\ \A j \in Finished : out'[j] = out[j]
    BY <1>1, <1>3 DEF Finished, Unfinished
<1>6. out' \in [Slots -> Slots \X (0..One)]
  <2>1. ASSUME NEW j \in Slots PROVE out'[j] \in Slots \X (0..One)
    <3>1. CASE j \in Unfinished
        BY <1>4, <1>5, <3>1
    <3>2. CASE j \in Finished
        BY <1>4, <1>5, <3>2
    <3> QED
        BY <3>1, <3>2 DEF Finished
  <2>2. out' = [j \in Slots |-> out'[j]]
      BY <1>1
  <2> QED
      BY <2>1, <2>2
<1>7. TableInv'
  <2>1. Unset' = Unset
      BY DEF Unset
  <2> QED
      BY <1>1, <1>2, <1>6, <2>1 DEF TableInv
(* The table that is returned. *)
<1>8. ASSUME NEW j \in Slots
      PROVE  Mass(j)' = Given(j) + IF j \in Unfinished THEN One ELSE 0
  <2> DEFINE f == [s \in Finished |-> sample(s, j)]
             g == [s \in Slots |-> sample(s, j)']
  <2>1. /\ IsFiniteSet(Finished) /\ IsFiniteSet(Unfinished)
        /\ Finished \cup Unfinished = Slots /\ Finished \cap Unfinished = {}
      BY <1>1, Sets
  <2>2. \A s \in Finished : g[s] = f[s] /\ f[s] \in Nat
    <3> SUFFICES ASSUME NEW s \in Finished PROVE g[s] = f[s] /\ f[s] \in Nat
        OBVIOUS
    <3>1. sample(s, j)' = sample(s, j)
        BY <1>2, <1>5 DEF sample
    <3>2. sample(s, j) \in Nat
        BY <1>1, SampleType DEF StackInv, Finished
    <3> QED
        BY <3>1, <3>2 DEF Finished
  <2>3. \A s \in Unfinished : g[s] = IF s = j THEN One ELSE 0
    <3> SUFFICES ASSUME NEW s \in Unfinished PROVE g[s] = IF s = j THEN One ELSE 0
        OBVIOUS
    <3>1. out'[s][1] = s /\ out'[s][2] = One
        BY <1>5
    <3>2. sample(s, j)' = IF s = j THEN One ELSE 0
        BY <1>2, <1>4, <3>1 DEF sample
    <3> QED
        BY <3>2 DEF Unfinished
  <2>4. Given(j) = SumFunctionOnSet(f, Finished) /\ Given(j) \in Nat
      BY <1>1, GivenType
  <2>5. Mass(j)' = SumFunctionOnSet(g, Slots)
    <3>1. Mass(j)' = SumFunction(g)
        BY <1>2 DEF Mass
    <3>2. DOMAIN g = Slots
        OBVIOUS
    <3> HIDE DEF g
    <3> QED
        BY <3>1, <3>2, SumOfFunction
  <2> HIDE DEF f, g
  <2>6. \A s \in Finished \cup Unfinished : g[s] \in Int
      BY <1>4, <2>2, <2>3
  <2>7. SumFunctionOnSet(g, Slots) = SumFunctionOnSet(g, Finished) + SumFunctionOnSet(g, Unfinished)
      BY <2>1, <2>6, SumUnion
  <2>8. SumFunctionOnSet(g, Finished) = SumFunctionOnSet(f, Finished)
      BY <2>1, <2>2, SumSame
  <2>9. SumFunctionOnSet(g, Unfinished) = IF j \in Unfinished THEN g[j] ELSE 0
    <3>1. \A s \in Unfinished : s # j => g[s] = 0
        BY <2>3
    <3>2. j \in Unfinished => g[j] \in Int
        BY <2>6
    <3> QED
        BY <2>1, <3>1, <3>2, SumOnly
  <2> QED
      BY <2>3, <2>4, <2>5, <2>7, <2>8, <2>9
<1>9. ASSUME NEW j \in Slots
      PROVE  Apart(Mass(j)', Share(weights, j))
                 <= n * Rounding.double + (n - 1) * PerPair
  <2> DEFINE aim == Share(weights, j)
             E == Error(j)
             X == Excess
             D == Rounding.double
             A == D + Cardinality(Finished) * PerPair
             B == n * D + Cardinality(Finished) * PerPair
             L == n * D + (n - 1) * PerPair
  <2>1. /\ aim \in Nat /\ Given(j) \in Nat /\ scaled[j] \in Nat
        /\ E \in Int /\ X \in Int
      BY <1>1, Types, GivenType, ErrorTypes DEF StackInv
  <2>2. E = (Given(j) + IF j \in Finished THEN 0 ELSE scaled[j]) - aim
      BY DEF Error
  <2>3. -A <= E /\ E <= A /\ -B <= X - E /\ X - E <= B
      BY <1>1 DEF MassInv, Within
  <2>4. A \in Nat /\ B \in Nat /\ L \in Nat /\ A <= L /\ B <= L
    <3> DEFINE pairs == Cardinality(Finished)
    <3>1. /\ pairs \in Nat /\ pairs <= n - 1 /\ n - 1 \in Nat /\ 1 <= n
          /\ D \in Nat /\ PerPair \in Nat
      <4>1. Cardinality(Finished) \in Nat /\ Cardinality(Finished) <= n - 1
          BY <1>1, Sets DEF StackInv
      <4> QED
          BY <1>1, <1>4, <4>1, Types
    <3> HIDE DEF pairs, D
    <3>2. pairs * PerPair <= (n - 1) * PerPair
        BY <3>1, TimesMonotone
    <3>3. D <= n * D
      <4>1. 1 * D <= n * D
          BY <1>4, <3>1, TimesMonotone
      <4> QED
          BY <3>1, <4>1
    <3>4. pairs * PerPair \in Nat /\ (n - 1) * PerPair \in Nat /\ n * D \in Nat
        BY <1>4, <3>1
    <3> DEFINE a == pairs * PerPair
               b == (n - 1) * PerPair
               m == n * D
    <3> HIDE DEF a, b, m
    <3>5. /\ D + a \in Nat /\ m + a \in Nat /\ m + b \in Nat
          /\ D + a <= m + b /\ m + a <= m + b
        BY <3>1, <3>2, <3>3, <3>4 DEF a, b, m
    <3> QED
        BY <3>5 DEF pairs, a, b, m
  <2>5. j \in Unfinished => \/ 0 <= scaled[j] - One /\ scaled[j] - One <= X
                            \/ 0 <= One - scaled[j] /\ One - scaled[j] <= -X
      BY <1>1, RestWithinExcess
  <2>6. j \in Finished <=> j \notin Unfinished
      BY DEF Finished
  <2>7. Mass(j)' = Given(j) + IF j \in Unfinished THEN One ELSE 0
      BY <1>8
  <2>8. SUFFICES Apart(Mass(j)', aim) <= L
      OBVIOUS
  <2> HIDE DEF aim, E, X, A, B, L
  <2>9. CASE j \in Finished
    <3>1. Mass(j)' = Given(j) /\ E = Given(j) - aim
        BY <2>1, <2>2, <2>6, <2>7, <2>9
    <3> QED
        BY <2>1, <2>3, <2>4, <3>1 DEF Apart
  <2>10. CASE j \in Unfinished
    <3>1. Mass(j)' - aim = E + (One - scaled[j])
        BY <1>4, <2>1, <2>2, <2>6, <2>7, <2>10
    <3>2. -L <= Mass(j)' - aim /\ Mass(j)' - aim <= L
        BY <1>4, <2>1, <2>3, <2>4, <2>5, <2>10, <3>1
    <3>3. Mass(j)' \in Int
        BY <1>4, <2>1, <2>7, <2>10
    <3> QED
        BY <2>1, <2>4, <3>2, <3>3 DEF Apart
  <2> QED
      BY <2>6, <2>9, <2>10
(* A slot without weight is not left over: it would be missing 1.0, more   *)
(* than all the rounding in double makes up.                               *)
<1>10. ASSUME NEW j \in Slots, weights[j] = 0, (2 * n - 1) * Rounding.double < One
       PROVE  j \in Finished
  <2> DEFINE D == Rounding.double
             pairs == Cardinality(Finished)
             X == Excess
  <2>1. /\ pairs \in Nat /\ pairs <= n - 1 /\ n - 1 \in Nat /\ D \in Nat /\ X \in Int
    <3>1. Cardinality(Finished) \in Nat /\ Cardinality(Finished) <= n - 1
        BY <1>1, Sets DEF StackInv
    <3> QED
        BY <1>1, <1>4, <3>1, Types, ErrorTypes
  <2>2. -(n * D + pairs * D) <= X /\ X <= n * D + pairs * D
      BY <1>1, <1>10 DEF MassInv, Within
  <2>3. SUFFICES ASSUME j \in Unfinished PROVE FALSE
      BY DEF Finished
  <2>4. scaled[j] = 0
      BY <1>1, <1>10, <2>3 DEF WeightlessInv
  <2>5. One <= -X
      BY <1>1, <1>4, <2>3, <2>4, RestWithinExcess
  <2> HIDE DEF D, pairs, X
  <2>6. pairs * D <= (n - 1) * D
      BY <2>1, TimesMonotone
  <2>7. (2 * n - 1) * D = n * D + (n - 1) * D
    <3>1. n \in Nat /\ D \in Nat
        BY <1>4, <2>1
    <3> HIDE DEF D
    <3> QED
        BY <3>1
  <2>8. n * D \in Nat /\ (n - 1) * D \in Nat /\ pairs * D \in Nat
      BY <1>4, <2>1
  <2>9. (2 * n - 1) * D < One
      BY <1>10 DEF D
  <2> DEFINE a == n * D
             b == (n - 1) * D
             c == pairs * D
  <2> HIDE DEF a, b, c
  <2>10. /\ a \in Nat /\ b \in Nat /\ c \in Nat /\ c <= b /\ a + b < One
         /\ -(a + c) <= X
      BY <2>2, <2>6, <2>7, <2>8, <2>9 DEF a, b, c
  <2> QED
      BY <1>4, <2>1, <2>5, <2>10
<1>11. ASSUME NEW j \in Slots, weights[j] = 0, (2 * n - 1) * Rounding.double < One
       PROVE  Mass(j)' = 0
  <2> DEFINE f == [s \in Finished |-> sample(s, j)]
  <2>1. j \in Finished /\ j \notin Unfinished
      BY <1>10, <1>11 DEF Finished
  <2>2. Given(j) = SumFunctionOnSet(f, Finished) /\ IsFiniteSet(Finished)
      BY <1>1, GivenType, Sets
  <2>3. \A s \in Finished : f[s] = 0
    <3> SUFFICES ASSUME NEW s \in Finished PROVE f[s] = 0
        OBVIOUS
    <3>1. weights[out[s][1]] > 0 /\ (weights[s] = 0 => out[s][2] = 0)
        BY <1>1 DEF WeightlessInv
    <3>2. out[s][1] # j
        BY <1>11, <3>1
    <3>3. s = j => out[s][2] = 0
        BY <1>11, <3>1
    <3>4. sample(s, j) = 0
        BY <3>2, <3>3 DEF sample
    <3> QED
        BY <3>4
  <2> HIDE DEF f
  <2>4. Given(j) = 0
      BY <2>2, <2>3, SumZero
  <2> QED
      BY <1>8, <2>1, <2>4
<1>12. StackInv' /\ WeightlessInv' /\ MassInv'
    BY <1>1 DEF StackInv, WeightlessInv, MassInv
<1>13. Rounding' = Rounding /\ weights' = weights
    BY <1>1
<1>14. ProportionalSampling'
    BY <1>2, <1>4, <1>9, <1>13 DEF ProportionalSampling, PerPair, Share, Apart
<1>15. NoWeightNoShare'
    BY <1>2, <1>11, <1>13 DEF NoWeightNoShare
<1> QED
    BY <1>7, <1>12, <1>14, <1>15 DEF TableIInv, ResultInv

-----------------------------------------------------------------------------
(* The other steps. *)

LEMMA TableInitInv ==
    ASSUME TableInit
    PROVE  TableIInv
<1>1. stage = "idle" /\ weights = <<>> /\ out = <<>> /\ Rounding = Exact
    BY DEF TableInit
<1>2. n = 0 /\ Slots = {}
    BY <1>1 DEF n, Slots
<1>3. TableInv
  <2>1. out \in [Slots -> Slots \X (0..One)]
      BY <1>1, <1>2
  <2>2. out \in [Slots -> (Slots \X (0..One)) \cup {Unset}]
      BY <1>1, <1>2
  <2> QED
      BY <1>1, <2>1, <2>2 DEF TableInv
<1> QED
    BY <1>1, <1>2, <1>3 DEF TableIInv, StackInv, WeightlessInv, MassInv, ResultInv,
                            ProportionalSampling, NoWeightNoShare

LEMMA BuildUniformKeeps ==
    ASSUME TableIInv, BuildUniform
    PROVE  TableIInv'
<1>1. PICK row \in Weights :
          /\ TotalOf(row) = 0 /\ weights' = row
          /\ out' = [j \in 1..Len(row) |-> <<j, 1>>]
    BY DEF BuildUniform
<1>2. stage = "idle" /\ stage' = "idle" /\ Rounding' = Exact
    BY DEF BuildUniform
<1>3. /\ n' = Len(row) /\ Slots' = 1..Len(row) /\ Degenerate' /\ One' = 1
      /\ row \in Seq(Nat) /\ Len(row) \in Nat /\ IsFiniteSet(1..Len(row))
  <2>1. row \in Seq(Nat)
      BY AliasAssumption
  <2>2. Len(row) \in Nat /\ IsFiniteSet(1..Len(row))
      BY <2>1, SpanTypes
  <2> QED
      BY <1>1, <2>1, <2>2 DEF n, Slots, Degenerate, One
<1>4. TableInv'
  <2>1. \A j \in 1..Len(row) : <<j, 1>> \in (1..Len(row)) \X (0..1)
      OBVIOUS
  <2>2. out' \in [Slots' -> Slots' \X (0..One')]
      BY <1>1, <1>3, <2>1
  <2>3. out' \in [Slots' -> (Slots' \X (0..One')) \cup {Unset}]
      BY <1>1, <1>3, <2>1
  <2>4. Unset' = Unset
      BY DEF Unset
  <2> QED
      BY <1>1, <1>2, <2>2, <2>3, <2>4 DEF TableInv, Exact
<1>5. ASSUME NEW j \in Slots' PROVE Mass(j)' = 1
  <2> DEFINE g == [s \in Slots' |-> sample(s, j)']
  <2>1. \A s \in Slots' : g[s] = IF s = j THEN 1 ELSE 0
    <3> SUFFICES ASSUME NEW s \in Slots' PROVE g[s] = IF s = j THEN 1 ELSE 0
        OBVIOUS
    <3>1. out'[s][1] = s /\ out'[s][2] = 1
        BY <1>1, <1>3
    <3>2. sample(s, j)' = IF s = j THEN 1 ELSE 0
        BY <1>3, <3>1 DEF sample
    <3> QED
        BY <3>2
  <2>2. Mass(j)' = SumFunctionOnSet(g, Slots')
    <3>1. Mass(j)' = SumFunction(g)
        BY DEF Mass
    <3>2. DOMAIN g = Slots'
        OBVIOUS
    <3> HIDE DEF g
    <3> QED
        BY <3>1, <3>2, SumOfFunction
  <2> HIDE DEF g
  <2>3. \A s \in Slots' : s # j => g[s] = 0
      BY <2>1
  <2>4. g[j] = 1 /\ IsFiniteSet(Slots')
      BY <1>3, <2>1
  <2>5. SumFunctionOnSet(g, Slots') = IF j \in Slots' THEN g[j] ELSE 0
      BY <2>3, <2>4, SumOnly
  <2> QED
      BY <2>2, <2>4, <2>5
<1>6. ResultInv'
    BY <1>3, <1>5 DEF ResultInv, ProportionalSampling, NoWeightNoShare
<1> QED
    BY <1>2, <1>4, <1>6 DEF TableIInv, StackInv, WeightlessInv, MassInv

LEMMA StartTableKeeps ==
    ASSUME TableIInv, StartTable
    PROVE  TableIInv'
<1>1. PICK row \in Weights, d \in Roundings :
          /\ TotalOf(row) > 0
          /\ weights' = row /\ Rounding' = d
          /\ out' = [j \in 1..Len(row) |-> Unset]
          /\ \E h \in ScaledWeights(row, d.double) :
                 LET small == {j \in 1..Len(row) : h[j] < TotalOf(row) * Resolution}
                 IN  /\ scaled' = h
                     /\ under' = InOrder(small)
                     /\ over' = InOrder((1..Len(row)) \ small)
    BY DEF StartTable
<1>2. stage' = "pair"
    BY DEF StartTable
<1> DEFINE l == Len(row)
           S == 1..l
           T == TotalOf(row)
           D == d.double
           h == scaled'
           U == {j \in S : h[j] < T * Resolution}
<1>3. /\ l \in Nat /\ IsFiniteSet(S) /\ Cardinality(S) = l
      /\ row \in [S -> Nat] /\ T = SumFunctionOnSet(row, S) /\ T \in Nat
      /\ D \in Nat /\ Resolution \in Nat /\ Resolution > 0
  <2>1. row \in Seq(Nat)
      BY AliasAssumption
  <2>2. d \in [double : Nat, float : Nat]
      BY AliasAssumption
  <2>3. D \in Nat
      BY <2>2
  <2> QED
      BY <2>1, <2>3, SpanTypes, AliasAssumption
<1>4. /\ n' = l /\ Slots' = S /\ ~Degenerate' /\ One' = T * Resolution
      /\ Unset' = Unset
    BY <1>1, <1>3 DEF n, Slots, Degenerate, One, Unset
<1>5. \A j \in S : Share(row, j) \in Nat /\ Share(row, j) = (l * Resolution) * row[j]
  <2>1. \A j \in S : row[j] \in Nat
      BY <1>3
  <2> QED
      BY <1>3, <2>1 DEF Share
<1>6. /\ h \in ScaledWeights(row, D)
      /\ under' = InOrder(U) /\ over' = InOrder(S \ U)
    BY <1>1
<1>7. /\ h \in [S -> Nat]
      /\ \A j \in S : /\ Within(h[j] - Share(row, j), D)
                      /\ row[j] = 0 => h[j] = 0
  <2>1. /\ DOMAIN h = S /\ h = [j \in S |-> h[j]]
        /\ \A j \in S : h[j] \in Rounded(Share(row, j), D)
      BY <1>6 DEF ScaledWeights
  <2> HIDE DEF h, S, D
  <2>2. \A j \in S : /\ h[j] \in Nat /\ Within(h[j] - Share(row, j), D)
                     /\ Share(row, j) = 0 => h[j] = 0
      BY <1>3, <1>5, <2>1, RoundedType
  <2>3. \A j \in S : row[j] = 0 => Share(row, j) = 0
    <3>1. (l * Resolution) * 0 = 0
        BY <1>3
    <3> QED
        BY <1>5, <3>1
  <2>4. h \in [S -> Nat]
      BY <2>1, <2>2
  <2>5. \A j \in S : row[j] = 0 => h[j] = 0
      BY <2>2, <2>3
  <2> QED
      BY <2>2, <2>4, <2>5
<1>8. /\ under' \in Seq(S) /\ NoRepeat(under') /\ over' \in Seq(S) /\ NoRepeat(over')
      /\ \A j \in S : InStack(under', j) <=> j \in U
      /\ \A j \in S : InStack(over', j) <=> j \notin U
  <2>1. U \in SUBSET S /\ S \ U \in SUBSET S
      OBVIOUS
  <2>2. under' = InOrder(U) /\ over' = InOrder(S \ U)
      BY <1>6
  <2> HIDE DEF U
  <2>3. /\ InOrder(U) \in Seq(S) /\ NoRepeat(InOrder(U))
        /\ \A j \in S : InStack(InOrder(U), j) <=> j \in U
      BY <1>3, <2>1, InOrderStack
  <2>4. /\ InOrder(S \ U) \in Seq(S) /\ NoRepeat(InOrder(S \ U))
        /\ \A j \in S : InStack(InOrder(S \ U), j) <=> j \in S \ U
      BY <1>3, <2>1, InOrderStack
  <2> QED
      BY <2>2, <2>3, <2>4
<1>9. Unfinished' = S /\ Finished' = {}
    BY <1>4, <1>8 DEF Unfinished, Finished, InStack
<1>10. TableInv'
  <2>1. out' \in [Slots' -> (Slots' \X (0..One')) \cup {Unset'}]
      BY <1>1, <1>4
  <2> QED
      BY <1>1, <1>2, <2>1 DEF TableInv
<1>11. StackInv'
  <2>1. scaled' \in [S -> Nat]
      BY <1>7
  <2>2. \A j \in S : j \in U <=> scaled'[j] < T * Resolution
      OBVIOUS
  <2>3. /\ T * Resolution \in Nat
      BY <1>3
  <2>4. \A j \in S : out'[j] = Unset'
      BY <1>1, <1>4
  <2>5. S # {}
    <3>1. CASE S = {}
        BY <1>1, <1>3, <3>1, SumEmpty
    <3> QED
        BY <3>1
  <2> HIDE DEF S, T, U
  <2>10. \A j \in S : scaled'[j] \in Nat
      BY <2>1
  <2>6. \A j \in S : InStack(under', j) => scaled'[j] < T * Resolution
      BY <1>8, <2>2
  <2>7. \A j \in S : InStack(over', j) => scaled'[j] >= T * Resolution
      BY <1>8, <2>2, <2>3, <2>10
  <2>8. /\ \A j \in S : InStack(under, j)' <=> InStack(under', j)
        /\ \A j \in S : InStack(over, j)' <=> InStack(over', j)
        /\ NoRepeat(under)' <=> NoRepeat(under')
        /\ NoRepeat(over)' <=> NoRepeat(over')
      BY DEF InStack, NoRepeat
  <2>9. stage' # "rest"
      BY <1>2
  <2> QED
      BY <1>4, <1>8, <1>9, <2>1, <2>4, <2>5, <2>6, <2>7, <2>8, <2>9 DEF StackInv
<1>12. WeightlessInv'
    BY <1>1, <1>7, <1>9 DEF WeightlessInv
(* What each slot is off by, and all together. *)
<1> DEFINE off == [j \in S |-> h[j] - Share(row, j)]
<1>13. /\ Excess' = SumFunctionOnSet(off, S)
       /\ \A j \in S : off[j] \in Int /\ Within(off[j], D)
  <2> DEFINE aim == [j \in S |-> Share(row, j)]
             z == [j \in S |-> 0]
             a == l * Resolution
  <2>1. a \in Int /\ \A j \in S : /\ row[j] \in Int /\ z[j] = 0 /\ z[j] \in Int
                                  /\ aim[j] = a * row[j] + z[j] /\ aim[j] \in Int
    <3>1. a \in Int
        BY <1>3
    <3>2. \A j \in S : row[j] \in Nat /\ Share(row, j) = a * row[j] /\ Share(row, j) \in Nat
        BY <1>3, <1>5
    <3> HIDE DEF a
    <3> QED
        BY <3>1, <3>2
  <2>2. \A j \in S : /\ off[j] \in Int /\ Within(off[j], D)
                     /\ h[j] = 1 * off[j] + aim[j]
    <3> SUFFICES ASSUME NEW j \in S
                 PROVE  /\ off[j] \in Int /\ Within(off[j], D)
                        /\ h[j] = 1 * off[j] + aim[j]
        OBVIOUS
    <3>1. /\ h[j] \in Nat /\ Share(row, j) \in Nat
          /\ off[j] = h[j] - Share(row, j) /\ aim[j] = Share(row, j)
          /\ Within(h[j] - Share(row, j), D)
        BY <1>7, <1>5
    <3> HIDE DEF off, aim, h, D
    <3> QED
        BY <3>1
  <2>3. Excess' = SumFunctionOnSet(h, S) - (T * Resolution) * l
      BY <1>3, <1>4, <1>9 DEF Excess
  <2> HIDE DEF h, z, a, aim, off
  <2>4. SumFunctionOnSet(aim, S) = a * SumFunctionOnSet(row, S) + SumFunctionOnSet(z, S)
    <3>1. IsFiniteSet(S) /\ a \in Int
        BY <1>3, <2>1
    <3> HIDE DEF S
    <3> QED
        BY <2>1, <3>1, SumLinear
  <2>5. SumFunctionOnSet(z, S) = 0
      BY <1>3, <2>1, SumZero
  <2>6. SumFunctionOnSet(h, S) = 1 * SumFunctionOnSet(off, S) + SumFunctionOnSet(aim, S)
    <3>1. IsFiniteSet(S) /\ 1 \in Int
        BY <1>3
    <3> HIDE DEF S
    <3> QED
        BY <2>1, <2>2, <3>1, SumLinear
  <2>7. SumFunctionOnSet(off, S) \in Int
    <3>1. IsFiniteSet(S)
        BY <1>3
    <3> HIDE DEF S
    <3> QED
        BY <2>2, <3>1, SumInt
  <2> HIDE DEF T, l
  <2>8. a * T = (T * Resolution) * l /\ a * T \in Int
      BY <1>3 DEF a
  <2> DEFINE k == a * T
             t == SumFunctionOnSet(off, S)
  <2>9. SumFunctionOnSet(aim, S) = k + 0 /\ k \in Int
      BY <1>3, <2>4, <2>5, <2>8
  <2>10. Excess' = (1 * t + SumFunctionOnSet(aim, S)) - k /\ t \in Int
      BY <2>3, <2>6, <2>7, <2>8
  <2> HIDE DEF k, t
  <2>11. Excess' = t
      BY <2>9, <2>10
  <2> QED
      BY <2>2, <2>11 DEF t
<1> HIDE DEF off
<1>14. ASSUME NEW j \in S PROVE Error(j)' = off[j]
  <2>1. Given(j)' = 0
    <3> DEFINE g == [s \in Finished' |-> sample(s, j)']
    <3>1. Given(j)' = SumFunction(g)
        BY DEF Given
    <3>2. DOMAIN g = {}
        BY <1>9
    <3> HIDE DEF g
    <3>3. SumFunctionOnSet(g, {}) = 0
        BY SumEmpty
    <3> QED
        BY <3>1, <3>2, <3>3, SumOfFunction
  <2>2. Error(j)' = (Given(j)' + h[j]) - Share(row, j)
      BY <1>1, <1>9 DEF Error, Share
  <2>3. h[j] \in Nat /\ Share(row, j) \in Nat /\ off[j] = h[j] - Share(row, j)
      BY <1>7, <1>5 DEF off
  <2> HIDE DEF h
  <2> QED
      BY <2>1, <2>2, <2>3
<1>15. MassInv'
  <2>1. /\ Cardinality(Finished') = 0 /\ Rounding'.double = D /\ PerPair' \in Nat
        /\ n' = l /\ Slots' = S
    <3>1. Cardinality(Finished') = 0
        BY <1>9, FS_EmptySet
    <3>2. PerPair' = d.double + d.float
        BY <1>1 DEF PerPair
    <3>3. d.float \in Nat
      <4>1. d \in [double : Nat, float : Nat]
          BY AliasAssumption
      <4> QED
          BY <4>1
    <3> QED
        BY <1>1, <1>3, <1>4, <3>1, <3>2, <3>3
  <2>2. Excess' \in Int /\ Within(Excess', l * D)
    <3>1. IsFiniteSet(S) /\ Cardinality(S) = l /\ D \in Nat
        BY <1>3
    <3> HIDE DEF S, l, D
    <3> QED
        BY <1>13, <3>1, SumWithin
  <2>3. ASSUME NEW j \in S
        PROVE  Within(off[j], D) /\ Within(Excess' - off[j], l * D)
    <3> DEFINE R == S \ {j}
               r == SumFunctionOnSet(off, R)
    <3>1. IsFiniteSet(S) /\ Cardinality(S) = l /\ D \in Nat /\ l \in Nat
        BY <1>3
    <3> HIDE DEF S, l, D
    <3>2. Excess' = off[j] + r
        BY <1>13, <3>1, SumRemove
    <3>3. IsFiniteSet(R) /\ Cardinality(R) = l - 1
        BY <3>1, FS_RemoveElement
    <3>4. r \in Int /\ Within(r, Cardinality(R) * D)
      <4>1. \A x \in R : off[x] \in Int /\ Within(off[x], D)
          BY <1>13
      <4> HIDE DEF R
      <4> QED
          BY <3>1, <3>3, <4>1, SumWithin
    <3>5. /\ l - 1 \in Nat
      <4>1. Cardinality(R) \in Nat
          BY <3>3, FS_CardinalityType
      <4> QED
          BY <3>3, <4>1
    <3> HIDE DEF R, r
    <3>6. (l - 1) * D <= l * D /\ (l - 1) * D \in Nat /\ l * D \in Nat
        BY <3>1, <3>5, TimesMonotone
    <3>7. Within(r, (l - 1) * D)
        BY <3>3, <3>4
    <3> DEFINE m == (l - 1) * D
               k == l * D
    <3> HIDE DEF m, k
    <3>8. Within(r, k)
        BY <3>4, <3>6, <3>7 DEF Within, m, k
    <3>9. Excess' - off[j] = r
        BY <1>13, <3>2, <3>4
    <3> QED
        BY <1>13, <3>8, <3>9 DEF k
  <2>4. /\ 0 * PerPair' = 0 /\ 0 * D = 0 /\ l * D \in Nat
    <3>1. D \in Nat /\ PerPair' \in Nat /\ l \in Nat
        BY <1>3, <2>1
    <3> DEFINE q == PerPair'
    <3> HIDE DEF D, l, q
    <3>2. q \in Nat
        BY <3>1 DEF q
    <3>3. 0 * q = 0
        BY <3>2
    <3>4. 0 * D = 0 /\ l * D \in Nat
        BY <3>1
    <3> QED
        BY <3>3, <3>4 DEF q
  <2>5. l * D + 0 = l * D /\ D + 0 = D
    <3>1. D \in Nat
        BY <1>3
    <3> DEFINE k == l * D
    <3> HIDE DEF k
    <3>2. k + 0 = k
        BY <2>4 DEF k
    <3> QED
        BY <3>1, <3>2 DEF k
  <2>6. \A j \in S : Error(j)' = off[j]
      BY <1>14
  <2> HIDE DEF S, D, l
  <2>7. /\ \A j \in Slots' :
              /\ Within(Error(j)', Rounding'.double + Cardinality(Finished') * PerPair')
              /\ Within(Excess' - Error(j)',
                        n' * Rounding'.double + Cardinality(Finished') * PerPair')
        /\ Within(Excess', n' * Rounding'.double + Cardinality(Finished') * Rounding'.double)
      BY <2>1, <2>2, <2>3, <2>4, <2>5, <2>6
  <2> QED
      BY <2>7 DEF MassInv, Within
<1> QED
    BY <1>2, <1>10, <1>11, <1>12, <1>15 DEF TableIInv, ResultInv, ProportionalSampling,
                                          NoWeightNoShare

LEMMA StackEmptyKeeps ==
    ASSUME TableIInv, StackEmpty
    PROVE  TableIInv'
<1>1. /\ stage = "pair" /\ (under = <<>> \/ over = <<>>) /\ stage' = "rest"
      /\ UNCHANGED <<weights, Rounding, under, over, scaled, out>>
    BY DEF StackEmpty
<1>2. /\ One' = One /\ n' = n /\ Slots' = Slots /\ Degenerate' = Degenerate
      /\ Unset' = Unset
    BY <1>1 DEF One, Degenerate, n, Slots, Unset
<1>3. Unfinished' = Unfinished /\ Finished' = Finished
    BY <1>1, <1>2 DEF Unfinished, Finished, InStack
<1>4. TableInv'
    BY <1>1, <1>2 DEF TableIInv, TableInv
<1>5. StackInv'
    BY SMTT(30), <1>1, <1>2, <1>3 DEF TableIInv, StackInv, InStack, NoRepeat
<1>6. Excess' = Excess /\ \A j \in Slots : Error(j)' = Error(j)
    BY <1>1, <1>2, <1>3 DEF Excess, Error, Given, sample, Share
<1>7. WeightlessInv'
    BY <1>1, <1>3 DEF TableIInv, WeightlessInv
<1>8. MassInv'
    BY <1>1, <1>2, <1>3, <1>6 DEF TableIInv, MassInv, Within, PerPair
<1> QED
    BY <1>1, <1>4, <1>5, <1>7, <1>8 DEF TableIInv, ResultInv, ProportionalSampling,
                                        NoWeightNoShare

LEMMA PairSlotsKeeps ==
    ASSUME TableIInv, PairSlots
    PROVE  TableIInv'
<1>1. /\ stage' = "pair" /\ weights' = weights /\ Rounding' = Rounding
      /\ One' = One /\ Slots' = Slots /\ StackInv'
      /\ out' = [out EXCEPT ![Filled] = <<Donor, Threshold>>]
      /\ Filled \in Slots /\ Donor \in Slots /\ Threshold \in 0..One
      /\ StackInv /\ TableInv /\ stage = "pair"
    BY PairStacks DEF Unfinished, TableIInv
<1> HIDE DEF Filled, Donor, Threshold
<1>2. <<Donor, Threshold>> \in Slots \X (0..One)
    BY <1>1
<1>3. TableInv'
    BY <1>1, <1>2 DEF TableInv, Unset
<1> QED
    BY <1>1, <1>3, PairMass, PairWeightless DEF TableIInv, ResultInv, ProportionalSampling,
                                                NoWeightNoShare

-----------------------------------------------------------------------------
(* The invariant holds in every reachable state, whatever the weights, the *)
(* resolution and the rounding are.                                        *)
THEOREM TableInvariance == TableSpec => []TableIInv
<1>1. TableInit => TableIInv
    BY TableInitInv
<1>2. TableIInv /\ [TableNext]_tableVars => TableIInv'
  <2> SUFFICES ASSUME TableIInv, [TableNext]_tableVars PROVE TableIInv'
      OBVIOUS
  <2>1. CASE BuildUniform
      BY <2>1, BuildUniformKeeps
  <2>2. CASE StartTable
      BY <2>2, StartTableKeeps
  <2>3. CASE PairSlots
      BY <2>3, PairSlotsKeeps
  <2>4. CASE StackEmpty
      BY <2>4, StackEmptyKeeps
  <2>5. CASE FillRest
      BY <2>5, FillRestKeeps
  <2>6. CASE UNCHANGED tableVars
    <3>1. UNCHANGED <<stage, weights, Rounding, under, over, scaled, out>>
        BY <2>6 DEF tableVars
    <3>2. /\ One' = One /\ n' = n /\ Slots' = Slots /\ Degenerate' = Degenerate
          /\ Unset' = Unset
        BY <3>1 DEF One, Degenerate, n, Slots, Unset
    <3>3. Unfinished' = Unfinished /\ Finished' = Finished
        BY <3>1, <3>2 DEF Unfinished, Finished, InStack
    <3>4. TableInv' /\ StackInv' /\ WeightlessInv'
        BY <3>1, <3>2, <3>3 DEF TableIInv, TableInv, StackInv, WeightlessInv, InStack, NoRepeat
    <3>5. /\ Excess' = Excess /\ \A j \in Slots : Error(j)' = Error(j)
          /\ \A j \in Slots : Mass(j)' = Mass(j)
        BY <3>1, <3>2, <3>3 DEF Excess, Error, Given, Mass, sample, Share
    <3>6. MassInv'
        BY <3>1, <3>2, <3>3, <3>5 DEF TableIInv, MassInv, Within, PerPair
    <3>7. ResultInv'
        BY <3>1, <3>2, <3>5 DEF TableIInv, ResultInv, ProportionalSampling, NoWeightNoShare,
                                Apart, Share
    <3> QED
        BY <3>4, <3>6, <3>7 DEF TableIInv
  <2> QED
      BY <2>1, <2>2, <2>3, <2>4, <2>5, <2>6 DEF TableNext
<1> QED
    BY <1>1, <1>2, PTL DEF TableSpec

(* build_alias_into (include/tea/alias.hpp): when it returns every entry   *)
(* has an alias in range and a probability between 0 and 1, whatever the   *)
(* scratch held before; until then every entry that is not filled yet is   *)
(* on one of the stacks.                                                   *)
THEOREM TableTypeCorrect == TableSpec => []TableTypeOK
<1>1. TableIInv => TableTypeOK
  <2> SUFFICES ASSUME TableIInv PROVE TableTypeOK
      OBVIOUS
  <2>1. ASSUME NEW j \in Slots
        PROVE  \/ out[j][1] \in Slots /\ out[j][2] \in 0..One
               \/ stage # "idle" /\ out[j] = Unset /\ (InStack(under, j) \/ InStack(over, j))
    <3>1. CASE stage = "idle"
      <4>1. out[j] \in Slots \X (0..One)
          BY <3>1 DEF TableIInv, TableInv
      <4> QED
          BY <4>1
    <3>2. CASE stage # "idle" /\ j \in Finished
      <4>1. out[j] \in Slots \X (0..One)
          BY <3>2 DEF TableIInv, StackInv
      <4> QED
          BY <4>1
    <3>3. CASE stage # "idle" /\ j \in Unfinished
        BY <3>3 DEF TableIInv, StackInv, Unfinished
    <3> QED
        BY <3>1, <3>2, <3>3 DEF Finished
  <2> QED
      BY <2>1 DEF TableTypeOK, TableIInv, TableInv, StackInv
<1> QED
    BY <1>1, TableInvariance, PTL

(* alias.hpp, postcondition: the finished table samples every slot in      *)
(* proportion to its weight, off by at most the rounding of n scaled       *)
(* weights in double and, for each pairing, of a remainder in double and a *)
(* threshold in float; and uniformly when there is no weight but 0.        *)
THEOREM SamplesInProportion == TableSpec => []ProportionalSampling
<1>1. TableIInv => ProportionalSampling
    BY DEF TableIInv, ResultInv
<1> QED
    BY <1>1, TableInvariance, PTL

(* AliasView::sample: no draw selects a slot without weight, not even a    *)
(* draw of 0, as long as the rounding in double adds up to less than 1.0.  *)
THEOREM WeightlessNeverSampled == TableSpec => []NoWeightNoShare
<1>1. TableIInv => NoWeightNoShare
    BY DEF TableIInv, ResultInv
<1> QED
    BY <1>1, TableInvariance, PTL

(* The loop loses no probability: at each of its iterations what the       *)
(* finished slots give to a slot and what it still has make up its weight, *)
(* up to the rounding of its scaled weight and, for each finished slot, of *)
(* a remainder and a threshold.                                            *)
THEOREM NoMassLost == TableSpec => []MassConserved
<1>1. TableIInv => MassConserved
  <2> SUFFICES ASSUME TableIInv, stage = "pair" PROVE MassConserved
      BY DEF MassConserved
  <2>1. Finished = {s \in Slots : ~InStack(under, s) /\ ~InStack(over, s)}
      BY DEF Finished, Unfinished
  <2>2. ASSUME NEW j \in Slots
        PROVE  Apart(Given(j) + IF j \in Finished THEN 0 ELSE scaled[j],
                        Share(weights, j))
                   <= Rounding.double
                      + Cardinality(Finished) * (Rounding.double + Rounding.float)
    <3> DEFINE aim == Share(weights, j)
               held == Given(j) + IF j \in Finished THEN 0 ELSE scaled[j]
               B == Rounding.double
                    + Cardinality(Finished) * (Rounding.double + Rounding.float)
    <3>1. aim \in Nat /\ Given(j) \in Nat /\ scaled[j] \in Nat
      <4>1. TableInv /\ StackInv /\ stage # "idle"
          BY DEF TableIInv
      <4> QED
          BY <4>1, Types, GivenType DEF StackInv
    <3>2. held \in Nat
        BY <3>1
    <3>3. Error(j) = held - aim
        BY DEF Error
    <3>4. -B <= Error(j) /\ Error(j) <= B
        BY DEF TableIInv, MassInv, Within, PerPair
    <3>5. B \in Nat
      <4>1. TableInv
          BY DEF TableIInv
      <4>2. Cardinality(Finished) \in Nat /\ Rounding.double \in Nat /\ Rounding.float \in Nat
          BY <4>1, Sets, Types
      <4> QED
          BY <4>2
    <3> HIDE DEF aim, held, B
    <3>6. Apart(held, aim) <= B
        BY <3>1, <3>2, <3>3, <3>4, <3>5 DEF Apart
    <3> QED
        BY <3>6 DEF held, aim, B
  <2> QED
      BY <2>1, <2>2 DEF MassConserved, Given
<1> QED
    BY <1>1, TableInvariance, PTL

-----------------------------------------------------------------------------
(* The rejection loop. *)

(* z: the prescribed weights, all together. *)
PrescribedTotal == Runs(Prescribed)

GraphInv ==
    /\ call \in Calls /\ bias \in Node2VecBiases
    /\ adj = [v \in 0..VertexCountOf(call) - 1 |-> ListOf(call, v)]

CallInv ==
    /\ pc \in {"idle", "loop"} /\ prev_u \in Int
    /\ w \in Seq(Nat)
    /\ t_prev <= kSentinelStartTimestamp
    /\ retry \in 0..kNode2VecMaxRetries
    /\ accepted \in [Candidates -> Nat] /\ pending \in [Candidates -> Nat]
    /\ pc = "loop" => retry < kNode2VecMaxRetries
    /\ retry > 0 => prev_u >= 0 /\ SumFunction(w) > 0

(* What has been returned is a multiple of what is prescribed; the runs     *)
(* that are left were rejected once for each retry.                        *)
ShareInv ==
    retry < kNode2VecMaxRetries =>
        \E share \in Nat :
            /\ \A k \in Candidates : accepted[k] = share * Prescribed[k]
            /\ pc = "loop" => /\ Live = Power(Draws - PrescribedTotal, retry)
                              /\ share * PrescribedTotal + Live = Power(Draws, retry)
            /\ pc = "idle" => retry = 0

IInv == GraphInv /\ CallInv /\ ShareInv /\ CapSkewBounded

-----------------------------------------------------------------------------
(* Powers.  The recursion, with its step named, has a solution. *)
PowerStep(b, g, k) == IF k = 0 THEN 1 ELSE b * g[k - 1]
Powers(b) == CHOOSE g : g = [k \in Nat |-> PowerStep(b, g, k)]

LEMMA PowerIsRecursion ==
    ASSUME NEW b, NEW times
    PROVE  Power(b, times) = Powers(b)[times]
BY Zenon DEF Power, Powers, PowerStep

LEMMA PowersDefined ==
    ASSUME NEW b
    PROVE  \A k \in Nat : Powers(b)[k] = PowerStep(b, Powers(b), k)
<1> DEFINE Solves(g, times) == \A k \in 0..times : g[k] = PowerStep(b, g, k)
           T == {times \in Nat : \E g : Solves(g, times)}
<1>1. 0 \in T
  <2> DEFINE g == [k \in Nat |-> 1]
  <2>1. \A k \in 0..0 : g[k] = PowerStep(b, g, k)
      BY DEF PowerStep
  <2> QED
      BY <2>1
<1>2. ASSUME NEW times \in Nat, times \in T PROVE times + 1 \in T
  <2>1. PICK g : Solves(g, times)
      BY <1>2
  <2> DEFINE h == [k \in Nat |-> IF k <= times THEN g[k] ELSE PowerStep(b, g, k)]
  <2>2. ASSUME NEW k \in 0..times + 1 PROVE h[k] = PowerStep(b, h, k)
    <3>1. h[k] = PowerStep(b, g, k)
        BY <2>1
    <3>2. k # 0 => h[k - 1] = g[k - 1]
        OBVIOUS
    <3> QED
        BY <3>1, <3>2 DEF PowerStep
  <2> HIDE DEF h
  <2>3. Solves(h, times + 1)
      BY <2>2
  <2> HIDE DEF Solves
  <2> QED
      BY <2>3
<1>3. \A times \in Nat : \E g : Solves(g, times)
  <2>1. \A times \in Nat : times \in T
    <3> HIDE DEF T
    <3> QED
        BY <1>1, <1>2, SetInduction
  <2> QED
      BY <2>1
<1> DEFINE G(times) == CHOOSE g : Solves(g, times)
           h == [k \in Nat |-> G(k)[k]]
<1>4. \A times \in Nat : Solves(G(times), times)
  <2> HIDE DEF Solves
  <2> QED
      BY <1>3
<1> HIDE DEF G
<1>5. ASSUME NEW times \in Nat PROVE \A m \in Nat : times <= m => G(m)[times] = G(times)[times]
  <2> DEFINE U == {k \in Nat : \A m, l \in Nat : k <= m /\ k <= l => G(m)[k] = G(l)[k]}
  <2>1. 0 \in U
      BY <1>4 DEF PowerStep
  <2>2. ASSUME NEW k \in Nat, k \in U PROVE k + 1 \in U
    <3> SUFFICES ASSUME NEW m \in Nat, NEW l \in Nat, k + 1 <= m, k + 1 <= l
                 PROVE  G(m)[k + 1] = G(l)[k + 1]
        OBVIOUS
    <3>1. G(m)[k + 1] = PowerStep(b, G(m), k + 1) /\ G(l)[k + 1] = PowerStep(b, G(l), k + 1)
        BY <1>4
    <3>2. G(m)[k] = G(l)[k] /\ (k + 1) - 1 = k /\ k + 1 # 0
        BY <2>2
    <3> QED
        BY <3>1, <3>2 DEF PowerStep
  <2>3. times \in U
    <3> HIDE DEF U
    <3> QED
        BY <2>1, <2>2, SetInduction
  <2> QED
      BY <2>3
<1>6. ASSUME NEW k \in Nat PROVE h[k] = PowerStep(b, h, k)
  <2>1. h[k] = PowerStep(b, G(k), k)
      BY <1>4
  <2>2. k # 0 => h[k - 1] = G(k)[k - 1]
      BY <1>5
  <2> HIDE DEF h
  <2> QED
      BY <2>1, <2>2 DEF PowerStep
<1>7. h = [k \in Nat |-> PowerStep(b, h, k)]
  <2>1. h = [k \in Nat |-> h[k]]
      OBVIOUS
  <2> HIDE DEF h
  <2> QED
      BY <1>6, <2>1
<1> HIDE DEF h
<1>8. Powers(b) = [k \in Nat |-> PowerStep(b, Powers(b), k)]
    BY <1>7, Zenon DEF Powers
<1> DEFINE s == Powers(b)
<1>9. s = [k \in Nat |-> PowerStep(b, s, k)]
    BY <1>8
<1> HIDE DEF s
<1>10. \A k \in Nat : s[k] = PowerStep(b, s, k)
    BY <1>9
<1> QED
    BY <1>10 DEF s

LEMMA PowerLaws ==
    ASSUME NEW b \in Nat
    PROVE  /\ Power(b, 0) = 1
           /\ \A times \in Nat : Power(b, times) \in Nat /\ Power(b, times + 1) = b * Power(b, times)
<1>1. Power(b, 0) = 1
    BY PowersDefined, PowerIsRecursion DEF PowerStep
<1>2. ASSUME NEW times \in Nat PROVE Power(b, times + 1) = b * Power(b, times)
  <2>1. Powers(b)[times + 1] = PowerStep(b, Powers(b), times + 1) /\ times + 1 # 0 /\ (times + 1) - 1 = times
      BY PowersDefined
  <2> QED
      BY <2>1, PowerIsRecursion DEF PowerStep
<1>3. \A times \in Nat : Power(b, times) \in Nat
  <2> DEFINE T == {times \in Nat : Power(b, times) \in Nat}
  <2>1. 0 \in T
      BY <1>1
  <2>2. \A times \in Nat : times \in T => times + 1 \in T
      BY <1>2
  <2> HIDE DEF T
  <2>3. \A times \in Nat : times \in T
      BY <2>1, <2>2, SetInduction
  <2> QED
      BY <2>3 DEF T
<1> QED
    BY <1>1, <1>2, <1>3

(* A larger base has larger powers, and powers of a product multiply. *)
LEMMA PowerMonotone ==
    ASSUME NEW a \in Nat, NEW b \in Nat, a <= b
    PROVE  \A times \in Nat : Power(a, times) <= Power(b, times)
<1> DEFINE T == {times \in Nat : Power(a, times) <= Power(b, times)}
<1>1. 0 \in T
    BY PowerLaws
<1>2. ASSUME NEW times \in Nat, times \in T PROVE times + 1 \in T
  <2> DEFINE x == Power(a, times)
             y == Power(b, times)
  <2>1. /\ x \in Nat /\ y \in Nat /\ x <= y
        /\ Power(a, times + 1) = a * x /\ Power(b, times + 1) = b * y
      BY <1>2, PowerLaws
  <2> HIDE DEF x, y
  <2>2. a * x <= b * x /\ b * x <= b * y
      BY <2>1, TimesMonotone
  <2>3. a * x \in Nat /\ b * x \in Nat /\ b * y \in Nat
      BY <2>1
  <2> DEFINE p == a * x
             q == b * x
             r == b * y
  <2>4. p <= q /\ q <= r /\ p \in Nat /\ q \in Nat /\ r \in Nat
      BY <2>2, <2>3
  <2> HIDE DEF p, q, r
  <2>5. p <= r
      BY <2>4
  <2> QED
      BY <2>1, <2>5 DEF p, r
<1> HIDE DEF T
<1>3. \A times \in Nat : times \in T
    BY <1>1, <1>2, SetInduction
<1> QED
    BY <1>3 DEF T

LEMMA PowerOfProduct ==
    ASSUME NEW a \in Nat, NEW b \in Nat
    PROVE  \A times \in Nat : Power(a * b, times) = Power(a, times) * Power(b, times)
<1> DEFINE T == {times \in Nat : Power(a * b, times) = Power(a, times) * Power(b, times)}
<1>0. a * b \in Nat
    OBVIOUS
<1>1. 0 \in T
    BY <1>0, PowerLaws
<1>2. ASSUME NEW times \in Nat, times \in T PROVE times + 1 \in T
  <2> DEFINE x == Power(a, times)
             y == Power(b, times)
  <2>1. /\ x \in Nat /\ y \in Nat /\ Power(a * b, times) = x * y
        /\ Power(a, times + 1) = a * x /\ Power(b, times + 1) = b * y
        /\ Power(a * b, times + 1) = (a * b) * Power(a * b, times)
      BY <1>0, <1>2, PowerLaws
  <2> HIDE DEF x, y
  <2>2. (a * b) * (x * y) = (a * x) * (b * y)
      BY <2>1
  <2> QED
      BY <2>1, <2>2
<1> HIDE DEF T
<1>3. \A times \in Nat : times \in T
    BY <1>1, <1>2, SetInduction
<1> QED
    BY <1>3 DEF T

-----------------------------------------------------------------------------
(* What the graph holds, and what a proposal is. *)
LEMMA ListsRight ==
    ASSUME GraphInv, NEW v \in DOMAIN adj
    PROVE  /\ v \in Nat /\ adj[v] \in Seq(StepsIn(call))
           /\ \A k \in DOMAIN adj[v] :
                  /\ adj[v][k].v \in DOMAIN adj /\ adj[v][k].t \in Int
                  /\ adj[v][k].t <= kSentinelStartTimestamp
<1>1. /\ call \in Calls /\ VertexCountOf(call) \in Nat
      /\ DOMAIN adj = 0..VertexCountOf(call) - 1 /\ adj[v] = ListOf(call, v)
    BY SizeCovers, CallsAssumption DEF GraphInv
<1>2. v \in 0..VertexCountOf(call) - 1
    BY <1>1
<1>3. adj[v] \in Seq(StepsIn(call))
    BY <1>1, <1>2, ListTyped, CallsAssumption
<1>4. ASSUME NEW k \in DOMAIN adj[v]
      PROVE  /\ adj[v][k].v \in DOMAIN adj /\ adj[v][k].t \in Int
             /\ adj[v][k].t <= kSentinelStartTimestamp
  <2>1. adj[v][k] \in StepsIn(call)
      BY <1>3
  <2>2. \E i \in 1..Len(call.edges) : adj[v][k].t = call.edges[i].t
      BY <1>1, <1>2, ListTyped, CallsAssumption
  <2>3. adj[v][k].t <= kSentinelStartTimestamp
      BY <1>1, <2>2, Node2VecAssumption
  <2> QED
      BY <1>1, <2>1, <2>3 DEF StepsIn
<1> QED
    BY <1>1, <1>2, <1>3, <1>4

LEMMA WeightsRight ==
    ASSUME GraphInv, NEW v \in DOMAIN adj
    PROVE  WeightsOf(v) \in Seq(Nat) /\ Len(WeightsOf(v)) = Len(adj[v])
<1> DEFINE d == Len(adj[v])
           ts == [k \in DOMAIN adj[v] |-> adj[v][k].t]
<1>1. /\ d \in Nat /\ DOMAIN adj[v] = 1..d
      /\ \A k \in 1..d : adj[v][k].t \in Int
  <2>1. adj[v] \in Seq(StepsIn(call))
      BY ListsRight
  <2>2. d \in Nat /\ DOMAIN adj[v] = 1..d
      BY <2>1
  <2> QED
      BY <2>2, ListsRight
<1>2. ts \in [1..d -> Int]
    BY <1>1
<1>3. WeightsOf(v) = compute_weights(Static, ts, compute_per_vertex_params(Static, ts), 0)
    BY DEF WeightsOf, compute_weights_full
<1> HIDE DEF d, ts
<1>4. ts \in Seq(Int) /\ Len(ts) = d
    BY <1>1, <1>2, ListIsSeq
<1>5. Static.kind \in Kinds /\ Static.timescale_bound \in Int
    BY Node2VecAssumption DEF GraphInv, Static, Kinds
<1>6. compute_per_vertex_params(Static, ts) \in Params
    BY <1>4, <1>5, ParamsTyped
<1>7. /\ WeightsOf(v) \in Seq(Nat) /\ Len(WeightsOf(v)) = Len(ts)
    BY <1>3, <1>4, <1>5, <1>6, WeightsTyped
<1> QED
    BY <1>4, <1>7 DEF d

LEMMA ProposalRight ==
    ASSUME GraphInv, NEW v \in DOMAIN adj, NEW t
    PROVE  Proposal(v, t) \in Seq(Nat)
<1> DEFINE d == Len(adj[v])
           Early == {k \in DOMAIN adj[v] : adj[v][k].t < t}
           times == Cardinality(Early)
           ws == WeightsOf(v)
<1>1. d \in Nat /\ DOMAIN adj[v] = 1..d
  <2>1. adj[v] \in Seq(StepsIn(call))
      BY ListsRight
  <2> QED
      BY <2>1
<1>2. ws \in Seq(Nat) /\ Len(ws) = d
    BY WeightsRight
<1>3. Early \in SUBSET (1..d)
    BY <1>1
<1>4. Proposal(v, t) = SubSeq(ws, 1, times)
    BY DEF Proposal
<1> HIDE DEF d, Early, ws
<1>5. IsFiniteSet(1..d) /\ Cardinality(1..d) = d
    BY <1>1, FS_Interval
<1>6. times \in Nat /\ times <= d
    BY <1>3, <1>5, FS_Subset, FS_CardinalityType
<1> HIDE DEF times
<1>7. \A i \in 1..times : ws[i] \in Nat
    BY <1>1, <1>2, <1>6
<1>8. SubSeq(ws, 1, times) \in Seq(Nat)
    BY <1>6, <1>7, SubSeqProperties
<1> QED
    BY <1>4, <1>8

-----------------------------------------------------------------------------
(* The ratios, and what a retry adds. *)
LEMMA BetasRight ==
    ASSUME GraphInv
    PROVE  /\ beta_max \in Nat /\ beta_min \in Nat /\ beta_min > 0
           /\ \A r \in {bias.inv_p, bias.one, bias.inv_q} :
                  r \in Nat /\ beta_min <= r /\ r <= beta_max
<1> DEFINE p == bias.inv_p
           o == bias.one
           q == bias.inv_q
<1>1. p \in Nat \ {0} /\ o \in Nat \ {0} /\ q \in Nat \ {0}
    BY Node2VecAssumption DEF GraphInv
<1>2. /\ beta_max = CHOOSE m \in {p, o, q} : m >= p /\ m >= o /\ m >= q
      /\ beta_min = CHOOSE m \in {p, o, q} : m <= p /\ m <= o /\ m <= q
    BY DEF beta_max, beta_min
<1> HIDE DEF p, o, q
<1>3. \E m \in {p, o, q} : m >= p /\ m >= o /\ m >= q
    BY <1>1
<1>4. \E m \in {p, o, q} : m <= p /\ m <= o /\ m <= q
    BY <1>1
<1>5. beta_max \in {p, o, q} /\ beta_max >= p /\ beta_max >= o /\ beta_max >= q
    BY <1>2, <1>3
<1>6. beta_min \in {p, o, q} /\ beta_min <= p /\ beta_min <= o /\ beta_min <= q
    BY <1>2, <1>4
<1>7. /\ beta_max \in Nat /\ beta_min \in Nat /\ beta_min > 0
      /\ \A r \in {p, o, q} : r \in Nat /\ beta_min <= r /\ r <= beta_max
    BY <1>1, <1>5, <1>6
<1> QED
    BY <1>7 DEF p, o, q

LEMMA RatioRight ==
    ASSUME GraphInv, NEW v
    PROVE  /\ accept_ratio(v) \in Nat /\ Cardinality(Passes(v)) = accept_ratio(v)
           /\ beta_min <= accept_ratio(v) /\ accept_ratio(v) <= beta_max
<1> DEFINE r == accept_ratio(v)
<1>1. r \in {bias.inv_p, bias.one, bias.inv_q}
    BY DEF accept_ratio
<1>2. r \in Nat /\ beta_max \in Nat /\ beta_min <= r /\ r <= beta_max
    BY <1>1, BetasRight
<1>3. Passes(v) = {x \in 0..beta_max - 1 : x < r}
    BY DEF Passes
<1> HIDE DEF r
<1>4. {x \in 0..beta_max - 1 : x < r} = 0..r - 1
    BY <1>2
<1>5. Cardinality(0..r - 1) = r
    BY <1>2, FS_Interval
<1> QED
    BY <1>2, <1>3, <1>4, <1>5 DEF r

(* By what a candidate's weight is scaled. *)
Ratio(k) == IF prev_u < 0 THEN 1 ELSE accept_ratio(target(k))

LEMMA PrescribedRight ==
    ASSUME NEW k \in Candidates
    PROVE  Prescribed[k] = w[k] * Ratio(k)
<1> DEFINE v == target(k)
           r == CASE v = prev_u -> bias.inv_p
                  [] v # prev_u /\ contains(prev_u, v) -> bias.one
                  [] OTHER -> bias.inv_q
<1>1. Prescribed[k] = w[k] * IF prev_u < 0 THEN 1 ELSE r
    BY Zenon DEF Prescribed
<1>2. contains(prev_u, v) \in BOOLEAN
    BY DEF contains
<1>3. v = prev_u => r = bias.inv_p
    BY Zenon
<1>4. v # prev_u /\ contains(prev_u, v) => r = bias.one
    BY Zenon
<1>5. v # prev_u /\ ~contains(prev_u, v) => r = bias.inv_q
    BY Zenon
<1> HIDE DEF r
<1>6. r = accept_ratio(v)
    BY <1>2, <1>3, <1>4, <1>5 DEF accept_ratio
<1> QED
    BY <1>1, <1>6 DEF Ratio

(* The draws that are not prescribed to k, of those that propose it. *)
Withheld == [k \in Candidates |-> w[k] * (beta_max - Ratio(k))]

LEMMA SumOverCandidates ==
    ASSUME w \in Seq(Nat), NEW f \in [Candidates -> Nat]
    PROVE  /\ IsFiniteSet(Candidates) /\ SumFunction(f) = SumFunctionOnSet(f, Candidates)
           /\ SumFunction(f) \in Nat /\ \A k \in Candidates : f[k] <= SumFunction(f)
<1>1. IsFiniteSet(Candidates)
  <2>1. Len(w) \in Nat /\ Candidates = 1..Len(w)
      BY DEF Candidates
  <2> QED
      BY <2>1, FS_Interval
<1>2. SumFunction(f) = SumFunctionOnSet(f, Candidates)
    BY SumOfFunction
<1>3. \A k \in Candidates : f[k] \in Nat
    OBVIOUS
<1> QED
    BY <1>1, <1>2, <1>3, SumNat

LEMMA Shares ==
    ASSUME GraphInv, w \in Seq(Nat), prev_u \in Int
    PROVE  /\ w \in [Candidates -> Nat] /\ Prescribed \in [Candidates -> Nat]
           /\ Withheld \in [Candidates -> Nat]
           /\ \A k \in Candidates : Prescribed[k] + Withheld[k] = beta_max * w[k]
           /\ prev_u >= 0 =>
                  \A k \in Candidates : Withheld[k] <= (beta_max - beta_min) * w[k]
<1>1. w \in [Candidates -> Nat]
    BY DEF Candidates
<1>2. ASSUME NEW k \in Candidates
      PROVE  /\ Ratio(k) \in Nat /\ Ratio(k) <= beta_max /\ beta_max \in Nat
             /\ beta_min \in Nat /\ beta_min <= beta_max
             /\ prev_u >= 0 => beta_min <= Ratio(k)
  <2>1. /\ beta_max \in Nat /\ beta_min \in Nat /\ beta_min > 0 /\ beta_min <= beta_max
      BY BetasRight
  <2>2. /\ accept_ratio(target(k)) \in Nat
        /\ beta_min <= accept_ratio(target(k)) /\ accept_ratio(target(k)) <= beta_max
      BY RatioRight
  <2>3. prev_u >= 0 => ~(prev_u < 0)
      OBVIOUS
  <2> QED
      BY <2>1, <2>2, <2>3 DEF Ratio
<1>3. ASSUME NEW k \in Candidates
      PROVE  /\ Prescribed[k] \in Nat /\ Withheld[k] \in Nat
             /\ Prescribed[k] + Withheld[k] = beta_max * w[k]
             /\ prev_u >= 0 => Withheld[k] <= (beta_max - beta_min) * w[k]
  <2> DEFINE x == w[k]
             r == Ratio(k)
             B == beta_max
             b == beta_min
  <2>1. /\ x \in Nat /\ r \in Nat /\ B \in Nat /\ b \in Nat /\ r <= B /\ b <= B
        /\ prev_u >= 0 => b <= r
      BY <1>1, <1>2
  <2>2. Prescribed[k] = x * r /\ Withheld[k] = x * (B - r)
      BY PrescribedRight DEF Withheld
  <2> HIDE DEF x, r, B, b
  <2>3. B - r \in Nat /\ B - b \in Nat /\ (prev_u >= 0 => B - r <= B - b)
      BY <2>1
  <2>4. x * r \in Nat /\ x * (B - r) \in Nat /\ x * r + x * (B - r) = B * x
      BY <2>1, <2>3
  <2>5. prev_u >= 0 => x * (B - r) <= (B - b) * x
    <3>1. x * (B - b) = (B - b) * x
        BY <2>1
    <3>2. prev_u >= 0 => x * (B - r) <= x * (B - b)
        BY <2>1, <2>3, TimesMonotone
    <3> QED
        BY <3>1, <3>2
  <2> QED
      BY <2>2, <2>4, <2>5 DEF x, B, b
<1>4. DOMAIN Prescribed = Candidates /\ DOMAIN Withheld = Candidates
    BY DEF Prescribed, Withheld
<1>5. Prescribed \in [Candidates -> Nat]
  <2>1. Prescribed = [k \in Candidates |-> Prescribed[k]]
      BY DEF Prescribed
  <2> QED
      BY <1>3, <2>1
<1>6. Withheld \in [Candidates -> Nat]
  <2>1. Withheld = [k \in Candidates |-> Withheld[k]]
      BY DEF Withheld
  <2> QED
      BY <1>3, <2>1
<1> QED
    BY <1>1, <1>3, <1>5, <1>6

LEMMA Totals ==
    ASSUME GraphInv, w \in Seq(Nat), prev_u \in Int
    PROVE  /\ Draws \in Nat /\ PrescribedTotal \in Nat /\ Draws - PrescribedTotal \in Nat
           /\ SumFunction(w) \in Nat
           /\ SumFunction(Withheld) = Draws - PrescribedTotal
           /\ \A k \in Candidates : /\ Prescribed[k] <= PrescribedTotal
                                    /\ Withheld[k] <= Draws - PrescribedTotal
           /\ prev_u >= 0 =>
                  Draws - PrescribedTotal <= SumFunction(w) * (beta_max - beta_min)
<1> DEFINE P == Prescribed
           Q == Withheld
           C == Candidates
           zero == [k \in C |-> 0]
           all == [k \in C |-> beta_max * w[k]]
           most == [k \in C |-> (beta_max - beta_min) * w[k]]
<1>1. /\ w \in [C -> Nat] /\ P \in [C -> Nat] /\ Q \in [C -> Nat]
      /\ \A k \in C : P[k] + Q[k] = beta_max * w[k]
      /\ prev_u >= 0 => \A k \in C : Q[k] <= (beta_max - beta_min) * w[k]
    BY Shares
<1>2. beta_max \in Nat /\ beta_min \in Nat /\ beta_min <= beta_max
    BY BetasRight
<1>3. /\ IsFiniteSet(C)
      /\ SumFunction(w) = SumFunctionOnSet(w, C) /\ SumFunction(w) \in Nat
      /\ SumFunction(P) = SumFunctionOnSet(P, C) /\ SumFunction(P) \in Nat
      /\ SumFunction(Q) = SumFunctionOnSet(Q, C) /\ SumFunction(Q) \in Nat
      /\ \A k \in C : P[k] <= SumFunction(P) /\ Q[k] <= SumFunction(Q)
    BY <1>1, SumOverCandidates
<1> DEFINE W == SumFunction(w)
           z == SumFunction(P)
           d == SumFunction(Q)
           B == beta_max
           b == beta_min
<1>4. SumFunctionOnSet(zero, C) = 0
    BY <1>3, SumZero
<1>5. \A k \in C : /\ w[k] \in Int /\ P[k] \in Int /\ Q[k] \in Int /\ zero[k] = 0
                   /\ all[k] = beta_max * w[k] /\ most[k] = (beta_max - beta_min) * w[k]
    BY <1>1
<1> HIDE DEF P, Q, C, zero
<1>6. SumFunctionOnSet(all, C) = B * W
  <2> HIDE DEF all
  <2>1. \A k \in C : w[k] \in Int /\ zero[k] \in Int /\ all[k] = beta_max * w[k] + zero[k]
    <3> SUFFICES ASSUME NEW k \in C
                 PROVE  w[k] \in Int /\ zero[k] \in Int /\ all[k] = beta_max * w[k] + zero[k]
        OBVIOUS
    <3>1. w[k] \in Int /\ zero[k] = 0 /\ all[k] = beta_max * w[k] /\ beta_max \in Int
        BY <1>2, <1>5
    <3>2. beta_max * w[k] \in Int
        BY <3>1
    <3> QED
        BY <3>1, <3>2
  <2>2. SumFunctionOnSet(all, C) = beta_max * SumFunctionOnSet(w, C) + SumFunctionOnSet(zero, C)
      BY <1>2, <1>3, <2>1, SumLinear
  <2> QED
      BY <1>2, <1>3, <1>4, <2>2
<1>7. SumFunctionOnSet(all, C) = z + d
  <2> HIDE DEF all
  <2>1. \A k \in C : P[k] \in Int /\ Q[k] \in Int /\ all[k] = 1 * P[k] + Q[k]
      BY <1>1, <1>5
  <2>2. SumFunctionOnSet(all, C) = 1 * SumFunctionOnSet(P, C) + SumFunctionOnSet(Q, C)
      BY <1>3, <2>1, SumLinear
  <2> QED
      BY <1>3, <2>2
<1>8. prev_u >= 0 => d <= (B - b) * W
  <2> HAVE prev_u >= 0
  <2> DEFINE m == beta_max - beta_min
  <2>1. m \in Nat /\ m = B - b
      BY <1>2
  <2>2. \A k \in C : most[k] = m * w[k]
      BY <1>5
  <2> HIDE DEF most, m
  <2>3. \A k \in C : /\ w[k] \in Int /\ zero[k] \in Int /\ Q[k] \in Int /\ most[k] \in Int
                     /\ most[k] = m * w[k] + zero[k] /\ Q[k] <= most[k]
    <3> SUFFICES ASSUME NEW k \in C
                 PROVE  /\ w[k] \in Int /\ zero[k] \in Int /\ Q[k] \in Int /\ most[k] \in Int
                        /\ most[k] = m * w[k] + zero[k] /\ Q[k] <= most[k]
        OBVIOUS
    <3>1. /\ w[k] \in Int /\ zero[k] = 0 /\ most[k] = m * w[k] /\ Q[k] \in Int /\ Q[k] <= m * w[k]
        BY <1>1, <1>5, <2>2 DEF m
    <3>2. m * w[k] \in Int
        BY <2>1, <3>1
    <3> QED
        BY <3>1, <3>2
  <2>4. SumFunctionOnSet(most, C) = m * SumFunctionOnSet(w, C) + SumFunctionOnSet(zero, C)
    <3>1. m \in Int
        BY <2>1
    <3>2. \A k \in C : w[k] \in Int /\ zero[k] \in Int /\ most[k] = m * w[k] + zero[k]
        BY <2>3
    <3> QED
        BY SMTT(30), <1>3, <3>1, <3>2, SumLinear
  <2>5. SumFunctionOnSet(Q, C) <= SumFunctionOnSet(most, C)
      BY <1>3, <2>3, SumMonotone
  <2>6. m * W \in Int
      BY <1>3, <2>1
  <2> QED
      BY <1>3, <1>4, <2>1, <2>4, <2>5, <2>6
<1>9. PrescribedTotal = z /\ Draws = W * B
    BY DEF PrescribedTotal, Runs, Draws, P
<1>10. /\ W \in Nat /\ z \in Nat /\ d \in Nat /\ B \in Nat /\ b \in Nat /\ b <= B
       /\ B * W = z + d
    BY <1>2, <1>3, <1>6, <1>7
<1>11. \A k \in C : P[k] <= z /\ Q[k] <= d
    BY <1>3
<1>12. SumFunction(Withheld) = d /\ Prescribed = P /\ Withheld = Q /\ Candidates = C
    BY DEF P, Q, C
<1> HIDE DEF W, z, d, B, b
<1>13. W * B = B * W /\ W * B \in Nat /\ (B - b) * W = W * (B - b)
    BY <1>10
<1>14. W * B - z = d
    BY <1>10, <1>13
<1> QED
    BY <1>8, <1>9, <1>10, <1>11, <1>12, <1>13, <1>14 DEF W, B, b

(* A retry multiplies what is left by the share of it that is rejected.    *)
LEMMA RetrySums ==
    ASSUME GraphInv, CallInv, Test, NEW share \in Nat,
           \A k \in Candidates : accepted[k] = share * Prescribed[k]
    PROVE  /\ Live \in Nat /\ share * Draws + Live \in Nat
           /\ Accepted \in [Candidates -> Nat] /\ Rejected \in [Candidates -> Nat]
           /\ \A k \in Candidates : /\ Accepted[k] = (share * Draws + Live) * Prescribed[k]
                                    /\ Rejected[k] = Live * Withheld[k]
           /\ Runs(Rejected) = Live * (Draws - PrescribedTotal)
<1>1. /\ w \in Seq(Nat) /\ prev_u \in Int /\ ~(prev_u < 0)
      /\ pending \in [Candidates -> Nat]
    BY DEF CallInv, Test
<1>2. Live \in Nat
  <2>1. Runs(pending) \in Nat
      BY <1>1, SumOverCandidates DEF Runs
  <2> QED
      BY <2>1 DEF Live
<1>3. Draws \in Nat /\ PrescribedTotal \in Nat /\ SumFunction(Withheld) = Draws - PrescribedTotal
    BY <1>1, Totals
<1>4. /\ w \in [Candidates -> Nat] /\ Prescribed \in [Candidates -> Nat]
      /\ Withheld \in [Candidates -> Nat]
    BY <1>1, Shares
<1>5. ASSUME NEW k \in Candidates
      PROVE  /\ Accepted[k] = (share * Draws + Live) * Prescribed[k]
             /\ Rejected[k] = Live * Withheld[k]
             /\ Accepted[k] \in Nat /\ Rejected[k] \in Nat
  <2> DEFINE x == w[k]
             r == accept_ratio(target(k))
             L == Live
             D == Draws
             e == beta_max - r
  <2>1. /\ x \in Nat /\ r \in Nat /\ L \in Nat /\ D \in Nat /\ e \in Nat
    <3>1. r \in Nat /\ beta_max \in Nat /\ r <= beta_max
        BY RatioRight, BetasRight
    <3> QED
        BY <1>2, <1>3, <1>4, <3>1
  <2>2. Cardinality(Passes(target(k))) = r /\ Ratio(k) = r
      BY <1>1, RatioRight DEF Ratio
  <2>3. Prescribed[k] = x * r
      BY <2>2, PrescribedRight
  <2>4. Withheld[k] = x * e
      BY <2>2 DEF Withheld
  <2>5. accepted[k] = share * (x * r)
      BY <2>3
  <2>6. Accepted[k] = accepted[k] * D + L * x * r
      BY <2>2 DEF Accepted
  <2>7. Rejected[k] = L * x * e
      BY <2>2 DEF Rejected
  <2> HIDE DEF x, r, L, D, e
  <2>8. /\ (share * (x * r)) * D + L * x * r = (share * D + L) * (x * r)
        /\ L * x * e = L * (x * e)
      BY <2>1
  <2>9. (share * D + L) * (x * r) \in Nat /\ L * (x * e) \in Nat
      BY <2>1
  <2> QED
      BY <2>3, <2>4, <2>5, <2>6, <2>7, <2>8, <2>9 DEF L, D
<1>6. Accepted \in [Candidates -> Nat] /\ Rejected \in [Candidates -> Nat]
  <2>1. /\ Accepted = [k \in Candidates |-> Accepted[k]]
        /\ Rejected = [k \in Candidates |-> Rejected[k]]
      BY DEF Accepted, Rejected
  <2> QED
      BY <1>5, <2>1
<1>7. Runs(Rejected) = Live * (Draws - PrescribedTotal)
  <2> DEFINE zero == [k \in Candidates |-> 0]
             L == Live
             R == Rejected
             Q == Withheld
             C == Candidates
  <2>1. /\ IsFiniteSet(C) /\ Runs(R) = SumFunctionOnSet(R, C)
        /\ SumFunctionOnSet(Q, C) = SumFunction(Q) /\ SumFunction(Q) \in Nat
      BY <1>1, <1>4, <1>6, SumOverCandidates DEF Runs
  <2>2. \A k \in C : zero[k] = 0
      OBVIOUS
  <2> HIDE DEF zero
  <2>3. SumFunctionOnSet(zero, C) = 0
      BY <2>1, <2>2, SumZero
  <2>4. L \in Int
      BY <1>2
  <2>5. \A k \in C : R[k] = L * Q[k] /\ Q[k] \in Nat
      BY <1>4, <1>5
  <2> HIDE DEF L, R, Q, C
  <2>6. \A k \in C : Q[k] \in Int /\ zero[k] \in Int /\ R[k] = L * Q[k] + zero[k]
    <3> SUFFICES ASSUME NEW k \in C
                 PROVE  Q[k] \in Int /\ zero[k] \in Int /\ R[k] = L * Q[k] + zero[k]
        OBVIOUS
    <3>1. R[k] = L * Q[k] /\ Q[k] \in Int /\ zero[k] = 0 /\ L * Q[k] \in Int
        BY <2>2, <2>4, <2>5
    <3> QED
        BY <3>1
  <2>7. SumFunctionOnSet(R, C) = L * SumFunctionOnSet(Q, C) + SumFunctionOnSet(zero, C)
      BY <2>1, <2>4, <2>6, SumLinear
  <2>8. L * SumFunction(Q) \in Int
      BY <2>1, <2>4
  <2> QED
      BY <1>3, <2>1, <2>3, <2>7, <2>8 DEF L, R, Q
<1>8. share * Draws + Live \in Nat
    BY <1>2, <1>3
<1> QED
    BY <1>2, <1>5, <1>6, <1>7, <1>8

(* The skew of one candidate: s is the share of what was returned before   *)
(* the cap, L the runs that reach it; P and Q are what is prescribed to it *)
(* and what is not, z and d these for all candidates.                      *)
LEMMA SkewOfOne ==
    ASSUME NEW s \in Nat, NEW L \in Nat, NEW P \in Nat, NEW Q \in Nat,
           NEW z \in Nat, NEW d \in Nat, P <= z, Q <= d
    PROVE  /\ Distance((s * P + L * Q) * z, (s * z + L * d) * P) \in Nat
           /\ Distance((s * P + L * Q) * z, (s * z + L * d) * P) <= (L * d) * z
<1> DEFINE x == L * (Q * z)
           y == L * (d * P)
           c == s * (P * z)
           m == L * (d * z)
<1>1. /\ (s * P + L * Q) * z = c + x /\ (s * z + L * d) * P = c + y /\ (L * d) * z = m
    OBVIOUS
<1>2. Q * z \in Nat /\ d * P \in Nat /\ d * z \in Nat /\ P * z \in Nat
    OBVIOUS
<1>3. x \in Nat /\ y \in Nat /\ c \in Nat /\ m \in Nat
    BY <1>2
<1>4. Q * z <= d * z /\ d * P <= d * z
    BY TimesMonotone
<1>5. x <= m /\ y <= m
    BY <1>2, <1>4, TimesMonotone
<1> HIDE DEF x, y, c, m
<1> QED
    BY <1>1, <1>3, <1>5 DEF Distance

(* The runs left after times retries, against those a single biggest skew      *)
(* would leave: W is the weight of the candidates, e the range of the      *)
(* ratios, B the largest.                                                  *)
LEMMA SkewOfAll ==
    ASSUME NEW d \in Nat, NEW W \in Nat, NEW e \in Nat, NEW B \in Nat, NEW times \in Nat,
           d <= W * e
    PROVE  Power(d, times) * Power(B, times) <= Power(e, times) * Power(W * B, times)
<1> DEFINE x == Power(d, times)
           y == Power(B, times)
           u1 == Power(e, times)
           v1 == Power(W, times)
<1>1. W * e \in Nat /\ W * B \in Nat
    OBVIOUS
<1>2. x \in Nat /\ y \in Nat /\ u1 \in Nat /\ v1 \in Nat
    BY PowerLaws
<1>3. Power(W * e, times) = v1 * u1 /\ Power(W * B, times) = v1 * y
    BY PowerOfProduct
<1>4. x <= Power(W * e, times)
    BY <1>1, PowerMonotone
<1> HIDE DEF x, y, u1, v1
<1>5. x <= v1 * u1 /\ v1 * u1 \in Nat
    BY <1>2, <1>3, <1>4
<1>6. x * y <= (v1 * u1) * y
    BY <1>2, <1>5, TimesMonotone
<1>7. (v1 * u1) * y = u1 * (v1 * y)
    BY <1>2
<1> QED
    BY <1>3, <1>6, <1>7 DEF x, y, u1

-----------------------------------------------------------------------------
(* The invariant holds of every state. *)
LEMMA TypesOfTotals ==
    GraphInv /\ w \in Seq(Nat) /\ prev_u \in Int =>
        /\ Prescribed \in [Candidates -> Nat]
        /\ Draws \in Nat /\ PrescribedTotal \in Nat /\ Draws - PrescribedTotal \in Nat
BY Shares, Totals

LEMMA SameArgs ==
    ASSUME UNCHANGED <<graph, args>>
    PROVE  /\ Candidates' = Candidates /\ Prescribed' = Prescribed /\ Draws' = Draws
           /\ PrescribedTotal' = PrescribedTotal
           /\ beta_max' = beta_max /\ beta_min' = beta_min
<1>1. /\ call' = call /\ adj' = adj /\ bias' = bias /\ u' = u /\ prev_u' = prev_u /\ w' = w
    BY DEF graph, args
<1>2. Candidates' = Candidates /\ beta_max' = beta_max /\ beta_min' = beta_min
    BY <1>1 DEF Candidates, beta_max, beta_min
<1>3. \A k : target(k)' = target(k)
    BY <1>1 DEF target
<1>4. \A v : contains(prev_u, v)' = contains(prev_u, v)
    BY <1>1 DEF contains
<1>5. Prescribed' = Prescribed
    BY <1>1, <1>2, <1>3, <1>4, Zenon DEF Prescribed
<1> QED
    BY <1>1, <1>2, <1>5 DEF Draws, PrescribedTotal, Runs

LEMMA InitInv == Init => IInv
<1> SUFFICES ASSUME Init PROVE IInv
    OBVIOUS
<1>1. GraphInv
    BY DEF Init, GraphInv
<1>2. /\ w = <<>> /\ Candidates = {} /\ accepted = Nothing /\ pending = Nothing
      /\ retry = 0 /\ pc = "idle" /\ t_prev = kSentinelStartTimestamp /\ prev_u = -1
    BY DEF Init, Candidates
<1>3. 0 < kNode2VecMaxRetries /\ kNode2VecMaxRetries \in Nat /\ kSentinelStartTimestamp \in Int
    BY Node2VecAssumption
<1>4. CallInv
    BY <1>2, <1>3 DEF CallInv, Nothing
<1>5. ShareInv
    BY <1>2 DEF ShareInv
<1>6. CapSkewBounded
    BY <1>2, <1>3 DEF CapSkewBounded
<1> QED
    BY <1>1, <1>4, <1>5, <1>6 DEF IInv

LEMMA CallKeeps == IInv /\ Call => IInv'
<1> SUFFICES ASSUME IInv, Call PROVE IInv'
    OBVIOUS
<1>1. /\ w' = Proposal(u', t_prev') /\ retry' = 0 /\ pc' = "loop" /\ UNCHANGED graph
      /\ pending' = [k \in DOMAIN w' |-> 0] /\ accepted' = [k \in DOMAIN w' |-> 0]
    BY DEF Call
<1>2. GraphInv /\ GraphInv'
    BY <1>1 DEF IInv, GraphInv, graph
<1>3. u' \in DOMAIN adj /\ t_prev' <= kSentinelStartTimestamp /\ prev_u' \in Int
  <2>1. CASE /\ u' \in DOMAIN adj
             /\ t_prev' = kSentinelStartTimestamp /\ prev_u' = -1
      BY <2>1, Node2VecAssumption
  <2>2. CASE \E p \in DOMAIN adj : \E k \in DOMAIN adj[p] :
                 /\ WeightsOf(p)[k] > 0
                 /\ u' = adj[p][k].v
                 /\ t_prev' = adj[p][k].t
                 /\ prev_u' = p
    <3>1. PICK p \in DOMAIN adj : \E k \in DOMAIN adj[p] :
              u' = adj[p][k].v /\ t_prev' = adj[p][k].t /\ prev_u' = p
        BY <2>2
    <3>2. PICK k \in DOMAIN adj[p] :
              u' = adj[p][k].v /\ t_prev' = adj[p][k].t /\ prev_u' = p
        BY <3>1
    <3> QED
        BY <1>2, <3>2, ListsRight
  <2> QED
      BY <2>1, <2>2 DEF Call
<1>4. w' \in Seq(Nat)
    BY <1>1, <1>2, <1>3, ProposalRight
<1>5. 0 < kNode2VecMaxRetries /\ kNode2VecMaxRetries \in Nat
    BY Node2VecAssumption
<1>6. /\ Prescribed' \in [Candidates' -> Nat]
      /\ Draws' \in Nat /\ PrescribedTotal' \in Nat /\ (Draws - PrescribedTotal)' \in Nat
  <2>1. (GraphInv /\ w \in Seq(Nat) /\ prev_u \in Int)' =>
            (/\ Prescribed \in [Candidates -> Nat]
             /\ Draws \in Nat /\ PrescribedTotal \in Nat /\ Draws - PrescribedTotal \in Nat)'
      BY TypesOfTotals, PTL
  <2> QED
      BY <1>2, <1>3, <1>4, <2>1
<1>7. CallInv'
    BY <1>1, <1>3, <1>4, <1>5 DEF CallInv, Candidates
<1>8. ShareInv'
  <2>1. \A k \in Candidates' : accepted'[k] = 0 * Prescribed'[k]
    <3> SUFFICES ASSUME NEW k \in Candidates' PROVE accepted'[k] = 0 * Prescribed'[k]
        OBVIOUS
    <3>1. accepted'[k] = 0
        BY <1>1 DEF Candidates
    <3>2. Prescribed'[k] \in Nat
        BY <1>6
    <3> QED
        BY <3>1, <3>2
  <2>2. Live' = 1
      BY <1>1 DEF Live
  <2>3. Power((Draws - PrescribedTotal)', 0) = 1 /\ Power(Draws', 0) = 1
      BY <1>6, PowerLaws
  <2>4. 0 * PrescribedTotal' + Live' = 1
    <3>1. \A x \in Nat : 0 * x + 1 = 1
        OBVIOUS
    <3> QED
        BY <1>6, <2>2, <3>1
  <2>5. pc' = "loop" => /\ Live' = Power(Draws' - PrescribedTotal', retry')
                        /\ 0 * PrescribedTotal' + Live' = Power(Draws', retry')
      BY <1>1, <2>2, <2>3, <2>4
  <2> QED
      BY <1>1, <2>1, <2>5 DEF ShareInv
<1>9. CapSkewBounded'
    BY <1>1, <1>5 DEF CapSkewBounded
<1> QED
    BY <1>2, <1>7, <1>8, <1>9 DEF IInv

LEMMA ReturnDeadKeeps == IInv /\ ReturnDead => IInv'
<1> SUFFICES ASSUME IInv, ReturnDead PROVE IInv'
    OBVIOUS
<1>1. /\ pc = "loop" /\ SumFunction(w) = 0 /\ pc' = "idle"
      /\ UNCHANGED <<graph, args, retry, pending, accepted>>
    BY DEF ReturnDead
<1>2. retry = 0 /\ retry < kNode2VecMaxRetries
    BY <1>1 DEF IInv, CallInv
<1>3. /\ Candidates' = Candidates /\ Prescribed' = Prescribed /\ retry' = retry
      /\ accepted' = accepted /\ pending' = pending
    BY <1>1, SameArgs
<1>4. GraphInv'
    BY <1>1 DEF IInv, GraphInv, graph
<1>5. CallInv'
    BY <1>1, <1>2, <1>3 DEF IInv, CallInv, args
<1>6. ShareInv'
    BY <1>1, <1>2, <1>3 DEF IInv, ShareInv
<1>7. CapSkewBounded'
    BY <1>2, <1>3, Node2VecAssumption DEF CapSkewBounded
<1> QED
    BY <1>4, <1>5, <1>6, <1>7 DEF IInv

LEMMA FirstHopKeeps == IInv /\ FirstHop => IInv'
<1> SUFFICES ASSUME IInv, FirstHop PROVE IInv'
    OBVIOUS
<1>1. /\ pc = "loop" /\ prev_u < 0 /\ pc' = "idle"
      /\ accepted' = [k \in Candidates |-> w[k]]
      /\ UNCHANGED <<graph, args, retry, pending>>
    BY DEF FirstHop
<1>2. retry = 0 /\ retry < kNode2VecMaxRetries /\ w \in Seq(Nat)
    BY <1>1 DEF IInv, CallInv
<1>3. /\ Candidates' = Candidates /\ Prescribed' = Prescribed /\ retry' = retry
      /\ pending' = pending /\ w' = w
    BY <1>1, SameArgs DEF args
<1>4. GraphInv'
    BY <1>1 DEF IInv, GraphInv, graph
<1>5. accepted' \in [Candidates -> Nat]
    BY <1>1, <1>2 DEF Candidates
<1>6. CallInv'
    BY <1>1, <1>2, <1>3, <1>5 DEF IInv, CallInv, args
<1>7. \A k \in Candidates' : accepted'[k] = 1 * Prescribed'[k]
  <2> SUFFICES ASSUME NEW k \in Candidates PROVE accepted'[k] = 1 * Prescribed[k]
      BY <1>3
  <2>1. Prescribed[k] = w[k] * 1
      BY <1>1, PrescribedRight DEF Ratio
  <2>2. w[k] \in Nat /\ accepted'[k] = w[k]
      BY <1>1, <1>2 DEF Candidates
  <2> QED
      BY <2>1, <2>2
<1>8. ShareInv'
    BY <1>1, <1>2, <1>3, <1>7 DEF ShareInv
<1>9. CapSkewBounded'
    BY <1>2, <1>3, Node2VecAssumption DEF CapSkewBounded
<1> QED
    BY <1>4, <1>6, <1>8, <1>9 DEF IInv

LEMMA RetryKeeps == IInv /\ Retry => IInv'
<1> SUFFICES ASSUME IInv, Retry PROVE IInv'
    OBVIOUS
<1>1. /\ Test /\ retry + 1 < kNode2VecMaxRetries /\ retry' = retry + 1
      /\ pending' = Rejected /\ accepted' = Accepted
      /\ UNCHANGED <<pc, graph, args>>
    BY DEF Retry, Again
<1>2. /\ pc = "loop" /\ SumFunction(w) > 0 /\ prev_u >= 0 /\ w \in Seq(Nat)
      /\ prev_u \in Int /\ retry \in Nat /\ retry < kNode2VecMaxRetries
    BY <1>1 DEF IInv, CallInv, Test
<1>3. /\ Candidates' = Candidates /\ Prescribed' = Prescribed /\ Draws' = Draws
      /\ PrescribedTotal' = PrescribedTotal /\ w' = w /\ prev_u' = prev_u
    BY <1>1, SameArgs DEF args
<1> DEFINE D == Draws
           z == PrescribedTotal
           L == Live
           times == retry
<1>4. PICK share \in Nat :
          /\ \A k \in Candidates : accepted[k] = share * Prescribed[k]
          /\ L = Power(D - z, times) /\ share * z + L = Power(D, times)
    BY <1>2 DEF IInv, ShareInv
<1>5. /\ L \in Nat /\ share * D + L \in Nat
      /\ Accepted \in [Candidates -> Nat] /\ Rejected \in [Candidates -> Nat]
      /\ \A k \in Candidates : Accepted[k] = (share * D + L) * Prescribed[k]
      /\ Runs(Rejected) = L * (D - z)
    BY <1>1, <1>4, RetrySums DEF IInv
<1>6. D \in Nat /\ z \in Nat /\ D - z \in Nat
    BY <1>2, TypesOfTotals DEF IInv
<1>7. GraphInv'
    BY <1>1 DEF IInv, GraphInv, graph
<1>8. CallInv'
    BY <1>1, <1>2, <1>3, <1>5, Node2VecAssumption DEF IInv, CallInv, args
<1>9. Live' = L * (D - z)
    BY <1>1, <1>2, <1>5 DEF Live
<1>10. ShareInv'
  <2> DEFINE more == share * D + L
  <2>1. \A k \in Candidates' : accepted'[k] = more * Prescribed'[k]
      BY <1>1, <1>3, <1>5
  <2>2. Power(D - z, times + 1) = (D - z) * Power(D - z, times) /\ Power(D, times + 1) = D * Power(D, times)
      BY <1>2, <1>6, PowerLaws
  <2> DEFINE p == Power(D, times)
             q == Power(D - z, times)
  <2>3. p = share * z + L /\ q = L
      BY <1>4
  <2>4. D' = D /\ z' = z /\ times' = times + 1 /\ pc' = "loop" /\ more \in Nat
      BY <1>1, <1>2, <1>3, <1>5
  <2> HIDE DEF D, z, L, times
  <2>5. L * (D - z) = (D - z) * L
      BY <1>5, <1>6
  <2>6. (share * D + L) * z + L * (D - z) = D * (share * z + L)
      BY <1>5, <1>6
  <2>7. Live' = Power(D - z, times + 1) /\ more * z + Live' = Power(D, times + 1)
      BY <1>9, <2>2, <2>3, <2>5, <2>6
  <2> HIDE DEF more
  <2>8. /\ more \in Nat /\ \A k \in Candidates' : accepted'[k] = more * Prescribed'[k]
        /\ Live' = Power(Draws' - PrescribedTotal', retry')
        /\ more * PrescribedTotal' + Live' = Power(Draws', retry')
      BY <2>1, <2>4, <2>7 DEF D, z, times
  <2> QED
      BY <2>4, <2>8 DEF ShareInv
<1>11. CapSkewBounded'
    BY <1>1, <1>2, Node2VecAssumption DEF CapSkewBounded
<1> QED
    BY <1>7, <1>8, <1>10, <1>11 DEF IInv

LEMMA LastRetryKeeps == IInv /\ LastRetry => IInv'
<1> SUFFICES ASSUME IInv, LastRetry PROVE IInv'
    OBVIOUS
<1>1. /\ Test /\ ~(retry + 1 < kNode2VecMaxRetries) /\ retry' = retry + 1 /\ pc' = "idle"
      /\ accepted' = [k \in Candidates |-> Accepted[k] + Rejected[k]]
      /\ pending' = Rejected
      /\ UNCHANGED <<graph, args>>
    BY DEF LastRetry, Again
<1>2. /\ pc = "loop" /\ SumFunction(w) > 0 /\ prev_u >= 0 /\ w \in Seq(Nat)
      /\ prev_u \in Int /\ retry \in Nat /\ retry < kNode2VecMaxRetries
    BY <1>1 DEF IInv, CallInv, Test
<1>3. /\ Candidates' = Candidates /\ Prescribed' = Prescribed /\ Draws' = Draws
      /\ PrescribedTotal' = PrescribedTotal /\ w' = w /\ prev_u' = prev_u
      /\ beta_max' = beta_max /\ beta_min' = beta_min
    BY <1>1, SameArgs DEF args
<1>4. kNode2VecMaxRetries \in Nat /\ retry' = kNode2VecMaxRetries
    BY <1>1, <1>2, Node2VecAssumption
<1> DEFINE D == Draws
           z == PrescribedTotal
           L == Live
           times == retry
           C == Candidates
           d == D - z
           acc == accepted'
           W == SumFunction(w)
           B == beta_max
           e == beta_max - beta_min
<1>5. PICK share \in Nat :
          /\ \A k \in C : accepted[k] = share * Prescribed[k]
          /\ L = Power(D - z, times) /\ share * z + L = Power(D, times)
    BY <1>2 DEF IInv, ShareInv
<1> DEFINE s == share * D + L
<1>6. /\ L \in Nat /\ s \in Nat
      /\ Accepted \in [C -> Nat] /\ Rejected \in [C -> Nat]
      /\ \A k \in C : Accepted[k] = s * Prescribed[k] /\ Rejected[k] = L * Withheld[k]
      /\ Runs(Rejected) = L * d
    BY <1>1, <1>5, RetrySums DEF IInv
<1>7. /\ D \in Nat /\ z \in Nat /\ d \in Nat /\ W \in Nat /\ D = W * B /\ d <= W * e
      /\ \A k \in C : Prescribed[k] <= z /\ Withheld[k] <= d
    BY <1>2, Totals DEF IInv, Draws
<1>8. /\ B \in Nat /\ e \in Nat
  <2>1. beta_max \in Nat /\ beta_min \in Nat /\ beta_min <= beta_max
      BY BetasRight DEF IInv
  <2> QED
      BY <2>1
<1>9. /\ Prescribed \in [C -> Nat] /\ Withheld \in [C -> Nat]
    BY <1>2, Shares DEF IInv
<1>10. \A k \in C : acc[k] = s * Prescribed[k] + L * Withheld[k]
    BY <1>1, <1>6
<1>11. acc \in [C -> Nat]
    BY <1>1, <1>6
<1>12. GraphInv'
    BY <1>1 DEF IInv, GraphInv, graph
<1>13. CallInv'
    BY <1>1, <1>2, <1>3, <1>4, <1>6, <1>11 DEF IInv, CallInv, args
<1>14. ShareInv'
    BY <1>4, Node2VecAssumption DEF ShareInv
<1>15. Runs(acc) = s * z + L * d
  <2> DEFINE A == Accepted
             R == Rejected
             P == Prescribed
             zero == [k \in C |-> 0]
  <2>1. /\ IsFiniteSet(C) /\ SumFunction(acc) = SumFunctionOnSet(acc, C)
        /\ SumFunction(R) = SumFunctionOnSet(R, C)
        /\ SumFunction(P) = SumFunctionOnSet(P, C) /\ SumFunction(R) \in Nat
      BY <1>2, <1>6, <1>9, <1>11, SumOverCandidates
  <2>2. \A k \in C : P[k] \in Int /\ R[k] \in Int /\ acc[k] = s * P[k] + R[k]
      BY <1>1, <1>6, <1>9
  <2>3. s \in Int
      BY <1>6
  <2> HIDE DEF acc, R, P, s, C
  <2>4. SumFunctionOnSet(acc, C) = s * SumFunctionOnSet(P, C) + SumFunctionOnSet(R, C)
    <3>1. PICK a : a = acc
        OBVIOUS
    <3>2. \A k \in C : P[k] \in Int /\ R[k] \in Int /\ a[k] = s * P[k] + R[k]
        BY <2>2, <3>1
    <3>3. IsFiniteSet(C)
        BY <2>1
    <3>4. SumFunctionOnSet(a, C) = s * SumFunctionOnSet(P, C) + SumFunctionOnSet(R, C)
        BY <2>3, <3>2, <3>3, SumLinear
    <3> QED
        BY <3>1, <3>4
  <2>5. SumFunction(P) = z /\ SumFunction(R) = L * d /\ Runs(acc) = SumFunction(acc)
      BY <1>6 DEF P, R, PrescribedTotal, Runs
  <2> QED
      BY <2>1, <2>4, <2>5
<1>16. Runs(acc) = Power(D, times + 1)
  <2>1. Power(D, times + 1) = D * Power(D, times)
      BY <1>2, <1>7, PowerLaws
  <2>2. Power(D, times) = share * z + L
      BY <1>5
  <2> HIDE DEF D, z, L, times
  <2>3. (share * D + L) * z + L * (D - z) = D * (share * z + L)
      BY <1>6, <1>7
  <2> QED
      BY <1>15, <2>1, <2>2, <2>3 DEF s, d
<1>17. L * d = Power(d, times + 1)
  <2>1. Power(d, times + 1) = d * Power(d, times) /\ Power(d, times) = L
      BY <1>2, <1>5, <1>7, PowerLaws
  <2> HIDE DEF d, L
  <2> QED
      BY <1>6, <1>7, <2>1
<1>18. ASSUME NEW k \in C
       PROVE  Distance(acc[k] * z, Runs(acc) * Prescribed[k]) * Power(B, times + 1)
                  <= Power(e, times + 1) * Runs(acc) * z
  <2> DEFINE P == Prescribed[k]
             Q == Withheld[k]
             far == Distance(acc[k] * z, Runs(acc) * P)
             b == Power(B, times + 1)
             x == Power(d, times + 1)
             y == Power(e, times + 1)
             t == Runs(acc)
  <2>1. P \in Nat /\ Q \in Nat /\ P <= z /\ Q <= d
      BY <1>7, <1>9
  <2>2. acc[k] = s * P + L * Q /\ t = s * z + L * d
      BY <1>10, <1>15
  <2>3. times + 1 \in Nat
      BY <1>2
  <2> HIDE DEF D, z, L, times, C, d, acc, W, B, e, s, P, Q
  <2>4. far \in Nat /\ far <= (L * d) * z
    <3>1. far = Distance((s * P + L * Q) * z, (s * z + L * d) * P)
        BY <2>2
    <3> HIDE DEF far, t
    <3> QED
        BY <1>6, <1>7, <2>1, <3>1, SkewOfOne
  <2>5. x * b <= y * t
      BY <1>7, <1>8, <1>16, <2>3, SkewOfAll
  <2>6. b \in Nat /\ x \in Nat /\ y \in Nat /\ t \in Nat
    <3> DEFINE m == times + 1
    <3>1. m \in Nat /\ B \in Nat /\ d \in Nat /\ e \in Nat /\ D \in Nat /\ t = Power(D, m)
        BY <1>7, <1>8, <1>16, <2>3
    <3> HIDE DEF m
    <3>2. /\ Power(B, m) \in Nat /\ Power(d, m) \in Nat /\ Power(e, m) \in Nat
          /\ Power(D, m) \in Nat
        BY <3>1, PowerLaws
    <3> QED
        BY <3>1, <3>2 DEF m
  <2>7. far <= x * z
      BY <1>17, <2>4
  <2> HIDE DEF far, b, x, y, t
  <2>8. x * z \in Nat /\ x * b \in Nat /\ y * t \in Nat
      BY <1>7, <2>6
  <2>9. far * b <= (x * z) * b
      BY <2>4, <2>6, <2>7, <2>8, TimesMonotone
  <2>10. (x * b) * z <= (y * t) * z
      BY <1>7, <2>5, <2>8, TimesMonotone
  <2>11. (x * z) * b = (x * b) * z
      BY <1>7, <2>6
  <2>12. far * b <= (y * t) * z
    <3> DEFINE i1 == far * b
               i2 == (x * z) * b
               i3 == (y * t) * z
    <3>1. i1 \in Nat /\ i2 \in Nat /\ i3 \in Nat
        BY <1>7, <2>4, <2>6, <2>8
    <3>2. i1 <= i2 /\ i2 <= i3
        BY <2>9, <2>10, <2>11
    <3> HIDE DEF i1, i2, i3
    <3>3. i1 <= i3
        BY <3>1, <3>2
    <3> QED
        BY <3>3 DEF i1, i3
  <2> QED
      BY <2>12 DEF far, b, y, t, P
<1>19. CapSkewBounded'
  <2>1. /\ retry' = times + 1 /\ Draws' = D /\ SumFunction(Prescribed') = z /\ beta_max' = B
        /\ (beta_max - beta_min)' = e /\ Candidates' = C /\ Prescribed' = Prescribed
      BY <1>1, <1>3 DEF PrescribedTotal, Runs
  <2>2. CapSkewBounded' <=>
            (retry' = kNode2VecMaxRetries =>
                /\ Runs(acc) = Power(Draws', retry')
                /\ \A k \in Candidates' :
                       Distance(acc[k] * SumFunction(Prescribed'), Runs(acc) * Prescribed'[k])
                               * Power(beta_max', retry')
                           <= Power((beta_max - beta_min)', retry') * Runs(acc)
                                  * SumFunction(Prescribed'))
      BY DEF CapSkewBounded, Runs
  <2> HIDE DEF D, z, L, times, C, d, acc, W, B, e, s
  <2> QED
      BY <1>16, <1>18, <2>1, <2>2
<1> QED
    BY <1>12, <1>13, <1>14, <1>19 DEF IInv

LEMMA StutterKeeps == IInv /\ UNCHANGED vars => IInv'
<1> SUFFICES ASSUME IInv, UNCHANGED vars PROVE IInv'
    OBVIOUS
<1>1. /\ UNCHANGED <<pc, graph, args, retry, pending, accepted>>
      /\ call' = call /\ bias' = bias /\ adj' = adj
    BY DEF vars, graph
<1>2. /\ Candidates' = Candidates /\ Prescribed' = Prescribed /\ Draws' = Draws
      /\ PrescribedTotal' = PrescribedTotal
      /\ beta_max' = beta_max /\ beta_min' = beta_min
    BY <1>1, SameArgs
<1>3. Live' = Live
    BY <1>1 DEF Live, Runs
<1>4. GraphInv'
    BY <1>1 DEF IInv, GraphInv
<1>5. CallInv'
    BY <1>1, <1>2 DEF IInv, CallInv, args
<1>6. ShareInv'
    BY <1>1, <1>2, <1>3 DEF IInv, ShareInv
<1>7. CapSkewBounded'
    BY <1>1, <1>2 DEF IInv, CapSkewBounded, Runs
<1> QED
    BY <1>4, <1>5, <1>6, <1>7 DEF IInv

(* What short of the cap has been returned is a multiple of what is        *)
(* prescribed, so its proportions are the prescribed ones.                 *)
LEMMA ProportionalHere == IInv => AcceptedProportional
<1> SUFFICES ASSUME IInv, retry < kNode2VecMaxRetries
             PROVE  /\ \A j, k \in Candidates :
                           accepted[j] * Prescribed[k] = accepted[k] * Prescribed[j]
                    /\ retry > 0 => Runs(accepted) + Runs(pending) = Power(Draws, retry)
    BY DEF AcceptedProportional
<1>1. PICK share \in Nat :
          /\ \A k \in Candidates : accepted[k] = share * Prescribed[k]
          /\ pc = "loop" => share * PrescribedTotal + Live = Power(Draws, retry)
          /\ pc = "idle" => retry = 0
    BY DEF IInv, ShareInv
<1>2. /\ w \in Seq(Nat) /\ prev_u \in Int /\ pc \in {"idle", "loop"}
      /\ accepted \in [Candidates -> Nat]
    BY DEF IInv, CallInv
<1>3. Prescribed \in [Candidates -> Nat] /\ PrescribedTotal \in Nat
    BY <1>2, TypesOfTotals DEF IInv
<1>4. ASSUME NEW j \in Candidates, NEW k \in Candidates
      PROVE  accepted[j] * Prescribed[k] = accepted[k] * Prescribed[j]
  <2> DEFINE x == Prescribed[j]
             y == Prescribed[k]
  <2>1. accepted[j] = share * x /\ accepted[k] = share * y /\ x \in Nat /\ y \in Nat
      BY <1>1, <1>3
  <2> HIDE DEF x, y
  <2>2. (share * x) * y = (share * y) * x
      BY <2>1
  <2> QED
      BY <2>1, <2>2 DEF x, y
<1>5. ASSUME retry > 0 PROVE Runs(accepted) + Runs(pending) = Power(Draws, retry)
  <2>1. pc = "loop" /\ retry # 0
      BY <1>1, <1>2, <1>5 DEF IInv, CallInv
  <2>2. Live = Runs(pending)
      BY <2>1 DEF Live
  <2>3. Runs(accepted) = share * PrescribedTotal
    <3> DEFINE C == Candidates
               P == Prescribed
               zero == [k \in C |-> 0]
    <3>1. /\ IsFiniteSet(C) /\ SumFunction(accepted) = SumFunctionOnSet(accepted, C)
          /\ SumFunction(P) = SumFunctionOnSet(P, C)
        BY <1>2, <1>3, SumOverCandidates
    <3>2. \A k \in C : P[k] \in Int /\ zero[k] = 0 /\ accepted[k] = share * P[k]
        BY <1>1, <1>3
    <3> HIDE DEF C, P, zero
    <3>3. SumFunctionOnSet(zero, C) = 0
        BY <3>1, <3>2, SumZero
    <3>4. \A k \in C : P[k] \in Int /\ zero[k] \in Int /\ accepted[k] = share * P[k] + zero[k]
      <4> SUFFICES ASSUME NEW k \in C
                   PROVE  P[k] \in Int /\ zero[k] \in Int
                              /\ accepted[k] = share * P[k] + zero[k]
          OBVIOUS
      <4>1. P[k] \in Int /\ zero[k] = 0 /\ accepted[k] = share * P[k] /\ share * P[k] \in Int
          BY <3>2
      <4> QED
          BY <4>1
    <3>5. SumFunctionOnSet(accepted, C) =
              share * SumFunctionOnSet(P, C) + SumFunctionOnSet(zero, C)
      <4>1. share \in Int
          OBVIOUS
      <4>2. IsFiniteSet(C)
          BY <3>1
      <4> QED
          BY <3>4, <4>1, <4>2, SumLinear
    <3>6. Runs(accepted) = SumFunction(accepted) /\ PrescribedTotal = SumFunction(P)
        BY DEF Runs, PrescribedTotal, P
    <3>7. share * PrescribedTotal \in Int
        BY <1>3
    <3> QED
        BY <3>1, <3>3, <3>5, <3>6, <3>7
  <2> QED
      BY <1>1, <2>1, <2>2, <2>3
<1> QED
    BY <1>4, <1>5

THEOREM Invariance == Spec => []IInv
<1>1. Init => IInv
    BY InitInv
<1>2. IInv /\ [Next]_vars => IInv'
    BY CallKeeps, ReturnDeadKeeps, FirstHopKeeps, RetryKeeps, LastRetryKeeps, StutterKeeps
       DEF Next, Loop
<1> QED
    BY <1>1, <1>2, PTL DEF Spec

(* The loop's state is well typed: a call that is running has retries left *)
(* and no candidate list but naturals.                                     *)
THEOREM TypeCorrect == Spec => []TypeOK
<1>1. IInv => TypeOK
    BY DEF IInv, GraphInv, CallInv, TypeOK
<1> QED
    BY <1>1, Invariance, PTL

(* rejection_loop, short of its cap, returns the edges in exactly the      *)
(* proportions node2vec prescribes, after every retry, and no run is lost, *)
(* for every input, p, q and cap.                                          *)
THEOREM ProportionalShortOfCap == Spec => []AcceptedProportional
<1>1. IInv => AcceptedProportional
    BY ProportionalHere
<1> QED
    BY <1>1, Invariance, PTL

(* At the cap, where the last proposal is accepted whatever it is, the     *)
(* share of no edge is further from the prescribed one than                *)
(* (1 - beta_min / beta_max) ^ retries.                                    *)
THEOREM SkewAtCap == Spec => []CapSkewBounded
<1>1. IInv => CapSkewBounded
    BY DEF IInv
<1> QED
    BY <1>1, Invariance, PTL
=============================================================================
