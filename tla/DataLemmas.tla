------------------------------ MODULE DataLemmas ------------------------------
(***************************************************************************)
(* Facts about the data the modules are built from, for proofs to cite:    *)
(* sums over finite sets, increasing enumerations, counting by bijections, *)
(* ranks in an order, and binary search.  The induction they need is a     *)
(* lemma about sets: a set of naturals that is not empty has a least       *)
(* element.                                                                *)
(***************************************************************************)
EXTENDS EdgeLists, Bias, Functions, Searches, FiniteSetTheorems, SequenceTheorems, TLAPS

LEMMA TimesMonotone ==
    ASSUME NEW a \in Nat, NEW b \in Nat, NEW c \in Nat, a <= b
    PROVE  a * c <= b * c /\ c * a <= c * b
<1>1. PICK d \in Nat : b = a + d
    OBVIOUS
<1>2. (a + d) * c = a * c + d * c /\ d * c \in Nat /\ a * c \in Nat
    OBVIOUS
<1>3. c * a = a * c /\ c * b = b * c
    OBVIOUS
<1> QED
    BY <1>1, <1>2, <1>3

(* A set of naturals that is not empty has a least element. *)
LEMMA LeastElement ==
    ASSUME NEW T \in SUBSET Nat, T # {}
    PROVE  \E x \in T : \A y \in T : x <= y
<1> DEFINE R == {ss \in Nat \X Nat : ss[1] < ss[2]}
<1>1. OpToRel(<, Nat) = R
    BY Zenon DEF OpToRel
<1>2. IsWellFoundedOn(R, Nat)
    BY <1>1, NatLessThanWellFounded, Zenon
<1> HIDE DEF R
<1>3. PICK x \in T : \A y \in T : <<y, x>> \notin R
    BY <1>2, WFMin
<1>4. ASSUME NEW y \in T PROVE x <= y
  <2>1. x \in Nat /\ y \in Nat
      OBVIOUS
  <2>2. <<y, x>> \notin R
      BY <1>3
  <2> QED
      BY <2>1, <2>2 DEF R
<1> QED
    BY <1>4

(* Induction: a set that holds 0, and n + 1 with every n, holds all of Nat. *)
LEMMA SetInduction ==
    ASSUME NEW T, 0 \in T, \A n \in Nat : n \in T => n + 1 \in T
    PROVE  \A n \in Nat : n \in T
<1> SUFFICES ASSUME Nat \ T # {} PROVE FALSE
    OBVIOUS
<1>1. PICK m \in Nat \ T : \A y \in Nat \ T : m <= y
    BY LeastElement
<1> QED
    BY <1>1

-----------------------------------------------------------------------------
(* The fold behind SumFunctionOnSet, with its parts named. *)
ChosenOf(s) == CHOOSE x \in s : TRUE
SumStep(f, g, s) == IF s = {} THEN 0 ELSE f[ChosenOf(s)] + g[s \ {ChosenOf(s)}]
SumIteration(f, S) == CHOOSE g : g = [s \in SUBSET S |-> SumStep(f, g, s)]

LEMMA SumIsIteration ==
    ASSUME NEW f, NEW S
    PROVE  SumFunctionOnSet(f, S) = SumIteration(f, S)[S]
BY Zenon DEF SumFunctionOnSet, FoldFunctionOnSet, MapThenFoldSet, SumIteration,
             SumStep, ChosenOf

LEMMA ChosenIn == ASSUME NEW s, s # {} PROVE ChosenOf(s) \in s
BY Zenon DEF ChosenOf

(* A set without its chosen element is one smaller. *)
LEMMA Smaller ==
    ASSUME NEW S, IsFiniteSet(S), NEW s \in SUBSET S, NEW n \in Nat,
           Cardinality(s) <= n + 1, s # {}
    PROVE  /\ s \ {ChosenOf(s)} \in SUBSET S
           /\ Cardinality(s \ {ChosenOf(s)}) \in Nat
           /\ Cardinality(s \ {ChosenOf(s)}) <= n
<1>1. IsFiniteSet(s) /\ Cardinality(s) \in Nat
    BY FS_Subset, FS_CardinalityType
<1>2. ChosenOf(s) \in s
    BY ChosenIn
<1>3. /\ IsFiniteSet(s \ {ChosenOf(s)})
      /\ Cardinality(s \ {ChosenOf(s)}) = Cardinality(s) - 1
    BY <1>1, <1>2, FS_RemoveElement
<1>4. Cardinality(s \ {ChosenOf(s)}) \in Nat
    BY <1>3, FS_CardinalityType
<1> QED
    BY <1>1, <1>3, <1>4

(* The iteration is defined: the equation it is chosen by has a solution. *)
LEMMA IterationDefined ==
    ASSUME NEW f, NEW S, IsFiniteSet(S)
    PROVE  \A s \in SUBSET S : SumIteration(f, S)[s] = SumStep(f, SumIteration(f, S), s)
<1> DEFINE Solves(g, n) == \A s \in SUBSET S : Cardinality(s) <= n => g[s] = SumStep(f, g, s)
           T == {n \in Nat : \E g : Solves(g, n)}
<1>0. \A s \in SUBSET S : IsFiniteSet(s) /\ Cardinality(s) \in Nat
                          /\ Cardinality(s) <= Cardinality(S)
    BY FS_Subset, FS_CardinalityType
<1>1. 0 \in T
  <2> DEFINE g == [s \in SUBSET S |-> 0]
  <2>1. ASSUME NEW s \in SUBSET S, Cardinality(s) <= 0 PROVE g[s] = SumStep(f, g, s)
    <3>1. s = {}
        BY <1>0, <2>1, FS_EmptySet
    <3> QED
        BY <3>1 DEF SumStep
  <2> QED
      BY <2>1
<1>2. ASSUME NEW n \in Nat, n \in T PROVE n + 1 \in T
  <2>1. PICK g : Solves(g, n)
      BY <1>2
  <2> DEFINE h == [s \in SUBSET S |-> IF Cardinality(s) <= n THEN g[s] ELSE SumStep(f, g, s)]
  <2>2. ASSUME NEW s \in SUBSET S, Cardinality(s) <= n + 1 PROVE h[s] = SumStep(f, h, s)
    <3>1. h[s] = SumStep(f, g, s)
        BY <2>1
    <3>2. CASE s = {}
        BY <3>1, <3>2 DEF SumStep
    <3>3. CASE s # {}
      <4>1. h[s \ {ChosenOf(s)}] = g[s \ {ChosenOf(s)}]
          BY <2>2, <3>3, Smaller
      <4> QED
          BY <3>1, <3>3, <4>1 DEF SumStep
    <3> QED
        BY <3>2, <3>3
  <2> QED
    <3>1. Solves(h, n + 1)
        BY <2>2
    <3> HIDE DEF h, Solves
    <3> QED
        BY <3>1
<1>3. PICK g : Solves(g, Cardinality(S))
  <2>1. Cardinality(S) \in Nat
      BY FS_CardinalityType
  <2> HIDE DEF T
  <2>2. Cardinality(S) \in T
      BY <1>1, <1>2, <2>1, SetInduction
  <2> QED
      BY <2>2 DEF T
<1> DEFINE h == [s \in SUBSET S |-> g[s]]
<1>4. h = [s \in SUBSET S |-> SumStep(f, h, s)]
  <2>1. ASSUME NEW s \in SUBSET S PROVE h[s] = SumStep(f, h, s)
    <3>1. h[s] = SumStep(f, g, s)
        BY <1>0, <1>3
    <3>2. s # {} => h[s \ {ChosenOf(s)}] = g[s \ {ChosenOf(s)}]
        OBVIOUS
    <3> QED
        BY <3>1, <3>2 DEF SumStep
  <2> HIDE DEF h
  <2>2. h = [s \in SUBSET S |-> h[s]]
      BY DEF h
  <2> QED
      BY <2>1, <2>2
<1> HIDE DEF h
<1>5. SumIteration(f, S) = [s \in SUBSET S |-> SumStep(f, SumIteration(f, S), s)]
    BY <1>4, Zenon DEF SumIteration
<1> DEFINE g0 == SumIteration(f, S)
<1> HIDE DEF g0
<1>6. g0 = [s \in SUBSET S |-> SumStep(f, g0, s)]
    BY <1>5 DEF g0
<1>7. \A s \in SUBSET S : g0[s] = SumStep(f, g0, s)
    BY <1>6
<1> QED
    BY <1>7 DEF g0

(* Which larger set an iteration runs through does not matter. *)
LEMMA IterationLocal ==
    ASSUME NEW f, NEW S, IsFiniteSet(S), NEW R \in SUBSET S
    PROVE  SumIteration(f, S)[R] = SumIteration(f, R)[R]
<1> DEFINE g == SumIteration(f, S)
           h == SumIteration(f, R)
           T == {n \in Nat : \A s \in SUBSET R : Cardinality(s) <= n => g[s] = h[s]}
<1>1. IsFiniteSet(R) /\ Cardinality(R) \in Nat
    BY FS_Subset, FS_CardinalityType
<1>2. \A s \in SUBSET R : g[s] = SumStep(f, g, s) /\ h[s] = SumStep(f, h, s)
  <2>1. \A s \in SUBSET S : g[s] = SumStep(f, g, s)
      BY IterationDefined
  <2>2. \A s \in SUBSET R : h[s] = SumStep(f, h, s)
      BY <1>1, IterationDefined
  <2> HIDE DEF g, h
  <2> QED
      BY <2>1, <2>2
<1> HIDE DEF g, h
<1>3. 0 \in T
  <2>1. ASSUME NEW s \in SUBSET R, Cardinality(s) <= 0 PROVE s = {}
      BY <2>1, <1>1, FS_Subset, FS_EmptySet, FS_CardinalityType
  <2> QED
      BY <1>2, <2>1 DEF SumStep
<1>4. ASSUME NEW n \in Nat, n \in T PROVE n + 1 \in T
  <2>1. ASSUME NEW s \in SUBSET R, Cardinality(s) <= n + 1 PROVE g[s] = h[s]
    <3>1. CASE s = {}
        BY <3>1, <1>2 DEF SumStep
    <3>2. CASE s # {}
      <4>1. g[s \ {ChosenOf(s)}] = h[s \ {ChosenOf(s)}]
          BY <1>1, <1>4, <2>1, <3>2, Smaller
      <4> QED
          BY <1>2, <3>2, <4>1 DEF SumStep
    <3> QED
        BY <3>1, <3>2
  <2> QED
      BY <2>1
<1> HIDE DEF T
<1>5. Cardinality(R) \in T
    BY <1>1, <1>3, <1>4, SetInduction
<1> QED
    BY <1>1, <1>5 DEF T, g, h

(* The equations a sum is defined by. *)
LEMMA SumEmpty == ASSUME NEW f PROVE SumFunctionOnSet(f, {}) = 0
<1>1. \A s \in SUBSET {} : SumIteration(f, {})[s] = SumStep(f, SumIteration(f, {}), s)
    BY IterationDefined, FS_EmptySet
<1> QED
    BY <1>1, SumIsIteration DEF SumStep

LEMMA SumChosen ==
    ASSUME NEW f, NEW S, IsFiniteSet(S), S # {}
    PROVE  SumFunctionOnSet(f, S) = f[ChosenOf(S)] + SumFunctionOnSet(f, S \ {ChosenOf(S)})
<1>1. SumIteration(f, S)[S] = SumStep(f, SumIteration(f, S), S)
  <2>1. S \in SUBSET S
      OBVIOUS
  <2> QED
      BY <2>1, IterationDefined
<1>2. SumIteration(f, S)[S \ {ChosenOf(S)}] = SumIteration(f, S \ {ChosenOf(S)})[S \ {ChosenOf(S)}]
    BY IterationLocal
<1> QED
    BY <1>1, <1>2, SumIsIteration DEF SumStep

-----------------------------------------------------------------------------
(* Induction on the size of a set: what holds of a set when it holds of all *)
(* its smaller subsets holds of every finite set.                           *)
LEMMA SubsetInduction ==
    ASSUME NEW S, IsFiniteSet(S), NEW P,
           \A s \in SUBSET S : (\A t \in SUBSET s : t # s => t \in P) => s \in P
    PROVE  S \in P
<1> DEFINE T == {n \in Nat : \A s \in SUBSET S : Cardinality(s) <= n => s \in P}
<1>0. \A s \in SUBSET S : IsFiniteSet(s) /\ Cardinality(s) \in Nat
    BY FS_Subset, FS_CardinalityType
<1>1. ASSUME NEW n \in Nat, \A s \in SUBSET S : Cardinality(s) < n => s \in P
      PROVE  \A s \in SUBSET S : Cardinality(s) <= n => s \in P
  <2> SUFFICES ASSUME NEW s \in SUBSET S, Cardinality(s) <= n PROVE s \in P
      OBVIOUS
  <2>1. ASSUME NEW t \in SUBSET s, t # s PROVE t \in P
    <3>1. t \in SUBSET S /\ Cardinality(t) < Cardinality(s)
        BY <1>0, <2>1, FS_Subset
    <3>2. Cardinality(t) \in Nat /\ Cardinality(s) \in Nat
        BY <1>0, <3>1
    <3>3. Cardinality(t) < n
        BY <3>1, <3>2
    <3> QED
        BY <1>1, <3>1, <3>3
  <2> QED
      BY <2>1
<1>2. 0 \in T
    BY <1>0, <1>1
<1>3. ASSUME NEW n \in Nat, n \in T PROVE n + 1 \in T
  <2>1. \A s \in SUBSET S : Cardinality(s) < n + 1 => s \in P
      BY <1>0, <1>3
  <2> QED
      BY <1>1, <2>1
<1> HIDE DEF T
<1>4. Cardinality(S) \in T
    BY <1>0, <1>2, <1>3, SetInduction
<1> QED
    BY <1>0, <1>4 DEF T

(* A sum of integers is one. *)
LEMMA SumInt ==
    ASSUME NEW S, IsFiniteSet(S), NEW f, \A x \in S : f[x] \in Int
    PROVE  SumFunctionOnSet(f, S) \in Int
<1> DEFINE P == {s \in SUBSET S : SumFunctionOnSet(f, s) \in Int}
<1>1. ASSUME NEW s \in SUBSET S, \A t \in SUBSET s : t # s => t \in P
      PROVE  s \in P
  <2>1. CASE s = {}
      BY <2>1, SumEmpty
  <2>2. CASE s # {}
    <3>1. ChosenOf(s) \in s
        BY <2>2, ChosenIn
    <3>2. SumFunctionOnSet(f, s \ {ChosenOf(s)}) \in Int
        BY <1>1, <3>1
    <3>3. SumFunctionOnSet(f, s) = f[ChosenOf(s)] + SumFunctionOnSet(f, s \ {ChosenOf(s)})
        BY <2>2, SumChosen, FS_Subset
    <3>4. f[ChosenOf(s)] \in Int
        BY <3>1
    <3> QED
        BY <3>2, <3>3, <3>4
  <2> QED
      BY <2>1, <2>2
<1> HIDE DEF P
<1>2. S \in P
    BY <1>1, SubsetInduction
<1> QED
    BY <1>2 DEF P

(* The order of the terms does not matter: any one can be taken out. *)
LEMMA SumRemove ==
    ASSUME NEW S, IsFiniteSet(S), NEW f, \A x \in S : f[x] \in Int, NEW x \in S
    PROVE  SumFunctionOnSet(f, S) = f[x] + SumFunctionOnSet(f, S \ {x})
<1> DEFINE Sum(s) == SumFunctionOnSet(f, s)
           P == {s \in SUBSET S : \A y \in s : Sum(s) = f[y] + Sum(s \ {y})}
<1>0. \A s \in SUBSET S : /\ Sum(s) \in Int
                          /\ s # {} => /\ Sum(s) = f[ChosenOf(s)] + Sum(s \ {ChosenOf(s)})
                                       /\ ChosenOf(s) \in s
    BY FS_Subset, SumInt, SumChosen, ChosenIn
<1> HIDE DEF Sum
<1>1. ASSUME NEW s \in SUBSET S, \A t \in SUBSET s : t # s => t \in P
      PROVE  s \in P
  <2> SUFFICES ASSUME NEW y \in s PROVE Sum(s) = f[y] + Sum(s \ {y})
      OBVIOUS
  <2> DEFINE c == ChosenOf(s)
  <2>1. c \in s /\ Sum(s) = f[c] + Sum(s \ {c})
      BY <1>0
  <2> HIDE DEF c
  <2>2. CASE y # c
    <3>1. s \ {c} \in P /\ s \ {y} \in P
        BY <1>1, <2>1
    <3>2. Sum(s \ {c}) = f[y] + Sum((s \ {c}) \ {y})
        BY <2>2, <3>1
    <3>3. Sum(s \ {y}) = f[c] + Sum((s \ {y}) \ {c})
        BY <2>1, <2>2, <3>1
    <3>4. (s \ {c}) \ {y} = (s \ {y}) \ {c}
        OBVIOUS
    <3>5. f[c] \in Int /\ f[y] \in Int /\ Sum((s \ {y}) \ {c}) \in Int
        BY <1>0, <2>1
    <3>6. Sum(s \ {c}) = f[y] + Sum((s \ {y}) \ {c})
        BY <3>2, <3>4
    <3> HIDE DEF P
    <3> DEFINE S1 == Sum(s \ {c})
               S2 == Sum(s \ {y})
               S3 == Sum((s \ {y}) \ {c})
               fc == f[c]
               fy == f[y]
    <3>7. S1 = fy + S3 /\ S2 = fc + S3 /\ Sum(s) = fc + S1
        BY <2>1, <3>3, <3>6
    <3>8. fc \in Int /\ fy \in Int /\ S3 \in Int
        BY <3>5
    <3> HIDE DEF S1, S2, S3, fc, fy
    <3>9. Sum(s) = fy + S2
        BY <3>7, <3>8
    <3> QED
        BY <3>9 DEF S2, fy
  <2> QED
      BY <2>1, <2>2
<1>2. S \in P
  <2> HIDE DEF P
  <2> QED
      BY <1>1, SubsetInduction
<1> QED
    BY <1>2 DEF Sum

LEMMA SumAdd ==
    ASSUME NEW S, IsFiniteSet(S), NEW f, NEW x, x \notin S, f[x] \in Int,
           \A y \in S : f[y] \in Int
    PROVE  SumFunctionOnSet(f, S \cup {x}) = f[x] + SumFunctionOnSet(f, S)
<1>1. IsFiniteSet(S \cup {x}) /\ (S \cup {x}) \ {x} = S
    BY FS_AddElement
<1>2. \A y \in S \cup {x} : f[y] \in Int
    OBVIOUS
<1>3. SumFunctionOnSet(f, S \cup {x}) = f[x] + SumFunctionOnSet(f, (S \cup {x}) \ {x})
  <2> DEFINE R == S \cup {x}
  <2>1. x \in R /\ IsFiniteSet(R) /\ \A y \in R : f[y] \in Int
      BY <1>1, <1>2
  <2> HIDE DEF R
  <2>2. SumFunctionOnSet(f, R) = f[x] + SumFunctionOnSet(f, R \ {x})
      BY <2>1, SumRemove
  <2> QED
      BY <2>2 DEF R
<1> QED
    BY <1>1, <1>3

(* Sums of equal terms are equal. *)
LEMMA SumSame ==
    ASSUME NEW S, IsFiniteSet(S), NEW f, NEW g,
           \A x \in S : f[x] = g[x]
    PROVE  SumFunctionOnSet(f, S) = SumFunctionOnSet(g, S)
<1> DEFINE P == {s \in SUBSET S : SumFunctionOnSet(f, s) = SumFunctionOnSet(g, s)}
<1>1. ASSUME NEW s \in SUBSET S, \A t \in SUBSET s : t # s => t \in P
      PROVE  s \in P
  <2>1. CASE s = {}
      BY <2>1, SumEmpty
  <2>2. CASE s # {}
    <3>1. ChosenOf(s) \in s /\ IsFiniteSet(s)
        BY <2>2, ChosenIn, FS_Subset
    <3>2. s \ {ChosenOf(s)} \in P
        BY <1>1, <3>1
    <3>3. /\ SumFunctionOnSet(f, s) = f[ChosenOf(s)] + SumFunctionOnSet(f, s \ {ChosenOf(s)})
          /\ SumFunctionOnSet(g, s) = g[ChosenOf(s)] + SumFunctionOnSet(g, s \ {ChosenOf(s)})
        BY <2>2, <3>1, SumChosen
    <3> QED
        BY <3>1, <3>2, <3>3
  <2> QED
      BY <2>1, <2>2
<1> HIDE DEF P
<1>2. S \in P
    BY <1>1, SubsetInduction
<1> QED
    BY <1>2 DEF P

(* Terms a \cdot f + g: sums are linear. *)
LEMMA SumLinear ==
    ASSUME NEW S, IsFiniteSet(S), NEW a \in Int, NEW f, NEW g, NEW h,
           \A x \in S : f[x] \in Int /\ g[x] \in Int /\ h[x] = a * f[x] + g[x]
    PROVE  SumFunctionOnSet(h, S) = a * SumFunctionOnSet(f, S) + SumFunctionOnSet(g, S)
<1> DEFINE Sum(k, s) == SumFunctionOnSet(k, s)
           P == {s \in SUBSET S : Sum(h, s) = a * Sum(f, s) + Sum(g, s)}
<1>1. ASSUME NEW s \in SUBSET S, \A t \in SUBSET s : t # s => t \in P
      PROVE  s \in P
  <2>1. CASE s = {}
    <3>1. Sum(h, s) = 0 /\ Sum(f, s) = 0 /\ Sum(g, s) = 0
        BY <2>1, SumEmpty
    <3> HIDE DEF Sum
    <3> QED
        BY <3>1
  <2>2. CASE s # {}
    <3> DEFINE c == ChosenOf(s)
               r == s \ {c}
    <3>1. c \in s /\ IsFiniteSet(s) /\ IsFiniteSet(r)
        BY <2>2, ChosenIn, FS_Subset
    <3>2. Sum(h, r) = a * Sum(f, r) + Sum(g, r)
        BY <1>1, <3>1
    <3>3. /\ Sum(h, s) = h[c] + Sum(h, r)
          /\ Sum(f, s) = f[c] + Sum(f, r)
          /\ Sum(g, s) = g[c] + Sum(g, r)
        BY <2>2, <3>1, SumChosen
    <3>4. /\ f[c] \in Int /\ g[c] \in Int /\ h[c] = a * f[c] + g[c]
          /\ Sum(f, r) \in Int /\ Sum(g, r) \in Int
        BY <3>1, SumInt
    <3> HIDE DEF Sum, c, r
    <3>5. a * (f[c] + Sum(f, r)) = a * f[c] + a * Sum(f, r)
        BY <3>4
    <3>6. a * f[c] \in Int /\ a * Sum(f, r) \in Int
        BY <3>4
    <3>7. Sum(h, s) = a * Sum(f, s) + Sum(g, s)
        BY <3>2, <3>3, <3>4, <3>5, <3>6
    <3> QED
        BY <3>7
  <2> QED
      BY <2>1, <2>2
<1> HIDE DEF P
<1>2. S \in P
    BY <1>1, SubsetInduction
<1> QED
    BY <1>2 DEF P

(* A sum of terms of which each is at most that of another sum. *)
LEMMA SumMonotone ==
    ASSUME NEW S, IsFiniteSet(S), NEW f, NEW g,
           \A x \in S : f[x] \in Int /\ g[x] \in Int /\ f[x] <= g[x]
    PROVE  SumFunctionOnSet(f, S) <= SumFunctionOnSet(g, S)
<1> DEFINE Sum(k, s) == SumFunctionOnSet(k, s)
           P == {s \in SUBSET S : Sum(f, s) <= Sum(g, s)}
<1>1. ASSUME NEW s \in SUBSET S, \A t \in SUBSET s : t # s => t \in P
      PROVE  s \in P
  <2>1. CASE s = {}
    <3>1. Sum(f, s) = 0 /\ Sum(g, s) = 0
        BY <2>1, SumEmpty
    <3> HIDE DEF Sum
    <3> QED
        BY <3>1
  <2>2. CASE s # {}
    <3> DEFINE c == ChosenOf(s)
               r == s \ {c}
    <3>1. c \in s /\ IsFiniteSet(s) /\ IsFiniteSet(r)
        BY <2>2, ChosenIn, FS_Subset
    <3>2. Sum(f, r) <= Sum(g, r)
        BY <1>1, <3>1
    <3>3. /\ Sum(f, s) = f[c] + Sum(f, r)
          /\ Sum(g, s) = g[c] + Sum(g, r)
        BY <2>2, <3>1, SumChosen
    <3>4. /\ f[c] \in Int /\ g[c] \in Int /\ f[c] <= g[c]
          /\ Sum(f, r) \in Int /\ Sum(g, r) \in Int
        BY <3>1, SumInt
    <3> HIDE DEF Sum, c, r
    <3>7. Sum(f, s) <= Sum(g, s)
        BY <3>2, <3>3, <3>4
    <3> QED
        BY <3>7
  <2> QED
      BY <2>1, <2>2
<1> HIDE DEF P
<1>2. S \in P
    BY <1>1, SubsetInduction
<1> QED
    BY <1>2 DEF P

(* A sum of one value, of zeros, of naturals. *)
LEMMA SumConst ==
    ASSUME NEW S, IsFiniteSet(S), NEW c \in Int, NEW f, \A x \in S : f[x] = c
    PROVE  SumFunctionOnSet(f, S) = c * Cardinality(S)
<1> DEFINE Sum(s) == SumFunctionOnSet(f, s)
           P == {s \in SUBSET S : Sum(s) = c * Cardinality(s)}
<1>1. ASSUME NEW s \in SUBSET S, \A t \in SUBSET s : t # s => t \in P
      PROVE  s \in P
  <2>1. CASE s = {}
      BY <2>1, SumEmpty, FS_EmptySet
  <2>2. CASE s # {}
    <3> DEFINE e == ChosenOf(s)
               r == s \ {e}
    <3>1. e \in s /\ IsFiniteSet(s)
        BY <2>2, ChosenIn, FS_Subset
    <3>2. Sum(r) = c * Cardinality(r)
        BY <1>1, <3>1
    <3>3. Sum(s) = c + Sum(r)
        BY <2>2, <3>1, SumChosen
    <3>4. Cardinality(r) = Cardinality(s) - 1 /\ Cardinality(s) \in Nat
        BY <3>1, FS_RemoveElement, FS_CardinalityType
    <3>5. Cardinality(s) \in Int
        BY <3>4
    <3> HIDE DEF Sum, e, r
    <3>6. c * (Cardinality(s) - 1) = c * Cardinality(s) - c
        BY <3>5
    <3>7. c * Cardinality(s) \in Int
        BY <3>5
    <3>8. Sum(s) = c * Cardinality(s)
        BY <3>2, <3>3, <3>4, <3>6, <3>7
    <3> QED
        BY <3>8
  <2> QED
      BY <2>1, <2>2
<1> HIDE DEF P
<1>2. S \in P
    BY <1>1, SubsetInduction
<1> QED
    BY <1>2 DEF P

LEMMA SumZero ==
    ASSUME NEW S, IsFiniteSet(S), NEW f, \A x \in S : f[x] = 0
    PROVE  SumFunctionOnSet(f, S) = 0
<1>1. SumFunctionOnSet(f, S) = 0 * Cardinality(S)
    BY SumConst
<1> QED
    BY <1>1, FS_CardinalityType

LEMMA SumNat ==
    ASSUME NEW S, IsFiniteSet(S), NEW f, \A x \in S : f[x] \in Nat
    PROVE  /\ SumFunctionOnSet(f, S) \in Nat
           /\ \A x \in S : f[x] <= SumFunctionOnSet(f, S)
<1>1. ASSUME NEW s \in SUBSET S PROVE SumFunctionOnSet(f, s) \in Nat
  <2> DEFINE z == [x \in s |-> 0]
  <2>0. IsFiniteSet(s)
      BY FS_Subset
  <2>1. SumFunctionOnSet(z, s) = 0
      BY <2>0, SumZero
  <2>2. SumFunctionOnSet(z, s) <= SumFunctionOnSet(f, s)
    <3>1. \A x \in s : z[x] \in Int /\ f[x] \in Int /\ z[x] <= f[x]
        OBVIOUS
    <3> HIDE DEF z
    <3> QED
        BY <2>0, <3>1, SumMonotone
  <2>3. SumFunctionOnSet(f, s) \in Int
      BY <2>0, SumInt
  <2> QED
      BY <2>1, <2>2, <2>3
<1>2. ASSUME NEW x \in S PROVE f[x] <= SumFunctionOnSet(f, S)
  <2>1. SumFunctionOnSet(f, S) = f[x] + SumFunctionOnSet(f, S \ {x})
      BY SumRemove
  <2>2. SumFunctionOnSet(f, S \ {x}) \in Nat
      BY <1>1
  <2> QED
      BY <2>1, <2>2
<1> QED
    BY <1>1, <1>2

(* A sum of which every term but one is 0. *)
LEMMA SumOnly ==
    ASSUME NEW S, IsFiniteSet(S), NEW f, NEW x, \A y \in S : y # x => f[y] = 0,
           x \in S => f[x] \in Int
    PROVE  SumFunctionOnSet(f, S) = IF x \in S THEN f[x] ELSE 0
<1>1. CASE x \notin S
    BY <1>1, SumZero
<1>2. CASE x \in S
  <2>1. IsFiniteSet(S \ {x})
      BY FS_Subset
  <2>2. SumFunctionOnSet(f, S \ {x}) = 0
      BY <2>1, SumZero
  <2>3. \A y \in S : f[y] \in Int
      BY <1>2
  <2>4. SumFunctionOnSet(f, S) = f[x] + SumFunctionOnSet(f, S \ {x})
      BY <1>2, <2>3, SumRemove
  <2> QED
      BY <1>2, <2>2, <2>3, <2>4
<1> QED
    BY <1>1, <1>2

(* Changing one term changes the sum by the difference. *)
LEMMA SumUpdate ==
    ASSUME NEW S, IsFiniteSet(S), NEW f, NEW g, NEW x \in S,
           \A y \in S : f[y] \in Int /\ g[y] \in Int,
           \A y \in S : y # x => g[y] = f[y]
    PROVE  SumFunctionOnSet(g, S) = SumFunctionOnSet(f, S) + (g[x] - f[x])
<1> DEFINE rest == S \ {x}
<1>1. IsFiniteSet(rest)
    BY FS_RemoveElement
<1>2. SumFunctionOnSet(f, S) = f[x] + SumFunctionOnSet(f, rest)
    BY SumRemove
<1>3. SumFunctionOnSet(g, S) = g[x] + SumFunctionOnSet(g, rest)
    BY SumRemove
<1>4. \A y \in rest : f[y] = g[y] /\ f[y] \in Int
    OBVIOUS
<1> HIDE DEF rest
<1>5. SumFunctionOnSet(f, rest) = SumFunctionOnSet(g, rest)
    BY <1>1, <1>4, SumSame
<1>6. SumFunctionOnSet(f, rest) \in Int
    BY <1>1, <1>4, SumInt
<1> QED
    BY <1>2, <1>3, <1>5, <1>6

(* The sum over two sets that are disjoint is the sum of their sums. *)
LEMMA SumUnion ==
    ASSUME NEW A, IsFiniteSet(A), NEW B, IsFiniteSet(B), A \cap B = {},
           NEW f, \A x \in A \cup B : f[x] \in Int
    PROVE  SumFunctionOnSet(f, A \cup B) = SumFunctionOnSet(f, A) + SumFunctionOnSet(f, B)
<1> DEFINE Sum(s) == SumFunctionOnSet(f, s)
           P == {s \in SUBSET A : Sum(s \cup B) = Sum(s) + Sum(B)}
<1>0. Sum(B) \in Int
    BY SumInt
<1>1. ASSUME NEW s \in SUBSET A, \A t \in SUBSET s : t # s => t \in P
      PROVE  s \in P
  <2>1. CASE s = {}
    <3>1. s \cup B = B
        BY <2>1
    <3>2. Sum(s) = 0
        BY Zenon, <2>1, SumEmpty
    <3> HIDE DEF Sum
    <3>3. Sum(s \cup B) = Sum(B)
        BY Zenon, <3>1
    <3>4. 0 + Sum(B) = Sum(B)
        BY <1>0
    <3>5. Sum(s \cup B) = Sum(s) + Sum(B)
        BY Zenon, <3>2, <3>3, <3>4
    <3> QED
        BY <3>5
  <2>2. CASE s # {}
    <3> DEFINE e == ChosenOf(s)
               r == s \ {e}
    <3>1. e \in s /\ IsFiniteSet(s) /\ IsFiniteSet(r) /\ IsFiniteSet(s \cup B)
        BY <2>2, ChosenIn, FS_Subset, FS_Union
    <3>2. Sum(r \cup B) = Sum(r) + Sum(B)
        BY <1>1, <3>1
    <3>3. Sum(s) = f[e] + Sum(r)
        BY <2>2, <3>1, SumChosen
    <3>4. (s \cup B) \ {e} = r \cup B /\ e \in s \cup B
        BY <3>1
    <3>5. Sum(s \cup B) = f[e] + Sum(r \cup B)
      <4>1. \A x \in s \cup B : f[x] \in Int
          OBVIOUS
      <4> HIDE DEF e
      <4> QED
          BY <3>1, <3>4, <4>1, SumRemove
    <3>6. Sum(r) \in Int /\ f[e] \in Int
        BY <3>1, SumInt
    <3> HIDE DEF Sum, e, r
    <3>7. Sum(s \cup B) = Sum(s) + Sum(B)
        BY <1>0, <3>2, <3>3, <3>5, <3>6
    <3> QED
        BY <3>7
  <2> QED
      BY <2>1, <2>2
<1> HIDE DEF P
<1>2. A \in P
    BY <1>1, SubsetInduction
<1> QED
    BY <1>2 DEF P

LEMMA SumOfFunction ==
    ASSUME NEW f
    PROVE  SumFunction(f) = SumFunctionOnSet(f, DOMAIN f)
BY DEF SumFunction

-----------------------------------------------------------------------------
(* Order.  A finite set of integers that is not empty has a greatest       *)
(* element; the set can be listed in ascending order, and a list that is   *)
(* ascending holds every element once.                                     *)
LEMMA GreatestElement ==
    ASSUME NEW S \in SUBSET Int, IsFiniteSet(S), S # {}
    PROVE  \E m \in S : \A y \in S : y <= m
<1> DEFINE P == {s \in SUBSET S : s = {} \/ \E m \in s : \A y \in s : y <= m}
<1>1. ASSUME NEW s \in SUBSET S, \A t \in SUBSET s : t # s => t \in P
      PROVE  s \in P
  <2> SUFFICES ASSUME NEW c \in s PROVE \E m \in s : \A y \in s : y <= m
      OBVIOUS
  <2>1. s \ {c} \in P
      BY <1>1
  <2>2. CASE s \ {c} = {}
      BY <2>2
  <2>3. CASE \E m \in s \ {c} : \A y \in s \ {c} : y <= m
    <3>1. PICK m \in s \ {c} : \A y \in s \ {c} : y <= m
        BY <2>3
    <3>2. CASE c <= m
        BY <3>1, <3>2
    <3>3. CASE m <= c
        BY <3>1, <3>3
    <3>4. m \in Int /\ c \in Int
        OBVIOUS
    <3> QED
        BY <3>2, <3>3, <3>4
  <2> QED
      BY <2>1, <2>2, <2>3
<1> HIDE DEF P
<1>2. S \in P
    BY <1>1, SubsetInduction
<1> QED
    BY <1>2 DEF P

Increasing(s, k) == \A a, b \in 1..k : a < b => s[a] < s[b]

LEMMA IncreasingOnto ==
    ASSUME NEW S \in SUBSET Int, IsFiniteSet(S),
           NEW s \in [1..Cardinality(S) -> S], Increasing(s, Cardinality(S))
    PROVE  /\ \A a, b \in 1..Cardinality(S) : s[a] = s[b] => a = b
           /\ \A x \in S : \E k \in 1..Cardinality(S) : s[k] = x
<1> DEFINE k == Cardinality(S)
<1>1. k \in Nat
    BY FS_CardinalityType
<1> HIDE DEF k
<1>2. ASSUME NEW a \in 1..k, NEW b \in 1..k, s[a] = s[b] PROVE a = b
  <2>1. s \in [1..k -> S] /\ Increasing(s, k)
      BY DEF k
  <2>2. s[a] \in Int /\ s[b] \in Int
      BY <2>1
  <2>3. a < b => s[a] < s[b]
      BY <2>1 DEF Increasing
  <2>4. b < a => s[b] < s[a]
      BY <2>1 DEF Increasing
  <2>5. ~(a < b) /\ ~(b < a)
      BY <1>2, <2>2, <2>3, <2>4
  <2> QED
      BY <1>1, <2>5
<1>3. s \in Injection(1..k, S)
    BY <1>2 DEF Injection, IsInjective, k
<1>4. Cardinality(1..k) = k
    BY <1>1, FS_Interval
<1>5. s \in Surjection(1..k, S)
    BY <1>3, <1>4, FS_Injection DEF k
<1> QED
    BY <1>2, <1>5 DEF Surjection, k

LEMMA IncreasingExists ==
    ASSUME NEW S \in SUBSET Int, IsFiniteSet(S)
    PROVE  \E s \in [1..Cardinality(S) -> S] : Increasing(s, Cardinality(S))
<1> DEFINE Lists(R) == {s \in [1..Cardinality(R) -> R] : Increasing(s, Cardinality(R))}
           P == {R \in SUBSET S : Lists(R) # {}}
<1>1. ASSUME NEW R \in SUBSET S, \A t \in SUBSET R : t # R => t \in P
      PROVE  R \in P
  <2>1. IsFiniteSet(R) /\ Cardinality(R) \in Nat
      BY FS_Subset, FS_CardinalityType
  <2>2. CASE R = {}
    <3>1. Cardinality(R) = 0
        BY <2>2, FS_EmptySet
    <3>2. [k \in 1..Cardinality(R) |-> k] \in Lists(R)
        BY <3>1 DEF Increasing
    <3> QED
        BY <3>2
  <2>3. CASE R # {}
    <3>1. PICK m \in R : \A y \in R : y <= m
        BY <2>1, <2>3, GreatestElement
    <3> DEFINE Q == R \ {m}
               k == Cardinality(Q)
    <3>2. Q \in P /\ Cardinality(R) = k + 1 /\ k \in Nat
      <4>1. Q \in SUBSET R /\ Q # R
          OBVIOUS
      <4>2. Q \in P
          BY <1>1, <4>1
      <4>3. IsFiniteSet(Q) /\ k = Cardinality(R) - 1
          BY <2>1, FS_RemoveElement
      <4>4. k \in Nat
          BY <4>3, FS_CardinalityType
      <4> HIDE DEF k, P
      <4> QED
          BY <2>1, <4>2, <4>3, <4>4
    <3>3. PICK s \in [1..k -> Q] : Increasing(s, k)
        BY <3>2
    <3> HIDE DEF k
    <3> DEFINE r == [i \in 1..(k + 1) |-> IF i = k + 1 THEN m ELSE s[i]]
    <3>4. \A i \in 1..(k + 1) : i # k + 1 => i \in 1..k
        BY <3>2
    <3>5. r \in [1..(k + 1) -> R]
        BY <3>3, <3>4
    <3>6. \A y \in Q : y < m
        BY <3>1
    <3>7. ASSUME NEW a \in 1..(k + 1), NEW b \in 1..(k + 1), a < b
          PROVE  r[a] < r[b]
      <4>1. a \in 1..k /\ r[a] = s[a]
          BY <3>2, <3>7
      <4>2. CASE b = k + 1
          BY <3>3, <3>6, <4>1, <4>2
      <4>3. CASE b \in 1..k
          BY <3>2, <3>3, <3>7, <4>1, <4>3 DEF Increasing
      <4> QED
          BY <3>4, <4>2, <4>3
    <3>8. r \in Lists(R)
        BY <3>2, <3>5, <3>7 DEF Increasing
    <3> QED
        BY <3>8
  <2> QED
      BY <2>2, <2>3
<1> HIDE DEF P
<1>2. S \in P
    BY <1>1, SubsetInduction
<1> QED
    BY <1>2 DEF P
(* How many numbers there are from p on, below p + k. *)
LEMMA IntervalSize ==
    ASSUME NEW p \in Int, NEW k \in Nat
    PROVE  IsFiniteSet(p..p + k - 1) /\ Cardinality(p..p + k - 1) = k
<1> PICK q \in Int : q = p + k - 1
    OBVIOUS
<1>1. IsFiniteSet(p..q) /\ Cardinality(p..q) = IF p > q THEN 0 ELSE q - p + 1
    BY FS_Interval
<1>2. (IF p > q THEN 0 ELSE q - p + 1) = k
    OBVIOUS
<1> QED
    BY <1>1, <1>2

(* A buffer of n blocks of m cells: counting the cells of a set of which    *)
(* block w holds the first len[w].                                          *)
LEMMA CountBlocks ==
    ASSUME NEW n \in Nat, NEW m \in Nat, NEW len \in [0..n - 1 -> 0..m],
           NEW L \in SUBSET (0..n * m - 1),
           \A w \in 0..n - 1, s \in 0..m - 1 : w * m + s \in L <=> s < len[w]
    PROVE  Cardinality(L) = SumFunctionOnSet(len, 0..n - 1)
<1> DEFINE Part(k) == L \cap (0..k * m - 1)
           T == {k \in Nat : k <= n =>
                    /\ IsFiniteSet(Part(k))
                    /\ Cardinality(Part(k)) = SumFunctionOnSet(len, 0..k - 1)}
<1>1. 0 \in T
  <2>1. Part(0) = {} /\ 0..0 - 1 = {}
      OBVIOUS
  <2> HIDE DEF Part
  <2> QED
      BY <2>1, SumEmpty, FS_EmptySet
<1>2. ASSUME NEW k \in T PROVE k + 1 \in T
  <2> SUFFICES ASSUME k + 1 <= n
               PROVE  /\ IsFiniteSet(Part(k + 1))
                      /\ Cardinality(Part(k + 1)) = SumFunctionOnSet(len, 0..k + 1 - 1)
      OBVIOUS
  <2>1. k \in Nat /\ k \in 0..n - 1 /\ k <= n
      OBVIOUS
  <2>2. /\ IsFiniteSet(Part(k))
        /\ Cardinality(Part(k)) = SumFunctionOnSet(len, 0..k - 1)
      BY <2>1
  <2>3. len[k] \in 0..m
      BY <2>1
  <2> DEFINE p == k * m
             block == p..p + len[k] - 1
  <2>4. p \in Nat /\ (k + 1) * m = p + m
      BY <2>1
  <2>5. \A s \in 0..m - 1 : p + s \in L <=> s < len[k]
      BY <2>1
  <2>6. Part(k) = L \cap (0..p - 1) /\ Part(k + 1) = L \cap (0..p + m - 1)
      BY <2>4
  <2> HIDE DEF p, Part
  <2>7. Part(k + 1) = Part(k) \cup block
    <3>1. ASSUME NEW c \in Int, p <= c, c < p + m PROVE c \in L <=> c \in block
      <4>1. c - p \in 0..m - 1 /\ p + (c - p) = c
          BY <2>4, <3>1
      <4>2. c \in L <=> c - p < len[k]
          BY <2>5, <4>1
      <4> QED
          BY <2>3, <2>4, <3>1, <4>2
    <3>2. ASSUME NEW c \in block PROVE c \in L /\ c \in 0..p + m - 1
      <4>1. c \in Int /\ p <= c /\ c < p + m
          BY <2>3, <2>4
      <4> QED
          BY <2>4, <3>1, <4>1
    <3> QED
        BY <2>3, <2>4, <2>6, <3>1, <3>2
  <2>8. Part(k) \cap block = {}
      BY <2>3, <2>4, <2>6
  <2>9. IsFiniteSet(block) /\ Cardinality(block) = len[k]
    <3>1. len[k] \in Nat /\ p \in Int
        BY <2>3, <2>4
    <3> QED
        BY <2>4, <3>1, IntervalSize, Zenon
  <2> HIDE DEF block
  <2>10. Cardinality(Part(k)) \in Nat
      BY <2>2, FS_CardinalityType
  <2>11. /\ IsFiniteSet(Part(k + 1))
         /\ Cardinality(Part(k + 1)) = Cardinality(Part(k)) + len[k]
    <3>1. Cardinality(Part(k) \cap block) = 0
        BY <2>8, FS_EmptySet
    <3>2. /\ IsFiniteSet(Part(k) \cup block)
          /\ Cardinality(Part(k) \cup block)
                 = Cardinality(Part(k)) + Cardinality(block)
                       - Cardinality(Part(k) \cap block)
        BY <2>2, <2>9, FS_Union
    <3> DEFINE a == Cardinality(Part(k))
               b == Cardinality(block)
               d == Cardinality(Part(k) \cap block)
    <3>3. a + b - d = a + len[k]
      <4> HIDE DEF a, b, d
      <4>1. a \in Nat /\ b = len[k] /\ b \in Nat /\ d = 0
          BY <2>3, <2>9, <2>10, <3>1 DEF a, b, d
      <4> QED
          BY <4>1
    <3> QED
        BY <2>7, <3>2, <3>3
  <2>12. SumFunctionOnSet(len, 0..k) = len[k] + SumFunctionOnSet(len, 0..k - 1)
    <3> DEFINE before == 0..k - 1
    <3>1. 0..k = before \cup {k} /\ k \notin before
        BY <2>1
    <3>0. 0 \in Int /\ k - 1 \in Int
        BY <2>1
    <3>3. IsFiniteSet(before)
        BY <3>0, FS_Interval
    <3>2. len[k] \in Int /\ \A y \in 0..k - 1 : len[y] \in Int
        BY <2>1
    <3> QED
        BY <3>1, <3>2, <3>3, SumAdd
  <2>13. k + 1 - 1 = k
      BY <2>1
  <2> QED
      BY <2>2, <2>3, <2>10, <2>11, <2>12, <2>13
<1>3. n \in T
  <2> HIDE DEF T
  <2> QED
      BY <1>1, <1>2, SetInduction
<1>4. Part(n) = L
    OBVIOUS
<1> HIDE DEF Part
<1> QED
    BY <1>3, <1>4

-----------------------------------------------------------------------------
(* Counting by one-to-one maps. *)

(* Bijections: what makes one, its inverse, and one after another. *)
LEMMA BijectionFacts ==
    ASSUME NEW S, NEW T, NEW f \in Bijection(S, T)
    PROVE  /\ f \in [S -> T] /\ \A x, y \in S : f[x] = f[y] => x = y
           /\ \A t \in T : \E x \in S : f[x] = t
BY DEF Bijection, Injection, Surjection, IsInjective

LEMMA InverseBijection ==
    ASSUME NEW S, NEW T, NEW f \in Bijection(S, T)
    PROVE  \E b \in Bijection(T, S) : \A t \in T : f[b[t]] = t
<1> DEFINE b == [t \in T |-> CHOOSE x \in S : f[x] = t]
<1>1. \A t \in T : b[t] \in S /\ f[b[t]] = t
    BY BijectionFacts
<1>2. b \in [T -> S]
    BY <1>1
<1>3. \A x \in S : f[x] \in T /\ b[f[x]] = x
  <2> HIDE DEF b
  <2> QED
      BY <1>1, BijectionFacts
<1> HIDE DEF b
<1>4. b \in Bijection(T, S)
    BY <1>1, <1>2, <1>3 DEF Bijection, Injection, Surjection, IsInjective
<1> QED
    BY <1>1, <1>4

LEMMA ComposedBijection ==
    ASSUME NEW S, NEW T, NEW p \in Bijection(S, S), NEW b \in Bijection(S, T)
    PROVE  [x \in S |-> b[p[x]]] \in Bijection(S, T)
<1> DEFINE c == [x \in S |-> b[p[x]]]
<1>1. c \in [S -> T] /\ \A x, y \in S : c[x] = c[y] => x = y
    BY SMTT(30), BijectionFacts
<1>2. \A t \in T : \E x \in S : c[x] = t
    BY BijectionFacts
<1> HIDE DEF c
<1>3. c \in Bijection(S, T)
    BY <1>1, <1>2 DEF Bijection, Injection, Surjection, IsInjective
<1> QED
    BY <1>3 DEF c

LEMMA ExtendedBijection ==
    ASSUME NEW n \in Nat, NEW T, NEW b \in Bijection(0..n - 1, T), NEW x, x \notin T
    PROVE  [k \in 0..n |-> IF k = n THEN x ELSE b[k]] \in Bijection(0..n, T \cup {x})
<1> DEFINE K == 0..n - 1
           L == 0..n
           c == [k \in L |-> IF k = n THEN x ELSE b[k]]
<1>1. K = L \ {n} /\ n \in L
    OBVIOUS
<1>2. b \in Bijection(K, T)
    OBVIOUS
<1> HIDE DEF K, L
<1>3. /\ b \in [K -> T] /\ \A i, j \in K : b[i] = b[j] => i = j
      /\ \A t \in T : \E i \in K : b[i] = t
    BY <1>2, BijectionFacts
<1>4. /\ c \in [L -> T \cup {x}] /\ c[n] = x
      /\ \A k \in K : c[k] = b[k] /\ b[k] \in T /\ b[k] # x
    BY <1>1, <1>3
<1> HIDE DEF c
<1>5. \A i, j \in L : c[i] = c[j] => i = j
    BY <1>1, <1>3, <1>4
<1>6. \A t \in T \cup {x} : \E i \in L : c[i] = t
    BY <1>1, <1>3, <1>4
<1>7. c \in Bijection(L, T \cup {x})
    BY <1>4, <1>5, <1>6 DEF Bijection, Injection, Surjection, IsInjective
<1> QED
    BY <1>7 DEF c, L

(* The values of two sequences, one after the other. *)
LEMMA RangeConcat ==
    ASSUME NEW T, NEW s \in Seq(T), NEW t \in Seq(T)
    PROVE  Range(s \o t) = Range(s) \cup Range(t)
<1>1. /\ Len(s) \in Nat /\ Len(t) \in Nat /\ s \o t \in Seq(T)
      /\ Len(s \o t) = Len(s) + Len(t)
      /\ \A i \in 1..Len(s) : (s \o t)[i] = s[i]
      /\ \A i \in 1..Len(t) : (s \o t)[Len(s) + i] = t[i]
    OBVIOUS
<1>2. /\ DOMAIN s = 1..Len(s) /\ DOMAIN t = 1..Len(t)
      /\ DOMAIN (s \o t) = 1..Len(s) + Len(t)
    BY <1>1, LenProperties
<1>3. \A i \in 1..Len(s) + Len(t) :
          i \in 1..Len(s) \/ \E j \in 1..Len(t) : i = Len(s) + j
  <2> SUFFICES ASSUME NEW i \in 1..Len(s) + Len(t), i \notin 1..Len(s)
               PROVE  \E j \in 1..Len(t) : i = Len(s) + j
      OBVIOUS
  <2>1. i - Len(s) \in 1..Len(t) /\ i = Len(s) + (i - Len(s))
      BY <1>1
  <2> QED
      BY <2>1
<1>4. /\ \A i \in 1..Len(s) : i \in 1..Len(s) + Len(t)
      /\ \A j \in 1..Len(t) : Len(s) + j \in 1..Len(s) + Len(t)
    BY <1>1
<1> DEFINE c == s \o t
<1> HIDE DEF c
<1>5. ASSUME NEW x \in Range(c) PROVE x \in Range(s) \cup Range(t)
  <2>1. PICK i \in 1..Len(s) + Len(t) : x = c[i]
      BY <1>2 DEF Range, c
  <2> QED
      BY <1>1, <1>2, <1>3, <2>1 DEF Range, c
<1>6. ASSUME NEW x \in Range(s) \cup Range(t) PROVE x \in Range(c)
  <2>1. CASE x \in Range(s)
    <3>1. PICK i \in 1..Len(s) : x = s[i]
        BY <1>2, <2>1 DEF Range
    <3>2. c[i] = x /\ i \in DOMAIN c
        BY <1>1, <1>2, <1>4, <3>1 DEF c
    <3> QED
        BY <3>2 DEF Range
  <2>2. CASE x \in Range(t)
    <3>1. PICK j \in 1..Len(t) : x = t[j]
        BY <1>2, <2>2 DEF Range
    <3>2. c[Len(s) + j] = x /\ Len(s) + j \in DOMAIN c
        BY <1>1, <1>2, <1>4, <3>1 DEF c
    <3> QED
        BY <3>2 DEF Range
  <2> QED
      BY <2>1, <2>2
<1> QED
    BY <1>5, <1>6 DEF c

(* A function on 1..d is a sequence. *)
LEMMA ListIsSeq ==
    ASSUME NEW T, NEW d \in Nat, NEW s \in [1..d -> T]
    PROVE  s \in Seq(T) /\ Len(s) = d /\ DOMAIN s = 1..d
<1>1. s \in Seq(T) /\ DOMAIN s = 1..d
    BY SeqDef
<1>2. Len(s) \in Nat /\ 1..Len(s) = 1..d
    BY <1>1, LenProperties
<1> QED
    BY <1>1, <1>2

(* The values a function takes on a finite set. *)
LEMMA FiniteImage ==
    ASSUME NEW S, IsFiniteSet(S), NEW f
    PROVE  IsFiniteSet({f[x] : x \in S})
<1> DEFINE T == {f[x] : x \in S}
           g == [x \in S |-> f[x]]
<1>1. g \in Surjection(S, T)
    BY DEF Surjection
<1> HIDE DEF g, T
<1>2. IsFiniteSet(T)
    BY <1>1, FS_Surjection
<1> QED
    BY <1>2 DEF T

(* A one-to-one map between finite sets of one size reaches everything. *)
LEMMA OneToOneOnto ==
    ASSUME NEW S, NEW T, IsFiniteSet(S), IsFiniteSet(T), Cardinality(S) = Cardinality(T),
           NEW f \in [S -> T], \A x, y \in S : f[x] = f[y] => x = y
    PROVE  f \in Bijection(S, T)
<1>1. f \in Injection(S, T)
    BY DEF Injection, IsInjective
<1>2. f \in Surjection(S, T)
    BY <1>1, FS_Injection
<1> QED
    BY <1>1, <1>2 DEF Bijection

(* Subsets that correspond under a bijection are of the same size. *)
LEMMA SameSize ==
    ASSUME NEW S, NEW T, IsFiniteSet(S), NEW b \in Bijection(S, T),
           NEW A \in SUBSET S, NEW C \in SUBSET T, \A x \in S : x \in A <=> b[x] \in C
    PROVE  Cardinality(A) = Cardinality(C)
<1> DEFINE g == [x \in A |-> b[x]]
<1>1. /\ b \in [S -> T] /\ \A x, y \in S : b[x] = b[y] => x = y
      /\ \A t \in T : \E x \in S : b[x] = t
    BY DEF Bijection, Injection, Surjection, IsInjective
<1>2. g \in [A -> C]
    BY <1>1
<1>3. \A x, y \in A : g[x] = g[y] => x = y
    BY <1>1
<1>4. \A t \in C : \E x \in A : g[x] = t
    BY <1>1
<1> HIDE DEF g
<1>5. g \in Bijection(A, C)
    BY <1>2, <1>3, <1>4 DEF Bijection, Injection, Surjection, IsInjective
<1>6. IsFiniteSet(A)
    BY FS_Subset
<1> QED
    BY <1>5, <1>6, FS_Bijection DEF ExistsBijection

(* The elements of a finite set that R orders have the ranks 0, 1, 2, ... *)
RankIn(S, R, e) == Cardinality({f \in S : <<f, e>> \in R})

LEMMA Ranks ==
    ASSUME NEW S, IsFiniteSet(S), NEW R,
           \A e \in S : <<e, e>> \notin R,
           \A d, e, f \in S : <<d, e>> \in R /\ <<e, f>> \in R => <<d, f>> \in R,
           \A d, e \in S : d # e => <<d, e>> \in R \/ <<e, d>> \in R
    PROVE  [e \in S |-> RankIn(S, R, e)] \in Bijection(S, 0..Cardinality(S) - 1)
<1> DEFINE Below(e) == {f \in S : <<f, e>> \in R}
           n == Cardinality(S)
<1>1. n \in Nat
    BY FS_CardinalityType
<1>2. ASSUME NEW e \in S
      PROVE  IsFiniteSet(Below(e)) /\ Cardinality(Below(e)) \in 0..n - 1
  <2>1. Below(e) \in SUBSET (S \ {e})
      OBVIOUS
  <2>2. IsFiniteSet(S \ {e}) /\ Cardinality(S \ {e}) = n - 1
      BY FS_RemoveElement
  <2> HIDE DEF Below, n
  <2>3. IsFiniteSet(Below(e)) /\ Cardinality(Below(e)) <= n - 1
      BY <2>1, <2>2, FS_Subset
  <2>4. Cardinality(Below(e)) \in Nat
      BY <2>3, FS_CardinalityType
  <2> QED
      BY <1>1, <2>3, <2>4
<1>3. ASSUME NEW d \in S, NEW e \in S, <<d, e>> \in R
      PROVE  Cardinality(Below(d)) # Cardinality(Below(e))
  <2>1. Below(d) \in SUBSET Below(e) /\ d \in Below(e) /\ d \notin Below(d)
      BY <1>3
  <2>2. IsFiniteSet(Below(e))
      BY <1>2
  <2> HIDE DEF Below
  <2> QED
      BY <2>1, <2>2, FS_Subset
<1> DEFINE rank == [e \in S |-> RankIn(S, R, e)]
<1>4. /\ rank \in [S -> 0..n - 1]
      /\ \A d, e \in S : rank[d] = rank[e] => d = e
  <2>1. \A e \in S : rank[e] = Cardinality(Below(e))
      BY DEF RankIn
  <2>2. rank = [e \in S |-> rank[e]]
      OBVIOUS
  <2>3. ASSUME NEW d \in S, NEW e \in S, rank[d] = rank[e] PROVE d = e
    <3>1. Cardinality(Below(d)) = Cardinality(Below(e))
        BY <2>1, <2>3
    <3>2. <<d, e>> \notin R /\ <<e, d>> \notin R
      <4> HIDE DEF Below, rank
      <4> QED
          BY <1>3, <3>1
    <3> QED
        BY <3>2
  <2> HIDE DEF rank, Below, n
  <2>4. \A e \in S : rank[e] \in 0..n - 1
      BY <1>2, <2>1
  <2> QED
      BY <2>2, <2>3, <2>4
<1>5. IsFiniteSet(0..n - 1) /\ Cardinality(0..n - 1) = n
  <2>1. 0 \in Int
      OBVIOUS
  <2> HIDE DEF n
  <2>2. 0 + n - 1 = n - 1
      BY <1>1
  <2>3. IsFiniteSet(0..0 + n - 1) /\ Cardinality(0..0 + n - 1) = n
      BY <1>1, <2>1, IntervalSize, Zenon
  <2> QED
      BY <2>2, <2>3
<1> HIDE DEF rank
<1>6. rank \in Bijection(S, 0..n - 1)
    BY <1>4, <1>5, OneToOneOnto
<1> QED
    BY <1>6 DEF rank

(* Positions that go up by natural numbers never go down. *)
LEMMA Stairs ==
    ASSUME NEW n \in Nat, NEW o \in [0..n -> Nat],
           \A v \in 0..n - 1 : o[v] <= o[v + 1]
    PROVE  \A a, b \in 0..n : a <= b => o[a] <= o[b]
<1> SUFFICES ASSUME NEW a \in 0..n, NEW b \in 0..n, a <= b PROVE o[a] <= o[b]
    OBVIOUS
<1> DEFINE T == {k \in Nat : a + k <= n => o[a] <= o[a + k]}
<1>1. 0 \in T
    OBVIOUS
<1>2. ASSUME NEW k \in T PROVE k + 1 \in T
  <2> SUFFICES ASSUME a + (k + 1) <= n PROVE o[a] <= o[a + (k + 1)]
      OBVIOUS
  <2>1. k \in Nat /\ o[a] <= o[a + k]
      BY <1>2
  <2>2. /\ a + k \in 0..n - 1 /\ a + (k + 1) = (a + k) + 1
        /\ o[a] \in Nat /\ o[a + k] \in Nat /\ o[(a + k) + 1] \in Nat
      BY <2>1
  <2>3. o[a + k] <= o[(a + k) + 1]
      BY <2>2
  <2> QED
      BY <2>1, <2>2, <2>3
<1>3. T \subseteq Nat
    OBVIOUS
<1> PICK k \in Nat : b = a + k
    OBVIOUS
<1>4. k \in T
  <2> HIDE DEF T
  <2> QED
      BY <1>1, <1>2, <1>3, SetInduction
<1> QED
    BY <1>4

(* A prefix sum of d in o that has come to place k, with the sum so far.   *)
StepsTo(o, d, n, k, sum) ==
    /\ k = 0 => sum = 0
    /\ \A v \in 0..n - 1 : v < k => o[v] + d[v] = IF v + 1 < k THEN o[v + 1] ELSE sum

(* The slices at o, of lengths d, follow one another. *)
Consecutive(o, d, n) == \A v \in 0..n - 1 : o[v + 1] = o[v] + d[v]

LEMMA StepsOn ==
    ASSUME NEW n \in Nat, NEW o \in [0..n -> Nat], NEW d \in [0..n - 1 -> Nat],
           NEW k \in 0..n - 1, NEW sum \in Nat, StepsTo(o, d, n, k, sum)
    PROVE  StepsTo([o EXCEPT ![k] = sum], d, n, k + 1, sum + d[k])
<1> DEFINE q == [o EXCEPT ![k] = sum]
<1>1. \A a \in 0..n : q[a] = IF a = k THEN sum ELSE o[a]
    OBVIOUS
<1> HIDE DEF q
<1>2. ASSUME NEW v \in 0..n - 1, v < k + 1
      PROVE  q[v] + d[v] = IF v + 1 < k + 1 THEN q[v + 1] ELSE sum + d[k]
  <2>1. v \in 0..n /\ v + 1 \in 0..n /\ v \in Int /\ k \in Int
      OBVIOUS
  <2>2. CASE v = k
      BY <1>1, <2>1, <2>2
  <2>3. CASE v < k
    <3>1. o[v] + d[v] = IF v + 1 < k THEN o[v + 1] ELSE sum
        BY <2>3 DEF StepsTo
    <3> QED
        BY SMTT(30), <1>1, <2>1, <2>3, <3>1
  <2> QED
      BY <1>2, <2>1, <2>2, <2>3
<1> QED
    BY <1>2 DEF StepsTo, q

LEMMA StepsEnd ==
    ASSUME NEW n \in Nat, NEW o \in [0..n -> Nat], NEW d \in [0..n - 1 -> Nat],
           NEW sum \in Nat, StepsTo(o, d, n, n, sum),
           NEW q, q = [o EXCEPT ![n] = sum]
    PROVE  Consecutive(q, d, n)
<1>1. \A a \in 0..n : q[a] = IF a = n THEN sum ELSE o[a]
    OBVIOUS
<1>2. ASSUME NEW v \in 0..n - 1 PROVE q[v + 1] = q[v] + d[v]
  <2>1. v \in 0..n /\ v + 1 \in 0..n /\ v < n
      OBVIOUS
  <2>2. o[v] + d[v] = IF v + 1 < n THEN o[v + 1] ELSE sum
      BY <2>1 DEF StepsTo
  <2> QED
      BY <1>1, <2>1, <2>2
<1> QED
    BY <1>2 DEF Consecutive

(* Slices that follow one another have no place in common. *)
LEMMA SlicesDisjoint ==
    ASSUME NEW n \in Nat, NEW o \in [0..n -> Nat], NEW d \in [0..n - 1 -> Nat],
           Consecutive(o, d, n)
    PROVE  /\ \A v \in 0..n - 1 : o[v] + d[v] <= o[n]
           /\ \A v, w \in 0..n - 1 : v < w => o[v] + d[v] <= o[w]
<1>1. \A v \in 0..n - 1 : o[v] <= o[v + 1]
  <2> SUFFICES ASSUME NEW v \in 0..n - 1 PROVE o[v] <= o[v + 1]
      OBVIOUS
  <2>1. o[v + 1] = o[v] + d[v] /\ o[v] \in Nat /\ d[v] \in Nat
      BY DEF Consecutive
  <2> QED
      BY <2>1
<1>2. \A a, b \in 0..n : a <= b => o[a] <= o[b]
    BY <1>1, Stairs
<1>3. \A v \in 0..n - 1 : v + 1 \in 0..n /\ v + 1 <= n /\ n \in 0..n
    OBVIOUS
<1>4. \A v, w \in 0..n - 1 : v < w => v + 1 <= w /\ v + 1 \in 0..n /\ w \in 0..n
    OBVIOUS
<1>5. \A v, w \in 0..n - 1 : v < w => o[v + 1] <= o[w]
    BY <1>2, <1>4
<1> QED
    BY <1>2, <1>3, <1>5 DEF Consecutive

(* The values of a finite set of integers in ascending order: by rank.      *)
Sorted(S) ==
    [i \in 1..Cardinality(S) |->
        CHOOSE x \in S : Cardinality({y \in S : y < x}) = i - 1]

LEMMA SortedRight ==
    ASSUME NEW S, IsFiniteSet(S), S \subseteq Int
    PROVE  /\ Cardinality(S) \in Nat
           /\ \A i \in 1..Cardinality(S) : Sorted(S)[i] \in S
           /\ \A x \in S : \E i \in 1..Cardinality(S) : Sorted(S)[i] = x
           /\ \A i, j \in 1..Cardinality(S) : i < j => Sorted(S)[i] < Sorted(S)[j]
<1> DEFINE s == Sorted(S)
<1> DEFINE R == {p \in S \X S : p[1] < p[2]}
           n == Cardinality(S)
           rank(x) == Cardinality({y \in S : y < x})
<1>1. n \in Nat
    BY FS_CardinalityType
<1>2. \A x, y \in S : <<x, y>> \in R <=> x < y
    OBVIOUS
<1>3. \A x \in S : RankIn(S, R, x) = rank(x)
  <2> SUFFICES ASSUME NEW x \in S PROVE {y \in S : <<y, x>> \in R} = {y \in S : y < x}
      BY DEF RankIn
  <2> QED
      BY <1>2
<1> HIDE DEF R
<1>4. [x \in S |-> RankIn(S, R, x)] \in Bijection(S, 0..n - 1)
  <2>1. \A x \in S : <<x, x>> \notin R
      BY <1>2
  <2>2. \A x, y, z \in S : <<x, y>> \in R /\ <<y, z>> \in R => <<x, z>> \in R
      BY <1>2
  <2>3. \A x, y \in S : x # y => <<x, y>> \in R \/ <<y, x>> \in R
      BY <1>2
  <2> QED
      BY <2>1, <2>2, <2>3, Ranks
<1>5. /\ \A x \in S : rank(x) \in 0..n - 1
      /\ \A x, y \in S : rank(x) = rank(y) => x = y
      /\ \A k \in 0..n - 1 : \E x \in S : rank(x) = k
  <2> DEFINE f == [x \in S |-> RankIn(S, R, x)]
             K == 0..n - 1
  <2>1. f \in Bijection(S, K) /\ \A x \in S : f[x] = rank(x)
      BY <1>3, <1>4
  <2>0. /\ f \in [S -> K] /\ \A x, y \in S : f[x] = f[y] => x = y
        /\ \A k \in K : \E x \in S : f[x] = k
    <3>1. f \in Bijection(S, K)
        BY <2>1
    <3> HIDE DEF f, K
    <3> QED
        BY <3>1 DEF Bijection, Injection, Surjection, IsInjective
  <2> HIDE DEF f, K, rank
  <2>2. /\ \A x \in S : rank(x) \in K
        /\ \A x, y \in S : rank(x) = rank(y) => x = y
        /\ \A k \in K : \E x \in S : rank(x) = k
      BY <2>0, <2>1
  <2> QED
      BY <2>2 DEF K
<1>6. \A x, y \in S : x < y => rank(x) <= rank(y)
  <2> SUFFICES ASSUME NEW x \in S, NEW y \in S, x < y PROVE rank(x) <= rank(y)
      OBVIOUS
  <2> DEFINE A == {z \in S : z < x}
             B == {z \in S : z < y}
  <2>1. A \subseteq B /\ B \subseteq S
    <3>1. \A z \in S : z < x => z < y
        OBVIOUS
    <3> QED
        BY <3>1, Zenon
  <2> HIDE DEF A, B
  <2>2. IsFiniteSet(B)
      BY <2>1, FS_Subset
  <2>3. Cardinality(A) <= Cardinality(B)
      BY <2>1, <2>2, FS_Subset
  <2> QED
      BY <2>3 DEF A, B
<1>7. \A i \in 1..n : s[i] \in S /\ rank(s[i]) = i - 1
  <2> SUFFICES ASSUME NEW i \in 1..n PROVE s[i] \in S /\ rank(s[i]) = i - 1
      OBVIOUS
  <2>1. s[i] = CHOOSE x \in S : rank(x) = i - 1
      BY DEF Sorted
  <2>2. i - 1 \in 0..n - 1
      BY <1>1
  <2> HIDE DEF rank
  <2> QED
      BY <1>5, <2>1, <2>2
<1> HIDE DEF rank, n, s
<1>8. ASSUME NEW x \in S PROVE \E i \in 1..n : s[i] = x
  <2>1. PICK i \in 1..n : i - 1 = rank(x)
    <3>1. \A k \in 0..n - 1 : k + 1 \in 1..n /\ (k + 1) - 1 = k
        BY <1>1
    <3> QED
        BY <1>5, <3>1, Zenon
  <2>2. s[i] \in S /\ rank(s[i]) = rank(x)
      BY <1>7, <2>1, Zenon
  <2> QED
      BY <1>5, <2>2
<1>9. ASSUME NEW i \in 1..n, NEW j \in 1..n, i < j PROVE s[i] < s[j]
  <2>1. s[i] \in S /\ s[j] \in S /\ rank(s[i]) = i - 1 /\ rank(s[j]) = j - 1
      BY <1>7, Zenon
  <2> DEFINE x == s[i]
             y == s[j]
  <2> HIDE DEF x, y
  <2>2. /\ x \in S /\ y \in S /\ rank(x) = i - 1 /\ rank(y) = j - 1
        /\ i \in Int /\ j \in Int
      BY <1>1, <2>1 DEF x, y
  <2>3. x < y
      BY <1>6, <1>9, <2>2
  <2> QED
      BY <2>3 DEF x, y
<1> QED
    BY <1>1, <1>7, <1>8, <1>9 DEF n, s

-----------------------------------------------------------------------------
(* Binary search. *)

(* The recursion of lower_bound, with its parts named. *)
Half(r) == r[2] \div 2
Above(r) == <<r[1] + Half(r) + 1, r[2] - Half(r) - 1>>
Below(r) == <<r[1], Half(r)>>
SearchStep(B, g, r) ==
    IF r[2] = 0 THEN r[1] ELSE IF r[1] + Half(r) \in B THEN g[Above(r)] ELSE g[Below(r)]
Search(B) == CHOOSE g : g = [r \in Nat \X Nat |-> SearchStep(B, g, r)]

LEMMA SearchIsRecursion ==
    ASSUME NEW B, NEW a, NEW n
    PROVE  lower_bound(B, a, n) = Search(B)[<<a, n>>]
BY Zenon DEF lower_bound, Search, SearchStep, Half, Above, Below

LEMMA Halves ==
    ASSUME NEW r \in Nat \X Nat, r[2] # 0
    PROVE  /\ Above(r) \in Nat \X Nat /\ Below(r) \in Nat \X Nat
           /\ Half(r) \in Nat /\ Half(r) < r[2]
           /\ Above(r)[1] = r[1] + Half(r) + 1 /\ Above(r)[2] = r[2] - Half(r) - 1
           /\ Above(r)[2] < r[2] /\ Below(r)[1] = r[1] /\ Below(r)[2] = Half(r)
<1> PICK n \in Nat : n = r[2]
    OBVIOUS
<1>1. n \div 2 \in Nat /\ n \div 2 < n
    OBVIOUS
<1>2. Half(r) \in Nat /\ Half(r) < r[2] /\ r[1] \in Nat /\ r[2] \in Nat
    BY <1>1 DEF Half
<1> QED
    BY <1>2 DEF Above, Below


(* What a solution of the recursion up to length n is. *)
SearchSolves(B, g, n) == \A r \in Nat \X Nat : r[2] <= n => g[r] = SearchStep(B, g, r)

LEMMA SolutionsAgree ==
    ASSUME NEW B, NEW n \in Nat, NEW m \in Nat, NEW g, NEW h,
           SearchSolves(B, g, n), SearchSolves(B, h, m), NEW r \in Nat \X Nat,
           r[2] <= n, r[2] <= m
    PROVE  g[r] = h[r]
<1> DEFINE U == {k \in Nat : \A q \in Nat \X Nat : q[2] <= k /\ q[2] <= n /\ q[2] <= m => g[q] = h[q]}
<1>1. \A q \in Nat \X Nat : q[2] <= n /\ q[2] <= m =>
          g[q] = SearchStep(B, g, q) /\ h[q] = SearchStep(B, h, q)
    BY DEF SearchSolves
<1>2. 0 \in U
  <2>1. ASSUME NEW q \in Nat \X Nat, q[2] <= 0, q[2] <= n, q[2] <= m PROVE g[q] = h[q]
      BY <1>1, <2>1 DEF SearchStep
  <2> QED
      BY <2>1
<1>3. ASSUME NEW k \in Nat, k \in U PROVE k + 1 \in U
  <2>1. ASSUME NEW q \in Nat \X Nat, q[2] <= k + 1, q[2] <= n, q[2] <= m PROVE g[q] = h[q]
    <3>1. CASE q[2] = 0
        BY <1>1, <2>1, <3>1 DEF SearchStep
    <3>2. CASE q[2] # 0
      <4>1. /\ Above(q) \in Nat \X Nat /\ Below(q) \in Nat \X Nat
            /\ Above(q)[2] < q[2] /\ Below(q)[2] < q[2]
          BY <3>2, Halves
      <4>2. g[Above(q)] = h[Above(q)] /\ g[Below(q)] = h[Below(q)]
          BY <1>3, <2>1, <4>1
      <4> QED
          BY <1>1, <2>1, <4>2 DEF SearchStep
    <3> QED
        BY <3>1, <3>2
  <2> QED
      BY <2>1
<1>4. r[2] \in U
  <2> HIDE DEF U
  <2>1. r[2] \in Nat
      OBVIOUS
  <2> QED
      BY <1>2, <1>3, <2>1, SetInduction
<1> QED
    BY <1>4

(* The recursion is defined: shorter ranges first. *)
LEMMA SearchDefined ==
    ASSUME NEW B
    PROVE  \A r \in Nat \X Nat : Search(B)[r] = SearchStep(B, Search(B), r)
<1> DEFINE T == {n \in Nat : \E g : SearchSolves(B, g, n)}
<1>1. 0 \in T
  <2> DEFINE g == [r \in Nat \X Nat |-> r[1]]
  <2>1. \A r \in Nat \X Nat : r[2] <= 0 => g[r] = SearchStep(B, g, r)
      BY DEF SearchStep
  <2> QED
      BY <2>1 DEF SearchSolves
<1>2. ASSUME NEW n \in Nat, n \in T PROVE n + 1 \in T
  <2>1. PICK g : SearchSolves(B, g, n)
      BY <1>2
  <2> DEFINE h == [r \in Nat \X Nat |-> IF r[2] <= n THEN g[r] ELSE SearchStep(B, g, r)]
  <2>2. ASSUME NEW r \in Nat \X Nat, r[2] <= n + 1 PROVE h[r] = SearchStep(B, h, r)
    <3>1. h[r] = SearchStep(B, g, r)
        BY <2>1 DEF SearchSolves
    <3>2. CASE r[2] = 0
        BY <3>1, <3>2 DEF SearchStep
    <3>3. CASE r[2] # 0
      <4>1. /\ Above(r) \in Nat \X Nat /\ Below(r) \in Nat \X Nat
            /\ Above(r)[2] < r[2] /\ Below(r)[2] < r[2]
            /\ Above(r)[2] \in Nat /\ Below(r)[2] \in Nat
          BY <3>3, Halves
      <4>2. h[Above(r)] = g[Above(r)] /\ h[Below(r)] = g[Below(r)]
          BY <2>2, <4>1
      <4> QED
          BY <3>1, <4>2 DEF SearchStep
    <3> QED
        BY <3>2, <3>3
  <2>3. SearchSolves(B, h, n + 1)
    <3> HIDE DEF h
    <3> QED
        BY <2>2 DEF SearchSolves
  <2> HIDE DEF h
  <2> QED
      BY <2>3
<1>3. \A n \in Nat : \E g : SearchSolves(B, g, n)
  <2>1. \A n \in Nat : n \in T
    <3> HIDE DEF T
    <3> QED
        BY <1>1, <1>2, SetInduction
  <2> QED
      BY <2>1
<1> DEFINE G(n) == CHOOSE g : SearchSolves(B, g, n)
           h == [r \in Nat \X Nat |-> G(r[2])[r]]
<1>4. \A n \in Nat : SearchSolves(B, G(n), n)
    BY <1>3
<1> HIDE DEF G
<1>5. ASSUME NEW r \in Nat \X Nat PROVE h[r] = SearchStep(B, h, r)
  <2>1. h[r] = SearchStep(B, G(r[2]), r)
      BY <1>4 DEF SearchSolves
  <2>2. CASE r[2] = 0
      BY <2>1, <2>2 DEF SearchStep
  <2>3. CASE r[2] # 0
    <3>1. /\ Above(r) \in Nat \X Nat /\ Below(r) \in Nat \X Nat
          /\ Above(r)[2] < r[2] /\ Below(r)[2] < r[2]
          /\ Above(r)[2] \in Nat /\ Below(r)[2] \in Nat /\ r[2] \in Nat
        BY <2>3, Halves
    <3>2. ASSUME NEW q \in Nat \X Nat, q[2] < r[2] PROVE h[q] = G(r[2])[q]
      <4>1. q[2] \in Nat /\ q[2] <= q[2] /\ q[2] <= r[2] /\ r[2] \in Nat
          BY <3>2
      <4>2. G(q[2])[q] = G(r[2])[q]
          BY <1>4, <4>1, SolutionsAgree
      <4> QED
          BY <4>2
    <3>3. h[Above(r)] = G(r[2])[Above(r)] /\ h[Below(r)] = G(r[2])[Below(r)]
        BY <3>1, <3>2
    <3> QED
        BY <2>1, <3>3 DEF SearchStep
  <2> QED
      BY <2>2, <2>3
<1>6. h = [r \in Nat \X Nat |-> SearchStep(B, h, r)]
  <2>1. h = [r \in Nat \X Nat |-> h[r]]
      OBVIOUS
  <2> HIDE DEF h
  <2> QED
      BY <1>5, <2>1
<1> HIDE DEF h
<1>7. Search(B) = [r \in Nat \X Nat |-> SearchStep(B, Search(B), r)]
    BY <1>6, Zenon DEF Search
<1> DEFINE s == Search(B)
<1>8. s = [r \in Nat \X Nat |-> SearchStep(B, s, r)]
    BY <1>7
<1> HIDE DEF s
<1>9. \A r \in Nat \X Nat : s[r] = SearchStep(B, s, r)
    BY <1>8
<1> QED
    BY <1>9 DEF s

(* On positions of which an initial part is in B, the search returns where  *)
(* that part ends.                                                          *)
LEMMA LowerBound ==
    ASSUME NEW B, NEW a \in Nat, NEW n \in Nat,
           \A p, q \in a..a + n - 1 : p < q /\ q \in B => p \in B
    PROVE  /\ lower_bound(B, a, n) \in a..a + n
           /\ \A p \in a..a + n - 1 : p \in B <=> p < lower_bound(B, a, n)
<1> DEFINE Mono(r) == \A p, q \in r[1]..r[1] + r[2] - 1 : p < q /\ q \in B => p \in B
           Right(r, x) == /\ x \in r[1]..r[1] + r[2]
                          /\ \A p \in r[1]..r[1] + r[2] - 1 : p \in B <=> p < x
           s == Search(B)
           T == {k \in Nat : \A r \in Nat \X Nat : r[2] <= k /\ Mono(r) => Right(r, s[r])}
<1>1. \A r \in Nat \X Nat : s[r] = SearchStep(B, s, r)
    BY SearchDefined
<1> HIDE DEF s
<1>2. 0 \in T
  <2>1. ASSUME NEW r \in Nat \X Nat, r[2] <= 0 PROVE Right(r, s[r])
    <3>1. s[r] = r[1] /\ r[1] \in Nat /\ r[2] = 0
        BY <1>1, <2>1 DEF SearchStep
    <3> QED
        BY <3>1
  <2> QED
      BY <2>1
<1>3. ASSUME NEW k \in Nat, k \in T PROVE k + 1 \in T
  <2>1. ASSUME NEW r \in Nat \X Nat, r[2] <= k + 1, Mono(r) PROVE Right(r, s[r])
    <3>1. CASE r[2] = 0
      <4>1. s[r] = r[1] /\ r[1] \in Nat
          BY <1>1, <3>1 DEF SearchStep
      <4> QED
          BY <3>1, <4>1
    <3>2. CASE r[2] # 0
      <4> DEFINE up == Above(r)
                 down == Below(r)
                 mid == r[1] + Half(r)
                 h == Half(r)
                 b == r[1]
                 l == r[2]
      <4>1. /\ up \in Nat \X Nat /\ down \in Nat \X Nat
            /\ h \in Nat /\ h < l /\ b \in Nat /\ l \in Nat /\ l <= k + 1
            /\ up[1] = b + h + 1 /\ up[2] = l - h - 1
            /\ up[2] < l /\ down[1] = b /\ down[2] = h
          BY <2>1, <3>2, Halves
      <4>2. s[r] = IF b + h \in B THEN s[up] ELSE s[down]
          BY <1>1, <3>2 DEF SearchStep
      <4>3. \A p, q \in b..b + l - 1 : p < q /\ q \in B => p \in B
          BY <2>1
      <4> HIDE DEF up, down, h
      <4>4. CASE b + h \in B
        <5>1. Mono(up)
            BY <4>1, <4>3
        <5>2. up[2] <= k
            BY <4>1
        <5>3. Right(up, s[up])
            BY <1>3, <4>1, <5>1, <5>2
        <5>4. s[r] \in b + h + 1..b + l
              /\ \A p \in b + h + 1..b + l - 1 : p \in B <=> p < s[r]
            BY <4>1, <4>2, <4>4, <5>3
        <5>5. \A p \in b..b + h : p \in B
            BY <4>1, <4>3, <4>4
        <5>6. ASSUME NEW p \in b..b + l - 1 PROVE p \in B <=> p < s[r]
          <6>1. CASE p <= b + h
              BY <4>1, <5>4, <5>5, <6>1
          <6>2. CASE p > b + h
              BY <4>1, <5>4, <6>2
          <6> QED
              BY <4>1, <6>1, <6>2
        <5> QED
            BY <4>1, <5>4, <5>6
      <4>5. CASE b + h \notin B
        <5>1. Mono(down)
            BY <4>1, <4>3
        <5>2. down[2] <= k
            BY <4>1
        <5>3. Right(down, s[down])
            BY <1>3, <4>1, <5>1, <5>2
        <5>4. s[r] \in b..b + h
              /\ \A p \in b..b + h - 1 : p \in B <=> p < s[r]
            BY <4>1, <4>2, <4>5, <5>3
        <5>5. \A p \in b + h..b + l - 1 : p \notin B
            BY <4>1, <4>3, <4>5
        <5>6. ASSUME NEW p \in b..b + l - 1 PROVE p \in B <=> p < s[r]
          <6>1. CASE p < b + h
              BY <4>1, <5>4, <6>1
          <6>2. CASE p >= b + h
              BY <4>1, <5>4, <5>5, <6>2
          <6> QED
              BY <4>1, <6>1, <6>2
        <5> QED
            BY <4>1, <5>4, <5>6
      <4> QED
          BY <4>4, <4>5
    <3> QED
        BY <3>1, <3>2
  <2> QED
      BY <2>1
<1>4. n \in T
  <2> HIDE DEF T
  <2> QED
      BY <1>2, <1>3, SetInduction
<1>5. Right(<<a, n>>, s[<<a, n>>])
    BY <1>4
<1> QED
    BY <1>5, SearchIsRecursion DEF s

-----------------------------------------------------------------------------
(* The input's vertices. *)
LEMMA CallTypes ==
    ASSUME NEW c, Callable(c)
    PROVE  /\ Len(c.edges) \in Nat
           /\ \A i \in 1..Len(c.edges) : /\ c.edges[i].u \in Nat /\ c.edges[i].v \in Nat
                                          /\ c.edges[i].t \in Int
<1>1. c.edges \in Seq(Edge)
    BY DEF Callable
<1>2. Len(c.edges) \in Nat /\ \A i \in 1..Len(c.edges) : c.edges[i] \in Edge
    BY <1>1
<1> QED
    BY <1>2 DEF Edge

LEMMA IdsFinite ==
    ASSUME NEW c, Callable(c)
    PROVE  IsFiniteSet(IdsOf(c)) /\ IdsOf(c) \subseteq Nat
<1> DEFINE I == 1..Len(c.edges)
           f == [i \in I |-> {c.edges[i].u, c.edges[i].v}]
           P == {f[i] : i \in I}
<1>1. /\ Len(c.edges) \in Nat
      /\ \A i \in I : c.edges[i].u \in Nat /\ c.edges[i].v \in Nat
    BY CallTypes
<1>2. IsFiniteSet(I)
    BY <1>1, FS_Interval
<1>3. IdsOf(c) = UNION P
    BY DEF IdsOf
<1>4. \A x, y : IsFiniteSet({x, y})
  <2> SUFFICES ASSUME NEW x, NEW y PROVE IsFiniteSet({x, y})
      OBVIOUS
  <2>1. IsFiniteSet({x}) /\ {x, y} = {x} \cup {y}
      BY FS_Singleton
  <2> QED
      BY <2>1, FS_AddElement
<1>5. \A T \in P : IsFiniteSet(T)
  <2> SUFFICES ASSUME NEW i \in I PROVE IsFiniteSet(f[i])
      OBVIOUS
  <2>1. f[i] = {c.edges[i].u, c.edges[i].v}
      OBVIOUS
  <2> HIDE DEF f, I
  <2> QED
      BY <1>4, <2>1
<1>6. UNION P \subseteq Nat
    BY <1>1
<1> HIDE DEF I, f
<1>7. IsFiniteSet(P)
    BY <1>2, FiniteImage
<1> HIDE DEF P
<1>8. IsFiniteSet(UNION P)
    BY <1>5, <1>7, FS_UNION
<1> QED
    BY <1>3, <1>6, <1>8

LEMMA SizeCovers ==
    ASSUME NEW c, Callable(c)
    PROVE  /\ VertexCountOf(c) \in Nat
           /\ c.num_vertices < 0 => \A id \in IdsOf(c) : id < VertexCountOf(c)
           /\ VertexCountOf(c) # 0 =>
                  \A i \in 1..Len(c.edges) : /\ c.edges[i].u \in 0..VertexCountOf(c) - 1
                                             /\ c.edges[i].v \in 0..VertexCountOf(c) - 1
<1>1. /\ c.num_vertices \in Int
      /\ \A i \in 1..Len(c.edges) : c.edges[i].u \in Nat /\ c.edges[i].v \in Nat
    BY CallTypes DEF Callable
<1>2. CASE c.num_vertices >= 0
    BY <1>1, <1>2 DEF Callable, VertexCountOf
<1>3. CASE ~(c.num_vertices >= 0)
  <2> DEFINE Sizes == {0} \cup {id + 1 : id \in IdsOf(c)}
  <2>1. IsFiniteSet(IdsOf(c)) /\ IdsOf(c) \subseteq Nat
      BY IdsFinite
  <2>2. \E n \in Sizes : \A id \in IdsOf(c) : id < n
    <3>1. CASE IdsOf(c) = {}
        BY <3>1
    <3>2. CASE IdsOf(c) # {}
      <4>1. IdsOf(c) \in SUBSET Int
          BY <2>1
      <4>2. PICK m \in IdsOf(c) : \A y \in IdsOf(c) : y <= m
          BY <2>1, <3>2, <4>1, GreatestElement
      <4>3. m + 1 \in Sizes /\ \A y \in IdsOf(c) : y < m + 1
          BY <2>1, <4>2
      <4> QED
          BY <4>3
    <3> QED
        BY <3>1, <3>2
  <2>3. VertexCountOf(c) = CHOOSE n \in Sizes : \A id \in IdsOf(c) : id < n
      BY <1>3 DEF VertexCountOf
  <2>4. Sizes \subseteq Nat
      BY <2>1
  <2> HIDE DEF Sizes
  <2>5. VertexCountOf(c) \in Nat /\ \A id \in IdsOf(c) : id < VertexCountOf(c)
      BY <2>2, <2>3, <2>4
  <2>6. \A i \in 1..Len(c.edges) : c.edges[i].u \in IdsOf(c) /\ c.edges[i].v \in IdsOf(c)
      BY DEF IdsOf
  <2> QED
      BY <1>1, <2>5, <2>6
<1> QED
    BY <1>2, <1>3

-----------------------------------------------------------------------------
(* The list of a vertex: its entries, each once. *)
EntriesAt(c, v) == {e \in EntriesOf(c) : VertexOf(c, e) = v}
Before(c, f, e) ==
    LET time(x) == c.edges[x[1]].t
    IN  \/ time(f) < time(e)
        \/ time(f) = time(e) /\ f[1] < e[1]
        \/ time(f) = time(e) /\ f[1] = e[1] /\ f[2] = "v" /\ e[2] = "u"

LEMMA EntriesFinite ==
    ASSUME NEW c, Callable(c), NEW v
    PROVE  IsFiniteSet(EntriesAt(c, v))
<1>1. Len(c.edges) \in Nat
    BY CallTypes
<1>2. IsFiniteSet(1..Len(c.edges))
    BY <1>1, FS_Interval
<1>3. IsFiniteSet({"u", "v"})
  <2>1. IsFiniteSet({"u"}) /\ {"u", "v"} = {"u"} \cup {"v"}
      BY FS_Singleton
  <2> QED
      BY <2>1, FS_AddElement
<1>4. IsFiniteSet((1..Len(c.edges)) \X {"u", "v"})
    BY <1>2, <1>3, FS_Product
<1>5. EntriesAt(c, v) \in SUBSET ((1..Len(c.edges)) \X {"u", "v"})
    BY DEF EntriesAt, EntriesOf, SidesOf
<1> QED
    BY <1>4, <1>5, FS_Subset

LEMMA ListPermutes ==
    ASSUME NEW c, Callable(c), NEW v
    PROVE  /\ Cardinality(EntriesAt(c, v)) \in Nat
           /\ DOMAIN ListOf(c, v) = 1..Cardinality(EntriesAt(c, v))
           /\ \E g \in Bijection(1..Cardinality(EntriesAt(c, v)), EntriesAt(c, v)) :
                  \A i \in 1..Cardinality(EntriesAt(c, v)) : ListOf(c, v)[i] = StepOf(c, g[i])
<1> DEFINE mine == EntriesAt(c, v)
           n == Cardinality(mine)
           R == {p \in mine \X mine : Before(c, p[1], p[2])}
           rank(e) == Cardinality({f \in mine : Before(c, f, e)})
           K == 0..n - 1
           places == 1..n
<1>1. IsFiniteSet(mine) /\ n \in Nat
    BY EntriesFinite, FS_CardinalityType
<1>2. ASSUME NEW e \in mine
      PROVE  /\ e = <<e[1], e[2]>> /\ e[1] \in Int /\ e[2] \in {"u", "v"}
             /\ c.edges[e[1]].t \in Int
  <2>1. \A i \in 1..Len(c.edges) : c.edges[i].t \in Int
      BY CallTypes
  <2> QED
      BY <2>1 DEF EntriesAt, EntriesOf, SidesOf
<1>3. \A e \in mine : RankIn(mine, R, e) = rank(e)
  <2> SUFFICES ASSUME NEW e \in mine
               PROVE  {f \in mine : <<f, e>> \in R} = {f \in mine : Before(c, f, e)}
      BY DEF RankIn
  <2> QED
      OBVIOUS
<1>4. \A e, f \in mine : <<e, f>> \in R <=> Before(c, e, f)
    OBVIOUS
<1>5. ListOf(c, v) = [i \in places |-> StepOf(c, CHOOSE e \in mine : rank(e) = i - 1)]
    BY DEF ListOf, Before, EntriesAt
<1> HIDE DEF mine, R
<1>6. [e \in mine |-> RankIn(mine, R, e)] \in Bijection(mine, K)
  <2>1. \A e \in mine : <<e, e>> \notin R
      BY <1>2, <1>4 DEF Before
  <2>2. \A d, e, f \in mine : <<d, e>> \in R /\ <<e, f>> \in R => <<d, f>> \in R
    <3> SUFFICES ASSUME NEW d \in mine, NEW e \in mine, NEW f \in mine,
                        Before(c, d, e), Before(c, e, f)
                 PROVE  Before(c, d, f)
        BY <1>4
    <3> QED
        BY <1>2 DEF Before
  <2>3. \A d, e \in mine : d # e => <<d, e>> \in R \/ <<e, d>> \in R
    <3> SUFFICES ASSUME NEW d \in mine, NEW e \in mine, d # e,
                        ~Before(c, d, e), ~Before(c, e, d)
                 PROVE  FALSE
        BY <1>4
    <3>1. d[1] # e[1] \/ d[2] # e[2]
        BY <1>2
    <3> QED
        BY <1>2, <3>1 DEF Before
  <2> QED
      BY <1>1, <2>1, <2>2, <2>3, Ranks
<1> HIDE DEF rank, K, places
<1>7. /\ \A e \in mine : rank(e) \in K
      /\ \A e, f \in mine : rank(e) = rank(f) => e = f
      /\ \A k \in K : \E e \in mine : rank(e) = k
  <2> DEFINE f == [e \in mine |-> RankIn(mine, R, e)]
  <2>1. f \in Bijection(mine, K) /\ \A e \in mine : f[e] = rank(e)
      BY <1>3, <1>6
  <2> HIDE DEF f
  <2> QED
      BY <2>1, BijectionFacts
<1>8. /\ \A i \in places : i - 1 \in K
      /\ \A k \in K : k + 1 \in places /\ (k + 1) - 1 = k
      /\ \A i, j \in places : i - 1 = j - 1 => i = j
    BY <1>1 DEF places, K
<1> DEFINE g == [i \in places |-> CHOOSE e \in mine : rank(e) = i - 1]
<1>9. \A i \in places : g[i] \in mine /\ rank(g[i]) = i - 1
  <2> SUFFICES ASSUME NEW i \in places
               PROVE  LET x == CHOOSE e \in mine : rank(e) = i - 1
                      IN  x \in mine /\ rank(x) = i - 1
      OBVIOUS
  <2>1. \E e \in mine : rank(e) = i - 1
      BY <1>7, <1>8
  <2> QED
      BY <2>1
<1>10. g \in [places -> mine]
    BY <1>9
<1>11. \A i \in places : ListOf(c, v)[i] = StepOf(c, g[i])
    BY <1>5
<1>12. DOMAIN ListOf(c, v) = places
    BY <1>5
<1> HIDE DEF g
<1>13. \A i, j \in places : g[i] = g[j] => i = j
    BY <1>8, <1>9
<1>14. \A e \in mine : \E i \in places : g[i] = e
  <2> SUFFICES ASSUME NEW e \in mine PROVE \E i \in places : g[i] = e
      OBVIOUS
  <2>1. PICK i \in places : i - 1 = rank(e)
      BY <1>7, <1>8, Zenon
  <2>2. g[i] \in mine /\ rank(g[i]) = rank(e)
      BY <1>9, <2>1
  <2> QED
      BY <1>7, <2>2
<1>15. g \in Bijection(places, mine)
    BY <1>10, <1>13, <1>14 DEF Bijection, Injection, Surjection, IsInjective
<1> QED
    BY <1>1, <1>11, <1>12, <1>15 DEF places, mine

(* What is listed for a vertex is an edge of the input. *)
StepsIn(c) == [v : 0..VertexCountOf(c) - 1, t : Int]

LEMMA ListTyped ==
    ASSUME NEW c, Callable(c), NEW v \in 0..VertexCountOf(c) - 1
    PROVE  /\ ListOf(c, v) \in Seq(StepsIn(c))
           /\ \A k \in DOMAIN ListOf(c, v) :
                  \E i \in 1..Len(c.edges) : ListOf(c, v)[k].t = c.edges[i].t
<1> DEFINE mine == EntriesAt(c, v)
           n == Cardinality(mine)
           list == ListOf(c, v)
           places == 1..n
<1>1. /\ n \in Nat /\ DOMAIN list = places
      /\ \E g \in Bijection(places, mine) : \A i \in places : list[i] = StepOf(c, g[i])
    BY ListPermutes
<1>2. PICK g \in Bijection(places, mine) : \A i \in places : list[i] = StepOf(c, g[i])
    BY <1>1
<1>3. ASSUME NEW e \in mine
      PROVE  /\ StepOf(c, e) \in StepsIn(c)
             /\ \E i \in 1..Len(c.edges) : StepOf(c, e).t = c.edges[i].t
  <2>1. /\ VertexCountOf(c) # 0 /\ VertexCountOf(c) \in Nat
        /\ \A i \in 1..Len(c.edges) : c.edges[i].t \in Int
      BY SizeCovers, CallTypes
  <2>2. e[1] \in 1..Len(c.edges)
      BY DEF EntriesAt, EntriesOf
  <2> QED
      BY <2>1, <2>2, SizeCovers DEF StepOf, StepsIn
<1>4. list = [k \in places |-> list[k]]
  <2>1. list = [k \in DOMAIN list |-> list[k]]
      BY DEF ListOf
  <2> QED
      BY <1>1, <2>1
<1> HIDE DEF mine, list, places
<1>5. \A i \in places : g[i] \in mine
    BY <1>2, BijectionFacts
<1>6. \A k \in places : list[k] \in StepsIn(c)
    BY <1>2, <1>3, <1>5
<1>7. list \in Seq(StepsIn(c))
  <2>1. list \in [1..n -> StepsIn(c)]
      BY <1>4, <1>6 DEF places
  <2> QED
      BY <1>1, <2>1, ListIsSeq
<1>8. ASSUME NEW k \in places PROVE \E i \in 1..Len(c.edges) : list[k].t = c.edges[i].t
    BY <1>2, <1>3, <1>5
<1> QED
    BY <1>1, <1>7, <1>8 DEF list

-----------------------------------------------------------------------------
(* The weights of a slice are naturals, whatever the bias. *)
LEMMA PowerOfTwo == ASSUME NEW n \in Nat PROVE 2^n \in Nat \ {0}
<1>1. IsFiniteSet(1..n) /\ Cardinality(1..n) = n
    BY FS_Interval
<1>2. IsFiniteSet(SUBSET (1..n)) /\ Cardinality(SUBSET (1..n)) = 2^n
    BY <1>1, FS_SUBSET
<1>3. SUBSET (1..n) # {}
    OBVIOUS
<1> QED
    BY <1>2, <1>3, FS_CardinalityType, FS_EmptySet

(* The next power is twice the last; powers climb past their exponents.    *)
LEMMA PowerDoubles ==
    /\ 2^0 = 1
    /\ \A n \in Nat : 2^(n + 1) = 2^n + 2^n
<1>1. 2^0 = 1
  <2>1. 1..0 = {} /\ IsFiniteSet(1..0) /\ Cardinality(1..0) = 0
      BY FS_EmptySet
  <2>2. Cardinality(SUBSET (1..0)) = 2^0
      BY <2>1, FS_SUBSET
  <2>3. SUBSET (1..0) = {{}}
      BY <2>1
  <2> QED
      BY <2>2, <2>3, FS_Singleton
<1>2. ASSUME NEW n \in Nat PROVE 2^(n + 1) = 2^n + 2^n
  <2> DEFINE m == n + 1
             A == SUBSET (1..n)
             B == {s \cup {m} : s \in A}
  <2>1. /\ IsFiniteSet(A) /\ Cardinality(A) = 2^n
    <3>1. IsFiniteSet(1..n) /\ Cardinality(1..n) = n
        BY FS_Interval
    <3> QED
        BY <3>1, FS_SUBSET
  <2>2. Cardinality(SUBSET (1..m)) = 2^m
    <3>1. m \in Nat
        OBVIOUS
    <3> HIDE DEF m
    <3>2. IsFiniteSet(1..m) /\ Cardinality(1..m) = m
        BY <3>1, FS_Interval
    <3> QED
        BY <3>2, FS_SUBSET
  <2>3. SUBSET (1..m) = A \cup B
    <3>1. 1..m = (1..n) \cup {m}
        OBVIOUS
    <3>2. ASSUME NEW s \in SUBSET (1..m), s \notin A PROVE s \in B
      <4>1. m \in s
          BY <3>1, <3>2
      <4>2. s \ {m} \in A /\ s = (s \ {m}) \cup {m}
          BY <3>1, <4>1
      <4> QED
          BY <4>2
    <3>3. ASSUME NEW s \in B PROVE s \in SUBSET (1..m)
        BY <3>1
    <3>4. ASSUME NEW s \in A PROVE s \in SUBSET (1..m)
        BY <3>1
    <3> QED
        BY <3>2, <3>3, <3>4
  <2>4. m \notin 1..n
      OBVIOUS
  <2>5. A \cap B = {}
      BY <2>4
  <2> DEFINE f == [s \in A |-> s \cup {m}]
  <2>6. f \in Bijection(A, B)
    <3>1. f \in [A -> B]
        OBVIOUS
    <3>2. \A s, t \in A : f[s] = f[t] => s = t
      <4> SUFFICES ASSUME NEW s \in A, NEW t \in A, s \cup {m} = t \cup {m} PROVE s = t
          OBVIOUS
      <4>1. m \notin s /\ m \notin t
          BY <2>4
      <4> QED
          BY <4>1
    <3>3. \A b \in B : \E s \in A : f[s] = b
        OBVIOUS
    <3> HIDE DEF f, A, B
    <3> QED
        BY <3>1, <3>2, <3>3 DEF Bijection, Injection, Surjection, IsInjective
  <2>7. IsFiniteSet(B) /\ Cardinality(B) = Cardinality(A)
      BY <2>1, <2>6, FS_Bijection DEF ExistsBijection
  <2> HIDE DEF A, B, f
  <2>8. Cardinality(A \cup B) = Cardinality(A) + Cardinality(B) - Cardinality(A \cap B)
      BY <2>1, <2>7, FS_Union
  <2>9. Cardinality(A \cap B) = 0
      BY <2>5, FS_EmptySet
  <2>10. 2^n \in Nat
      BY PowerOfTwo
  <2> DEFINE c == Cardinality(A)
  <2>11. c \in Nat /\ 2^m = c + c - 0 /\ 2^n = c
      BY <2>1, <2>2, <2>3, <2>7, <2>8, <2>9, <2>10
  <2> HIDE DEF c
  <2>12. 2^m = 2^n + 2^n
      BY <2>11
  <2> QED
      BY <2>12 DEF m
<1> QED
    BY <1>1, <1>2
LEMMA PowersRight ==
    /\ 2^0 = 1
    /\ \A n \in Nat : /\ 2^n \in Nat /\ 2^n > 0 /\ n < 2^n
                      /\ 2^(n + 1) = 2^n + 2^n
    /\ \A m, n \in Nat : m <= n => 2^m <= 2^n
<1>1. \A n \in Nat : 2^n \in Nat /\ 2^n > 0
    BY PowerOfTwo
<1>2. \A n \in Nat : n < 2^n
  <2> DEFINE T == {n \in Nat : n < 2^n}
  <2>1. 0 \in T
      BY PowerDoubles
  <2>2. ASSUME NEW n \in Nat, n \in T PROVE n + 1 \in T
    <3> DEFINE x == 2^n
               y == 2^(n + 1)
    <3>1. x \in Nat /\ y \in Nat /\ n < x /\ y = x + x
        BY <1>1, <2>2, PowerDoubles
    <3> HIDE DEF x, y
    <3>2. n + 1 < y
        BY <3>1
    <3> QED
        BY <3>2 DEF y
  <2> HIDE DEF T
  <2>3. \A n \in Nat : n \in T
      BY <2>1, <2>2, SetInduction
  <2> QED
      BY <2>3 DEF T
<1>3. ASSUME NEW m \in Nat, NEW n \in Nat, m <= n PROVE 2^m <= 2^n
  <2> DEFINE T == {d \in Nat : 2^m <= 2^(m + d)}
  <2>1. 0 \in T
      BY <1>1
  <2>2. ASSUME NEW d \in Nat, d \in T PROVE d + 1 \in T
    <3> DEFINE k == m + d
    <3>1. k \in Nat /\ k + 1 = m + (d + 1)
        OBVIOUS
    <3>2. 2^m <= 2^k
        BY <2>2
    <3> HIDE DEF k
    <3> DEFINE x == 2^k
               y == 2^(k + 1)
               z == 2^m
    <3>3. x \in Nat /\ y = x + x /\ z \in Nat /\ z <= x
        BY <1>1, <3>1, <3>2, PowerDoubles
    <3> HIDE DEF x, y, z
    <3>4. z <= y
        BY <3>3
    <3> QED
        BY <3>1, <3>4 DEF y, z
  <2> HIDE DEF T
  <2>3. n - m \in T
      BY <1>3, <2>1, <2>2, SetInduction
  <2>4. m + (n - m) = n
      OBVIOUS
  <2> QED
      BY <2>3, <2>4 DEF T
<1> QED
    BY <1>1, <1>2, <1>3, PowerDoubles

Kinds == {"uniform", "linear", "exponential"}
Params == [t_pivot : Int, scale : Nat \X (Nat \ {0})]

LEMMA ParamsTyped ==
    ASSUME NEW b, b.timescale_bound \in Int, NEW ts \in Seq(Int)
    PROVE  compute_per_vertex_params(b, ts) \in Params
<1>1. NoParams \in Params
    BY DEF NoParams, Params
<1>2. CASE ts = <<>>
    BY <1>1, <1>2 DEF compute_per_vertex_params
<1>3. CASE ts # <<>>
  <2>1. ts[Len(ts)] \in Int /\ ts[1] \in Int
      BY <1>3
  <2> QED
      BY <1>1, <1>3, <2>1 DEF compute_per_vertex_params, Params
<1> QED
    BY <1>2, <1>3

LEMMA WeightsTyped ==
    ASSUME NEW b, b.kind \in Kinds, NEW ts \in Seq(Int), NEW params \in Params,
           NEW start \in Nat
    PROVE  /\ compute_weights(b, ts, params, start) \in Seq(Nat)
           /\ Len(compute_weights(b, ts, params, start)) = Len(ts)
<1> DEFINE W == compute_weights(b, ts, params, start)
           d == Len(ts)
           weight(i) == CASE b.kind = "uniform" -> 1
                          [] b.kind = "linear" -> Rank(start, i)
                          [] b.kind = "exponential" -> Decay(params, ts[i])
<1>1. d \in Nat /\ \A i \in 1..d : ts[i] \in Int
    OBVIOUS
<1>2. ASSUME NEW i \in 1..d PROVE Decay(params, ts[i]) \in Nat
  <2> DEFINE x == (params.t_pivot - ts[i]) * params.scale[1]
             y == params.scale[2]
  <2>1. x \in Int /\ y \in Nat \ {0}
      BY <1>1 DEF Params
  <2> HIDE DEF x, y
  <2>2. x \div y \in Int
      BY <2>1
  <2> DEFINE z == x \div y
  <2>3. Decay(params, ts[i]) = Exp(z)
      BY DEF Decay, x, y
  <2>4. z \in Int
      BY <2>2
  <2> HIDE DEF z
  <2>5. Exp(z) \in Nat
    <3>1. ~(z > Horizon) => Horizon - z \in Nat
        BY <2>4, HorizonAssumption
    <3> QED
        BY <3>1, PowerOfTwo DEF Exp
  <2> QED
      BY <2>3, <2>5
<1>3. W = [i \in 1..d |-> weight(i)]
    BY Zenon DEF compute_weights
<1>4. ASSUME NEW i \in 1..d PROVE weight(i) \in Nat
  <2>1. Rank(start, i) \in Nat
      BY <1>1 DEF Rank
  <2> QED
      BY <1>2, <2>1 DEF Kinds
<1> HIDE DEF W, weight
<1>5. W \in [1..d -> Nat]
    BY <1>3, <1>4
<1> HIDE DEF d
<1>6. W \in Seq(Nat) /\ Len(W) = d
    BY <1>1, <1>5, ListIsSeq
<1> QED
    BY <1>6 DEF W, d
-----------------------------------------------------------------------------
(* Sums over ranges of positions, and the slices that sums of sizes lay out. *)
RangeSum(w, first, last) == SumFunction([p \in first..last |-> w[p]])

LEMMA RangeSumRight ==
    ASSUME NEW a \in Int, NEW b \in Int, NEW w, \A p \in a..b : w[p] \in Nat
    PROVE  /\ RangeSum(w, a, b) = SumFunctionOnSet(w, a..b)
           /\ RangeSum(w, a, b) \in Nat
<1> DEFINE f == [p \in a..b |-> w[p]]
           R == a..b
<1>1. IsFiniteSet(R)
    BY FS_Interval
<1>2. RangeSum(w, a, b) = SumFunctionOnSet(f, R)
    BY SumOfFunction DEF RangeSum
<1>3. (\A p \in R : f[p] = w[p]) /\ \A p \in R : w[p] \in Nat
    OBVIOUS
<1> HIDE DEF f, R
<1>4. SumFunctionOnSet(f, R) = SumFunctionOnSet(w, R)
    BY <1>1, <1>3, SumSame
<1>5. SumFunctionOnSet(w, R) \in Nat
    BY <1>1, <1>3, SumNat
<1> QED
    BY <1>2, <1>4, <1>5 DEF R

LEMMA RangeSumSplit ==
    ASSUME NEW a \in Int, NEW b \in Int, NEW c \in Int, a <= b + 1, b <= c,
           NEW w, \A p \in a..c : w[p] \in Nat
    PROVE  RangeSum(w, a, c) = RangeSum(w, a, b) + RangeSum(w, b + 1, c)
<1> DEFINE A == a..b
           B == b + 1..c
<1>1. IsFiniteSet(A) /\ IsFiniteSet(B)
    BY FS_Interval
<1>2. A \cap B = {} /\ a..c = A \cup B
    OBVIOUS
<1>3. \A p \in A \cup B : w[p] \in Int
    BY <1>2
<1>4. /\ RangeSum(w, a, c) = SumFunctionOnSet(w, a..c)
      /\ RangeSum(w, a, b) = SumFunctionOnSet(w, A)
      /\ RangeSum(w, b + 1, c) = SumFunctionOnSet(w, B)
    BY RangeSumRight
<1> HIDE DEF A, B
<1>5. SumFunctionOnSet(w, A \cup B) = SumFunctionOnSet(w, A) + SumFunctionOnSet(w, B)
    BY <1>1, <1>2, <1>3, SumUnion
<1> QED
    BY <1>2, <1>4, <1>5

LEMMA SlicesOfSums ==
    ASSUME NEW n \in Nat, NEW d \in [0..n - 1 -> Nat], NEW o,
           o = [u \in 0..n |-> RangeSum(d, 0, u - 1)]
    PROVE  /\ o \in [0..n -> Nat] /\ Consecutive(o, d, n)
           /\ \A v \in 0..n - 1 : o[v] + d[v] <= o[n]
           /\ \A v, w \in 0..n - 1 : v < w => o[v] + d[v] <= o[w]
<1>1. ASSUME NEW u \in 0..n PROVE RangeSum(d, 0, u - 1) \in Nat
  <2>1. \A p \in 0..u - 1 : d[p] \in Nat
      OBVIOUS
  <2> QED
      BY <2>1, RangeSumRight
<1>2. o \in [0..n -> Nat]
    BY <1>1
<1>3. ASSUME NEW v \in 0..n - 1 PROVE o[v + 1] = o[v] + d[v]
  <2> DEFINE S == 0..v - 1
  <2>0. IsFiniteSet(S)
      BY FS_Interval
  <2>1. v \notin S /\ (\A p \in S : d[p] \in Int) /\ d[v] \in Int
      OBVIOUS
  <2>2. 0..v = S \cup {v}
      OBVIOUS
  <2>3. v \in 0..n /\ v + 1 \in 0..n /\ (v + 1) - 1 = v
      OBVIOUS
  <2>4. o[v] = SumFunctionOnSet(d, S) /\ o[v + 1] = SumFunctionOnSet(d, 0..v)
    <3>1. (\A p \in 0..v - 1 : d[p] \in Nat) /\ \A p \in 0..v : d[p] \in Nat
        OBVIOUS
    <3>2. RangeSum(d, 0, v - 1) = SumFunctionOnSet(d, 0..v - 1)
        BY <3>1, RangeSumRight
    <3>3. RangeSum(d, 0, v) = SumFunctionOnSet(d, 0..v)
        BY <3>1, RangeSumRight
    <3> QED
        BY <2>3, <3>2, <3>3
  <2> HIDE DEF S
  <2>5. SumFunctionOnSet(d, S \cup {v}) = d[v] + SumFunctionOnSet(d, S)
      BY <2>0, <2>1, SumAdd
  <2>6. SumFunctionOnSet(d, S) \in Int
      BY <2>0, <2>1, SumInt
  <2>7. d[v] \in Int
      BY <2>1
  <2>8. o[v + 1] = d[v] + SumFunctionOnSet(d, S)
      BY <2>2, <2>4, <2>5
  <2> QED
      BY <2>4, <2>6, <2>7, <2>8
<1>4. Consecutive(o, d, n)
    BY <1>3 DEF Consecutive
<1> QED
    BY <1>2, <1>4, SlicesDisjoint

(* A product divided by one of its factors. *)
LEMMA DivideBack ==
    ASSUME NEW s \in Nat, s > 0, NEW w \in Nat
    PROVE  (s * w) \div s = w
<1> DEFINE x == s * w
<1>1. x \in Nat
    OBVIOUS
<1> PICK q \in Int : q = x \div s
    OBVIOUS
<1>2. q >= 0 /\ s * q <= s * w /\ s * w < s * q + s
  <2>1. x \div s \in Int /\ x % s \in 0..s - 1 /\ x = s * (x \div s) + (x % s)
    <3> HIDE DEF x
    <3> QED
        BY <1>1
  <2>2. x \div s >= 0
    <3> HIDE DEF x
    <3> QED
        BY <1>1
  <2> QED
      BY <2>1, <2>2
<1>3. q \in Nat /\ s * q \in Nat /\ s * w \in Nat
    BY <1>2
<1>4. ~(q < w)
  <2> SUFFICES ASSUME q + 1 <= w PROVE FALSE
      BY <1>3
  <2>1. s * (q + 1) <= s * w
      BY <1>3, TimesMonotone
  <2>2. s * (q + 1) = s * q + s
      BY <1>3
  <2> QED
      BY <1>2, <1>3, <2>1, <2>2
<1>5. ~(w < q)
  <2> SUFFICES ASSUME w + 1 <= q PROVE FALSE
      BY <1>3
  <2>1. s * (w + 1) <= s * q
      BY <1>3, TimesMonotone
  <2>2. s * (w + 1) = s * w + s
      OBVIOUS
  <2> QED
      BY <1>2, <1>3, <2>1, <2>2
<1> QED
    BY <1>3, <1>4, <1>5

(* The sum at one position is the weight there. *)
LEMMA RangeSumOne ==
    ASSUME NEW q \in Int, NEW w, w[q] \in Nat
    PROVE  RangeSum(w, q, q) = w[q]
<1>1. q..q = {q} /\ \A p \in q..q : w[p] \in Nat
    OBVIOUS
<1>2. RangeSum(w, q, q) = SumFunctionOnSet(w, q..q)
    BY <1>1, RangeSumRight
<1>3. SumFunctionOnSet(w, {} \cup {q}) = w[q] + SumFunctionOnSet(w, {})
  <2>1. IsFiniteSet({}) /\ q \notin {} /\ (\A p \in {} : w[p] \in Int) /\ w[q] \in Int
      BY FS_EmptySet
  <2> QED
      BY <2>1, SumAdd
<1>4. {} \cup {q} = {q}
    OBVIOUS
<1> QED
    BY <1>1, <1>2, <1>3, <1>4, SumEmpty

(* Prefix sums of naturals climb, by one weight at each place. *)
LEMMA PrefixSums ==
    ASSUME NEW n \in Nat, NEW w, \A p \in 1..n : w[p] \in Nat
    PROVE  /\ RangeSum(w, 1, 0) = 0
           /\ \A j \in 0..n : RangeSum(w, 1, j) \in Nat
           /\ \A j \in 1..n : RangeSum(w, 1, j) = RangeSum(w, 1, j - 1) + w[j]
           /\ \A i, j \in 0..n : i <= j => RangeSum(w, 1, i) <= RangeSum(w, 1, j)
           /\ \A i, j \in 0..n : i <= j =>
                  RangeSum(w, 1, j) = RangeSum(w, 1, i) + RangeSum(w, i + 1, j)
<1>1. RangeSum(w, 1, 0) = 0
  <2>1. 1..0 = {} /\ \A p \in 1..0 : w[p] \in Nat
      OBVIOUS
  <2>2. RangeSum(w, 1, 0) = SumFunctionOnSet(w, 1..0)
      BY <2>1, RangeSumRight
  <2> QED
      BY <2>1, <2>2, SumEmpty
<1>2. ASSUME NEW i \in 0..n, NEW j \in 0..n
      PROVE  RangeSum(w, i + 1, j) \in Nat
  <2>1. i + 1 \in Int /\ j \in Int /\ \A p \in i + 1..j : w[p] \in Nat
      OBVIOUS
  <2> QED
      BY <2>1, RangeSumRight
<1>3. ASSUME NEW j \in 0..n PROVE RangeSum(w, 1, j) \in Nat
  <2>1. 1 \in Int /\ j \in Int /\ \A p \in 1..j : w[p] \in Nat
      OBVIOUS
  <2> QED
      BY <2>1, RangeSumRight
<1>4. ASSUME NEW i \in 0..n, NEW j \in 0..n, i <= j
      PROVE  RangeSum(w, 1, j) = RangeSum(w, 1, i) + RangeSum(w, i + 1, j)
  <2>1. 1 \in Int /\ i \in Int /\ j \in Int /\ 1 <= i + 1 /\ \A p \in 1..j : w[p] \in Nat
      OBVIOUS
  <2> QED
      BY <1>4, <2>1, RangeSumSplit
<1>5. ASSUME NEW j \in 1..n PROVE RangeSum(w, j, j) = w[j]
    BY RangeSumOne
<1>6. ASSUME NEW j \in 1..n PROVE RangeSum(w, 1, j) = RangeSum(w, 1, j - 1) + w[j]
  <2>1. j - 1 \in 0..n /\ j \in 0..n /\ j - 1 <= j /\ (j - 1) + 1 = j
      OBVIOUS
  <2>2. RangeSum(w, 1, j) = RangeSum(w, 1, j - 1) + RangeSum(w, (j - 1) + 1, j)
      BY <1>4, <2>1
  <2> QED
      BY <1>5, <2>1, <2>2
<1>7. ASSUME NEW i \in 0..n, NEW j \in 0..n, i <= j
      PROVE  RangeSum(w, 1, i) <= RangeSum(w, 1, j)
  <2>1. RangeSum(w, 1, j) = RangeSum(w, 1, i) + RangeSum(w, i + 1, j)
      BY <1>4, <1>7
  <2>2. RangeSum(w, 1, i) \in Nat /\ RangeSum(w, i + 1, j) \in Nat
      BY <1>2, <1>3
  <2> QED
      BY <2>1, <2>2
<1> QED
    BY <1>1, <1>3, <1>4, <1>6, <1>7

(* The same weights at other places have the same sum.                     *)
SamePart(w, a, v, n) == \A p \in 1..n : w[a + p] \in Nat /\ v[p] = w[a + p]

LEMMA SameSum ==
    ASSUME NEW w, NEW a \in Int, NEW v, NEW n \in Nat, SamePart(w, a, v, n)
    PROVE  RangeSum(w, a + 1, a + n) = RangeSum(v, 1, n)
<1>0. \A p \in 1..n : w[a + p] \in Nat /\ v[p] = w[a + p]
    BY DEF SamePart
<1>1. \A p \in 1..n : v[p] \in Nat
    BY <1>0
<1>2. \A q \in a + 1..a + n : w[q] \in Nat
  <2> SUFFICES ASSUME NEW q \in a + 1..a + n PROVE w[q] \in Nat
      OBVIOUS
  <2>1. q - a \in 1..n /\ a + (q - a) = q
      OBVIOUS
  <2> QED
      BY <1>0, <2>1
<1> DEFINE T == {m \in Nat : m <= n => RangeSum(w, a + 1, a + m) = RangeSum(v, 1, m)}
<1>3. 0 \in T
  <2>1. a + 1..a + 0 = {} /\ \A q \in a + 1..a + 0 : w[q] \in Nat
      OBVIOUS
  <2>2. RangeSum(w, a + 1, a + 0) = SumFunctionOnSet(w, a + 1..a + 0)
      BY <2>1, RangeSumRight
  <2>3. RangeSum(v, 1, 0) = 0
      BY <1>1, PrefixSums
  <2> QED
      BY <2>1, <2>2, <2>3, SumEmpty
<1>4. ASSUME NEW m \in Nat, m \in T PROVE m + 1 \in T
  <2> SUFFICES ASSUME m + 1 <= n
               PROVE  RangeSum(w, a + 1, a + (m + 1)) = RangeSum(v, 1, m + 1)
      OBVIOUS
  <2>1. RangeSum(w, a + 1, a + m) = RangeSum(v, 1, m)
      BY <1>4
  <2>2. RangeSum(v, 1, m + 1) = RangeSum(v, 1, m) + v[m + 1]
    <3>1. m + 1 \in 1..n /\ (m + 1) - 1 = m
        OBVIOUS
    <3> QED
        BY <1>1, <3>1, PrefixSums
  <2>3. RangeSum(w, a + 1, a + (m + 1))
            = RangeSum(w, a + 1, a + m) + RangeSum(w, (a + m) + 1, a + (m + 1))
    <3>1. /\ a + 1 \in Int /\ a + m \in Int /\ a + (m + 1) \in Int
          /\ a + 1 <= (a + m) + 1 /\ a + m <= a + (m + 1)
        OBVIOUS
    <3>2. \A q \in a + 1..a + (m + 1) : w[q] \in Nat
        BY <1>2
    <3> QED
        BY <3>1, <3>2, RangeSumSplit
  <2>4. RangeSum(w, (a + m) + 1, a + (m + 1)) = v[m + 1]
    <3> PICK q \in Int : q = a + (m + 1)
        OBVIOUS
    <3>1. (a + m) + 1 = q /\ m + 1 \in 1..n /\ v[m + 1] = w[q] /\ w[q] \in Nat
        BY <1>0
    <3>6. RangeSum(w, q, q) = w[q]
        BY <3>1, RangeSumOne
    <3> QED
        BY <3>1, <3>6
  <2> QED
      BY <2>1, <2>2, <2>3, <2>4
<1>5. \A m \in Nat : m \in T
  <2> HIDE DEF T
  <2> QED
      BY <1>3, <1>4, SetInduction
<1> QED
    BY <1>5

(* What a prefix of a list of numbers is made of.                          *)
LEMMA PrefixOf ==
    ASSUME NEW c \in Seq(Nat), NEW f \in Nat, f <= Len(c)
    PROVE  /\ SubSeq(c, 1, f) \in Seq(Nat) /\ Len(SubSeq(c, 1, f)) = f
           /\ \A k \in 1..f : SubSeq(c, 1, f)[k] = c[k]
OBVIOUS

LEMMA ElementOf ==
    ASSUME NEW W \in Seq(Nat), NEW p \in 1..Len(W)
    PROVE  W[p] \in Nat
OBVIOUS

(* A part of a list has the sum of that range of the list.                 *)
LEMMA PartSum ==
    ASSUME NEW W \in Seq(Nat), NEW x \in Nat, NEW size \in Nat, size > 0, x + size <= Len(W)
    PROVE  LET w == SubSeq(W, x + 1, x + size)
           IN  /\ w \in Seq(Nat) /\ Len(w) = size
               /\ \A j \in 1..size : w[j] = W[x + j]
               /\ RangeSum(W, x + 1, x + size) = RangeSum(w, 1, size)
<1> DEFINE a == x + 1
           b == x + size
           w == SubSeq(W, a, b)
<1>n. PICK n \in Nat : n = Len(W)
    OBVIOUS
<1>1. a \in 1..n + 1 /\ b \in 1..n /\ (b - a) + 1 = size /\ a <= b
    BY <1>n
<1>2. \A j \in 1..size : (a + j) - 1 = x + j /\ (a + j) - 1 \in 1..n
    BY <1>n
<1>0. W \in [1..n -> Nat]
    BY <1>n
<1> HIDE DEF a, b, w
<1>3. w \in Seq(Nat) /\ Len(w) = size /\ \A j \in 1..size : w[j] = W[(a + j) - 1]
  <2>1. /\ a \in Int /\ b \in Int /\ a >= 1 /\ b <= n /\ a <= b
        /\ \A p \in a..b : p \in 1..n
      BY <1>1
  <2>2. w = [j \in 1..size |-> W[(a + j) - 1]]
      BY <1>1, <2>1 DEF w
  <2>3. \A j \in 1..size : W[(a + j) - 1] \in Nat
      BY <1>0, <1>2
  <2>4. w \in [1..size -> Nat]
      BY <2>2, <2>3, Zenon
  <2>5. w \in Seq(Nat) /\ Len(w) = size
      BY <2>4
  <2> QED
      BY <2>2, <2>5
<1>4. \A j \in 1..size : W[(a + j) - 1] \in Nat
    BY <1>0, <1>2
<1>5. \A j \in 1..size : w[j] = W[x + j]
    BY <1>2, <1>3
<1>6. SamePart(W, x, w, size)
    BY <1>2, <1>4, <1>5 DEF SamePart
<1>7. RangeSum(W, a, b) = RangeSum(w, 1, size)
    BY <1>6, SameSum DEF a, b
<1> QED
    BY <1>3, <1>5, <1>7 DEF w, a, b

(* Draws from a on, below the last of climbing totals: as many fall below  *)
(* total j, and not below an earlier one, as the total grows by.           *)
LEMMA DrawsOfPlace ==
    ASSUME NEW n \in Nat, NEW c \in [1..n -> Nat],
           \A i, j \in 1..n : i <= j => c[i] <= c[j],
           NEW j \in 1..n, NEW a \in Nat
    PROVE  LET before == IF j = 1 THEN 0 ELSE c[j - 1]
           IN  Cardinality({r \in a..a + c[n] - 1 :
                               r - a < c[j] /\ \A k \in 1..j - 1 : c[k] <= r - a}) = c[j] - before
<1> DEFINE before == IF j = 1 THEN 0 ELSE c[j - 1]
           D == {r \in a..a + c[n] - 1 : r - a < c[j] /\ \A k \in 1..j - 1 : c[k] <= r - a}
<1>1. /\ c[j] \in Nat /\ c[n] \in Nat /\ c[j] <= c[n]
      /\ before \in Nat /\ before <= c[j]
      /\ \A k \in 1..j - 1 : c[k] \in Nat /\ c[k] <= before
  <2>1. n \in 1..n /\ j <= n
      OBVIOUS
  <2>2. j # 1 => j - 1 \in 1..n /\ j - 1 <= j /\ \A k \in 1..j - 1 : k \in 1..n /\ k <= j - 1
      OBVIOUS
  <2> QED
      BY <2>1, <2>2
<1>2. ASSUME NEW r \in Int
      PROVE  r \in D <=> r \in a + before..(a + before) + (c[j] - before) - 1
  <2>1. j # 1 => j - 1 \in 1..j - 1
      OBVIOUS
  <2>2. r \in D <=> /\ a <= r /\ r < a + c[n] /\ r - a < c[j]
                    /\ \A k \in 1..j - 1 : c[k] <= r - a
      BY <1>1
  <2>3. r \in a + before..(a + before) + (c[j] - before) - 1 <=>
            a + before <= r /\ r < a + c[j]
    <3> HIDE DEF before
    <3> QED
        BY <1>1
  <2>4. CASE j = 1
    <3>1. before = 0 /\ 1..j - 1 = {}
        BY <2>4
    <3> HIDE DEF before, D
    <3> QED
        BY <1>1, <2>2, <2>3, <3>1
  <2>5. CASE j # 1
    <3>1. before = c[j - 1] /\ j - 1 \in 1..j - 1
        BY <2>1, <2>5
    <3> HIDE DEF before, D
    <3>2. (\A k \in 1..j - 1 : c[k] <= r - a) => before <= r - a
        BY <3>1
    <3>3. before <= r - a => \A k \in 1..j - 1 : c[k] <= r - a
        BY <1>1
    <3>4. r \in D <=> a <= r /\ r < a + c[n] /\ r - a < c[j] /\ before <= r - a
        BY <2>2, <3>2, <3>3
    <3> DEFINE R == a + before..(a + before) + (c[j] - before) - 1
    <3>5. r \in R <=> a + before <= r /\ r < a + c[j]
        BY <2>3
    <3>6. a + before <= r /\ r < a + c[j] <=>
              a <= r /\ r < a + c[n] /\ r - a < c[j] /\ before <= r - a
      <4>1. PICK x \in Nat, y \in Nat : x = c[j] /\ y = c[n]
          BY <1>1
      <4>2. before \in Nat /\ x <= y
          BY <1>1, <4>1
      <4>3. a + before <= r /\ r < a + x <=>
                a <= r /\ r < a + y /\ r - a < x /\ before <= r - a
          BY <4>2
      <4> QED
          BY <4>1, <4>3
    <3> HIDE DEF R
    <3> QED
        BY Zenon, <3>4, <3>5, <3>6 DEF R
  <2> QED
      BY <2>4, <2>5
<1>3. D = a + before..(a + before) + (c[j] - before) - 1
  <2> DEFINE R == a + before..(a + before) + (c[j] - before) - 1
  <2> DEFINE below == a..a + c[n] - 1
  <2>a. D \subseteq below
    <3> SUFFICES ASSUME NEW r \in D
                 PROVE  r \in below
        OBVIOUS
    <3> HIDE DEF before
    <3> QED
        BY SMT
  <2>b. below \subseteq Int /\ R \subseteq Int
    <3> HIDE DEF before
    <3> QED
        BY <1>1
  <2>1. D \subseteq Int /\ R \subseteq Int
    <3> HIDE DEF below, D, R
    <3> QED
        BY <2>a, <2>b
  <2>2. \A r \in Int : r \in D <=> r \in R
      BY <1>2
  <2> HIDE DEF D, R
  <2>3. D = R
      BY <2>1, <2>2
  <2> QED
      BY <2>3 DEF R
<1>4. a + before \in Int /\ c[j] - before \in Nat
    BY <1>1
<1> HIDE DEF D, before
<1>5. Cardinality(D) = c[j] - before
    BY <1>3, <1>4, IntervalSize
<1> QED
    BY <1>5 DEF D, before

(* A quotient times its divisor is the multiple just below. *)
LEMMA QuotientRight ==
    ASSUME NEW x \in Nat, NEW s \in Nat, s > 0
    PROVE  /\ x \div s \in Nat /\ (x \div s) * s \in Nat
           /\ (x \div s) * s <= x /\ x < (x \div s) * s + s
<1>1. x \div s \in Int /\ x % s \in 0..s - 1 /\ x = s * (x \div s) + (x % s)
    OBVIOUS
<1>2. x \div s >= 0
    OBVIOUS
<1> PICK q \in Nat : q = x \div s
    BY <1>1, <1>2
<1>3. s * q = q * s /\ q * s \in Nat
    OBVIOUS
<1> QED
    BY <1>1, <1>3

(* Draws from a on, below the last of climbing totals, that first fall     *)
(* below total j: as many as it exceeds the total before by.               *)
FirstAbove(cs, x) ==
    LET over == {k \in 1..Len(cs) : x < cs[k]}
    IN  IF over = {} THEN Len(cs) ELSE CHOOSE k \in over : \A l \in over : k <= l

LEMMA DrawsOfFirst ==
    ASSUME NEW cs \in Seq(Nat), \A i, j \in 1..Len(cs) : i <= j => cs[i] <= cs[j],
           NEW j \in 1..Len(cs), NEW a \in Nat
    PROVE  LET before == IF j = 1 THEN 0 ELSE cs[j - 1]
           IN  Cardinality({r \in a..a + cs[Len(cs)] - 1 : FirstAbove(cs, r - a) = j}) = cs[j] - before
<1> DEFINE n == Len(cs)
<1>1. n \in Nat /\ cs \in [1..n -> Nat] /\ j \in 1..n /\ n \in 1..n
    OBVIOUS
<1> HIDE DEF n
<1>2. ASSUME NEW x \in Nat, x < cs[n]
      PROVE  FirstAbove(cs, x) = j <=> x < cs[j] /\ \A k \in 1..j - 1 : cs[k] <= x
  <2> DEFINE over == {k \in 1..n : x < cs[k]}
  <2>1. n \in over /\ over \in SUBSET Nat
      BY <1>1, <1>2
  <2> DEFINE l == CHOOSE k \in over : \A y \in over : k <= y
  <2>2. FirstAbove(cs, x) = l
      BY <2>1 DEF FirstAbove, n
  <2>3. PICK m \in over : \A y \in over : m <= y
      BY <2>1, LeastElement
  <2>4. l \in over /\ \A y \in over : l <= y
      BY <2>3, Zenon
  <2>5. l \in 1..n /\ x < cs[l] /\ \A k \in 1..n : x < cs[k] => l <= k
      BY <2>4
  <2> HIDE DEF l
  <2>6. l = j => x < cs[j] /\ \A k \in 1..j - 1 : cs[k] <= x
    <3> SUFFICES ASSUME l = j, NEW k \in 1..j - 1 PROVE x < cs[j] /\ cs[k] <= x
        BY <2>5
    <3>1. k \in 1..n /\ ~(j <= k) /\ cs[k] \in Nat
        BY <1>1
    <3> QED
        BY <2>5, <3>1
  <2>7. x < cs[j] /\ (\A k \in 1..j - 1 : cs[k] <= x) => l = j
    <3> SUFFICES ASSUME x < cs[j], \A k \in 1..j - 1 : cs[k] <= x, l # j PROVE FALSE
        OBVIOUS
    <3>1. l <= j
        BY <1>1, <2>5
    <3>2. l \in 1..j - 1 /\ cs[l] \in Nat
        BY <1>1, <2>5, <3>1
    <3> QED
        BY <2>5, <3>2
  <2> QED
      BY <2>2, <2>6, <2>7 DEF l
<1>3. {r \in a..a + cs[n] - 1 : FirstAbove(cs, r - a) = j}
          = {r \in a..a + cs[n] - 1 : r - a < cs[j] /\ \A k \in 1..j - 1 : cs[k] <= r - a}
  <2>1. \A r \in a..a + cs[n] - 1 : r - a \in Nat /\ r - a < cs[n]
      BY <1>1
  <2>2. \A r \in a..a + cs[n] - 1 :
            FirstAbove(cs, r - a) = j <=> (r - a < cs[j] /\ \A k \in 1..j - 1 : cs[k] <= r - a)
      BY <1>2, <2>1
  <2> QED
      BY <2>2
<1>4. \A i, k \in 1..n : i <= k => cs[i] <= cs[k]
    BY DEF n
<1>5. Cardinality({r \in a..a + cs[n] - 1 :
                      r - a < cs[j] /\ \A k \in 1..j - 1 : cs[k] <= r - a})
          = cs[j] - (IF j = 1 THEN 0 ELSE cs[j - 1])
    BY <1>1, <1>4, DrawsOfPlace
<1> QED
    BY <1>3, <1>5 DEF n

(* The totals of a list of weights. *)
RunningTotals(w) == [j \in 1..Len(w) |-> RangeSum(w, 1, j)]

LEMMA TotalsRight ==
    ASSUME NEW w \in Seq(Nat)
    PROVE  LET c == RunningTotals(w)
           IN  /\ c \in Seq(Nat) /\ Len(c) = Len(w)
               /\ \A i, j \in 1..Len(w) : i <= j => c[i] <= c[j]
               /\ \A j \in 1..Len(w) : c[j] - (IF j = 1 THEN 0 ELSE c[j - 1]) = w[j]
               /\ \A j \in 1..Len(w) : c[j] = RangeSum(w, 1, j)
<1> DEFINE c == RunningTotals(w)
           n == Len(w)
<1>1. n \in Nat /\ \A p \in 1..n : w[p] \in Nat
    OBVIOUS
<1>2. c = [j \in 1..n |-> RangeSum(w, 1, j)]
    BY DEF RunningTotals
<1> HIDE DEF c, n
<1>3. /\ RangeSum(w, 1, 0) = 0
      /\ \A j \in 0..n : RangeSum(w, 1, j) \in Nat
      /\ \A j \in 1..n : RangeSum(w, 1, j) = RangeSum(w, 1, j - 1) + w[j]
      /\ \A i, j \in 0..n : i <= j => RangeSum(w, 1, i) <= RangeSum(w, 1, j)
    BY <1>1, PrefixSums
<1>4. \A j \in 1..n : c[j] = RangeSum(w, 1, j) /\ j \in 0..n
    BY <1>1, <1>2
<1>5. c \in Seq(Nat) /\ Len(c) = n
  <2>1. c \in [1..n -> Nat]
      BY <1>2, <1>3, <1>4
  <2> QED
      BY <1>1, <2>1, ListIsSeq
<1>6. \A i, j \in 1..n : i <= j => c[i] <= c[j]
    BY <1>3, <1>4
<1>7. ASSUME NEW j \in 1..n PROVE c[j] - (IF j = 1 THEN 0 ELSE c[j - 1]) = w[j]
  <2>1. c[j] = RangeSum(w, 1, j - 1) + w[j] /\ w[j] \in Nat
      BY <1>1, <1>3, <1>4
  <2>2. RangeSum(w, 1, j - 1) = IF j = 1 THEN 0 ELSE c[j - 1]
    <3>1. CASE j = 1
        BY <1>3, <3>1
    <3>2. CASE j # 1
      <4>1. j - 1 \in 1..n
          BY <1>1, <3>2
      <4> QED
          BY <1>4, <3>2, <4>1
    <3> QED
        BY <3>1, <3>2
  <2>3. RangeSum(w, 1, j - 1) \in Nat
      BY <1>1, <1>3
  <2> QED
      BY <2>1, <2>2, <2>3
<1> QED
    BY <1>4, <1>5, <1>6, <1>7 DEF c, n

(* A table asked once for each unit of the weights it was built from gives *)
(* every slot its weight; one built from weights that are all 0 has equal  *)
(* ones instead.                                                           *)
LEMMA SharesRight ==
    ASSUME NEW w \in Seq(Nat), NEW q \in 1..Len(w)
    PROVE  LET S == RangeSum(w, 1, Len(w))
               t == IF S = 0 THEN [j \in 1..Len(w) |-> 1] ELSE w
           IN  (S * t[q]) \div RangeSum(t, 1, Len(t)) = w[q]
<1> DEFINE n == Len(w)
           S == RangeSum(w, 1, n)
<1>1. n \in Nat /\ n > 0 /\ q \in 1..n /\ \A p \in 1..n : w[p] \in Nat
    OBVIOUS
<1> HIDE DEF n
<1>2. S \in Nat /\ w[q] <= S
  <2>1. /\ q \in 0..n /\ n \in 0..n /\ q - 1 \in 0..n /\ q <= n
      BY <1>1
  <2>2. /\ RangeSum(w, 1, q) = RangeSum(w, 1, q - 1) + w[q]
        /\ RangeSum(w, 1, q) <= RangeSum(w, 1, n)
        /\ RangeSum(w, 1, n) \in Nat /\ RangeSum(w, 1, q) \in Nat /\ RangeSum(w, 1, q - 1) \in Nat
      BY <1>1, <2>1, PrefixSums
  <2> QED
      BY <1>1, <2>2
<1> HIDE DEF S
<1>3. CASE S = 0
  <2> DEFINE ones == [j \in 1..n |-> 1]
  <2>1. Len(ones) = n /\ \A p \in 1..n : ones[p] = 1
    <3>1. ones \in [1..n -> Nat]
        OBVIOUS
    <3> QED
        BY <1>1, <3>1, ListIsSeq
  <2> HIDE DEF ones
  <2> PICK x : x = RangeSum(ones, 1, n)
      OBVIOUS
  <2>2. x \in Nat /\ x > 0
    <3>1. /\ RangeSum(ones, 1, n) = RangeSum(ones, 1, n - 1) + ones[n]
          /\ RangeSum(ones, 1, n - 1) \in Nat
      <4>1. n \in 1..n /\ n - 1 \in 0..n /\ \A p \in 1..n : ones[p] \in Nat
          BY <1>1, <2>1
      <4> QED
          BY <1>1, <4>1, PrefixSums
    <3>2. ones[n] = 1
        BY <1>1, <2>1
    <3> QED
        BY <3>1, <3>2
  <2>3. (x * 0) \div x = 0 /\ x * 0 = S * ones[q]
    <3>1. ones[q] = 1
        BY <1>1, <2>1
    <3> QED
        BY <1>3, <2>2, <3>1, DivideBack
  <2>4. w[q] = 0
      BY <1>1, <1>2, <1>3
  <2>5. (S * ones[q]) \div RangeSum(ones, 1, Len(ones)) = w[q]
      BY <2>1, <2>3, <2>4
  <2> QED
      BY Zenon, <1>3, <2>5 DEF S, ones, n
<1>4. CASE S # 0
  <2>1. (S * w[q]) \div S = w[q]
      BY <1>1, <1>2, <1>4, DivideBack
  <2> QED
      BY Zenon, <1>4, <2>1 DEF S, n
<1> QED
    BY <1>3, <1>4

(* The weights of a part of a list are those of the whole list there.      *)
LEMMA WeightsOfPart ==
    ASSUME NEW b, b.kind \in Kinds, NEW ts \in Seq(Int), NEW params \in Params,
           NEW k \in Nat, NEW G \in Nat, k <= G, G <= Len(ts)
    PROVE  LET v == compute_weights(b, SubSeq(ts, k + 1, G), params, k)
           IN  /\ v \in Seq(Nat) /\ Len(v) = G - k
               /\ \A j \in 1..G - k : v[j] = compute_weights(b, ts, params, 0)[k + j]
<1> DEFINE part == SubSeq(ts, k + 1, G)
           v == compute_weights(b, part, params, k)
<1>1. /\ part \in Seq(Int) /\ Len(part) = G - k
      /\ \A j \in 1..G - k : part[j] = ts[k + j] /\ k + j \in 1..Len(ts)
  <2> PICK n \in Nat : n = Len(ts)
      OBVIOUS
  <2>1. \A j \in 1..G - k : k + j \in 1..n
      OBVIOUS
  <2>2. part \in Seq(Int) /\ Len(part) = G - k /\ \A j \in 1..G - k : part[j] = ts[k + j]
      BY SMTT(30)
  <2> QED
      BY <2>1, <2>2
<1>2. v \in Seq(Nat) /\ Len(v) = Len(part)
  <2> HIDE DEF part
  <2> QED
      BY <1>1, WeightsTyped
<1>3. ASSUME NEW j \in 1..G - k PROVE v[j] = compute_weights(b, ts, params, 0)[k + j]
  <2>1. v[j] = CASE b.kind = "uniform" -> 1
                 [] b.kind = "linear" -> Rank(k, j)
                 [] b.kind = "exponential" -> Decay(params, part[j])
    <3> HIDE DEF part
    <3> QED
        BY <1>1 DEF compute_weights
  <2>2. compute_weights(b, ts, params, 0)[k + j]
            = CASE b.kind = "uniform" -> 1
                [] b.kind = "linear" -> Rank(0, k + j)
                [] b.kind = "exponential" -> Decay(params, ts[k + j])
    <3>1. k + j \in 1..Len(ts)
        BY <1>1
    <3> QED
        BY <3>1 DEF compute_weights
  <2>3. Rank(k, j) = Rank(0, k + j) /\ part[j] = ts[k + j]
      BY <1>1 DEF Rank
  <2> HIDE DEF v, part
  <2> QED
      BY <2>1, <2>2, <2>3
<1> QED
    BY <1>1, <1>2, <1>3

(* A weight by how far an entry is before the newest one, on the scale of  *)
(* the bias; equal times have no scale.                                    *)
AgeOf(b, ts, p) ==
    LET range == ts[Len(ts)] - ts[1]
        age == ts[Len(ts)] - ts[p]
    IN  IF b.timescale_bound > 0 /\ range > 0 THEN (age * b.timescale_bound) \div range ELSE age

LEMMA WeightByAge ==
    ASSUME NEW bias, bias.kind \in Kinds, bias.timescale_bound \in Int,
           NEW ts \in Seq(Int), \A i, j \in 1..Len(ts) : i < j => ts[i] <= ts[j],
           NEW p \in 1..Len(ts)
    PROVE  compute_weights_full(bias, ts)[p] =
               CASE bias.kind = "uniform" -> 1
                 [] bias.kind = "linear" -> p
                 [] bias.kind = "exponential" -> Exp(AgeOf(bias, ts, p))
<1> DEFINE d == Len(ts)
           b == bias.timescale_bound
           params == compute_per_vertex_params(bias, ts)
           range == ts[d] - ts[1]
           age == ts[d] - ts[p]
<1>1. p \in 1..d
    OBVIOUS
<1>2. \A i, j \in 1..d : i < j => ts[i] <= ts[j]
    OBVIOUS
<1>3. bias.kind \in Kinds /\ b \in Int
    OBVIOUS
<1>4. d \in Nat /\ d > 0 /\ d \in 1..d /\ 1 \in 1..d /\ ts # <<>>
    BY <1>1
<1>5. range \in Int /\ age \in Int /\ 0 <= age /\ age <= range /\ ts[d] \in Int /\ ts[p] \in Int
  <2>1. \A i \in 1..d : ts[i] \in Int
      BY <1>1
  <2>2. p = d \/ p < d
      BY <1>1, <1>4
  <2>3. p = 1 \/ 1 < p
      BY <1>1
  <2>4. ts[p] <= ts[d] /\ ts[1] <= ts[p]
    <3> HIDE DEF d
    <3> QED
        BY <1>1, <1>2, <1>4, <2>1, <2>2, <2>3
  <2> HIDE DEF d
  <2> QED
      BY <1>1, <1>4, <2>1, <2>4
<1>6. compute_weights_full(bias, ts)[p] = CASE bias.kind = "uniform" -> 1
                        [] bias.kind = "linear" -> Rank(0, p)
                        [] bias.kind = "exponential" -> Decay(params, ts[p])
    BY <1>1 DEF compute_weights_full, compute_weights
<1>7. CASE bias.kind = "uniform"
    BY <1>6, <1>7
<1>8. CASE bias.kind = "linear"
    BY <1>1, <1>6, <1>8 DEF Rank
<1>9. CASE bias.kind = "exponential"
  <2>1. compute_weights_full(bias, ts)[p] = Decay(params, ts[p])
      BY <1>6, <1>9
  <2>2. AgeOf(bias, ts, p) = IF b > 0 /\ range > 0 THEN (age * b) \div range ELSE age
      BY DEF AgeOf
  <2>3. params = [t_pivot |-> ts[d],
                  scale |-> IF range <= 0 THEN <<0, 1>>
                            ELSE IF b > 0 THEN <<b, range>> ELSE <<1, 1>>]
      BY <1>4, <1>9 DEF compute_per_vertex_params
  <2>4. Decay(params, ts[p]) = Exp((age * params.scale[1]) \div params.scale[2])
      BY <2>3 DEF Decay
  <2>5. (age * params.scale[1]) \div params.scale[2]
            = IF b > 0 /\ range > 0 THEN (age * b) \div range ELSE age
    <3>1. CASE range <= 0
      <4>1. params.scale[1] = 0 /\ params.scale[2] = 1
          BY <2>3, <3>1
      <4> HIDE DEF range, age, params, b
      <4>2. age = 0 /\ ~(range > 0)
          BY <1>5, <3>1
      <4>3. (0 * 0) \div 1 = 0
          OBVIOUS
      <4> QED
          BY <4>1, <4>2, <4>3
    <3>2. CASE range > 0 /\ b > 0
      <4>1. ~(range <= 0)
          BY <1>5, <3>2
      <4>2. params.scale[1] = b /\ params.scale[2] = range
          BY <2>3, <3>2, <4>1
      <4> HIDE DEF range, age, params, b
      <4> QED
          BY <3>2, <4>2
    <3>3. CASE range > 0 /\ ~(b > 0)
      <4>1. ~(range <= 0)
          BY <1>5, <3>3
      <4>2. params.scale[1] = 1 /\ params.scale[2] = 1
          BY <2>3, <3>3, <4>1
      <4> HIDE DEF range, age, params, b
      <4>3. (age * 1) \div 1 = age
          BY <1>5
      <4> QED
          BY <3>3, <4>2, <4>3
    <3> QED
      <4> HIDE DEF range, age, params, b
      <4> QED
          BY <1>5, <3>1, <3>2, <3>3
  <2> QED
      BY <1>9, <2>1, <2>2, <2>4, <2>5
<1> QED
    BY <1>3, <1>7, <1>8, <1>9 DEF Kinds
=============================================================================
