------------------------------ MODULE Lemmas ------------------------------
(***************************************************************************)
(* Facts about naturals and finite sets that the proofs rest on.           *)
(***************************************************************************)
EXTENDS Integers, FiniteSets, FiniteSetTheorems, TLAPS

(***************************************************************************)
(* Induction up to n, for a set of naturals: if m were missing, i |-> i+1  *)
(* would map the part of I up to m into that part without 0, and the       *)
(* pigeonhole principle forbids it.                                        *)
(***************************************************************************)
LEMMA BoundedInduction ==
  ASSUME NEW n \in Nat, NEW I, 0 \in I,
         \A i \in 0 .. n-1 : i \in I => i+1 \in I
  PROVE  0 .. n \subseteq I
<1> SUFFICES ASSUME NEW m \in 0 .. n, m \notin I PROVE FALSE
  OBVIOUS
<1> DEFINE T == { i \in 0 .. m : i \in I }
           U == T \ {0}
           f == [i \in T |-> i+1]
<1>1. IsFiniteSet(0 .. m)
  BY FS_Interval
<1>2. IsFiniteSet(T)
  <2>1. T \in SUBSET (0 .. m)
    OBVIOUS
  <2> QED BY <1>1, <2>1, FS_Subset
<1>3. IsFiniteSet(U) /\ Cardinality(U) = Cardinality(T) - 1
  <2>1. 0 \in T
    OBVIOUS
  <2> HIDE DEF T
  <2> QED BY <1>2, <2>1, FS_RemoveElement
<1>4. Cardinality(U) < Cardinality(T)
  <2> HIDE DEF T
  <2> QED BY <1>2, <1>3, FS_CardinalityType
<1>5. f \in [T -> U]
  <2> SUFFICES ASSUME NEW i \in T PROVE i+1 \in U
    OBVIOUS
  <2>1. i \in 0 .. n-1 /\ i # m
    OBVIOUS
  <2> QED BY <2>1
<1>6. PICK x \in T, y \in T : x # y /\ f[x] = f[y]
  <2> HIDE DEF T, U, f
  <2> QED BY <1>2, <1>3, <1>4, <1>5, FS_PigeonHole
<1> QED BY <1>6

\* A nonempty set of naturals up to n has a greatest element.
LEMMA GreatestExists ==
  ASSUME NEW n \in Nat, NEW S \in SUBSET (0 .. n), S # {}
  PROVE  \E x \in S : \A y \in S : y <= x
<1> SUFFICES ASSUME \A x \in S : \E y \in S : y > x PROVE FALSE
  OBVIOUS
<1> DEFINE I == { i \in 0 .. n : \E y \in S : y >= i }
<1>1. 0 \in I
  <2>1. PICK y \in S : TRUE
    OBVIOUS
  <2> QED BY <2>1
<1>2. ASSUME NEW i \in 0 .. n-1, i \in I PROVE i+1 \in I
  <2>1. PICK y \in S : y >= i
    BY <1>2
  <2>2. PICK z \in S : z > y
    OBVIOUS
  <2> QED BY <2>1, <2>2
<1>3. n \in I
  <2> HIDE DEF I
  <2>1. 0 .. n \subseteq I
    BY <1>1, <1>2, BoundedInduction
  <2> QED BY <2>1
<1> QED BY <1>3

\* A nonempty set of naturals has a least element, and a greatest one if it is finite.
LEMMA LeastExists ==
  ASSUME NEW S \in SUBSET Nat, S # {}
  PROVE  \E x \in S : \A y \in S : x <= y
<1> PICK n \in S : TRUE
  OBVIOUS
<1> SUFFICES ASSUME \A x \in S : \E y \in S : y < x PROVE FALSE
  OBVIOUS
<1> DEFINE I == { i \in 0 .. n : \A y \in S : i <= y }
<1>1. 0 \in I
  OBVIOUS
<1>2. ASSUME NEW i \in 0 .. n-1, i \in I PROVE i+1 \in I
  <2>1. i \notin S
    <3> SUFFICES ASSUME i \in S PROVE FALSE
      OBVIOUS
    <3>1. PICK y \in S : y < i
      OBVIOUS
    <3> QED BY <1>2, <3>1
  <2> QED BY <1>2, <2>1
<1>3. n \in I
  <2> HIDE DEF I
  <2>1. 0 .. n \subseteq I
    BY <1>1, <1>2, BoundedInduction
  <2> QED BY <2>1
<1>4. PICK y \in S : y < n
  OBVIOUS
<1> QED BY <1>3, <1>4

LEMMA GreatestOfFinite ==
  ASSUME NEW S \in SUBSET Nat, S # {}, IsFiniteSet(S)
  PROVE  \E x \in S : \A y \in S : y <= x
<1> SUFFICES ASSUME \A x \in S : \E y \in S : y > x PROVE FALSE
  OBVIOUS
<1> DEFINE Next(x) == CHOOSE y \in S : y > x /\ \A z \in S : z > x => y <= z
           f == [x \in S |-> Next(x)]
<1>1. PICK a \in S : \A y \in S : a <= y
  BY LeastExists
<1>2. ASSUME NEW x \in S
      PROVE  Next(x) \in S /\ Next(x) > x /\ \A z \in S : z > x => Next(x) <= z
  <2> DEFINE R == { y \in S : y > x }
  <2>1. R \in SUBSET Nat /\ R # {}
    OBVIOUS
  <2>2. PICK y \in R : \A z \in R : y <= z
    <3> HIDE DEF R
    <3> QED BY <2>1, LeastExists
  <2>3. \E u \in S : u > x /\ \A z \in S : z > x => u <= z
    BY <2>2
  <2> QED BY <2>3
<1> HIDE DEF Next
<1>3. f \in [S -> S \ {a}]
  <2> SUFFICES ASSUME NEW x \in S PROVE Next(x) \in S \ {a}
    OBVIOUS
  <2>1. Next(x) \in S /\ Next(x) > x /\ a <= x /\ a \in Nat /\ x \in Nat
    BY <1>1, <1>2
  <2> QED BY <2>1
<1>4. IsFiniteSet(S \ {a}) /\ Cardinality(S \ {a}) < Cardinality(S)
  <2>1. IsFiniteSet(S \ {a}) /\ Cardinality(S \ {a}) = Cardinality(S) - 1
    BY FS_RemoveElement
  <2>2. Cardinality(S) \in Nat
    BY FS_CardinalityType
  <2> QED BY <2>1, <2>2
<1>5. PICK x \in S, y \in S : x # y /\ f[x] = f[y]
  <2> HIDE DEF f
  <2> QED BY <1>3, <1>4, FS_PigeonHole
<1>6. Next(x) = Next(y) /\ x \in Nat /\ y \in Nat /\ Next(x) \in Nat
  BY <1>2, <1>5
<1>7. CASE x < y
  BY <1>2, <1>6, <1>7
<1>8. CASE y < x
  BY <1>2, <1>6, <1>8
<1> QED BY <1>5, <1>6, <1>7, <1>8

(***************************************************************************)
(* Two quorums of more than two thirds of U have more than a third of it   *)
(* in common: enough that what is left of U is no quorum.                  *)
(***************************************************************************)
LEMMA QuorumsMeet ==
  ASSUME NEW U, IsFiniteSet(U), NEW k \in Nat, 3 * k > 2 * Cardinality(U),
         NEW S \in SUBSET U, Cardinality(S) >= k,
         NEW T \in SUBSET U, Cardinality(T) >= k \/ T = U
  PROVE  Cardinality(S \cap T) + k > Cardinality(U)
<1>1. IsFiniteSet(S) /\ IsFiniteSet(T) /\ IsFiniteSet(S \cap T)
  BY FS_Subset, FS_Intersection
<1>2. /\ Cardinality(S) \in Nat /\ Cardinality(T) \in Nat /\ Cardinality(U) \in Nat
      /\ Cardinality(S \cap T) \in Nat
  BY <1>1, FS_CardinalityType
<1>3. Cardinality(S \cup T) = Cardinality(S) + Cardinality(T) - Cardinality(S \cap T)
  BY <1>1, FS_Union
<1>4. Cardinality(S \cup T) <= Cardinality(U) /\ Cardinality(S) <= Cardinality(U)
  BY FS_Subset
<1>5. Cardinality(S \cup T) \in Nat
  BY <1>1, FS_Union, FS_CardinalityType
<1>6. Cardinality(T) >= k
  BY <1>2, <1>4
<1> QED BY <1>2, <1>3, <1>4, <1>5, <1>6

\* A set in the part of U that S leaves has at most as many elements as that part.
LEMMA RestOfQuorum ==
  ASSUME NEW U, IsFiniteSet(U), NEW S \in SUBSET U, NEW T \in SUBSET U, S \cap T = {}
  PROVE  Cardinality(S) + Cardinality(T) <= Cardinality(U)
<1>1. IsFiniteSet(S) /\ IsFiniteSet(T)
  BY FS_Subset
<1>2. /\ Cardinality(S) \in Nat /\ Cardinality(T) \in Nat /\ Cardinality(U) \in Nat
  BY <1>1, FS_CardinalityType
<1>3. Cardinality(S \cup T) = Cardinality(S) + Cardinality(T) - Cardinality(S \cap T)
  BY <1>1, FS_Union
<1>4. Cardinality(S \cup T) <= Cardinality(U)
  BY FS_Subset
<1>5. Cardinality(S \cap T) = 0
  BY FS_EmptySet
<1> QED BY <1>2, <1>3, <1>4, <1>5

(***************************************************************************)
(* Induction over the subsets of a finite set: what the empty set is in,   *)
(* and any other if it is without each of its elements, every subset is    *)
(* in.                                                                     *)
(***************************************************************************)
Inductive(S, W) ==
  /\ {} \in W
  /\ \A s \in SUBSET S : s # {} /\ (\A x \in s : s \ {x} \in W) => s \in W

LEMMA SubsetInduction ==
  ASSUME NEW S, IsFiniteSet(S), NEW W, Inductive(S, W)
  PROVE  SUBSET S \subseteq W
<1> USE DEF Inductive
<1> PICK n \in Nat : n = Cardinality(S)
  BY FS_CardinalityType
<1> DEFINE I == { k \in 0 .. n : \A s \in SUBSET S : Cardinality(s) =< k => s \in W }
<1>1. \A s \in SUBSET S : IsFiniteSet(s) /\ Cardinality(s) \in 0 .. n
  BY FS_Subset, FS_CardinalityType
<1>2. 0 \in I
  <2> SUFFICES ASSUME NEW s \in SUBSET S, Cardinality(s) =< 0 PROVE s \in W
    OBVIOUS
  <2>1. Cardinality(s) = 0
    BY <1>1
  <2> QED BY <1>1, <2>1, FS_EmptySet
<1>3. ASSUME NEW k \in 0 .. n-1, k \in I PROVE k+1 \in I
  <2> SUFFICES \A s \in SUBSET S : Cardinality(s) =< k+1 => s \in W
    OBVIOUS
  <2> SUFFICES ASSUME NEW s \in SUBSET S, Cardinality(s) =< k+1, s # {} PROVE s \in W
    OBVIOUS
  <2>1. ASSUME NEW x \in s PROVE s \ {x} \in W
    <3>1. Cardinality(s \ {x}) = Cardinality(s) - 1
      BY <1>1, FS_RemoveElement
    <3>2. s \ {x} \in SUBSET S /\ Cardinality(s \ {x}) =< k
      BY <1>1, <3>1
    <3> QED BY <1>3, <3>2
  <2> QED BY <2>1
<1>4. n \in I
  <2> HIDE DEF I
  <2> QED BY <1>2, <1>3, BoundedInduction
<1> QED BY <1>1, <1>4

(***************************************************************************)
(* A function on the subsets of a finite set can be defined by what it is  *)
(* of the empty set and by a step that takes one element away.             *)
(***************************************************************************)
FoldStep(f, s, pick, base, step) ==
  f[s] = IF s = {} THEN base ELSE step[<< pick[s], f[s \ {pick[s]}] >>]

CanFold(S, V, pick, base, step) ==
  /\ IsFiniteSet(S)
  /\ base \in V /\ step \in [S \X V -> V]
  /\ \A s \in SUBSET S : s # {} => pick[s] \in s

Folds(f, S, V, pick, base, step) ==
  f \in [SUBSET S -> V] /\ \A s \in SUBSET S : FoldStep(f, s, pick, base, step)

LEMMA FoldExists ==
  ASSUME NEW S, NEW V, NEW pick, NEW base, NEW step, CanFold(S, V, pick, base, step)
  PROVE  \E f : Folds(f, S, V, pick, base, step)
<1> USE DEF CanFold, Folds
<1> PICK n \in Nat : n = Cardinality(S)
  BY FS_CardinalityType
<1> DEFINE Small(k) == { s \in SUBSET S : Cardinality(s) =< k }
           Run(f, k) == \A s \in Small(k) : FoldStep(f, s, pick, base, step)
           I == { k \in 0 .. n : \E f \in [Small(k) -> V] : Run(f, k) }
<1>1. \A s \in SUBSET S : IsFiniteSet(s) /\ Cardinality(s) \in 0 .. n
  BY FS_Subset, FS_CardinalityType
<1>2. 0 \in I
  <2> DEFINE f == [s \in Small(0) |-> base]
  <2>1. \A s \in Small(0) : s = {}
    <3> SUFFICES ASSUME NEW s \in Small(0) PROVE s = {}
      OBVIOUS
    <3>1. Cardinality(s) = 0
      BY <1>1
    <3> QED BY <1>1, <3>1, FS_EmptySet
  <2>2. f \in [Small(0) -> V]
    OBVIOUS
  <2>3. Run(f, 0)
    BY <2>1 DEF FoldStep
  <2> HIDE DEF f, Small
  <2> QED BY <2>2, <2>3
<1>3. ASSUME NEW k \in 0 .. n-1, k \in I PROVE k+1 \in I
  <2>1. PICK f \in [Small(k) -> V] : Run(f, k)
    BY <1>3
  <2> DEFINE g == [s \in Small(k+1) |->
                     IF s = {} THEN base ELSE step[<< pick[s], f[s \ {pick[s]}] >>]]
  <2>2. ASSUME NEW s \in Small(k+1), s # {}
        PROVE  pick[s] \in S /\ s \ {pick[s]} \in Small(k)
    <3>1. pick[s] \in s /\ s \in SUBSET S /\ Cardinality(s) =< k+1
      BY <2>2
    <3>2. Cardinality(s \ {pick[s]}) = Cardinality(s) - 1
      BY <1>1, <3>1, FS_RemoveElement
    <3>3. Cardinality(s \ {pick[s]}) =< k
      BY <1>1, <3>1, <3>2
    <3> QED BY <3>1, <3>3
  <2>3. g \in [Small(k+1) -> V]
    <3> SUFFICES ASSUME NEW s \in Small(k+1), s # {} PROVE step[<< pick[s], f[s \ {pick[s]}] >>] \in V
      OBVIOUS
    <3> HIDE DEF Small
    <3>1. f[s \ {pick[s]}] \in V
      BY <2>2
    <3> QED BY <2>2, <3>1
  <2>4. \A s \in Small(k) : s \in Small(k+1)
    BY <1>1
  <2>5. ASSUME NEW s \in Small(k) PROVE g[s] = f[s]
    <3>1. FoldStep(f, s, pick, base, step)
      BY <2>1
    <3>2. s \in Small(k+1)
      BY <2>4
    <3> HIDE DEF Small
    <3> QED BY <3>1, <3>2 DEF FoldStep
  <2>6. Run(g, k+1)
    <3> SUFFICES ASSUME NEW s \in Small(k+1) PROVE FoldStep(g, s, pick, base, step)
      OBVIOUS
    <3>1. s # {} => g[s \ {pick[s]}] = f[s \ {pick[s]}]
      BY <2>2, <2>5
    <3> HIDE DEF Small
    <3> QED BY <3>1 DEF FoldStep
  <2> HIDE DEF g, Small
  <2> QED BY <2>3, <2>6
<1>4. n \in I
  <2> HIDE DEF I
  <2> QED BY <1>2, <1>3, BoundedInduction
<1>5. Small(n) = SUBSET S
  BY <1>1
<1> QED BY <1>4, <1>5
==========================================================================
