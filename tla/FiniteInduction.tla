-------------------------- MODULE FiniteInduction --------------------------
(***************************************************************************)
(* Induction over natural numbers and over the subsets of a finite set,    *)
(* stated for sets of numbers and of subsets instead of for predicates.    *)
(***************************************************************************)
EXTENDS FiniteSetTheorems, WellFoundedInduction, Integers, TLAPS

(* A set of numbers that is not empty has a least one. *)
LEMMA LeastNumber ==
    ASSUME NEW T, T \subseteq Nat, T # {}
    PROVE  \E n \in T : \A m \in T : n <= m
<1> DEFINE Less == OpToRel(<, Nat)
<1>1. IsWellFoundedOn(Less, Nat)
  BY NatLessThanWellFounded, Zenon
<1>2. PICK n \in T : \A m \in T : ~ (<<m, n>> \in Less)
  <2> HIDE DEF Less
  <2>1. QED
    BY <1>1, WFMin
<1>3. \A m, k \in Nat : m < k => <<m, k>> \in Less
  BY DEF OpToRel
<1> HIDE DEF Less
<1>4. \A m \in T : ~ (m < n) /\ m \in Nat /\ n \in Nat
  BY <1>2, <1>3
<1>5. QED
  BY <1>4

(* A set of numbers up to n that is not empty has a greatest one. *)
LEMMA GreatestNumber ==
    ASSUME NEW n \in Nat, NEW T, T \subseteq 1..n, T # {}
    PROVE  \E m \in T : \A i \in T : i <= m
<1> DEFINE U == {i \in 0..n : n - i \in T}
<1>1. U \subseteq Nat /\ U # {}
  <2>1. PICK i \in T : TRUE
    OBVIOUS
  <2>2. i \in 1..n
    BY <2>1
  <2>3. n - i \in 0..n /\ n - (n - i) \in T
    BY <2>2
  <2>4. n - i \in U
    BY <2>3
  <2>5. U \subseteq Nat
    OBVIOUS
  <2>6. QED
    BY <2>4, <2>5
<1> HIDE DEF U
<1>2. PICK j \in U : \A m \in U : j <= m
  BY <1>1, LeastNumber
<1>3. j \in 0..n /\ n - j \in T
  BY <1>2 DEF U
<1>4. \A i \in T : i <= n - j
  <2>1. SUFFICES ASSUME NEW i \in T PROVE i <= n - j
    OBVIOUS
  <2>2. i \in 1..n /\ n - i \in 0..n /\ n - (n - i) = i
    OBVIOUS
  <2>3. n - i \in U
    BY <2>2 DEF U
  <2>4. j <= n - i
    BY <1>2, <2>3
  <2>5. QED
    BY <1>3, <2>2, <2>4
<1>5. QED
  BY <1>3, <1>4

(* The counterexample with the fewest elements has smaller sets below it,  *)
(* which are none.                                                         *)
LEMMA SubsetInduction ==
    ASSUME NEW S, IsFiniteSet(S), NEW T, {} \in T,
           \A D \in SUBSET S : (D # {} /\ \A x \in D : D \ {x} \in T) => D \in T
    PROVE  \A D \in SUBSET S : D \in T
<1> DEFINE Bad == (SUBSET S) \ T
<1>1. SUFFICES ASSUME Bad # {} PROVE FALSE
  OBVIOUS
<1>2. Bad \subseteq FiniteSubsetsOf(S)
  BY FS_FiniteSubsetsOfFinite
<1>3. PICK D \in Bad : \A C \in Bad : ~ (<<C, D>> \in StrictSubsetOrdering(S))
  <2> HIDE DEF Bad
  <2>1. QED
    BY <1>1, <1>2, FS_StrictSubsetOrderingWellFounded, WFMin
<1>4. PICK x \in D : D \ {x} \notin T
  OBVIOUS
<1>5. D \ {x} \in Bad /\ <<D \ {x}, D>> \in StrictSubsetOrdering(S)
  BY <1>4 DEF StrictSubsetOrdering
<1>6. QED
  BY <1>3, <1>5
============================================================================
