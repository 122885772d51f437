------------------------------ MODULE Folding ------------------------------
(***************************************************************************)
(* What holds of a fold over a finite set: the function it is defined by   *)
(* exists, and what the start satisfies and each step keeps, the result    *)
(* satisfies.                                                              *)
(***************************************************************************)
EXTENDS FiniteInduction

CONSTANTS Op(_, _, _),    \* Op(env, x, r): the result for one more element x
          Pick(_, _),     \* Pick(env, D): an element of D
          Good(_, _, _)   \* Good(env, D, r): r is as wanted, once D has been folded

Equation(f, env, base, F) ==
    f = [D \in F |-> IF D = {} THEN base ELSE Op(env, Pick(env, D), f[D \ {Pick(env, D)}])]

Fold(env, base, S) == (CHOOSE f : Equation(f, env, base, SUBSET S))[S]

Sized(S, n) == {D \in SUBSET S : Cardinality(D) <= n}

(* The function a fold is defined by exists for sets one larger, when it   *)
(* does up to n.                                                           *)
LEMMA OneMore ==
    ASSUME NEW env, NEW base, NEW S, IsFiniteSet(S), NEW n \in Nat, NEW f,
           \A D \in SUBSET S : D # {} => Pick(env, D) \in D,
           Equation(f, env, base, Sized(S, n))
    PROVE  \E g : Equation(g, env, base, Sized(S, n + 1))
<1>1. \A D \in SUBSET S : IsFiniteSet(D) /\ Cardinality(D) \in Nat
  BY FS_Subset, FS_CardinalityType
<1> DEFINE Next(D) == IF D = {} THEN base ELSE Op(env, Pick(env, D), f[D \ {Pick(env, D)}])
           g == [D \in Sized(S, n + 1) |-> Next(D)]
<1>2. ASSUME NEW D \in Sized(S, n + 1), D # {}
      PROVE  D \ {Pick(env, D)} \in Sized(S, n)
  <2>1. D \in SUBSET S /\ Cardinality(D) <= n + 1 /\ Pick(env, D) \in D
    BY <1>2 DEF Sized
  <2>2. Cardinality(D \ {Pick(env, D)}) = Cardinality(D) - 1 /\ D \ {Pick(env, D)} \in SUBSET S
    BY <1>1, <2>1, FS_RemoveElement
  <2>3. QED
    BY <1>1, <2>1, <2>2 DEF Sized
<1>3. ASSUME NEW D \in Sized(S, n)
      PROVE  D \in Sized(S, n + 1) /\ f[D] = g[D]
  <2>1. D \in Sized(S, n + 1)
    BY <1>1 DEF Sized
  <2>2. f[D] = Next(D)
    BY DEF Equation
  <2>3. QED
    BY <2>1, <2>2
<1>4. \A D \in Sized(S, n + 1) : D # {} => f[D \ {Pick(env, D)}] = g[D \ {Pick(env, D)}]
  BY <1>2, <1>3
<1>5. Equation(g, env, base, Sized(S, n + 1))
  BY <1>4 DEF Equation
<1>6. QED
  BY <1>5

(* The function a fold over S is defined by exists. *)
LEMMA Exists ==
    ASSUME NEW env, NEW base, NEW S, IsFiniteSet(S),
           \A D \in SUBSET S : D # {} => Pick(env, D) \in D
    PROVE  \E f : Equation(f, env, base, SUBSET S)
<1> DEFINE Bad == {n \in Nat : ~ \E f : Equation(f, env, base, Sized(S, n))}
<1>1. \A D \in SUBSET S : IsFiniteSet(D) /\ Cardinality(D) \in Nat /\ Cardinality(D) <= Cardinality(S)
  BY FS_Subset, FS_CardinalityType
<1>2. 0 \notin Bad
  <2>1. \A D \in Sized(S, 0) : D = {}
    BY <1>1, FS_EmptySet DEF Sized
  <2>2. Equation([D \in Sized(S, 0) |-> base], env, base, Sized(S, 0))
    BY <2>1 DEF Equation
  <2>3. QED
    BY <2>2
<1>3. \A n \in Nat : n + 1 \in Bad => n \in Bad
  BY OneMore
<1>4. Bad = {}
  <2>1. SUFFICES ASSUME Bad # {} PROVE FALSE
    OBVIOUS
  <2>2. Bad \subseteq Nat
    OBVIOUS
  <2> HIDE DEF Bad
  <2>3. PICK n \in Bad : \A m \in Bad : n <= m
    BY <2>1, <2>2, LeastNumber
  <2>4. n \in Nat /\ n # 0 /\ n - 1 \in Nat /\ (n - 1) + 1 = n
    BY <1>2, <2>2
  <2>5. n - 1 \in Bad
    BY <1>3, <2>4
  <2>6. QED
    BY <2>3, <2>4, <2>5
<1>5. Cardinality(S) \in Nat /\ Sized(S, Cardinality(S)) = SUBSET S
  BY <1>1, FS_CardinalityType DEF Sized
<1>6. QED
  BY <1>4, <1>5

(* The result of a fold is as wanted when the start is and each step keeps *)
(* it so.                                                                  *)
LEMMA FoldKeeps ==
    ASSUME NEW env, NEW base, NEW S, IsFiniteSet(S),
           \A D \in SUBSET S : D # {} => Pick(env, D) \in D,
           Good(env, {}, base),
           \A D \in SUBSET S : D # {} =>
              \A r : Good(env, D \ {Pick(env, D)}, r) => Good(env, D, Op(env, Pick(env, D), r))
    PROVE  Good(env, S, Fold(env, base, S))
<1> DEFINE f == CHOOSE g : Equation(g, env, base, SUBSET S)
           T == {D \in SUBSET S : Good(env, D, f[D])}
<1>1. Equation(f, env, base, SUBSET S)
  <2>1. \E g : Equation(g, env, base, SUBSET S)
    BY Exists
  <2> HIDE DEF Equation
  <2>2. QED
    BY <2>1
<1> HIDE DEF f
<1>2. {} \in T
  BY <1>1 DEF Equation
<1>3. ASSUME NEW D \in SUBSET S, D # {}, \A x \in D : D \ {x} \in T
      PROVE  D \in T
  <2>1. Pick(env, D) \in D
    BY <1>3
  <2>2. Good(env, D \ {Pick(env, D)}, f[D \ {Pick(env, D)}])
    BY <1>3, <2>1
  <2>3. f[D] = Op(env, Pick(env, D), f[D \ {Pick(env, D)}])
    BY <1>1, <1>3 DEF Equation
  <2>4. QED
    BY <1>3, <2>2, <2>3
<1> HIDE DEF T
<1>4. S \in T
  BY <1>2, <1>3, SubsetInduction
<1>5. QED
  BY <1>4 DEF T, Fold, f
============================================================================
