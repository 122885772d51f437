--------------------------- MODULE Interp_proofs ---------------------------
(***************************************************************************)
(* What holds of the interpreter when the blocks of its programs are well  *)
(* typed, with any number of calls: the types are true of the data at      *)
(* every statement.  From this follow KindFresh, FramesMatched, PopFinds   *)
(* and BlocksEnd, and that the program runs as it is written.              *)
(***************************************************************************)
EXTENDS BlockTypes, Exec_proofs, FiniteInduction

(* The constants of Exec are the data of Interp. *)
DataIsInterp ==
    /\ InitMem = StartMem
    /\ \A s, m : Eval(s, m) = EvalStmt(s, m) /\ Cond(s, m) = CondStmt(s, m)
    /\ \A k, m : Enter(k, m) = EnterActivation(k, m) /\ Leave(k, m) = LeaveActivation(k, m)
    /\ \A r, c, m : Result(r, c, m) = ResultOf(r, c, m)

-----------------------------------------------------------------------------
(* The interpreter's stack.                                                *)
Entries == Vars \union {Boundary}

(* Where x is above position b. *)
Spots(F, x, b) == {i \in DOMAIN F : i > b /\ F[i] = x}

(* There are finitely many such places. *)
LEMMA SpotsFinite ==
    ASSUME NEW S, NEW F \in Seq(S), NEW x, NEW b \in Nat
    PROVE  IsFiniteSet(Spots(F, x, b)) /\ Cardinality(Spots(F, x, b)) \in Nat
<1>1. Spots(F, x, b) \in SUBSET (1..Len(F)) /\ Len(F) \in Nat
  BY DEF Spots
<1>2. IsFiniteSet(1..Len(F))
  BY <1>1, FS_Interval
<1>3. QED
  BY <1>1, <1>2, FS_Subset, FS_CardinalityType

(* FrameStart is the last boundary, 0 if there is none. *)
LEMMA StartFacts ==
    ASSUME NEW F \in Seq(Entries)
    PROVE  /\ FrameStart(F) \in 0..Len(F)
           /\ FrameStart(F) # 0 => F[FrameStart(F)] = Boundary
           /\ \A i \in 1..Len(F) : F[i] = Boundary => i <= FrameStart(F)
<1> DEFINE B == Boundaries(F)
<1>1. B \subseteq 1..Len(F) /\ Len(F) \in Nat /\ \A i \in 1..Len(F) : i \in B <=> F[i] = Boundary
  BY DEF Boundaries
<1>2. CASE B = {}
  BY <1>1, <1>2 DEF FrameStart
<1>3. CASE B # {}
  <2>1. \E m \in B : \A i \in B : i <= m
    <3> HIDE DEF B
    <3>1. QED
      BY <1>1, <1>3, GreatestNumber
  <2>2. FrameStart(F) = CHOOSE m \in B : \A i \in B : i <= m
    BY <1>3 DEF FrameStart
  <2>3. FrameStart(F) \in B /\ \A i \in B : i <= FrameStart(F)
    <3> HIDE DEF B
    <3>1. QED
      BY <2>1, <2>2
  <2>4. QED
    BY <1>1, <2>3
<1>4. QED
  BY <1>2, <1>3

(* A position that is a boundary, with none above it, is where the frame   *)
(* on top starts.                                                          *)
LEMMA StartIs ==
    ASSUME NEW F \in Seq(Entries), NEW k \in 1..Len(F), F[k] = Boundary,
           \A i \in 1..Len(F) : F[i] = Boundary => i <= k
    PROVE  FrameStart(F) = k
<1>1. FrameStart(F) \in 0..Len(F) /\ k <= FrameStart(F)
  BY StartFacts
<1>2. FrameStart(F) \in 1..Len(F) /\ F[FrameStart(F)] = Boundary
  BY <1>1, StartFacts
<1>3. FrameStart(F) <= k
  BY <1>2
<1>4. QED
  BY <1>1, <1>3

(* A name that is there above the start of the frame is found there.       *)
LEMMA GetPosFacts ==
    ASSUME NEW F \in Seq(Entries), NEW x, Spots(F, x, FrameStart(F)) # {}
    PROVE  /\ GetPos(F, x) \in 1..Len(F)
           /\ GetPos(F, x) > FrameStart(F)
           /\ F[GetPos(F, x)] = x
<1> DEFINE P == {i \in DOMAIN F : i > FrameStart(F) /\ F[i] = x}
<1>1. P = Spots(F, x, FrameStart(F)) /\ P \subseteq 1..Len(F) /\ Len(F) \in Nat
  BY DEF Spots
<1>2. GetPos(F, x) = CHOOSE i \in P : \A j \in P : j <= i
  BY <1>1 DEF GetPos
<1>3. GetPos(F, x) \in P
  <2> HIDE DEF P
  <2>1. QED
    BY <1>1, <1>2, GreatestNumber
<1>4. QED
  BY <1>1, <1>3

-----------------------------------------------------------------------------
(* Adding an entry. *)
LEMMA AddSpots ==
    ASSUME NEW F \in Seq(Entries), NEW e \in Entries, NEW x, NEW b \in 0..Len(F)
    PROVE  Cardinality(Spots(Append(F, e), x, b)) =
               Cardinality(Spots(F, x, b)) + (IF x = e THEN 1 ELSE 0)
<1> DEFINE G == Append(F, e)
           n == Len(F)
<1>1. n \in Nat /\ Len(G) = n + 1 /\ G[n + 1] = e /\ \A i \in 1..n : G[i] = F[i]
  OBVIOUS
<1>2. DOMAIN G = 1..(n + 1) /\ DOMAIN F = 1..n
  OBVIOUS
<1>3. IsFiniteSet(Spots(F, x, b)) /\ n + 1 \notin Spots(F, x, b)
  <2>1. b \in Nat /\ n + 1 \notin 1..n
    BY <1>1
  <2>2. n + 1 \notin Spots(F, x, b)
    BY <2>1, <1>2 DEF Spots
  <2>3. QED
    BY <2>1, <2>2, SpotsFinite
<1>4. \A i \in 1..(n + 1) : i \in 1..n \/ i = n + 1
  BY <1>1
<1> HIDE DEF G, n
<1>5. CASE x = e
  <2>1. Spots(G, x, b) = Spots(F, x, b) \union {n + 1}
    BY <1>1, <1>2, <1>4, <1>5 DEF Spots, n
  <2>2. QED
    BY <1>3, <1>5, <2>1, FS_AddElement DEF G
<1>6. CASE x # e
  <2>1. Spots(G, x, b) = Spots(F, x, b)
    BY <1>1, <1>2, <1>4, <1>6 DEF Spots
  <2>2. Cardinality(Spots(F, x, b)) \in Nat
    BY SpotsFinite
  <2>3. QED
    BY <1>6, <2>1, <2>2 DEF G
<1>7. QED
  BY <1>5, <1>6

(* Taking the entry at position i off. *)
LEMMA WithoutFacts ==
    ASSUME NEW F \in Seq(Entries), NEW i \in 1..Len(F)
    PROVE  /\ Without(F, i) \in Seq(Entries)
           /\ Len(Without(F, i)) = Len(F) - 1
           /\ \A k \in 1..(Len(F) - 1) : Without(F, i)[k] = IF k < i THEN F[k] ELSE F[k + 1]
<1> DEFINE A == SubSeq(F, 1, i - 1)
           B == SubSeq(F, i + 1, Len(F))
<1>1. A \in Seq(Entries) /\ Len(A) = i - 1 /\ \A k \in 1..(i - 1) : A[k] = F[k]
  OBVIOUS
<1>2. B \in Seq(Entries) /\ Len(B) = Len(F) - i /\ \A k \in 1..(Len(F) - i) : B[k] = F[k + i]
  OBVIOUS
<1>3. Without(F, i) = A \o B
  BY DEF Without
<1>4. Len(F) \in Nat
  OBVIOUS
<1> HIDE DEF A, B
<1>5. /\ A \o B \in Seq(Entries) /\ Len(A \o B) = Len(A) + Len(B)
      /\ \A k \in 1..(Len(A) + Len(B)) : (A \o B)[k] = IF k <= Len(A) THEN A[k] ELSE B[k - Len(A)]
  BY <1>1, <1>2, ConcatProperties
<1>6. ASSUME NEW k \in 1..(Len(F) - 1)
      PROVE  Without(F, i)[k] = IF k < i THEN F[k] ELSE F[k + 1]
  <2>1. k \in 1..(Len(A) + Len(B))
    BY <1>1, <1>2, <1>4
  <2>2. CASE k < i
    <3>1. k \in 1..(i - 1) /\ k <= Len(A)
      BY <2>2, <1>1
    <3>2. QED
      BY <3>1, <2>1, <2>2, <1>1, <1>3, <1>5
  <2>3. CASE ~ (k < i)
    <3>1. k - (i - 1) \in 1..(Len(F) - i) /\ ~ (k <= Len(A)) /\ k - (i - 1) + i = k + 1
      BY <2>3, <1>1, <1>4
    <3>2. (A \o B)[k] = B[k - (i - 1)]
      BY <3>1, <2>1, <1>1, <1>5
    <3>3. B[k - (i - 1)] = F[k - (i - 1) + i]
      BY <3>1, <1>2
    <3>4. QED
      BY <3>1, <3>2, <3>3, <2>3, <1>3
  <2>4. QED
    BY <2>2, <2>3
<1>7. Len(Without(F, i)) = Len(F) - 1
  BY <1>1, <1>2, <1>3, <1>4, <1>5
<1>8. QED
  BY <1>3, <1>5, <1>6, <1>7

(* Taking entry i off the stack takes that one place away and no other. *)
LEMMA WithoutSpots ==
    ASSUME NEW F \in Seq(Entries), NEW i \in 1..Len(F), NEW x, NEW b \in 0..(i - 1)
    PROVE  Cardinality(Spots(Without(F, i), x, b)) =
               Cardinality(Spots(F, x, b)) - (IF F[i] = x THEN 1 ELSE 0)
<1> DEFINE G == Without(F, i)
           n == Len(F)
           S == Spots(G, x, b)
           T == Spots(F, x, b) \ {i}
           f == [k \in S |-> IF k < i THEN k ELSE k + 1]
<1>1. /\ G \in Seq(Entries) /\ Len(G) = n - 1 /\ n \in Nat
      /\ \A k \in 1..(n - 1) : G[k] = IF k < i THEN F[k] ELSE F[k + 1]
  <2>1. n \in Nat
    OBVIOUS
  <2> HIDE DEF G
  <2>2. QED
    BY <2>1, WithoutFacts DEF G
<1>2. DOMAIN G = 1..(n - 1) /\ DOMAIN F = 1..n
  BY <1>1
<1>3. b \in Nat
  OBVIOUS
<1> HIDE DEF G, n
<1>4. \A k \in S : k \in 1..(n - 1) /\ k > b /\ G[k] = x
  BY <1>2 DEF Spots
<1>5. \A k \in 1..n : k > b /\ F[k] = x /\ k # i => k \in T
  BY <1>2 DEF Spots
<1>6. \A k \in T : k \in 1..n /\ k > b /\ F[k] = x /\ k # i
  BY <1>2 DEF Spots
<1>7. \A k \in 1..(n - 1) : k > b /\ G[k] = x => k \in S
  BY <1>2 DEF Spots
<1>8. i \in 1..n
  BY DEF n
<1>9. ASSUME NEW k \in S
      PROVE  (IF k < i THEN k ELSE k + 1) \in T
  <2>1. k \in 1..(n - 1) /\ k > b /\ G[k] = x
    BY <1>4
  <2>2. CASE k < i
    <3>1. k \in 1..n /\ k # i /\ F[k] = x
      BY <2>1, <2>2, <1>1
    <3>2. QED
      BY <3>1, <2>1, <2>2, <1>5
  <2>3. CASE ~ (k < i)
    <3>1. k + 1 \in 1..n /\ k + 1 # i /\ F[k + 1] = x /\ k + 1 > b
      BY <2>1, <2>3, <1>1, <1>3, <1>8
    <3>2. QED
      BY <3>1, <2>3, <1>5
  <2>4. QED
    BY <2>2, <2>3
<1>10. ASSUME NEW k \in T
       PROVE  \E j \in S : (IF j < i THEN j ELSE j + 1) = k
  <2>1. k \in 1..n /\ k > b /\ F[k] = x /\ k # i
    BY <1>6
  <2>2. CASE k < i
    <3>1. k \in 1..(n - 1) /\ G[k] = x
      BY <2>1, <2>2, <1>1, <1>8
    <3>2. k \in S
      BY <3>1, <2>1, <1>7
    <3>3. QED
      BY <3>2, <2>2
  <2>3. CASE ~ (k < i)
    <3>1. k - 1 \in 1..(n - 1) /\ ~ (k - 1 < i) /\ (k - 1) + 1 = k /\ k - 1 > b
      BY <2>1, <2>3, <1>1, <1>3, <1>8
    <3>2. G[k - 1] = x
      BY <3>1, <2>1, <1>1
    <3>3. k - 1 \in S
      BY <3>1, <3>2, <1>7
    <3>4. QED
      BY <3>1, <3>3
  <2>4. QED
    BY <2>2, <2>3
<1>11. \A k \in S : k \in Nat
  BY <1>4
<1> HIDE DEF S, T
<1>12. f \in Bijection(S, T)
  <2>1. f \in [S -> T]
    BY <1>9
  <2>2. \A j, k \in S : f[j] = f[k] => j = k
    BY <1>8, <1>11
  <2>3. \A k \in T : \E j \in S : f[j] = k
    BY <1>10
  <2> HIDE DEF f
  <2>4. QED
    BY <2>1, <2>2, <2>3 DEF Bijection, Injection, Surjection, IsInjective
<1>13. IsFiniteSet(S)
  BY <1>1, <1>3, SpotsFinite DEF S
<1>14. Cardinality(S) = Cardinality(T)
  BY <1>12, <1>13, FS_Bijection DEF ExistsBijection
<1>15. IsFiniteSet(Spots(F, x, b)) /\ Cardinality(Spots(F, x, b)) \in Nat
  BY <1>3, SpotsFinite
<1>16. Cardinality(T) = IF i \in Spots(F, x, b) THEN Cardinality(Spots(F, x, b)) - 1
                        ELSE Cardinality(Spots(F, x, b))
  BY <1>15, FS_RemoveElement DEF T
<1>17. i \in Spots(F, x, b) <=> F[i] = x
  BY <1>2, <1>8, <1>3 DEF Spots
<1>18. QED
  BY <1>14, <1>15, <1>16, <1>17 DEF S, G
-----------------------------------------------------------------------------
(* What k says of the frames G of a call that began on the first b of them *)
(* is true.                                                                *)
HeldIn(G, x) == Cardinality(Spots(G, x, FrameStart(G)))

FramesAs(G, b, k) ==
    /\ b \in 0..Len(G)
    /\ k.framed => b < Len(G) /\ G[b + 1] = Boundary
    /\ b = Len(G) \/ G[b + 1] = Boundary
    /\ ~ k.leaked => IF k.framed THEN FrameStart(G) = b + 1 ELSE Len(G) = b
    /\ \A x \in Vars : k.held[x] <= HeldIn(G, x)

(* G has the first b entries of F. *)
Keeps(F, G, b) ==
    /\ G \in Seq(Entries)
    /\ b \in 0..Len(G)
    /\ \A i \in 1..b : G[i] = F[i]

FrameTypes(k) == k.framed \in BOOLEAN /\ k.leaked \in BOOLEAN /\ k.held \in [Vars -> Nat]

(* How often a name is held is a number. *)
LEMMA HeldType ==
    ASSUME NEW G \in Seq(Entries), NEW x
    PROVE  HeldIn(G, x) \in Nat
<1>1. FrameStart(G) \in Nat
  BY StartFacts
<1>2. QED
  BY <1>1, SpotsFinite DEF HeldIn

(* Frames that are as k says are as l says if k implies l. *)
LEMMA FramesFit ==
    ASSUME NEW G \in Seq(Entries), NEW b, NEW k, NEW l,
           FrameTypes(k), FrameTypes(l), FramesAs(G, b, k), Fits(k, l)
    PROVE  FramesAs(G, b, l)
<1>1. \A x \in Vars : l.held[x] <= HeldIn(G, x)
  <2>1. ASSUME NEW x \in Vars PROVE l.held[x] <= HeldIn(G, x)
    <3>1. l.held[x] \in Nat /\ k.held[x] \in Nat /\ HeldIn(G, x) \in Nat
      BY HeldType DEF FrameTypes
    <3>2. l.held[x] <= k.held[x] /\ k.held[x] <= HeldIn(G, x)
      BY DEF Fits, FramesAs
    <3>3. QED
      BY <3>1, <3>2
  <2>2. QED
    BY <2>1
<1>2. l.framed = k.framed /\ (k.leaked => l.leaked) /\ k.leaked \in BOOLEAN /\ l.leaked \in BOOLEAN
  BY DEF Fits, FrameTypes
<1>3. QED
  BY <1>1, <1>2 DEF FramesAs

(* Nothing is always held. *)
LEMMA NothingHeld ==
    ASSUME NEW G \in Seq(Entries), NEW x \in Vars
    PROVE  Nothing[x] <= HeldIn(G, x)
<1>1. Nothing[x] = 0 /\ HeldIn(G, x) \in Nat
  BY HeldType DEF Nothing
<1>2. QED
  BY <1>1

(* One more x is held, or one less. *)
OneMore(k, l, x) == l.held = [k.held EXCEPT ![x] = @ + 1]
OneLess(k, l, x) == l.held = [k.held EXCEPT ![x] = IF @ = 0 THEN 0 ELSE @ - 1]

(* A variable is added to the frame on top. *)
LEMMA AddFrames ==
    ASSUME NEW F \in Seq(Entries), NEW b, NEW k, NEW l, NEW x \in Vars,
           FrameTypes(k), FramesAs(F, b, k), k.framed,
           l.framed, l.leaked = k.leaked, OneMore(k, l, x)
    PROVE  /\ Keeps(F, Append(F, x), b) /\ FramesAs(Append(F, x), b, l)
           /\ Cardinality(Boundaries(Append(F, x))) = Cardinality(Boundaries(F))
<1> DEFINE G == Append(F, x)
           n == Len(F)
<1>1. /\ x \in Entries /\ x # Boundary /\ n \in Nat
      /\ G \in Seq(Entries) /\ Len(G) = n + 1 /\ G[n + 1] = x /\ \A i \in 1..n : G[i] = F[i]
  BY VarsAssumption DEF Entries
<1>2. b \in 0..n /\ b < n /\ F[b + 1] = Boundary
  BY DEF FramesAs
<1>3. /\ FrameStart(F) \in 0..n
      /\ FrameStart(F) # 0 => F[FrameStart(F)] = Boundary
      /\ \A i \in 1..n : F[i] = Boundary => i <= FrameStart(F)
  BY StartFacts
<1>4. \A y : Cardinality(Spots(G, y, FrameStart(F))) =
                 Cardinality(Spots(F, y, FrameStart(F))) + (IF y = x THEN 1 ELSE 0)
  BY <1>1, <1>3, AddSpots
<1>5. Cardinality(Spots(G, Boundary, 0)) = Cardinality(Spots(F, Boundary, 0))
  <2>1. 0 \in 0..Len(F)
    BY <1>1
  <2>2. Cardinality(Spots(G, Boundary, 0)) = Cardinality(Spots(F, Boundary, 0)) + 0
    BY <1>1, <2>1, AddSpots
  <2>3. Cardinality(Spots(F, Boundary, 0)) \in Nat
    BY SpotsFinite
  <2>4. QED
    BY <2>2, <2>3
<1> HIDE DEF G, n
<1>6. FrameStart(F) # 0
  BY <1>2, <1>3, <1>1
<1>7. FrameStart(G) = FrameStart(F)
  <2>1. FrameStart(F) \in 1..Len(G) /\ G[FrameStart(F)] = Boundary
    BY <1>1, <1>3, <1>6
  <2>2. \A i \in 1..Len(G) : G[i] = Boundary => i <= FrameStart(F)
    <3>1. \A i \in 1..Len(G) : i \in 1..n \/ i = n + 1
      BY <1>1
    <3>2. QED
      BY <3>1, <1>1, <1>3
  <2>3. QED
    BY <2>1, <2>2, <1>1, StartIs
<1>8. \A y \in Vars : l.held[y] <= HeldIn(G, y)
  <2>1. ASSUME NEW y \in Vars PROVE l.held[y] <= HeldIn(G, y)
    <3>1. k.held[y] <= HeldIn(F, y) /\ k.held[y] \in Nat /\ HeldIn(F, y) \in Nat
      BY HeldType DEF FramesAs, FrameTypes
    <3>2. HeldIn(G, y) = HeldIn(F, y) + (IF y = x THEN 1 ELSE 0)
      BY <1>4, <1>7 DEF HeldIn
    <3>3. l.held[y] = k.held[y] + (IF y = x THEN 1 ELSE 0)
      BY <3>1 DEF FrameTypes, OneMore
    <3>4. QED
      BY <3>1, <3>2, <3>3
  <2>2. QED
    BY <2>1
<1>9. Keeps(F, G, b)
  BY <1>1, <1>2 DEF Keeps
<1>10. b \in 0..Len(G) /\ b < Len(G) /\ G[b + 1] = Boundary
  BY <1>1, <1>2
<1>11. FramesAs(G, b, l)
  BY <1>7, <1>8, <1>10 DEF FramesAs, n
<1>12. Boundaries(G) = Spots(G, Boundary, 0) /\ Boundaries(F) = Spots(F, Boundary, 0)
  BY <1>1 DEF Boundaries, Spots, n
<1>13. QED
  BY <1>5, <1>9, <1>11, <1>12 DEF G

(* A variable that is held is found in the frame on top, and taken off it. *)
LEMMA PopFrames ==
    ASSUME NEW F \in Seq(Entries), NEW b, NEW k, NEW l, NEW x \in Vars,
           FrameTypes(k), FramesAs(F, b, k), k.framed, k.held[x] > 0,
           l.framed, l.leaked = k.leaked, OneLess(k, l, x)
    PROVE  /\ GetPos(F, x) # 0
           /\ Keeps(F, Without(F, GetPos(F, x)), b) /\ FramesAs(Without(F, GetPos(F, x)), b, l)
           /\ Cardinality(Boundaries(Without(F, GetPos(F, x)))) = Cardinality(Boundaries(F))
<1> DEFINE p == GetPos(F, x)
           G == Without(F, p)
           n == Len(F)
           start == FrameStart(F)
<1>1. n \in Nat /\ x # Boundary
  BY VarsAssumption
<1>2. b \in 0..n /\ b < n /\ F[b + 1] = Boundary
  BY DEF FramesAs
<1>3. /\ start \in 0..n
      /\ start # 0 => F[start] = Boundary
      /\ \A i \in 1..n : F[i] = Boundary => i <= start
  BY StartFacts
<1>4. Spots(F, x, start) # {}
  <2>1. k.held[x] \in Nat /\ HeldIn(F, x) \in Nat /\ k.held[x] <= HeldIn(F, x)
    BY HeldType DEF FramesAs, FrameTypes
  <2>2. Cardinality(Spots(F, x, start)) # 0
    BY <2>1 DEF HeldIn
  <2>3. QED
    BY <2>2, FS_EmptySet
<1>5. p \in 1..n /\ p > start /\ F[p] = x
  BY <1>4, GetPosFacts
<1> HIDE DEF p
<1>6. /\ G \in Seq(Entries) /\ Len(G) = n - 1
      /\ \A i \in 1..(n - 1) : G[i] = IF i < p THEN F[i] ELSE F[i + 1]
  BY <1>5, WithoutFacts
<1>7. start \in 0..(p - 1) /\ 0 \in 0..(p - 1)
  BY <1>1, <1>3, <1>5
<1>8. \A y : Cardinality(Spots(G, y, start)) =
                Cardinality(Spots(F, y, start)) - (IF F[p] = y THEN 1 ELSE 0)
  <2> HIDE DEF start, G
  <2>1. QED
    BY <1>5, <1>7, WithoutSpots DEF G
<1>9. Cardinality(Spots(G, Boundary, 0)) = Cardinality(Spots(F, Boundary, 0)) - 0
  <2>1. Cardinality(Spots(G, Boundary, 0)) =
          Cardinality(Spots(F, Boundary, 0)) - (IF F[p] = Boundary THEN 1 ELSE 0)
    BY <1>5, <1>7, WithoutSpots
  <2>2. QED
    BY <2>1, <1>1, <1>5
<1>10. Cardinality(Spots(F, Boundary, 0)) \in Nat
  BY SpotsFinite
<1> HIDE DEF G, n, start
<1>11. start # 0 /\ b + 1 <= start
  BY <1>1, <1>2, <1>3
<1>12. FrameStart(G) = start
  <2>1. start \in 1..Len(G) /\ G[start] = Boundary
    BY <1>1, <1>3, <1>5, <1>6, <1>11
  <2>2. ASSUME NEW i \in 1..Len(G), G[i] = Boundary
        PROVE  i <= start
    <3>1. CASE i < p
      BY <3>1, <2>2, <1>1, <1>3, <1>5, <1>6
    <3>2. CASE ~ (i < p)
      <4>1. i + 1 \in 1..n /\ F[i + 1] = Boundary
        BY <3>2, <2>2, <1>1, <1>6
      <4>2. i + 1 <= start
        BY <4>1, <1>3
      <4>3. QED
        BY <3>2, <4>2, <1>3, <1>5
    <3>3. QED
      BY <3>1, <3>2
  <2>3. QED
    BY <2>1, <2>2, <1>6, StartIs
<1>13. \A y \in Vars : l.held[y] <= HeldIn(G, y)
  <2>1. ASSUME NEW y \in Vars PROVE l.held[y] <= HeldIn(G, y)
    <3>1. k.held[y] <= HeldIn(F, y) /\ k.held[y] \in Nat /\ HeldIn(F, y) \in Nat
      BY HeldType DEF FramesAs, FrameTypes
    <3>2. HeldIn(G, y) = HeldIn(F, y) - (IF y = x THEN 1 ELSE 0)
      BY <1>5, <1>8, <1>12 DEF HeldIn, start
    <3>3. l.held[y] = k.held[y] - (IF y = x THEN 1 ELSE 0)
      BY <3>1 DEF FrameTypes, OneLess
    <3>4. QED
      BY <3>1, <3>2, <3>3
  <2>2. QED
    BY <2>1
<1>14. b \in 0..Len(G) /\ b < Len(G) /\ G[b + 1] = Boundary /\ \A i \in 1..b : G[i] = F[i]
  BY <1>1, <1>2, <1>3, <1>5, <1>6, <1>11
<1>15. Keeps(F, G, b)
  BY <1>6, <1>14 DEF Keeps
<1>16. FramesAs(G, b, l)
  BY <1>12, <1>13, <1>14 DEF FramesAs, start
<1>17. Boundaries(G) = Spots(G, Boundary, 0) /\ Boundaries(F) = Spots(F, Boundary, 0)
  BY <1>6 DEF Boundaries, Spots
<1>18. p # 0
  BY <1>5
<1>19. Cardinality(Boundaries(G)) = Cardinality(Boundaries(F))
  BY <1>9, <1>10, <1>17
<1>20. QED
  BY <1>15, <1>16, <1>18, <1>19 DEF G, p
(* A frame is pushed. *)
LEMMA PushFrame ==
    ASSUME NEW F \in Seq(Entries), NEW b, NEW k, NEW l,
           FrameTypes(k), FramesAs(F, b, k), ~ k.framed,
           l.framed, l.leaked = k.leaked, l.held = Nothing
    PROVE  /\ Keeps(F, Append(F, Boundary), b) /\ FramesAs(Append(F, Boundary), b, l)
           /\ Cardinality(Boundaries(Append(F, Boundary))) = Cardinality(Boundaries(F)) + 1
<1> DEFINE G == Append(F, Boundary)
           n == Len(F)
<1>1. /\ Boundary \in Entries /\ n \in Nat
      /\ G \in Seq(Entries) /\ Len(G) = n + 1 /\ G[n + 1] = Boundary /\ \A i \in 1..n : G[i] = F[i]
  BY DEF Entries
<1>2. b \in 0..n /\ (b = n \/ F[b + 1] = Boundary) /\ (~ k.leaked => n = b)
  BY DEF FramesAs
<1>3. Cardinality(Spots(G, Boundary, 0)) = Cardinality(Spots(F, Boundary, 0)) + 1
  <2>1. 0 \in 0..Len(F)
    BY <1>1
  <2>2. QED
    BY <1>1, <2>1, AddSpots
<1>4. Boundaries(G) = Spots(G, Boundary, 0) /\ Boundaries(F) = Spots(F, Boundary, 0)
  BY <1>1 DEF Boundaries, Spots
<1>5. \A x \in Vars : l.held[x] <= HeldIn(G, x)
  BY <1>1, NothingHeld
<1> HIDE DEF G, n
<1>6. FrameStart(G) = n + 1
  <2>1. n + 1 \in 1..Len(G) /\ \A i \in 1..Len(G) : i <= n + 1
    BY <1>1
  <2>2. QED
    BY <1>1, <2>1, StartIs
<1>7. b \in 0..Len(G) /\ b < Len(G) /\ G[b + 1] = Boundary /\ \A i \in 1..b : G[i] = F[i]
  <2>1. b = n \/ b + 1 \in 1..n
    BY <1>1, <1>2
  <2>2. b \in 0..Len(G) /\ b < Len(G) /\ \A i \in 1..b : i \in 1..n
    BY <1>1, <1>2
  <2>3. QED
    BY <1>1, <1>2, <2>1, <2>2
<1>8. FramesAs(G, b, l)
  BY <1>2, <1>5, <1>6, <1>7 DEF FramesAs
<1>9. Keeps(F, G, b)
  BY <1>1, <1>7 DEF Keeps
<1>10. QED
  BY <1>3, <1>4, <1>8, <1>9 DEF G

(* The frame on top is taken off. *)
LEMMA DropFrame ==
    ASSUME NEW F \in Seq(Entries), NEW b, NEW k, NEW l,
           FrameTypes(k), FramesAs(F, b, k), k.framed,
           ~ l.framed, l.leaked = k.leaked, l.held = Nothing
    PROVE  /\ Keeps(F, FramePopped(F), b) /\ FramesAs(FramePopped(F), b, l)
           /\ Cardinality(Boundaries(F)) = Cardinality(Boundaries(FramePopped(F))) + 1
<1> DEFINE start == FrameStart(F)
           G == SubSeq(F, 1, start - 1)
           n == Len(F)
<1>1. n \in Nat
  OBVIOUS
<1>2. b \in 0..n /\ b < n /\ F[b + 1] = Boundary /\ (~ k.leaked => start = b + 1)
  BY DEF FramesAs
<1>3. /\ start \in 0..n
      /\ start # 0 => F[start] = Boundary
      /\ \A i \in 1..n : F[i] = Boundary => i <= start
  BY StartFacts
<1>4. start \in 1..n /\ b + 1 <= start
  BY <1>1, <1>2, <1>3
<1> HIDE DEF start
<1>5. G \in Seq(Entries) /\ Len(G) = start - 1 /\ \A i \in 1..(start - 1) : G[i] = F[i]
  BY <1>1, <1>4
<1>6. \A x \in Vars : l.held[x] <= HeldIn(G, x)
  BY <1>5, NothingHeld
<1>7. Boundaries(G) = {i \in 1..(start - 1) : G[i] = Boundary} /\ Boundaries(F) = {i \in 1..n : F[i] = Boundary}
  BY <1>5 DEF Boundaries
<1> HIDE DEF G, n
<1>8. Boundaries(F) = Boundaries(G) \union {start} /\ start \notin Boundaries(G)
  <2>1. \A i \in 1..n : F[i] = Boundary => i = start \/ i \in 1..(start - 1)
    BY <1>1, <1>3, <1>4
  <2>2. start \notin 1..(start - 1) /\ \A i \in 1..(start - 1) : i \in 1..n
    BY <1>1, <1>4
  <2>3. QED
    BY <1>3, <1>4, <1>5, <1>7, <2>1, <2>2
<1>9. IsFiniteSet(Boundaries(G))
  <2>1. Boundaries(G) \subseteq 1..(start - 1) /\ start - 1 \in Nat
    BY <1>1, <1>4, <1>7
  <2>2. IsFiniteSet(1..(start - 1))
    BY <2>1, FS_Interval
  <2>3. QED
    BY <2>1, <2>2, FS_Subset
<1>10. Cardinality(Boundaries(F)) = Cardinality(Boundaries(G)) + 1
  BY <1>8, <1>9, FS_AddElement
<1>11. b \in 0..Len(G) /\ (b = Len(G) \/ G[b + 1] = Boundary) /\ \A i \in 1..b : G[i] = F[i]
  <2>1. b \in 0..Len(G) /\ (b = Len(G) \/ b + 1 \in 1..(start - 1))
    BY <1>1, <1>2, <1>4, <1>5
  <2>2. \A i \in 1..b : i \in 1..(start - 1)
    BY <1>1, <1>2, <1>4
  <2>3. QED
    BY <1>2, <1>5, <2>1, <2>2
<1>12. ~ k.leaked => Len(G) = b
  BY <1>1, <1>2, <1>4, <1>5
<1>13. FramesAs(G, b, l)
  BY <1>6, <1>11, <1>12 DEF FramesAs
<1>14. Keeps(F, G, b)
  BY <1>5, <1>11 DEF Keeps
<1>15. FramePopped(F) = G
  BY DEF FramePopped, G, start
<1>16. QED
  BY <1>10, <1>13, <1>14, <1>15

(* What is above position b does not matter to what is below it. *)
LEMMA PrefixSame ==
    ASSUME NEW F \in Seq(Entries), NEW G, NEW b, Keeps(F, G, b), b <= Len(F), NEW c \in 0..b
    PROVE  SubSeq(G, 1, c) = SubSeq(F, 1, c)
  BY DEF Keeps

(* A call that has begun has no frames of its own.                         *)
LEMMA NoFramesYet ==
    ASSUME NEW F \in Seq(Entries)
    PROVE  FramesAs(F, Len(F), [framed |-> FALSE, leaked |-> FALSE, held |-> Nothing])
<1>1. Len(F) \in 0..Len(F)
  OBVIOUS
<1>2. \A x \in Vars : Nothing[x] <= HeldIn(F, x)
  BY NothingHeld
<1>3. QED
  BY <1>1, <1>2 DEF FramesAs

-----------------------------------------------------------------------------
(* The invariant. *)
Signals == {"ok", "true", "false", "usr", "lng", "bt", "exit"}

Mem == [frames : Seq(Entries), kind : Kinds, reg : Regs,
        calls : Seq(DOMAIN Outcomes \union DOMAIN Code[prog]), sig : Signals, left : Nat]

(* Types of the parts of the data. *)
LEMMA MemFacts ==
    ASSUME NEW m \in Mem
    PROVE  /\ m.frames \in Seq(Entries) /\ Len(m.frames) \in Nat
           /\ m.calls \in Seq(DOMAIN Outcomes \union DOMAIN Code[prog]) /\ Len(m.calls) \in Nat
           /\ m.left \in Nat
<1>1. m.frames \in Seq(Entries) /\ m.left \in Nat
  BY DEF Mem
<1>2. m.calls \in Seq(DOMAIN Outcomes \union DOMAIN Code[prog])
  BY DEF Mem
<1>3. QED
  BY <1>1, <1>2, LenProperties

InBlock(c) == c.pc \in DOMAIN BlocksOf(c.proc)[c.blk]

KnownAt(c) == Known(prog, c.proc, c.blk)[c.pc]

(* An activation is in a block that has types, and a try section fails over *)
(* to the catch block they name.                                            *)
Placed(c) == /\ c.blk \in DOMAIN Types[prog].known[c.proc]
             /\ c.fail = Catch(prog, c.proc, c.blk)

(* lv[i]: the call activation i is part of; bs[i]: the entries of the stack *)
(* when that call began.                                                    *)
Levels(s, lv, bs) ==
    /\ lv \in [1..Len(s) -> Nat \ {0}] /\ bs \in [1..Len(s) -> Nat]
    /\ lv[1] = 1 /\ bs[1] = 0
    /\ \A i, j \in 1..Len(s) : i <= j => lv[i] <= lv[j] /\ bs[i] <= bs[j]
    /\ \A i \in 1..(Len(s) - 1) :
          /\ lv[i + 1] = lv[i] + (IF s[i + 1].kind = "proc" THEN 1 ELSE 0)
          /\ s[i + 1].kind = "try" => bs[i + 1] = bs[i]

(* The statement activation i waits at is the call that activation i + 1   *)
(* runs, and what is known there is true of the stack below that call.     *)
Awaits(s, m, lv, bs, i) ==
    /\ StmtOf(s[i]).do = "call"
    /\ StmtOf(s[i]).f = s[i + 1].proc
    /\ StmtOf(s[i]).id = m.calls[lv[i]]
    /\ FramesAs(SubSeq(m.frames, 1, bs[i + 1]), bs[i], KnownAt(s[i]))

Callers(s, m, lv, bs) ==
    /\ Levels(s, lv, bs)
    /\ lv[Len(s)] = Len(m.calls)
    /\ bs[Len(s)] <= Len(m.frames)
    /\ \A i \in 1..(Len(s) - 1) : s[i + 1].kind = "proc" => Awaits(s, m, lv, bs, i)

(* The frames are those of the calls, and of the ones exceptions have left. *)
FramesCounted(m, k) ==
    Cardinality(Boundaries(m.frames)) =
        (Len(m.calls) - 1) + (IF k.framed THEN 1 ELSE 0) + m.left

(* What k says of the data is true, for a call that began on b entries.    *)
TrueOf(m, b, k) == FrameTypes(k) /\ FramesAs(m.frames, b, k) /\ FramesCounted(m, k)

RunsAs(c, m, b) ==
    InBlock(c) /\ TrueOf(m, b, KnownAt(c)) /\ RunOf(m) \in KnownAt(c).runs

ThrowsAs(c, m, b) ==
    \E k : TrueOf(m, b, k) /\ k.framed /\ Lands(prog, c.proc, c.blk, k, {RunOf(m)})

TopAs(s, md, m, b) ==
    /\ md = "run" => RunsAs(s[Len(s)], m, b)
    /\ md = "unwind" => ThrowsAs(s[Len(s)], m, b)

DataOK(s, md, m) ==
    /\ m \in Mem
    /\ \A i \in 1..Len(s) : Placed(s[i])
    /\ \E lv, bs : Callers(s, m, lv, bs) /\ TopAs(s, md, m, bs[Len(s)])

DataInv == mode \in {"run", "unwind"} => DataOK(ctxs, mode, mem)

-----------------------------------------------------------------------------
(* What the types say of a procedure and of a statement an activation is   *)
(* at.                                                                     *)
LEMMA TypedProc ==
    ASSUME WellTyped(Programs), prog \in Programs, NEW p \in Procs
    PROVE  /\ ProcTyped(prog, p)
           /\ DOMAIN Types[prog].known[p] \subseteq AllBlocks
           /\ NoBlock \notin DOMAIN Depth[prog][p]
<1>1. ProcTyped(prog, p)
  BY DEF WellTyped, ProgramTyped, Procs
<1>2. ProcLabelled(Code[prog][p], Depth[prog][p])
  BY ProgramsAssumption DEF Procs, Labelled
<1>3. DOMAIN Types[prog].known[p] \subseteq DOMAIN Depth[prog][p] /\ NoBlock \notin DOMAIN Depth[prog][p]
  BY <1>1 DEF ProcTyped
<1>4. DOMAIN Depth[prog][p] \subseteq DOMAIN BlocksOf(p)
  BY <1>2 DEF ProcLabelled, BlocksOf
<1>5. QED
  BY <1>1, <1>3, <1>4 DEF AllBlocks

(* Each statement of a block with types keeps to them. *)
LEMMA TypedStmt ==
    ASSUME WellTyped(Programs), prog \in Programs, NEW c,
           c.proc \in Procs, Placed(c), InBlock(c)
    PROVE  StmtTyped(prog, c.proc, c.blk, c.pc) /\ FrameTypes(KnownAt(c))
<1>1. ProcTyped(prog, c.proc)
  BY TypedProc
<1>2. StmtTyped(prog, c.proc, c.blk, c.pc)
  BY <1>1 DEF ProcTyped, Placed, InBlock, BlocksOf
<1>3. QED
  BY <1>2 DEF StmtTyped, FrameTypes, KnownAt

(* A block that is entered is in its types. *)
LEMMA EnterBlock ==
    ASSUME WellTyped(Programs), prog \in Programs, NEW c, c.proc \in Procs,
           NEW m, NEW b, NEW k, NEW R, NEW to,
           TrueOf(m, b, k), RunOf(m) \in R, Enters(prog, c.proc, to, k, R), m \in Mem
    PROVE  to \in DOMAIN Types[prog].known[c.proc] /\ RunsAs(MovedTo(c, to, 1), m, b)
<1> DEFINE d == MovedTo(c, to, 1)
<1>1. d.proc = c.proc /\ d.blk = to /\ d.pc = 1
  BY DEF MovedTo
<1>2. /\ to \in DOMAIN Types[prog].known[c.proc]
      /\ Fits(k, KnownAt(d)) /\ RunOf(m) \in KnownAt(d).runs
  BY <1>1 DEF Enters, KnownAt
<1> HIDE DEF d
<1>3. InBlock(d) /\ FrameTypes(KnownAt(d))
  <2>1. ProcTyped(prog, c.proc)
    BY TypedProc
  <2>2. 1 \in DOMAIN BlocksOf(c.proc)[to] /\ StmtTyped(prog, c.proc, to, 1)
    BY <1>2, <2>1 DEF ProcTyped, BlocksOf
  <2>3. QED
    BY <1>1, <2>2 DEF InBlock, StmtTyped, FrameTypes, KnownAt
<1>4. FramesAs(m.frames, b, KnownAt(d)) /\ FramesCounted(m, KnownAt(d))
  <2>1. m.frames \in Seq(Entries) /\ FrameTypes(k) /\ FramesAs(m.frames, b, k)
    BY DEF Mem, TrueOf
  <2>2. FramesAs(m.frames, b, KnownAt(d))
    BY <2>1, <1>2, <1>3, FramesFit
  <2>3. KnownAt(d).framed = k.framed
    BY <1>2 DEF Fits
  <2>4. QED
    BY <2>2, <2>3 DEF TrueOf, FramesCounted
<1>5. QED
  BY <1>2, <1>3, <1>4 DEF RunsAs, TrueOf, d

(* A set of outcomes that lands: each of them does. *)
LEMMA LandsOne ==
    ASSUME NEW c, NEW k, NEW R, NEW r \in R, Lands(prog, c.proc, c.blk, k, R)
    PROVE  Lands(prog, c.proc, c.blk, k, {r})
<1>1. CASE Catch(prog, c.proc, c.blk) # NoBlock
  <2>1. Enters(prog, c.proc, Catch(prog, c.proc, c.blk), k, R)
    BY <1>1 DEF Lands
  <2>2. Enters(prog, c.proc, Catch(prog, c.proc, c.blk), k, {r})
    BY <2>1 DEF Enters
  <2>3. QED
    BY <1>1, <2>2 DEF Lands
<1>2. CASE Catch(prog, c.proc, c.blk) = NoBlock
  BY <1>2 DEF Lands
<1>3. QED
  BY <1>1, <1>2

-----------------------------------------------------------------------------
(* What changing the activations does to the callers. *)

(* The activation on top moves, and the part that ran last changes. *)
LEMMA MoveCallers ==
    ASSUME NEW s \in Seq(Act), Len(s) > 0, NEW t \in Seq(Act), Len(t) = Len(s),
           \A i \in 1..(Len(s) - 1) : t[i] = s[i],
           t[Len(s)].kind = s[Len(s)].kind, t[Len(s)].proc = s[Len(s)].proc,
           NEW m \in Mem, NEW l \in Mem, Len(l.calls) = Len(m.calls),
           \A i \in 1..(Len(m.calls) - 1) : l.calls[i] = m.calls[i],
           NEW lv, NEW bs, Callers(s, m, lv, bs), Keeps(m.frames, l.frames, bs[Len(s)])
    PROVE  Callers(t, l, lv, bs)
<1> DEFINE n == Len(s)
<1>1. n \in Nat /\ n > 0 /\ m.frames \in Seq(Entries) /\ l.frames \in Seq(Entries)
  BY DEF Mem
<1>2. /\ lv \in [1..n -> Nat \ {0}] /\ bs \in [1..n -> Nat]
      /\ \A i, j \in 1..n : i <= j => lv[i] <= lv[j] /\ bs[i] <= bs[j]
      /\ lv[n] = Len(m.calls) /\ bs[n] <= Len(m.frames)
  BY DEF Callers, Levels
<1>3. \A i \in 1..n : t[i].kind = s[i].kind /\ t[i].proc = s[i].proc
  <2>1. \A i \in 1..n : i \in 1..(n - 1) \/ i = n
    BY <1>1
  <2>2. QED
    BY <2>1
<1>4. \A i \in 1..(n - 1) : i \in 1..n /\ i + 1 \in 1..n /\ i <= n /\ i + 1 <= n
  BY <1>1
<1> HIDE DEF n
<1>5. Levels(t, lv, bs)
  BY <1>3, <1>4 DEF Callers, Levels, n
<1>6. ASSUME NEW i \in 1..(n - 1), t[i + 1].kind = "proc"
      PROVE  Awaits(t, l, lv, bs, i)
  <2>1. i \in 1..n /\ i + 1 \in 1..n /\ n \in 1..n /\ i + 1 <= n
    BY <1>1
  <2>2. Awaits(s, m, lv, bs, i) /\ t[i] = s[i] /\ t[i + 1].proc = s[i + 1].proc /\ s[i + 1].kind = "proc"
    BY <1>3, <1>6, <2>1 DEF Callers, n
  <2>3. lv[i + 1] = lv[i] + 1 /\ lv[i + 1] <= lv[n] /\ bs[i + 1] <= bs[n]
    BY <1>2, <2>1, <2>2 DEF Callers, Levels, n
  <2>4. l.calls[lv[i]] = m.calls[lv[i]]
    <3>1. lv[i] \in 1..(Len(m.calls) - 1)
      <4>1. lv[i] \in Nat \ {0} /\ lv[n] \in Nat
        BY <1>2, <2>1
      <4>2. QED
        BY <4>1, <1>2, <2>3
    <3>2. QED
      BY <3>1
  <2>5. SubSeq(l.frames, 1, bs[i + 1]) = SubSeq(m.frames, 1, bs[i + 1])
    <3>1. bs[i + 1] \in 0..bs[n] /\ bs[n] <= Len(m.frames)
      <4>1. bs[i + 1] \in Nat /\ bs[n] \in Nat
        BY <1>2, <2>1
      <4>2. QED
        BY <4>1, <1>2, <2>3
    <3>2. Keeps(m.frames, l.frames, bs[n])
      BY DEF n
    <3>3. QED
      BY <1>1, <3>1, <3>2, PrefixSame
  <2>6. QED
    BY <2>2, <2>4, <2>5 DEF Awaits
<1>7. bs[n] <= Len(l.frames)
  BY <1>2 DEF Keeps, n
<1>8. QED
  BY <1>2, <1>5, <1>6, <1>7 DEF Callers, n

(* The activation on top ends: what is below it waits no longer. *)
LEMMA DropCallers ==
    ASSUME NEW s \in Seq(Act), Len(s) > 1,
           NEW m \in Mem, NEW l \in Mem, NEW lv, NEW bs, Callers(s, m, lv, bs),
           Len(l.calls) = lv[Len(s) - 1],
           \A i \in 1..(lv[Len(s) - 1] - 1) : l.calls[i] = m.calls[i],
           Keeps(m.frames, l.frames, bs[Len(s) - 1])
    PROVE  \E lw, bt : /\ Callers(SubSeq(s, 1, Len(s) - 1), l, lw, bt)
                       /\ bt[Len(s) - 1] = bs[Len(s) - 1]
<1> DEFINE n == Len(s)
           t == SubSeq(s, 1, n - 1)
           lw == [i \in 1..(n - 1) |-> lv[i]]
           bt == [i \in 1..(n - 1) |-> bs[i]]
<1>1. n \in Nat /\ n > 1 /\ m.frames \in Seq(Entries) /\ l.frames \in Seq(Entries)
  BY DEF Mem
<1>2. t \in Seq(Act) /\ Len(t) = n - 1 /\ \A i \in 1..(n - 1) : t[i] = s[i]
  BY <1>1
<1>3. /\ lv \in [1..n -> Nat \ {0}] /\ bs \in [1..n -> Nat]
      /\ \A i, j \in 1..n : i <= j => lv[i] <= lv[j] /\ bs[i] <= bs[j]
      /\ \A i \in 1..(n - 1) :
          /\ lv[i + 1] = lv[i] + (IF s[i + 1].kind = "proc" THEN 1 ELSE 0)
          /\ s[i + 1].kind = "try" => bs[i + 1] = bs[i]
      /\ lv[1] = 1 /\ bs[1] = 0
      /\ lv[n] = Len(m.calls) /\ bs[n] <= Len(m.frames)
  BY DEF Callers, Levels
<1>4. \A i \in 1..(n - 1) : i \in 1..n
  BY <1>1
<1>5. \A i \in 1..((n - 1) - 1) : i \in 1..(n - 1) /\ i + 1 \in 1..(n - 1) /\ i + 1 <= n - 1
  BY <1>1
<1>6. 1 \in 1..(n - 1) /\ n - 1 \in 1..(n - 1) /\ n - 1 \in 1..n /\ n \in 1..n /\ n - 1 <= n
  BY <1>1
<1>7. (\A i \in 1..(n - 1) : lw[i] = lv[i] /\ bt[i] = bs[i]) /\ DOMAIN lw = 1..(n - 1) /\ DOMAIN bt = 1..(n - 1)
  OBVIOUS
<1>8. lw \in [1..(n - 1) -> Nat \ {0}] /\ bt \in [1..(n - 1) -> Nat]
  BY <1>3, <1>4
<1> HIDE DEF n, t, lw, bt
<1>9. Levels(t, lw, bt)
  <2>1. \A i, j \in 1..(n - 1) : i <= j => lw[i] <= lw[j] /\ bt[i] <= bt[j]
    BY <1>3, <1>4, <1>7
  <2>2. lw[1] = 1 /\ bt[1] = 0
    BY <1>3, <1>6, <1>7
  <2>3. \A i \in 1..((n - 1) - 1) :
          /\ lw[i + 1] = lw[i] + (IF t[i + 1].kind = "proc" THEN 1 ELSE 0)
          /\ t[i + 1].kind = "try" => bt[i + 1] = bt[i]
    BY <1>2, <1>3, <1>5, <1>7
  <2>4. QED
    BY <1>2, <1>8, <2>1, <2>2, <2>3 DEF Levels
<1>10. ASSUME NEW i \in 1..((n - 1) - 1), t[i + 1].kind = "proc"
       PROVE  Awaits(t, l, lw, bt, i)
  <2>1. i \in 1..(n - 1) /\ i + 1 \in 1..(n - 1) /\ i + 1 <= n - 1 /\ i \in 1..n /\ i + 1 \in 1..n
    BY <1>4, <1>5
  <2>2. t[i] = s[i] /\ t[i + 1] = s[i + 1] /\ lw[i] = lv[i] /\ bt[i] = bs[i] /\ bt[i + 1] = bs[i + 1]
    BY <1>2, <1>7, <2>1
  <2>3. Awaits(s, m, lv, bs, i)
    BY <1>10, <2>1, <2>2 DEF Callers, n
  <2>4. lv[i + 1] = lv[i] + 1 /\ lv[i + 1] <= lv[n - 1] /\ bs[i + 1] <= bs[n - 1] /\ bs[n - 1] <= bs[n]
    BY <1>3, <1>6, <1>10, <2>1, <2>2
  <2>5. l.calls[lv[i]] = m.calls[lv[i]]
    <3>1. lv[i] \in Nat \ {0} /\ lv[n - 1] \in Nat
      BY <1>3, <1>6, <2>1
    <3>2. lv[i] \in 1..(lv[n - 1] - 1)
      BY <3>1, <2>4
    <3>3. QED
      BY <3>2 DEF n
  <2>6. SubSeq(l.frames, 1, bs[i + 1]) = SubSeq(m.frames, 1, bs[i + 1])
    <3>1. bs[i + 1] \in Nat /\ bs[n - 1] \in Nat /\ bs[n] \in Nat /\ Len(m.frames) \in Nat
      BY <1>1, <1>3, <1>6, <2>1
    <3>2. bs[i + 1] \in 0..bs[n - 1] /\ bs[n - 1] <= Len(m.frames)
      BY <1>3, <3>1, <2>4
    <3>3. Keeps(m.frames, l.frames, bs[n - 1])
      BY DEF n
    <3>4. QED
      BY <1>1, <3>2, <3>3, PrefixSame
  <2>7. QED
    BY <2>2, <2>3, <2>5, <2>6 DEF Awaits
<1>11. lw[n - 1] = Len(l.calls) /\ bt[n - 1] = bs[n - 1] /\ bt[n - 1] <= Len(l.frames)
  BY <1>6, <1>7 DEF Keeps, n
<1>12. Callers(t, l, lw, bt)
  BY <1>2, <1>9, <1>10, <1>11 DEF Callers
<1>13. QED
  BY <1>11, <1>12 DEF t, n

(* A new activation on top: a try section of the same call, or a call of   *)
(* its own, on all the entries there are.                                  *)
LEMMA PushCallers ==
    ASSUME NEW s \in Seq(Act), Len(s) > 0, NEW c \in Act,
           NEW m \in Mem, NEW l \in Mem, l.frames = m.frames,
           NEW lv, NEW bs, Callers(s, m, lv, bs),
           IF c.kind = "try" THEN l.calls = m.calls
           ELSE /\ c.kind = "proc" /\ Len(l.calls) = Len(m.calls) + 1
                /\ \A i \in 1..(Len(m.calls) - 1) : l.calls[i] = m.calls[i]
                /\ StmtOf(s[Len(s)]).do = "call"
                /\ StmtOf(s[Len(s)]).f = c.proc
                /\ StmtOf(s[Len(s)]).id = l.calls[Len(m.calls)]
                /\ FramesAs(m.frames, bs[Len(s)], KnownAt(s[Len(s)]))
    PROVE  \E lw, bt : /\ Callers(Append(s, c), l, lw, bt)
                       /\ bt[Len(s) + 1] = IF c.kind = "try" THEN bs[Len(s)] ELSE Len(m.frames)
<1> DEFINE n == Len(s)
           t == Append(s, c)
           up == IF c.kind = "proc" THEN 1 ELSE 0
           b == IF c.kind = "try" THEN bs[n] ELSE Len(m.frames)
           lw == [i \in 1..(n + 1) |-> IF i = n + 1 THEN lv[n] + up ELSE lv[i]]
           bt == [i \in 1..(n + 1) |-> IF i = n + 1 THEN b ELSE bs[i]]
<1>1. n \in Nat /\ n > 0 /\ m.frames \in Seq(Entries)
  BY DEF Mem
<1>2. t \in Seq(Act) /\ Len(t) = n + 1 /\ t[n + 1] = c /\ \A i \in 1..n : t[i] = s[i]
  BY <1>1
<1>3. /\ lv \in [1..n -> Nat \ {0}] /\ bs \in [1..n -> Nat]
      /\ \A i, j \in 1..n : i <= j => lv[i] <= lv[j] /\ bs[i] <= bs[j]
      /\ \A i \in 1..(n - 1) :
          /\ lv[i + 1] = lv[i] + (IF s[i + 1].kind = "proc" THEN 1 ELSE 0)
          /\ s[i + 1].kind = "try" => bs[i + 1] = bs[i]
      /\ lv[1] = 1 /\ bs[1] = 0
      /\ lv[n] = Len(m.calls) /\ bs[n] <= Len(m.frames)
  BY DEF Callers, Levels
<1>4. n \in 1..n /\ 1 \in 1..n /\ n + 1 \in 1..(n + 1) /\ n + 1 \notin 1..n
  BY <1>1
<1>5. \A i \in 1..(n + 1) : i \in 1..n \/ i = n + 1
  BY <1>1
<1>6. /\ DOMAIN lw = 1..(n + 1) /\ DOMAIN bt = 1..(n + 1)
      /\ lw[n + 1] = lv[n] + up /\ bt[n + 1] = b
  BY <1>4
<1>60. \A i \in 1..n : lw[i] = lv[i] /\ bt[i] = bs[i]
  <2>1. \A i \in 1..n : i \in 1..(n + 1) /\ i # n + 1
    BY <1>1
  <2>2. QED
    BY <2>1
<1>7. up \in 0..1 /\ c.kind \in {"proc", "try"} /\ b \in Nat /\ bs[n] <= b /\ lv[n] \in Nat \ {0} /\ bs[n] \in Nat
  <2>1. c.kind \in {"proc", "try"} /\ bs[n] \in Nat /\ lv[n] \in Nat \ {0} /\ Len(m.frames) \in Nat
    BY <1>1, <1>3, <1>4 DEF Act
  <2>2. QED
    BY <2>1, <1>3
<1>8. lw \in [1..(n + 1) -> Nat \ {0}] /\ bt \in [1..(n + 1) -> Nat]
  <2>1. lv[n] + up \in Nat \ {0}
    BY <1>7
  <2> HIDE DEF up, b
  <2>2. \A i \in 1..(n + 1) : /\ (IF i = n + 1 THEN lv[n] + up ELSE lv[i]) \in Nat \ {0}
                              /\ (IF i = n + 1 THEN b ELSE bs[i]) \in Nat
    BY <2>1, <1>3, <1>5, <1>7
  <2>3. QED
    BY <2>2
<1>80. up = (IF t[n + 1].kind = "proc" THEN 1 ELSE 0) /\ (c.kind = "try" => b = bs[n])
  BY <1>2
<1> HIDE DEF n, t, lw, bt, up, b
<1>9. Levels(t, lw, bt)
  <2>1. ASSUME NEW i \in 1..(n + 1), NEW j \in 1..(n + 1), i <= j
        PROVE  lw[i] <= lw[j] /\ bt[i] <= bt[j]
    <3>1. CASE j \in 1..n
      <4>1. i \in 1..n
        BY <2>1, <3>1, <1>1
      <4>2. QED
        BY <2>1, <3>1, <4>1, <1>3, <1>60
    <3>2. CASE j = n + 1
      <4>1. CASE i \in 1..n
        <5>1. i <= n /\ lv[i] <= lv[n] /\ bs[i] <= bs[n] /\ lv[i] \in Nat /\ bs[i] \in Nat
          BY <4>1, <1>1, <1>3, <1>4
        <5>2. QED
          BY <3>2, <4>1, <5>1, <1>6, <1>60, <1>7
      <4>2. CASE i = n + 1
        BY <3>2, <4>2, <1>6, <1>7
      <4>3. QED
        BY <4>1, <4>2, <1>5
    <3>3. QED
      BY <3>1, <3>2, <1>5
  <2>2. lw[1] = 1 /\ bt[1] = 0
    BY <1>3, <1>4, <1>60
  <2>3. ASSUME NEW i \in 1..((n + 1) - 1)
        PROVE  /\ lw[i + 1] = lw[i] + (IF t[i + 1].kind = "proc" THEN 1 ELSE 0)
               /\ t[i + 1].kind = "try" => bt[i + 1] = bt[i]
    <3>1. CASE i = n
      BY <3>1, <1>2, <1>4, <1>6, <1>60, <1>80
    <3>2. CASE i # n
      <4>1. i \in 1..(n - 1) /\ i \in 1..n /\ i + 1 \in 1..n
        BY <3>2, <1>1
      <4>2. QED
        BY <4>1, <1>2, <1>3, <1>60
    <3>3. QED
      BY <3>1, <3>2
  <2>4. QED
    BY <1>2, <1>8, <2>1, <2>2, <2>3 DEF Levels
<1>10. ASSUME NEW i \in 1..((n + 1) - 1), t[i + 1].kind = "proc"
       PROVE  Awaits(t, l, lw, bt, i)
  <2>1. CASE i = n
    <3>1. c.kind = "proc" /\ t[i + 1] = c /\ t[i] = s[n] /\ lw[i] = lv[n] /\ bt[i] = bs[n]
          /\ bt[i + 1] = Len(m.frames)
      BY <2>1, <1>2, <1>4, <1>6, <1>60, <1>10 DEF b
    <3>2. SubSeq(l.frames, 1, Len(m.frames)) = m.frames
      BY <1>1
    <3>3. /\ StmtOf(s[n]).do = "call" /\ StmtOf(s[n]).f = c.proc
          /\ StmtOf(s[n]).id = l.calls[Len(m.calls)]
          /\ FramesAs(m.frames, bs[n], KnownAt(s[n]))
      BY <3>1 DEF n
    <3>4. QED
      BY <3>1, <3>2, <3>3, <1>3 DEF Awaits
  <2>2. CASE i # n
    <3>1. i \in 1..(n - 1) /\ i \in 1..n /\ i + 1 \in 1..n /\ i + 1 <= n
      BY <2>2, <1>1
    <3>2. t[i] = s[i] /\ t[i + 1] = s[i + 1] /\ lw[i] = lv[i] /\ bt[i] = bs[i] /\ bt[i + 1] = bs[i + 1]
      BY <3>1, <1>2, <1>60
    <3>3. Awaits(s, m, lv, bs, i)
      BY <1>10, <3>1, <3>2 DEF Callers, n
    <3>4. lv[i + 1] = lv[i] + 1 /\ lv[i + 1] <= lv[n] /\ lv[i] \in Nat \ {0} /\ lv[n] = Len(m.calls)
      BY <1>3, <1>4, <1>10, <3>1, <3>2
    <3>5. lv[i] \in 1..(Len(m.calls) - 1)
      BY <3>4, <1>7
    <3>6. l.calls[lv[i]] = m.calls[lv[i]]
      BY <3>5
    <3>7. QED
      BY <3>2, <3>3, <3>6 DEF Awaits
  <2>3. QED
    BY <2>1, <2>2
<1>11. lw[n + 1] = Len(l.calls) /\ bt[n + 1] <= Len(l.frames)
  <2>1. Len(m.calls) \in Nat /\ Len(m.frames) \in Nat /\ Len(l.calls) = Len(m.calls) + up
    <3>1. Len(m.calls) \in Nat /\ Len(m.frames) \in Nat
      BY MemFacts
    <3>2. CASE c.kind = "try"
      <4>1. l.calls = m.calls /\ up = 0
        BY <3>2 DEF up
      <4>2. QED
        BY <3>1, <4>1
    <3>3. CASE c.kind = "proc"
      <4>1. Len(l.calls) = Len(m.calls) + 1 /\ up = 1
        BY <3>3 DEF up
      <4>2. QED
        BY <3>1, <4>1
    <3>4. QED
      BY <3>2, <3>3, <1>7
  <2>2. b <= Len(m.frames)
    BY <2>1, <1>3 DEF b
  <2>3. QED
    BY <2>1, <2>2, <1>3, <1>6
<1>12. Callers(t, l, lw, bt)
  BY <1>2, <1>9, <1>10, <1>11 DEF Callers
<1>13. QED
  BY <1>6, <1>12 DEF t, n, b

-----------------------------------------------------------------------------
(* What an assignment does to the data, and where that leaves its types.   *)

(* A part of the program has run. *)
LEMMA RanFacts ==
    ASSUME NEW m \in Mem, Len(m.calls) > 0, NEW id \in DOMAIN Outcomes, NEW o \in Signals,
           NEW l, l = Ran(m, id, o)
    PROVE  /\ l \in Mem /\ l.frames = m.frames /\ l.left = m.left
           /\ l.kind = m.kind /\ l.reg = m.reg /\ l.sig = o
           /\ Len(l.calls) = Len(m.calls) /\ l.calls[Len(m.calls)] = id
           /\ \A i \in 1..(Len(m.calls) - 1) : l.calls[i] = m.calls[i]
           /\ RunOf(l) = Ended(RunOf(m), id, o)
<1> DEFINE S == DOMAIN Outcomes \union DOMAIN Code[prog]
           n == Len(m.calls)
           q == [m.calls EXCEPT ![n] = id]
<1>1. m.calls \in Seq(S) /\ n \in Nat
  BY MemFacts
<1>2. n \in 1..Len(m.calls) /\ id \in S
  BY <1>1
<1> HIDE DEF S, n
<1>3. /\ q \in Seq(S) /\ Len(q) = Len(m.calls) /\ q[n] = id
      /\ \A i \in 1..Len(m.calls) : i # n => q[i] = m.calls[i]
  BY <1>1, <1>2, ExceptSeq
<1>4. l = [m EXCEPT !.calls = q, !.sig = o]
  BY DEF Ran, n
<1> HIDE DEF q
<1>5. /\ l.frames = m.frames /\ l.left = m.left /\ l.kind = m.kind /\ l.reg = m.reg
      /\ l.sig = o /\ l.calls = q /\ l \in Mem
  BY <1>3, <1>4 DEF Mem, S
<1>6. \A i \in 1..(n - 1) : i \in 1..n /\ i # n
  BY <1>1
<1>7. RunOf(l) = Ended(RunOf(m), id, o)
  <2>1. l.calls[Len(l.calls)] = id
    BY <1>3, <1>5 DEF n
  <2>2. RunOf(l) = [kind |-> m.kind, reg |-> m.reg, last |-> id, sig |-> o]
    BY <1>5, <2>1 DEF RunOf
  <2>3. Ended(RunOf(m), id, o) = [kind |-> m.kind, reg |-> m.reg, last |-> id, sig |-> o]
    <3>1. RunOf(m).kind = m.kind /\ RunOf(m).reg = m.reg
      BY DEF RunOf
    <3>2. QED
      BY <3>1 DEF Ended
  <2>4. QED
    BY <2>2, <2>3
<1>8. QED
  BY <1>3, <1>5, <1>6, <1>7 DEF n

(* l has the frames of m; what a part that ran may change is the rest.      *)
SameBelow(m, l) ==
    /\ l \in Mem
    /\ Len(l.calls) = Len(m.calls) /\ l.left = m.left
    /\ \A i \in 1..(Len(m.calls) - 1) : l.calls[i] = m.calls[i]

(* What a part does when it runs is what the types say of it. *)
LEMMA LeafFacts ==
    ASSUME NEW m \in Mem, Len(m.calls) > 0, NEW s, s.id \in DOMAIN Outcomes,
           Outcomes[s.id] \subseteq {"ok", "true", "false", "usr", "lng"},
           NEW r \in LeafResults(s, m) \union {LeafResult(s, m, o) : o \in Outcomes[s.id]}
    PROVE  /\ SameBelow(m, r.mem) /\ r.mem.frames = m.frames
           /\ \/ r.out = "ok" /\ RunOf(r.mem) \in LeafGoes(s.id, RunOf(m))
              \/ r.out = "panic" /\ RunOf(r.mem) \in LeafThrows(s.id, RunOf(m))
<1>1. \/ \E o \in Outcomes[s.id] : r = LeafResult(s, m, o)
      \/ /\ "usr" \in Outcomes[s.id] /\ IsCondition(s.id)
         /\ r = OkMem([Ran(m, s.id, "usr") EXCEPT !.reg = "nonbool"])
  BY DEF LeafResults
<1>2. ASSUME NEW o \in Outcomes[s.id], NEW l, l = Ran(m, s.id, o)
      PROVE  /\ l \in Mem /\ l.frames = m.frames /\ SameBelow(m, l)
             /\ RunOf(l) = Ended(RunOf(m), s.id, o)
             /\ \A x \in Regs : /\ SameBelow(m, [l EXCEPT !.reg = x])
                                /\ [l EXCEPT !.reg = x].frames = m.frames
                                /\ RunOf([l EXCEPT !.reg = x]) = [Ended(RunOf(m), s.id, o) EXCEPT !.reg = x]
             /\ \A x \in Kinds : /\ SameBelow(m, [l EXCEPT !.kind = x])
                                 /\ [l EXCEPT !.kind = x].frames = m.frames
                                 /\ RunOf([l EXCEPT !.kind = x]) = [Ended(RunOf(m), s.id, o) EXCEPT !.kind = x]
  <2>1. o \in Signals
    BY DEF Signals
  <2>2. /\ l \in Mem /\ l.frames = m.frames /\ l.left = m.left
        /\ Len(l.calls) = Len(m.calls)
        /\ \A i \in 1..(Len(m.calls) - 1) : l.calls[i] = m.calls[i]
        /\ RunOf(l) = Ended(RunOf(m), s.id, o)
    BY <1>2, <2>1, RanFacts
  <2>3. ASSUME NEW x \in Regs
        PROVE  /\ SameBelow(m, [l EXCEPT !.reg = x])
               /\ [l EXCEPT !.reg = x].frames = m.frames
               /\ RunOf([l EXCEPT !.reg = x]) = [RunOf(l) EXCEPT !.reg = x]
    <3>1. /\ [l EXCEPT !.reg = x] \in Mem
          /\ [l EXCEPT !.reg = x].frames = l.frames /\ [l EXCEPT !.reg = x].left = l.left
          /\ [l EXCEPT !.reg = x].calls = l.calls /\ [l EXCEPT !.reg = x].kind = l.kind
          /\ [l EXCEPT !.reg = x].sig = l.sig /\ [l EXCEPT !.reg = x].reg = x
      BY <2>2 DEF Mem
    <3>2. QED
      BY <2>2, <3>1 DEF SameBelow, RunOf
  <2>4. ASSUME NEW x \in Kinds
        PROVE  /\ SameBelow(m, [l EXCEPT !.kind = x])
               /\ [l EXCEPT !.kind = x].frames = m.frames
               /\ RunOf([l EXCEPT !.kind = x]) = [RunOf(l) EXCEPT !.kind = x]
    <3>1. /\ [l EXCEPT !.kind = x] \in Mem
          /\ [l EXCEPT !.kind = x].frames = l.frames /\ [l EXCEPT !.kind = x].left = l.left
          /\ [l EXCEPT !.kind = x].calls = l.calls /\ [l EXCEPT !.kind = x].reg = l.reg
          /\ [l EXCEPT !.kind = x].sig = l.sig /\ [l EXCEPT !.kind = x].kind = x
      BY <2>2 DEF Mem
    <3>2. QED
      BY <2>2, <3>1 DEF SameBelow, RunOf
  <2>5. SameBelow(m, l)
    BY <2>2 DEF SameBelow
  <2>6. QED
    BY <2>2, <2>3, <2>4, <2>5
<1>3. ASSUME NEW o \in Outcomes[s.id], r = LeafResult(s, m, o)
      PROVE  /\ SameBelow(m, r.mem) /\ r.mem.frames = m.frames
             /\ \/ r.out = "ok" /\ RunOf(r.mem) \in LeafGoes(s.id, RunOf(m))
                \/ r.out = "panic" /\ RunOf(r.mem) \in LeafThrows(s.id, RunOf(m))
  <2> DEFINE l == Ran(m, s.id, o)
  <2>1. /\ l \in Mem /\ l.frames = m.frames /\ SameBelow(m, l)
        /\ RunOf(l) = Ended(RunOf(m), s.id, o)
    BY <1>2
  <2>2. ASSUME NEW x \in Regs
        PROVE  /\ SameBelow(m, [l EXCEPT !.reg = x])
               /\ [l EXCEPT !.reg = x].frames = m.frames
               /\ RunOf([l EXCEPT !.reg = x]) = [Ended(RunOf(m), s.id, o) EXCEPT !.reg = x]
    BY <1>2
  <2>3. ASSUME NEW x \in Kinds
        PROVE  /\ SameBelow(m, [l EXCEPT !.kind = x])
               /\ [l EXCEPT !.kind = x].frames = m.frames
               /\ RunOf([l EXCEPT !.kind = x]) = [Ended(RunOf(m), s.id, o) EXCEPT !.kind = x]
    BY <1>2
  <2>4. CASE o = "ok"
    <3>1. r.out = "ok" /\ r.mem = l
      BY <1>3, <2>4 DEF LeafResult, OkMem
    <3>2. RunOf(l) \in LeafGoes(s.id, RunOf(m))
      BY <2>1, <2>4 DEF LeafGoes
    <3>3. QED
      BY <2>1, <3>1, <3>2
  <2>5. CASE o \in {"true", "false"}
    <3>1. r.out = "ok" /\ r.mem = [l EXCEPT !.reg = o]
      BY <1>3, <2>5 DEF LeafResult, OkMem
    <3>2. o \in Regs
      BY <2>5 DEF Regs
    <3>3. [Ended(RunOf(m), s.id, o) EXCEPT !.reg = o] \in LeafGoes(s.id, RunOf(m))
      BY <2>5 DEF LeafGoes
    <3>4. QED
      BY <2>2, <3>1, <3>2, <3>3
  <2>6. CASE o = "usr"
    <3>1. r.out = "panic" /\ r.mem = [l EXCEPT !.kind = "usr"]
      BY <1>3, <2>6 DEF LeafResult, PanicMem
    <3>2. "usr" \in Kinds
      BY DEF Kinds
    <3>3. [Ended(RunOf(m), s.id, o) EXCEPT !.kind = "usr"] \in LeafThrows(s.id, RunOf(m))
      BY <2>6 DEF LeafThrows
    <3>4. QED
      BY <2>3, <3>1, <3>2, <3>3
  <2>7. CASE o = "lng"
    <3>1. r.out = "panic" /\ r.mem = l
      BY <1>3, <2>7 DEF LeafResult, PanicMem
    <3>2. RunOf(l) \in LeafThrows(s.id, RunOf(m))
      BY <2>1, <2>7 DEF LeafThrows
    <3>3. QED
      BY <2>1, <3>1, <3>2
  <2>8. QED
    BY <2>4, <2>5, <2>6, <2>7
<1>4. ASSUME "usr" \in Outcomes[s.id], IsCondition(s.id),
             r = OkMem([Ran(m, s.id, "usr") EXCEPT !.reg = "nonbool"])
      PROVE  /\ SameBelow(m, r.mem) /\ r.mem.frames = m.frames
             /\ r.out = "ok" /\ RunOf(r.mem) \in LeafGoes(s.id, RunOf(m))
  <2>1. r.out = "ok" /\ r.mem = [Ran(m, s.id, "usr") EXCEPT !.reg = "nonbool"]
    BY <1>4 DEF OkMem
  <2>2. "nonbool" \in Regs
    BY DEF Regs
  <2>3. [Ended(RunOf(m), s.id, "usr") EXCEPT !.reg = "nonbool"] \in LeafGoes(s.id, RunOf(m))
    BY <1>4 DEF LeafGoes
  <2>4. ASSUME NEW l, l = Ran(m, s.id, "usr"), NEW x \in Regs
        PROVE  /\ SameBelow(m, [l EXCEPT !.reg = x])
               /\ [l EXCEPT !.reg = x].frames = m.frames
               /\ RunOf([l EXCEPT !.reg = x]) = [Ended(RunOf(m), s.id, "usr") EXCEPT !.reg = x]
    BY <1>2, <1>4, <2>4
  <2>5. QED
    BY <2>1, <2>2, <2>3, <2>4
<1>5. QED
  BY <1>1, <1>3, <1>4

(* Less may be known than is true. *)
LEMMA Weaken ==
    ASSUME NEW m \in Mem, NEW b, NEW k, NEW l, TrueOf(m, b, k),
           l.framed = k.framed, l.leaked \in BOOLEAN, k.leaked => l.leaked,
           l.held = k.held \/ l.held = Nothing
    PROVE  TrueOf(m, b, l)
<1>1. /\ m.frames \in Seq(Entries) /\ FramesAs(m.frames, b, k) /\ FramesCounted(m, k)
      /\ k.framed \in BOOLEAN /\ k.leaked \in BOOLEAN /\ k.held \in [Vars -> Nat]
  BY MemFacts DEF TrueOf, FrameTypes
<1>2. FrameTypes(k) /\ FrameTypes(l)
  BY <1>1 DEF FrameTypes, Nothing
<1>3. \A x \in Vars : l.held[x] <= k.held[x]
  <2>1. CASE l.held = k.held
    BY <1>1, <2>1
  <2>2. CASE l.held = Nothing
    BY <1>1, <2>2 DEF Nothing
  <2>3. QED
    BY <2>1, <2>2
<1>4. Fits(k, l)
  BY <1>3 DEF Fits
<1>5. FramesAs(m.frames, b, l)
  BY <1>1, <1>2, <1>4, FramesFit
<1>6. QED
  BY <1>1, <1>2, <1>5 DEF TrueOf, FramesCounted

(* What the types see of the frames is the frames, the number of calls and *)
(* how many procedures an exception has left.                              *)
LEMMA SameFrames ==
    ASSUME NEW m, NEW l, NEW b, NEW k, TrueOf(m, b, k),
           l.frames = m.frames, Len(l.calls) = Len(m.calls), l.left = m.left
    PROVE  TrueOf(l, b, k)
  BY DEF TrueOf, FramesCounted

(* The data when part id calls procedure f. *)
Called(m, id, f) == [Ran(m, id, "ok") EXCEPT !.calls = Append(@, f)]

(* What the types ask of an assignment, as far as the frames and the part   *)
(* it runs are concerned.                                                   *)
Sane(s, k) ==
    /\ s.do \in Parts \union {"frame_add", "frame_pop", "add", "pop",
                              "kind_is", "reset", "rethrow", "true"}
    /\ s.do \in Parts => s.id \in DOMAIN Outcomes
    /\ s.do \in {"leaf", "call"} => Outcomes[s.id] \subseteq {"ok", "true", "false", "usr", "lng"}
    /\ k.framed = (s.do # "frame_add")
    /\ s.do \in {"add", "pop"} => s.var \in Vars
    /\ s.do = "pop" => k.held[s.var] > 0

(* An assignment that completes. *)
Completes(s, k, m, b, tidy, l) ==
    /\ SameBelow(m, l)
    /\ Keeps(m.frames, l.frames, b)
    /\ TrueOf(l, b, After(tidy, s, k))
    /\ RunOf(l) \in Goes(s, RunOf(m))

(* An assignment that throws leaves the frames alone. *)
Breaks(s, k, m, l, raising) ==
    /\ SameBelow(m, l)
    /\ l.frames = m.frames
    /\ RunOf(l) \in Throws(raising, s, RunOf(m))

(* Doing nothing keeps the frames of the callers. *)
LEMMA KeepsItself ==
    ASSUME NEW m \in Mem, NEW b, NEW k, TrueOf(m, b, k)
    PROVE  Keeps(m.frames, m.frames, b)
  BY MemFacts DEF Keeps, TrueOf, FramesAs

(* An assignment that leaves the frames alone. *)
LEMMA AfterSame ==
    ASSUME NEW m \in Mem, NEW b, NEW s, NEW k, TrueOf(m, b, k), NEW tidy,
           k.framed, s.do \notin {"frame_add", "frame_pop", "add", "pop"},
           NEW l, SameBelow(m, l), l.frames = m.frames
    PROVE  Keeps(m.frames, l.frames, b) /\ TrueOf(l, b, After(tidy, s, k))
<1> DEFINE a == After(tidy, s, k)
<1>1. a.framed = k.framed
  <2>1. a.framed = TRUE
    BY DEF After
  <2>2. k.framed = TRUE
    BY DEF TrueOf, FrameTypes
  <2>3. QED
    BY <2>1, <2>2
<1>2. a.leaked = (k.leaked \/ (s.do = "call" /\ s.f \notin tidy))
  BY DEF After
<1>3. a.held = k.held \/ a.held = Nothing
  <2>1. a.held = HeldAfter(tidy, s, k)
    BY DEF After
  <2>2. CASE s.do = "call"
    <3>1. a.held = IF s.f \in tidy THEN k.held ELSE Nothing
      BY <2>1, <2>2 DEF HeldAfter
    <3>2. QED
      BY <3>1
  <2>3. CASE s.do # "call"
    <3>1. a.held = k.held
      BY <2>1, <2>3 DEF HeldAfter
    <3>2. QED
      BY <3>1
  <2>4. QED
    BY <2>2, <2>3
<1> HIDE DEF a
<1>4. TrueOf(m, b, a)
  BY <1>1, <1>2, <1>3, Weaken
<1>5. TrueOf(l, b, a)
  BY <1>4, SameFrames DEF SameBelow
<1>6. QED
  BY <1>5, KeepsItself DEF a

(* A part that is a leaf. *)
LEMMA LeafAssign ==
    ASSUME NEW m \in Mem, Len(m.calls) > 0, NEW b, NEW s, NEW k, TrueOf(m, b, k), Sane(s, k),
           NEW tidy, NEW raising, s.do = "leaf", NEW r \in EvalStmt(s, m)
    PROVE  \/ r.out = "ok" /\ Completes(s, k, m, b, tidy, r.mem)
           \/ r.out = "panic" /\ Breaks(s, k, m, r.mem, raising)
<1>1. r \in LeafResults(s, m)
  BY DEF EvalStmt
<1>2. s.id \in DOMAIN Outcomes /\ Outcomes[s.id] \subseteq {"ok", "true", "false", "usr", "lng"} /\ k.framed
  BY DEF Sane, Parts
<1>3. /\ SameBelow(m, r.mem) /\ r.mem.frames = m.frames
      /\ \/ r.out = "ok" /\ RunOf(r.mem) \in LeafGoes(s.id, RunOf(m))
         \/ r.out = "panic" /\ RunOf(r.mem) \in LeafThrows(s.id, RunOf(m))
  BY <1>1, <1>2, LeafFacts
<1>4. Goes(s, RunOf(m)) = LeafGoes(s.id, RunOf(m)) /\ Throws(raising, s, RunOf(m)) = LeafThrows(s.id, RunOf(m))
  BY DEF Goes, Throws
<1>5. Keeps(m.frames, r.mem.frames, b) /\ TrueOf(r.mem, b, After(tidy, s, k))
  BY <1>2, <1>3, AfterSame
<1>6. QED
  BY <1>3, <1>4, <1>5 DEF Completes, Breaks

(* A call may also end like a leaf, without a procedure being entered.     *)
LEMMA CallAssign ==
    ASSUME NEW m \in Mem, Len(m.calls) > 0, NEW b, NEW s, NEW k, TrueOf(m, b, k), Sane(s, k),
           NEW tidy, NEW raising, s.do = "call", NEW r \in EvalStmt(s, m)
    PROVE  \/ r.out = "ok" /\ Completes(s, k, m, b, tidy, r.mem)
           \/ r.out = "panic" /\ Breaks(s, k, m, r.mem, raising)
           \/ /\ r.out = "call" /\ r.callee = s.f
              /\ r.mem = Called(m, s.id, s.f)
<1>1. \/ r.out = "call" /\ r.callee = s.f /\ r.mem = Called(m, s.id, s.f)
      \/ r \in {LeafResult(s, m, o) : o \in Outcomes[s.id]}
  <2>1. r \in CallResults(s, m)
    BY DEF EvalStmt
  <2>2. QED
    BY <2>1 DEF CallResults, Called
<1>2. s.id \in DOMAIN Outcomes /\ Outcomes[s.id] \subseteq {"ok", "true", "false", "usr", "lng"} /\ k.framed
  BY DEF Sane, Parts
<1>3. CASE r \in {LeafResult(s, m, o) : o \in Outcomes[s.id]}
  <2>1. /\ SameBelow(m, r.mem) /\ r.mem.frames = m.frames
        /\ \/ r.out = "ok" /\ RunOf(r.mem) \in LeafGoes(s.id, RunOf(m))
           \/ r.out = "panic" /\ RunOf(r.mem) \in LeafThrows(s.id, RunOf(m))
    BY <1>2, <1>3, LeafFacts
  <2>2. /\ LeafGoes(s.id, RunOf(m)) \subseteq Goes(s, RunOf(m))
        /\ LeafThrows(s.id, RunOf(m)) \subseteq Throws(raising, s, RunOf(m))
    BY DEF Goes, Throws
  <2>3. Keeps(m.frames, r.mem.frames, b) /\ TrueOf(r.mem, b, After(tidy, s, k))
    BY <1>2, <2>1, AfterSame
  <2>4. QED
    BY <2>1, <2>2, <2>3 DEF Completes, Breaks
<1>4. QED
  BY <1>1, <1>3

(* A change of the stack only. *)
LEMMA NewFrames ==
    ASSUME NEW m \in Mem, NEW f \in Seq(Entries), NEW l, l = [m EXCEPT !.frames = f]
    PROVE  SameBelow(m, l) /\ l.frames = f /\ RunOf(l) = RunOf(m) /\ l.calls = m.calls /\ l.left = m.left
<1>1. /\ l.frames = f /\ l.calls = m.calls /\ l.left = m.left /\ l.kind = m.kind
      /\ l.reg = m.reg /\ l.sig = m.sig /\ l \in Mem
  BY DEF Mem
<1>2. QED
  BY <1>1 DEF SameBelow, RunOf

(* FrameAdd, FramePop and StackAdd do to the frames what the types say. *)
LEMMA FrameAssign ==
    ASSUME NEW m \in Mem, NEW b, NEW s, NEW k, TrueOf(m, b, k), Sane(s, k),
           NEW tidy, s.do \in {"frame_add", "frame_pop", "add"}, NEW r \in EvalStmt(s, m)
    PROVE  r.out = "ok" /\ Completes(s, k, m, b, tidy, r.mem)
<1> DEFINE a == After(tidy, s, k)
           n == Cardinality(Boundaries(m.frames))
<1>1. /\ m.frames \in Seq(Entries) /\ FrameTypes(k) /\ FramesAs(m.frames, b, k)
      /\ k.held \in [Vars -> Nat] /\ k.leaked \in BOOLEAN /\ k.framed = (s.do # "frame_add")
      /\ n = (Len(m.calls) - 1) + (IF k.framed THEN 1 ELSE 0) + m.left
      /\ Len(m.calls) \in Nat /\ m.left \in Nat
  BY MemFacts DEF TrueOf, FramesCounted, FrameTypes, Sane
<1>2. a.framed = (s.do # "frame_pop") /\ a.leaked = k.leaked /\ a.held = HeldAfter(tidy, s, k)
  <2>1. a.framed = (s.do # "frame_pop") /\ a.held = HeldAfter(tidy, s, k)
    BY DEF After
  <2>2. a.leaked = (k.leaked \/ FALSE)
    BY DEF After
  <2>3. QED
    BY <1>1, <2>1, <2>2
<1>3. Goes(s, RunOf(m)) = {RunOf(m)}
  BY DEF Goes
<1> HIDE DEF a, n
<1>4. ASSUME NEW f, Keeps(m.frames, f, b), FramesAs(f, b, a), r.out = "ok",
             r.mem = [m EXCEPT !.frames = f],
             Cardinality(Boundaries(f)) = (Len(m.calls) - 1) + (IF a.framed THEN 1 ELSE 0) + m.left,
             FrameTypes(a)
      PROVE  r.out = "ok" /\ Completes(s, k, m, b, tidy, r.mem)
  <2>1. f \in Seq(Entries)
    BY <1>4 DEF Keeps
  <2>2. /\ SameBelow(m, r.mem) /\ r.mem.frames = f /\ RunOf(r.mem) = RunOf(m)
        /\ r.mem.calls = m.calls /\ r.mem.left = m.left
    BY <1>4, <2>1, NewFrames
  <2>3. TrueOf(r.mem, b, a)
    BY <1>4, <2>2 DEF TrueOf, FramesCounted
  <2>4. QED
    BY <1>3, <1>4, <2>2, <2>3 DEF Completes, a
<1>5. CASE s.do = "frame_add"
  <2> DEFINE f == Append(m.frames, Boundary)
  <2>1. r.out = "ok" /\ r.mem = [m EXCEPT !.frames = f]
    BY <1>5 DEF EvalStmt, OkMem
  <2>2. a.held = Nothing /\ a.framed /\ ~ k.framed /\ a.framed \in BOOLEAN
    BY <1>1, <1>2, <1>5 DEF HeldAfter
  <2>3. Keeps(m.frames, f, b) /\ FramesAs(f, b, a) /\ Cardinality(Boundaries(f)) = n + 1
    BY <1>1, <1>2, <2>2, PushFrame DEF n
  <2>4. FrameTypes(a)
    BY <1>1, <1>2, <2>2 DEF FrameTypes, Nothing
  <2> HIDE DEF f
  <2>5. Cardinality(Boundaries(f)) = (Len(m.calls) - 1) + (IF a.framed THEN 1 ELSE 0) + m.left
    BY <1>1, <2>2, <2>3
  <2>6. QED
    BY <1>4, <2>1, <2>3, <2>4, <2>5
<1>6. CASE s.do = "frame_pop"
  <2> DEFINE f == FramePopped(m.frames)
  <2>1. r.out = "ok" /\ r.mem = [m EXCEPT !.frames = f]
    BY <1>6 DEF EvalStmt, OkMem
  <2>2. a.held = Nothing /\ ~ a.framed /\ k.framed /\ a.framed \in BOOLEAN
    BY <1>1, <1>2, <1>6 DEF HeldAfter
  <2>3. Keeps(m.frames, f, b) /\ FramesAs(f, b, a) /\ n = Cardinality(Boundaries(f)) + 1
    BY <1>1, <1>2, <2>2, DropFrame DEF n
  <2>4. FrameTypes(a)
    BY <1>1, <1>2, <2>2 DEF FrameTypes, Nothing
  <2> HIDE DEF f
  <2>5. Cardinality(Boundaries(f)) \in Nat
    <3>1. f \in Seq(Entries)
      BY <2>3 DEF Keeps
    <3>2. Boundaries(f) = Spots(f, Boundary, 0)
      BY <3>1 DEF Boundaries, Spots
    <3>3. QED
      BY <3>1, <3>2, SpotsFinite
  <2>6. n = (Len(m.calls) - 1) + 1 + m.left
    BY <1>1, <2>2
  <2>60. Cardinality(Boundaries(f)) = (Len(m.calls) - 1) + 0 + m.left
    <3>1. PICK c \in Nat : c = Cardinality(Boundaries(f))
      BY <2>5
    <3>2. n = c + 1
      BY <2>3, <3>1
    <3>3. QED
      BY <1>1, <2>6, <3>1, <3>2
  <2>61. Cardinality(Boundaries(f)) = (Len(m.calls) - 1) + (IF a.framed THEN 1 ELSE 0) + m.left
    BY <2>2, <2>60
  <2>7. QED
    BY <1>4, <2>1, <2>3, <2>4, <2>61
<1>7. CASE s.do = "add"
  <2> DEFINE f == Append(m.frames, s.var)
  <2>1. r.out = "ok" /\ r.mem = [m EXCEPT !.frames = f]
    BY <1>7 DEF EvalStmt, OkMem
  <2>2. a.held = [k.held EXCEPT ![s.var] = @ + 1] /\ a.framed /\ k.framed /\ a.framed \in BOOLEAN
        /\ s.var \in Vars
    BY <1>1, <1>2, <1>7 DEF HeldAfter, Sane
  <2>3. Keeps(m.frames, f, b) /\ FramesAs(f, b, a) /\ Cardinality(Boundaries(f)) = n
    <3>1. PICK x \in Vars : x = s.var
      BY <2>2
    <3>2. OneMore(k, a, x) /\ f = Append(m.frames, x)
      BY <2>2, <3>1 DEF OneMore
    <3> HIDE DEF f
    <3>3. Keeps(m.frames, Append(m.frames, x), b) /\ FramesAs(Append(m.frames, x), b, a)
          /\ Cardinality(Boundaries(Append(m.frames, x))) = Cardinality(Boundaries(m.frames))
      BY <1>1, <1>2, <2>2, <3>2, AddFrames
    <3>4. QED
      BY <3>2, <3>3 DEF n
  <2>4. FrameTypes(a)
    BY <1>1, <1>2, <2>2 DEF FrameTypes
  <2> HIDE DEF f
  <2>5. Cardinality(Boundaries(f)) = (Len(m.calls) - 1) + (IF a.framed THEN 1 ELSE 0) + m.left
    BY <1>1, <2>2, <2>3
  <2>6. QED
    BY <1>4, <2>1, <2>3, <2>4, <2>5
<1>8. QED
  BY <1>5, <1>6, <1>7

(* pop finds its variable, so it does not panic. *)
LEMMA PopAssign ==
    ASSUME NEW m \in Mem, NEW b, NEW s, NEW k, TrueOf(m, b, k), Sane(s, k),
           NEW tidy, s.do = "pop", NEW r \in EvalStmt(s, m)
    PROVE  /\ GetPos(m.frames, s.var) # 0
           /\ r.out = "ok" /\ Completes(s, k, m, b, tidy, r.mem)
<1> DEFINE a == After(tidy, s, k)
           f == Without(m.frames, GetPos(m.frames, s.var))
<1>1. /\ m.frames \in Seq(Entries) /\ FrameTypes(k) /\ FramesAs(m.frames, b, k)
      /\ k.held \in [Vars -> Nat] /\ k.leaked \in BOOLEAN /\ k.framed
      /\ s.var \in Vars /\ k.held[s.var] > 0
  BY MemFacts DEF TrueOf, FrameTypes, Sane
<1>2. a.framed /\ a.framed \in BOOLEAN /\ a.leaked = k.leaked
      /\ a.held = [k.held EXCEPT ![s.var] = IF @ = 0 THEN 0 ELSE @ - 1]
  <2>1. a.framed = (s.do # "frame_pop") /\ a.held = HeldAfter(tidy, s, k)
    BY DEF After
  <2>2. a.leaked = (k.leaked \/ FALSE)
    BY DEF After
  <2>3. HeldAfter(tidy, s, k) = [k.held EXCEPT ![s.var] = IF @ = 0 THEN 0 ELSE @ - 1]
    BY DEF HeldAfter
  <2>4. QED
    BY <1>1, <2>1, <2>2, <2>3
<1> HIDE DEF a
<1>3. /\ GetPos(m.frames, s.var) # 0
      /\ Keeps(m.frames, f, b) /\ FramesAs(f, b, a)
      /\ Cardinality(Boundaries(f)) = Cardinality(Boundaries(m.frames))
  <2>1. PICK x \in Vars : x = s.var
    BY <1>1
  <2>2. OneLess(k, a, x) /\ k.held[x] > 0
    BY <1>1, <1>2, <2>1 DEF OneLess
  <2>3. /\ GetPos(m.frames, x) # 0
        /\ Keeps(m.frames, Without(m.frames, GetPos(m.frames, x)), b)
        /\ FramesAs(Without(m.frames, GetPos(m.frames, x)), b, a)
        /\ Cardinality(Boundaries(Without(m.frames, GetPos(m.frames, x)))) =
              Cardinality(Boundaries(m.frames))
    <3>1. /\ m.frames \in Seq(Entries) /\ FrameTypes(k) /\ FramesAs(m.frames, b, k)
          /\ k.framed /\ a.framed /\ a.leaked = k.leaked
      BY <1>1, <1>2
    <3>2. QED
      BY ONLY <3>1, <2>2, PopFrames
  <2>4. QED
    BY <2>1, <2>3
<1>4. r = OkMem([m EXCEPT !.frames = f])
  <2>1. r = Popped(s, m)
    BY DEF EvalStmt
  <2>2. QED
    BY <1>3, <2>1 DEF Popped
<1> HIDE DEF f
<1>5. r.out = "ok" /\ r.mem = [m EXCEPT !.frames = f] /\ f \in Seq(Entries)
  BY <1>3, <1>4 DEF OkMem, Keeps
<1>6. /\ SameBelow(m, r.mem) /\ r.mem.frames = f /\ RunOf(r.mem) = RunOf(m)
      /\ r.mem.calls = m.calls /\ r.mem.left = m.left
  BY <1>5, NewFrames
<1>7. FrameTypes(a)
  <2>1. \A x \in Vars : k.held[x] \in Nat /\ (k.held[x] # 0 => k.held[x] - 1 \in Nat)
    BY <1>1
  <2>2. a.held \in [Vars -> Nat]
    BY <1>1, <1>2, <2>1
  <2>3. QED
    BY <1>1, <1>2, <2>2 DEF FrameTypes
<1>8. TrueOf(r.mem, b, a)
  <2>1. FramesCounted(m, k) /\ k.framed = a.framed
    BY <1>1, <1>2 DEF TrueOf, FrameTypes
  <2>2. QED
    BY <1>3, <1>6, <1>7, <2>1 DEF TrueOf, FramesCounted
<1>9. Goes(s, RunOf(m)) = {RunOf(m)}
  BY DEF Goes
<1>10. QED
  BY <1>3, <1>5, <1>6, <1>8, <1>9 DEF Completes, a

(* What the catch blocks do with the exception's kind. *)
LEMMA KindAssign ==
    ASSUME NEW m \in Mem, NEW b, NEW s, NEW k, TrueOf(m, b, k), Sane(s, k),
           NEW tidy, s.do \in {"kind_is", "reset", "true"}, NEW r \in EvalStmt(s, m)
    PROVE  r.out = "ok" /\ Completes(s, k, m, b, tidy, r.mem)
<1>1. k.framed
  BY DEF Sane
<1>2. ASSUME NEW l, l.frames = m.frames, l.calls = m.calls, l.left = m.left, l \in Mem,
             RunOf(l) \in Goes(s, RunOf(m)), r.out = "ok", r.mem = l
      PROVE  r.out = "ok" /\ Completes(s, k, m, b, tidy, r.mem)
  <2>1. SameBelow(m, l)
    BY <1>2 DEF SameBelow
  <2>2. Keeps(m.frames, l.frames, b) /\ TrueOf(l, b, After(tidy, s, k))
    BY <1>1, <1>2, <2>1, AfterSame
  <2>3. QED
    BY <1>2, <2>1, <2>2 DEF Completes
<1>3. ASSUME NEW x \in Regs, r = OkMem([m EXCEPT !.reg = x]),
             Goes(s, RunOf(m)) = {[RunOf(m) EXCEPT !.reg = x]}
      PROVE  r.out = "ok" /\ Completes(s, k, m, b, tidy, r.mem)
  <2> DEFINE l == [m EXCEPT !.reg = x]
  <2>1. /\ l.frames = m.frames /\ l.calls = m.calls /\ l.left = m.left /\ l.kind = m.kind
        /\ l.sig = m.sig /\ l.reg = x /\ l \in Mem
    BY DEF Mem
  <2>2. r.out = "ok" /\ r.mem = l
    BY <1>3 DEF OkMem
  <2> HIDE DEF l
  <2>3. RunOf(l) = [RunOf(m) EXCEPT !.reg = x]
    BY <2>1 DEF RunOf
  <2>4. QED
    BY <1>2, <1>3, <2>1, <2>2, <2>3
<1>4. CASE s.do = "kind_is"
  <2>1. r = OkMem([m EXCEPT !.reg = IF m.kind = s.kind THEN "true" ELSE "false"])
    BY <1>4 DEF EvalStmt
  <2>2. Goes(s, RunOf(m)) = {[RunOf(m) EXCEPT !.reg = IF m.kind = s.kind THEN "true" ELSE "false"]}
    <3>1. RunOf(m).kind = m.kind
      BY DEF RunOf
    <3>2. QED
      BY <1>4, <3>1 DEF Goes
  <2>3. (IF m.kind = s.kind THEN "true" ELSE "false") \in Regs
    BY DEF Regs
  <2>4. QED
    BY <1>3, <2>1, <2>2, <2>3
<1>5. CASE s.do = "true"
  <2>1. r = OkMem([m EXCEPT !.reg = "true"]) /\ Goes(s, RunOf(m)) = {[RunOf(m) EXCEPT !.reg = "true"]}
    BY <1>5 DEF EvalStmt, Goes
  <2>2. "true" \in Regs
    BY DEF Regs
  <2>3. QED
    BY <1>3, <2>1, <2>2
<1>6. CASE s.do = "reset"
  <2> DEFINE l == [m EXCEPT !.kind = "lng"]
  <2>1. r = OkMem(l) /\ Goes(s, RunOf(m)) = {[RunOf(m) EXCEPT !.kind = "lng"]}
    BY <1>6 DEF EvalStmt, Goes
  <2>2. /\ l.frames = m.frames /\ l.calls = m.calls /\ l.left = m.left /\ l.reg = m.reg
        /\ l.sig = m.sig /\ l.kind = "lng" /\ l \in Mem
    BY DEF Mem, Kinds
  <2>3. r.out = "ok" /\ r.mem = l
    BY <2>1 DEF OkMem
  <2> HIDE DEF l
  <2>4. RunOf(l) = [RunOf(m) EXCEPT !.kind = "lng"]
    BY <2>2 DEF RunOf
  <2>5. QED
    BY <1>2, <2>1, <2>2, <2>3, <2>4
<1>7. QED
  BY <1>4, <1>5, <1>6

(* backtrack and the throwing of an exception again. *)
LEMMA ThrowAssign ==
    ASSUME NEW m \in Mem, Len(m.calls) > 0, NEW s, NEW k, Sane(s, k),
           NEW raising, s.do = "backtrack" \/ s.do = "rethrow", NEW r \in EvalStmt(s, m)
    PROVE  r.out = "panic" /\ Breaks(s, k, m, r.mem, raising)
<1>1. CASE s.do = "rethrow"
  <2>1. r.out = "panic" /\ r.mem = m
    BY <1>1 DEF EvalStmt, PanicMem
  <2>2. Throws(raising, s, RunOf(m)) = {RunOf(m)}
    BY <1>1 DEF Throws
  <2>3. QED
    BY <2>1, <2>2 DEF Breaks, SameBelow
<1>2. CASE s.do = "backtrack"
  <2> DEFINE q == Ran(m, s.id, "bt")
             l == [q EXCEPT !.kind = "bt"]
  <2>1. r.out = "panic" /\ r.mem = l
    BY <1>2 DEF EvalStmt, PanicMem
  <2>2. Throws(raising, s, RunOf(m)) = {[Ended(RunOf(m), s.id, "bt") EXCEPT !.kind = "bt"]}
    BY <1>2 DEF Throws
  <2>3. s.id \in DOMAIN Outcomes /\ "bt" \in Signals
    BY <1>2 DEF Sane, Parts, Signals
  <2>4. /\ q \in Mem /\ q.frames = m.frames /\ q.left = m.left
        /\ Len(q.calls) = Len(m.calls)
        /\ \A i \in 1..(Len(m.calls) - 1) : q.calls[i] = m.calls[i]
        /\ RunOf(q) = Ended(RunOf(m), s.id, "bt")
    BY <2>3, RanFacts
  <2> HIDE DEF q
  <2>5. /\ l.frames = q.frames /\ l.calls = q.calls /\ l.left = q.left /\ l.reg = q.reg
        /\ l.sig = q.sig /\ l.kind = "bt" /\ l \in Mem
    BY <2>4 DEF Mem, Kinds
  <2> HIDE DEF l
  <2>6. RunOf(l) = [RunOf(q) EXCEPT !.kind = "bt"]
    BY <2>5 DEF RunOf
  <2>7. QED
    BY <2>1, <2>2, <2>4, <2>5, <2>6 DEF Breaks, SameBelow
<1>3. QED
  BY <1>1, <1>2

(* An assignment completes, throws, calls or ends the program. *)
LEMMA Assigned ==
    ASSUME NEW m \in Mem, Len(m.calls) > 0, NEW b, NEW s, NEW k, TrueOf(m, b, k), Sane(s, k),
           NEW tidy, NEW raising, NEW r \in EvalStmt(s, m)
    PROVE  \/ r.out = "ok" /\ Completes(s, k, m, b, tidy, r.mem)
           \/ r.out = "panic" /\ Breaks(s, k, m, r.mem, raising)
           \/ /\ r.out = "call" /\ s.do = "call" /\ r.callee = s.f
              /\ r.mem = Called(m, s.id, s.f)
           \/ r.out = "exit" /\ s.do = "exit" /\ r.mem = Ran(m, s.id, "exit")
<1>1. s.do \in {"leaf", "call", "exit", "backtrack", "frame_add", "frame_pop", "add", "pop",
                "kind_is", "reset", "rethrow", "true"}
  BY DEF Sane, Parts
<1>2. CASE s.do = "leaf"
  BY <1>2, LeafAssign
<1>3. CASE s.do = "call"
  BY <1>3, CallAssign
<1>4. CASE s.do = "exit"
  BY <1>4 DEF EvalStmt
<1>5. CASE s.do \in {"frame_add", "frame_pop", "add"}
  <2>1. r.out = "ok" /\ Completes(s, k, m, b, tidy, r.mem)
    BY <1>5, FrameAssign
  <2>2. QED
    BY <2>1
<1>6. CASE s.do = "pop"
  BY <1>6, PopAssign
<1>7. CASE s.do \in {"kind_is", "reset", "true"}
  <2>1. r.out = "ok" /\ Completes(s, k, m, b, tidy, r.mem)
    BY <1>7, KindAssign
  <2>2. QED
    BY <2>1
<1>8. CASE s.do = "backtrack" \/ s.do = "rethrow"
  <2>1. r.out = "panic" /\ Breaks(s, k, m, r.mem, raising)
    BY <1>8, ThrowAssign
  <2>2. QED
    BY <2>1
<1>9. QED
  BY <1>1, <1>2, <1>3, <1>4, <1>5, <1>6, <1>7, <1>8

-----------------------------------------------------------------------------
(* What keeps the invariant. *)

(* The activation on top goes on in another block, where it may. *)
LEMMA JumpData ==
    ASSUME prog \in Programs, NEW s \in Seq(Act), Len(s) > 0, NEW m \in Mem,
           \A i \in 1..Len(s) : Placed(s[i]),
           NEW lv, NEW bs, Callers(s, m, lv, bs), NEW to \in AllBlocks,
           to \in DOMAIN Types[prog].known[s[Len(s)].proc],
           RunsAs(MovedTo(s[Len(s)], to, 1), m, bs[Len(s)]),
           Catch(prog, s[Len(s)].proc, to) = s[Len(s)].fail
    PROVE  DataOK(Jump(s, to), "run", m)
<1> DEFINE t == Jump(s, to)
           n == Len(s)
<1>1. /\ t \in Seq(Act) /\ Len(t) = n /\ n \in Nat
      /\ \A i \in 1..(n - 1) : t[i] = s[i]
      /\ t[n].kind = s[n].kind /\ t[n].proc = s[n].proc /\ t[n].fail = s[n].fail /\ t[n].blk = to
  BY JumpFacts
<1>2. t[n] = MovedTo(s[n], to, 1)
  <2>1. n \in 1..n
    BY <1>1
  <2>2. QED
    BY <2>1 DEF Jump
<1> HIDE DEF t
<1>3. \A i \in 1..n : Placed(t[i])
  <2>1. \A i \in 1..n : i = n \/ i \in 1..(n - 1)
    BY <1>1
  <2>2. Placed(t[n])
    BY <1>1 DEF Placed
  <2>3. QED
    BY <2>1, <2>2, <1>1
<1>4. Callers(t, m, lv, bs)
  <2>1. bs[n] \in Nat /\ bs[n] <= Len(m.frames)
    <3>1. n \in 1..n
      BY <1>1
    <3>2. QED
      BY <3>1 DEF Callers, Levels
  <2>2. Keeps(m.frames, m.frames, bs[n])
    BY <2>1, MemFacts DEF Keeps
  <2>3. QED
    BY <1>1, <2>2, MoveCallers
<1>5. TopAs(t, "run", m, bs[n])
  BY <1>1, <1>2 DEF TopAs
<1>6. QED
  BY <1>1, <1>3, <1>4, <1>5 DEF DataOK, t

(* The activation on top goes on after its statement. *)
LEMMA AdvanceData ==
    ASSUME prog \in Programs, NEW s \in Seq(Act), Len(s) > 0, NEW m \in Mem, NEW l,
           \A i \in 1..Len(s) : Placed(s[i]), SameBelow(m, l),
           NEW lv, NEW bs, Callers(s, m, lv, bs), Keeps(m.frames, l.frames, bs[Len(s)]),
           RunsAs(MovedTo(s[Len(s)], s[Len(s)].blk, s[Len(s)].pc + 1), l, bs[Len(s)])
    PROVE  DataOK(Advance(s), "run", l)
<1> DEFINE t == Advance(s)
           n == Len(s)
<1>1. /\ t \in Seq(Act) /\ Len(t) = n /\ n \in Nat
      /\ \A i \in 1..(n - 1) : t[i] = s[i]
      /\ t[n].kind = s[n].kind /\ t[n].proc = s[n].proc /\ t[n].fail = s[n].fail /\ t[n].blk = s[n].blk
  BY AdvanceFacts
<1>2. t[n] = MovedTo(s[n], s[n].blk, s[n].pc + 1)
  <2>1. n \in 1..n
    BY <1>1
  <2>2. QED
    BY <2>1 DEF Advance
<1> HIDE DEF t
<1>3. \A i \in 1..n : Placed(t[i])
  <2>1. \A i \in 1..n : i = n \/ i \in 1..(n - 1)
    BY <1>1
  <2>2. Placed(s[n])
    <3>1. n \in 1..n
      BY <1>1
    <3>2. QED
      BY <3>1
  <2>3. Placed(t[n])
    BY <1>1, <2>2 DEF Placed
  <2>4. QED
    BY <2>1, <2>3, <1>1
<1>4. Callers(t, l, lv, bs)
  BY <1>1, MoveCallers DEF SameBelow
<1>5. TopAs(t, "run", l, bs[n])
  BY <1>1, <1>2 DEF TopAs
<1>6. QED
  BY <1>1, <1>3, <1>4, <1>5 DEF DataOK, t, SameBelow

(* The activation on top throws where it is. *)
LEMMA ThrowData ==
    ASSUME prog \in Programs, NEW s \in Seq(Act), Len(s) > 0, NEW m \in Mem, NEW l,
           \A i \in 1..Len(s) : Placed(s[i]), SameBelow(m, l),
           NEW lv, NEW bs, Callers(s, m, lv, bs), Keeps(m.frames, l.frames, bs[Len(s)]),
           ThrowsAs(s[Len(s)], l, bs[Len(s)])
    PROVE  DataOK(s, "unwind", l)
<1>1. Callers(s, l, lv, bs)
  BY MoveCallers DEF SameBelow
<1>2. TopAs(s, "unwind", l, bs[Len(s)])
  BY DEF TopAs
<1>3. QED
  BY <1>1, <1>2 DEF DataOK, SameBelow

(* What is assumed of every step. *)
Context == WellTyped(Programs) /\ DataIsInterp /\ IInv /\ DataOK(ctxs, mode, mem)

(* What a reachable state of a well-typed program is known to have. *)
LEMMA ContextFacts ==
    ASSUME Context
    PROVE  /\ prog \in Programs /\ Sound(ctxs)
           /\ ctxs \in Seq(Act) /\ Len(ctxs) \in Nat /\ Len(ctxs) > 0
           /\ Top = ctxs[Len(ctxs)] /\ Top \in Act /\ Top.proc \in Procs /\ Placed(Top)
           /\ mem \in Mem
           /\ \A i \in 1..Len(ctxs) : Placed(ctxs[i])
           /\ \E lv, bs : Callers(ctxs, mem, lv, bs) /\ TopAs(ctxs, mode, mem, bs[Len(ctxs)])
<1>1. prog \in Programs /\ Sound(ctxs)
  BY IInvIsSound DEF Context
<1>2. /\ ctxs \in Seq(Act) /\ Len(ctxs) \in Nat /\ Len(ctxs) > 0
      /\ Top = ctxs[Len(ctxs)] /\ Top \in Act /\ Top.proc \in Procs
  BY <1>1, TopFacts
<1>3. /\ mem \in Mem
      /\ \A i \in 1..Len(ctxs) : Placed(ctxs[i])
      /\ \E lv, bs : Callers(ctxs, mem, lv, bs) /\ TopAs(ctxs, mode, mem, bs[Len(ctxs)])
  BY DEF Context, DataOK
<1>4. Len(ctxs) \in 1..Len(ctxs)
  BY <1>2
<1>5. QED
  BY <1>1, <1>2, <1>3, <1>4

(* The call that is running is the last one, and began on some stack. *)
LEMMA CallersTop ==
    ASSUME Context, NEW lv, NEW bs, Callers(ctxs, mem, lv, bs)
    PROVE  Len(mem.calls) > 0 /\ bs[Len(ctxs)] \in Nat
<1>1. Len(ctxs) \in 1..Len(ctxs)
  BY ContextFacts
<1>2. lv[Len(ctxs)] \in Nat \ {0} /\ lv[Len(ctxs)] = Len(mem.calls) /\ bs[Len(ctxs)] \in Nat
  BY <1>1 DEF Callers, Levels
<1>3. QED
  BY <1>2

(* The statement that is about to run, and what is known there. *)
LEMMA StmtFacts ==
    ASSUME Context, mode = "run", NEW b, TopAs(ctxs, mode, mem, b)
    PROVE  /\ InBlock(Top) /\ Top.pc \in DOMAIN Block /\ Stmt = StmtOf(Top)
           /\ TrueOf(mem, b, KnownAt(Top)) /\ RunOf(mem) \in KnownAt(Top).runs
           /\ StmtTyped(prog, Top.proc, Top.blk, Top.pc)
           /\ Stmt = Code[prog][Top.proc].blocks[Top.blk][Top.pc]
<1>1. /\ prog \in Programs /\ Top = ctxs[Len(ctxs)] /\ Top.proc \in Procs /\ Placed(Top)
      /\ WellTyped(Programs)
  BY ContextFacts DEF Context
<1>2. RunsAs(Top, mem, b)
  BY <1>1 DEF TopAs
<1>3. InBlock(Top) /\ TrueOf(mem, b, KnownAt(Top)) /\ RunOf(mem) \in KnownAt(Top).runs
  BY <1>2 DEF RunsAs
<1>4. StmtTyped(prog, Top.proc, Top.blk, Top.pc)
  BY <1>1, <1>3, TypedStmt
<1>5. Top.pc \in DOMAIN Block /\ Stmt = StmtOf(Top)
  BY <1>3 DEF InBlock, Block, Stmt, StmtOf
<1>6. QED
  BY <1>3, <1>4, <1>5 DEF StmtOf, BlocksOf

(* An assignment keeps to what is known before it. *)
LEMMA AssignFacts ==
    ASSUME Context, NEW c, c.proc \in Procs, Placed(c), InBlock(c), StmtOf(c).op = "assign"
    PROVE  AssignTyped(prog, c.proc, c.blk, c.pc, StmtOf(c), KnownAt(c)) /\ Sane(StmtOf(c), KnownAt(c))
<1>1. StmtTyped(prog, c.proc, c.blk, c.pc)
  BY ContextFacts, TypedStmt DEF Context
<1>2. AssignTyped(prog, c.proc, c.blk, c.pc, StmtOf(c), KnownAt(c))
  BY <1>1 DEF StmtTyped, StmtOf, BlocksOf, KnownAt
<1>3. QED
  BY <1>2 DEF AssignTyped, PartTyped, Sane

(* Where an assignment that completes leaves its activation. *)
LEMMA GoesOn ==
    ASSUME Context, NEW c, c.proc \in Procs, Placed(c), InBlock(c), StmtOf(c).op = "assign",
           NEW l \in Mem, NEW b, TrueOf(l, b, After(Types[prog].tidy, StmtOf(c), KnownAt(c))),
           RunOf(l) \in Known(prog, c.proc, c.blk)[c.pc + 1].runs
    PROVE  RunsAs(MovedTo(c, c.blk, c.pc + 1), l, b)
<1> DEFINE d == MovedTo(c, c.blk, c.pc + 1)
           a == After(Types[prog].tidy, StmtOf(c), KnownAt(c))
           next == Known(prog, c.proc, c.blk)[c.pc + 1]
<1>1. d.proc = c.proc /\ d.blk = c.blk /\ d.pc = c.pc + 1
  BY DEF MovedTo
<1>2. Fits(a, next) /\ c.pc + 1 \in DOMAIN Code[prog][c.proc].blocks[c.blk]
  BY AssignFacts DEF AssignTyped
<1>3. KnownAt(d) = next /\ InBlock(d)
  BY <1>1, <1>2 DEF KnownAt, InBlock, BlocksOf
<1> HIDE DEF d
<1>4. FrameTypes(next)
  <2>1. ProcTyped(prog, c.proc)
    BY ContextFacts, TypedProc DEF Context
  <2>2. StmtTyped(prog, c.proc, c.blk, c.pc + 1)
    BY <2>1, <1>2 DEF ProcTyped, Placed
  <2>3. QED
    BY <2>2 DEF StmtTyped, FrameTypes
<1> HIDE DEF a
<1>5. l.frames \in Seq(Entries) /\ FrameTypes(a) /\ FramesAs(l.frames, b, a) /\ FramesCounted(l, a)
  BY MemFacts DEF TrueOf, a
<1> HIDE DEF next
<1>6. FramesAs(l.frames, b, next)
  BY <1>2, <1>4, <1>5, FramesFit
<1>7. next.framed = a.framed
  BY <1>2 DEF Fits
<1>8. TrueOf(l, b, next)
  BY <1>4, <1>5, <1>6, <1>7 DEF TrueOf, FramesCounted
<1>9. QED
  BY <1>3, <1>8 DEF RunsAs, d, next

(* Where an assignment that throws leaves its activation. *)
LEMMA ThrownAt ==
    ASSUME Context, NEW c, c.proc \in Procs, Placed(c), InBlock(c), StmtOf(c).op = "assign",
           NEW l, NEW b, NEW R, TrueOf(l, b, Thrown(StmtOf(c), KnownAt(c))),
           Thrown(StmtOf(c), KnownAt(c)).framed,
           RunOf(l) \in R, Lands(prog, c.proc, c.blk, Thrown(StmtOf(c), KnownAt(c)), R)
    PROVE  ThrowsAs(c, l, b)
<1>1. Lands(prog, c.proc, c.blk, Thrown(StmtOf(c), KnownAt(c)), {RunOf(l)})
  BY LandsOne
<1>2. QED
  BY <1>1 DEF ThrowsAs

(* What is known when an assignment throws is true of the frames it found. *)
LEMMA ThrownTrue ==
    ASSUME NEW m \in Mem, NEW b, NEW s, NEW k, TrueOf(m, b, k), k.framed
    PROVE  TrueOf(m, b, Thrown(s, k)) /\ Thrown(s, k).framed
<1> DEFINE l == Thrown(s, k)
<1>1. k.leaked \in BOOLEAN
  BY DEF TrueOf, FrameTypes
<1>2. CASE s.op = "assign" /\ s.do = "call"
  <2>1. l.framed = k.framed /\ l.leaked = TRUE /\ l.held = Nothing
    BY <1>2 DEF Thrown
  <2> HIDE DEF l
  <2>2. TrueOf(m, b, l)
    BY <1>1, <2>1, Weaken
  <2>3. QED
    BY <2>1, <2>2 DEF l
<1>3. CASE ~ (s.op = "assign" /\ s.do = "call")
  <2>1. l.framed = k.framed /\ l.leaked = k.leaked /\ l.held = k.held
    BY <1>3 DEF Thrown
  <2> HIDE DEF l
  <2>2. TrueOf(m, b, l)
    BY <1>1, <2>1, Weaken
  <2>3. QED
    BY <2>1, <2>2 DEF l
<1>4. QED
  BY <1>2, <1>3

-----------------------------------------------------------------------------
(* Every step of an active procedure keeps the invariant. *)

(* AssignOk: the statement was as its types say, and so is the next. *)
LEMMA AssignOkData ==
    ASSUME Context, AssignOk
    PROVE  DataOK(ctxs', "run", mem')
<1>1. PICK lv, bs : Callers(ctxs, mem, lv, bs) /\ TopAs(ctxs, mode, mem, bs[Len(ctxs)])
  BY ContextFacts
<1> DEFINE b == bs[Len(ctxs)]
           k == KnownAt(Top)
           tidy == Types[prog].tidy
<1>2. mode = "run" /\ Stmt.op = "assign" /\ ctxs' = Advance(ctxs)
  BY DEF AssignOk, At
<1>3. PICK r \in EvalStmt(Stmt, mem) : r.out = "ok" /\ mem' = r.mem
  BY DEF AssignOk, Context, DataIsInterp
<1>4. /\ InBlock(Top) /\ Stmt = StmtOf(Top)
      /\ TrueOf(mem, b, k) /\ RunOf(mem) \in k.runs
  BY <1>1, <1>2, StmtFacts
<1>5. /\ mem \in Mem /\ Top.proc \in Procs /\ Placed(Top) /\ Top = ctxs[Len(ctxs)]
      /\ prog \in Programs /\ ctxs \in Seq(Act) /\ Len(ctxs) > 0
      /\ \A i \in 1..Len(ctxs) : Placed(ctxs[i])
  BY ContextFacts
<1>6. Len(mem.calls) > 0
  BY <1>1, CallersTop
<1>7. AssignTyped(prog, Top.proc, Top.blk, Top.pc, Stmt, k) /\ Sane(Stmt, k)
  BY <1>2, <1>4, <1>5, AssignFacts
<1> HIDE DEF b, k, tidy
<1>8. Completes(Stmt, k, mem, b, tidy, r.mem)
  <2>1. \/ r.out = "ok" /\ Completes(Stmt, k, mem, b, tidy, r.mem)
        \/ r.out = "panic"
        \/ r.out = "call"
        \/ r.out = "exit"
    BY <1>3, <1>4, <1>5, <1>6, <1>7, Assigned
  <2>2. QED
    BY <1>3, <2>1
<1>9. RunOf(r.mem) \in Known(prog, Top.proc, Top.blk)[Top.pc + 1].runs
  <2>1. RunOf(r.mem) \in Goes(Stmt, RunOf(mem))
    BY <1>8 DEF Completes
  <2>2. Goes(Stmt, RunOf(mem)) \subseteq Known(prog, Top.proc, Top.blk)[Top.pc + 1].runs
    BY <1>4, <1>7 DEF AssignTyped
  <2>3. QED
    BY <2>1, <2>2
<1>10. /\ r.mem \in Mem /\ SameBelow(mem, r.mem) /\ Keeps(mem.frames, r.mem.frames, b)
       /\ TrueOf(r.mem, b, After(tidy, Stmt, k))
  BY <1>8 DEF Completes, SameBelow
<1>11. RunsAs(MovedTo(Top, Top.blk, Top.pc + 1), r.mem, b)
  BY <1>2, <1>4, <1>5, <1>9, <1>10, GoesOn DEF k, tidy
<1>12. DataOK(Advance(ctxs), "run", r.mem)
  BY <1>1, <1>5, <1>10, <1>11, AdvanceData DEF b
<1>13. QED
  BY <1>2, <1>3, <1>12

(* AssignPanic: the exception goes to the catch block its types name, or    *)
(* leaves the procedure.                                                    *)
LEMMA AssignPanicData ==
    ASSUME Context, AssignPanic
    PROVE  DataOK(ctxs', "unwind", mem')
<1>1. PICK lv, bs : Callers(ctxs, mem, lv, bs) /\ TopAs(ctxs, mode, mem, bs[Len(ctxs)])
  BY ContextFacts
<1> DEFINE b == bs[Len(ctxs)]
           k == KnownAt(Top)
           raising == Types[prog].raising
<1>2. mode = "run" /\ Stmt.op = "assign" /\ ctxs' = ctxs
  BY DEF AssignPanic, At
<1>3. PICK r \in EvalStmt(Stmt, mem) : r.out = "panic" /\ mem' = r.mem
  BY DEF AssignPanic, Context, DataIsInterp
<1>4. /\ InBlock(Top) /\ Stmt = StmtOf(Top)
      /\ TrueOf(mem, b, k) /\ RunOf(mem) \in k.runs
  BY <1>1, <1>2, StmtFacts
<1>5. /\ mem \in Mem /\ Top.proc \in Procs /\ Placed(Top) /\ Top = ctxs[Len(ctxs)]
      /\ prog \in Programs /\ ctxs \in Seq(Act) /\ Len(ctxs) > 0
      /\ \A i \in 1..Len(ctxs) : Placed(ctxs[i])
  BY ContextFacts
<1>6. Len(mem.calls) > 0
  BY <1>1, CallersTop
<1>7. AssignTyped(prog, Top.proc, Top.blk, Top.pc, Stmt, k) /\ Sane(Stmt, k)
  BY <1>2, <1>4, <1>5, AssignFacts
<1> HIDE DEF b, k, raising
<1>8. Breaks(Stmt, k, mem, r.mem, raising)
  <2>1. \/ r.out = "ok"
        \/ r.out = "panic" /\ Breaks(Stmt, k, mem, r.mem, raising)
        \/ r.out = "call"
        \/ r.out = "exit"
    BY <1>3, <1>4, <1>5, <1>6, <1>7, Assigned
  <2>2. QED
    BY <1>3, <2>1
<1>9. /\ SameBelow(mem, r.mem) /\ r.mem.frames = mem.frames
      /\ RunOf(r.mem) \in Throws(raising, Stmt, RunOf(mem))
  BY <1>8 DEF Breaks
<1>10. k.framed
  <2>1. Stmt.do # "frame_add"
    <3>1. RunOf(r.mem) \in Throws(raising, Stmt, RunOf(mem))
      BY <1>9
    <3>2. QED
      BY <3>1 DEF Throws
  <2>2. QED
    BY <1>7, <2>1 DEF Sane
<1>11. TrueOf(r.mem, b, Thrown(Stmt, k)) /\ Thrown(Stmt, k).framed
  <2>1. TrueOf(mem, b, Thrown(Stmt, k)) /\ Thrown(Stmt, k).framed
    BY <1>4, <1>5, <1>10, ThrownTrue
  <2>2. QED
    BY <2>1, <1>9, SameFrames DEF SameBelow
<1>12. Lands(prog, Top.proc, Top.blk, Thrown(Stmt, k), Throws(raising, Stmt, RunOf(mem)))
  BY <1>4, <1>7 DEF AssignTyped, raising
<1>13. ThrowsAs(Top, r.mem, b)
  BY <1>2, <1>4, <1>5, <1>9, <1>11, <1>12, ThrownAt DEF k
<1>14. Keeps(mem.frames, r.mem.frames, b)
  BY <1>4, <1>5, <1>9, KeepsItself
<1>15. DataOK(ctxs, "unwind", r.mem)
  BY <1>1, <1>5, <1>9, <1>13, <1>14, ThrowData DEF b
<1>16. QED
  BY <1>2, <1>3, <1>15

(* The data when a procedure is called. *)
LEMMA CallMem ==
    ASSUME NEW m \in Mem, Len(m.calls) > 0, NEW id \in DOMAIN Outcomes, NEW f \in Procs,
           NEW l, l = Called(m, id, f)
    PROVE  /\ l \in Mem /\ l.frames = m.frames /\ l.left = m.left
           /\ Len(l.calls) = Len(m.calls) + 1
           /\ l.calls[Len(m.calls)] = id /\ l.calls[Len(m.calls) + 1] = f
           /\ \A i \in 1..(Len(m.calls) - 1) : l.calls[i] = m.calls[i]
           /\ RunOf(l) = [kind |-> m.kind, reg |-> m.reg, last |-> f, sig |-> "ok"]
<1> DEFINE S == DOMAIN Outcomes \union DOMAIN Code[prog]
           q == Ran(m, id, "ok")
           n == Len(m.calls)
<1>1. "ok" \in Signals
  BY DEF Signals
<1>2. /\ q \in Mem /\ q.frames = m.frames /\ q.left = m.left
      /\ q.kind = m.kind /\ q.reg = m.reg /\ q.sig = "ok"
      /\ Len(q.calls) = n /\ q.calls[n] = id
      /\ \A i \in 1..(n - 1) : q.calls[i] = m.calls[i]
  BY <1>1, RanFacts
<1> HIDE DEF q
<1>3. n \in Nat /\ n > 0 /\ q.calls \in Seq(S) /\ f \in S
  BY <1>2, MemFacts DEF Procs
<1> HIDE DEF S, n
<1>4. PICK a : a = Append(q.calls, f)
  OBVIOUS
<1>5. a \in Seq(S) /\ Len(a) = n + 1 /\ a[n + 1] = f /\ \A i \in 1..n : a[i] = q.calls[i]
  BY <1>2, <1>3, <1>4
<1>6. l = [q EXCEPT !.calls = a]
  BY <1>4 DEF q, Called
<1>7. /\ l.frames = q.frames /\ l.left = q.left /\ l.kind = q.kind /\ l.reg = q.reg
      /\ l.sig = q.sig /\ l.calls = a /\ l \in Mem
  BY <1>2, <1>5, <1>6 DEF Mem, S
<1>8. n \in 1..n /\ \A i \in 1..(n - 1) : i \in 1..n
  BY <1>3
<1>9. l.calls[n] = id /\ \A i \in 1..(n - 1) : l.calls[i] = m.calls[i]
  BY <1>2, <1>5, <1>7, <1>8
<1>10. l.calls[Len(l.calls)] = f
  BY <1>5, <1>7
<1>11. RunOf(l) = [kind |-> m.kind, reg |-> m.reg, last |-> f, sig |-> "ok"]
  BY <1>2, <1>7, <1>10 DEF RunOf
<1>12. QED
  BY <1>2, <1>5, <1>7, <1>9, <1>11 DEF n

(* A call: the callee begins on the entries there are. *)
LEMMA CallData ==
    ASSUME Context, At("assign"), NEW r \in EvalStmt(Stmt, mem), r.out = "call",
           r.callee \in Procs, Activation(r.callee) \in Act
    PROVE  DataOK(Append(ctxs, Activation(r.callee)), "run", r.mem)
<1>1. PICK lv, bs : Callers(ctxs, mem, lv, bs) /\ TopAs(ctxs, mode, mem, bs[Len(ctxs)])
  BY ContextFacts
<1> DEFINE b == bs[Len(ctxs)]
           k == KnownAt(Top)
           c == Activation(r.callee)
           n == Len(ctxs)
           start == Code[prog][r.callee].start
           none == [framed |-> FALSE, leaked |-> FALSE, held |-> Nothing]
           l == r.mem
<1>2. mode = "run" /\ Stmt.op = "assign"
  BY DEF At
<1>3. /\ InBlock(Top) /\ Stmt = StmtOf(Top)
      /\ TrueOf(mem, b, k) /\ RunOf(mem) \in k.runs
  BY <1>1, <1>2, StmtFacts
<1>4. /\ mem \in Mem /\ Top.proc \in Procs /\ Placed(Top) /\ Top = ctxs[n]
      /\ prog \in Programs /\ ctxs \in Seq(Act) /\ n > 0 /\ n \in Nat
      /\ \A i \in 1..n : Placed(ctxs[i])
  BY ContextFacts
<1>5. Len(mem.calls) > 0
  BY <1>1, CallersTop
<1>6. AssignTyped(prog, Top.proc, Top.blk, Top.pc, Stmt, k) /\ Sane(Stmt, k)
  BY <1>2, <1>3, <1>4, AssignFacts
<1>7. /\ c.kind = "proc" /\ c.proc = r.callee /\ c.fail = NoBlock /\ c.pc = 1 /\ c.blk = start
      /\ c = MovedTo(c, start, 1)
  BY DEF Activation, MovedTo
<1> HIDE DEF b, k, c, n
<1>8. Stmt.do = "call" /\ r.callee = Stmt.f /\ l = Called(mem, Stmt.id, Stmt.f)
  <2>1. \/ r.out = "ok"
        \/ r.out = "panic"
        \/ /\ r.out = "call" /\ Stmt.do = "call" /\ r.callee = Stmt.f
           /\ r.mem = Called(mem, Stmt.id, Stmt.f)
        \/ r.out = "exit"
    BY <1>3, <1>4, <1>5, <1>6, Assigned
  <2>2. QED
    BY <2>1
<1>9. Stmt.id \in DOMAIN Outcomes /\ k.framed /\ RunOf(mem).kind = "lng"
  <2>1. Stmt.do \in Parts /\ Stmt.do # "frame_add"
    BY <1>8 DEF Parts
  <2>2. PartTyped(prog, Stmt, k) /\ k.framed
    BY <1>6, <2>1 DEF AssignTyped
  <2>3. QED
    BY <1>3, <2>2 DEF PartTyped
<1> HIDE DEF l
<1>10. /\ l \in Mem /\ l.frames = mem.frames /\ l.left = mem.left
       /\ Len(l.calls) = Len(mem.calls) + 1
       /\ l.calls[Len(mem.calls)] = Stmt.id
       /\ \A i \in 1..(Len(mem.calls) - 1) : l.calls[i] = mem.calls[i]
       /\ RunOf(l) = [kind |-> mem.kind, reg |-> mem.reg, last |-> r.callee, sig |-> "ok"]
  BY <1>4, <1>5, <1>8, <1>9, CallMem
<1>11. RunOf(l) \in Back(r.callee)
  <2>1. mem.kind = "lng"
    BY <1>9 DEF RunOf
  <2>2. mem.reg \in Regs
    BY <1>4 DEF Mem
  <2>3. QED
    BY <1>10, <2>1, <2>2 DEF Back
<1>12. EntryTyped(prog, r.callee)
  BY <1>4, TypedProc DEF Context, ProcTyped
<1>13. TrueOf(l, Len(mem.frames), none)
  <2>1. mem.frames \in Seq(Entries) /\ Len(mem.calls) \in Nat /\ mem.left \in Nat
    BY <1>4, MemFacts
  <2>2. FramesAs(l.frames, Len(mem.frames), none)
    BY <1>10, <2>1, NoFramesYet
  <2>3. FramesCounted(mem, k)
    BY <1>3 DEF TrueOf
  <2>4. Cardinality(Boundaries(l.frames)) = (Len(mem.calls) - 1) + 1 + mem.left
    BY <1>9, <1>10, <2>3 DEF FramesCounted
  <2>5. FramesCounted(l, none)
    BY <1>10, <2>1, <2>4 DEF FramesCounted
  <2>6. FrameTypes(none)
    BY DEF FrameTypes, Nothing
  <2>7. QED
    BY <2>2, <2>5, <2>6 DEF TrueOf
<1>14. Enters(prog, r.callee, start, none, Back(r.callee)) /\ Catch(prog, r.callee, start) = NoBlock
  BY <1>12 DEF EntryTyped
<1> HIDE DEF start, none
<1>15. start \in DOMAIN Types[prog].known[r.callee] /\ RunsAs(c, l, Len(mem.frames))
  <2>1. start \in DOMAIN Types[prog].known[c.proc] /\ RunsAs(MovedTo(c, start, 1), l, Len(mem.frames))
    BY <1>4, <1>7, <1>10, <1>11, <1>13, <1>14, EnterBlock DEF Context
  <2>2. QED
    BY <2>1, <1>7
<1>16. Placed(c)
  BY <1>7, <1>14, <1>15 DEF Placed
<1>17. \E lw, bt : Callers(Append(ctxs, c), l, lw, bt) /\ bt[n + 1] = Len(mem.frames)
  <2>1. FramesAs(mem.frames, b, k)
    BY <1>3 DEF TrueOf
  <2>2. /\ c \in Act /\ ~ (c.kind = "try") /\ c.kind = "proc"
        /\ StmtOf(ctxs[n]).do = "call"
        /\ StmtOf(ctxs[n]).f = c.proc
        /\ StmtOf(ctxs[n]).id = l.calls[Len(mem.calls)]
        /\ FramesAs(mem.frames, bs[n], KnownAt(ctxs[n]))
    BY <1>3, <1>4, <1>7, <1>8, <1>10, <2>1 DEF b, k, n, c
  <2>3. \E lw, bt : /\ Callers(Append(ctxs, c), l, lw, bt)
                    /\ bt[n + 1] = IF c.kind = "try" THEN bs[n] ELSE Len(mem.frames)
    BY <1>1, <1>4, <1>10, <2>2, PushCallers DEF n
  <2>4. QED
    BY <2>2, <2>3
<1>18. PICK lw, bt : Callers(Append(ctxs, c), l, lw, bt) /\ bt[n + 1] = Len(mem.frames)
  BY <1>17
<1>19. /\ Len(Append(ctxs, c)) = n + 1 /\ Append(ctxs, c)[n + 1] = c
       /\ \A i \in 1..(n + 1) : Placed(Append(ctxs, c)[i])
  <2>1. Len(Append(ctxs, c)) = n + 1 /\ Append(ctxs, c)[n + 1] = c
        /\ \A i \in 1..n : Append(ctxs, c)[i] = ctxs[i]
    BY <1>4 DEF n
  <2>2. \A i \in 1..(n + 1) : i \in 1..n \/ i = n + 1
    BY <1>4
  <2>3. QED
    BY <1>4, <1>16, <2>1, <2>2
<1>20. TopAs(Append(ctxs, c), "run", l, bt[n + 1])
  BY <1>15, <1>18, <1>19 DEF TopAs
<1>21. QED
  BY <1>10, <1>18, <1>19, <1>20 DEF DataOK, c, l

-----------------------------------------------------------------------------
(* What is below the activation on top. *)

(* The data when a procedure has returned, and when an exception has left   *)
(* one.                                                                     *)
LEMMA ReturnMem ==
    ASSUME NEW m \in Mem, Len(m.calls) > 1, NEW x, NEW y, NEW l, l = ResultOf(x, y, m)
    PROVE  /\ l \in Mem /\ l.frames = m.frames /\ l.left = m.left
           /\ Len(l.calls) = Len(m.calls) - 1
           /\ \A i \in 1..(Len(m.calls) - 1) : l.calls[i] = m.calls[i]
           /\ RunOf(l) = [kind |-> m.kind, reg |-> m.reg,
                          last |-> m.calls[Len(m.calls) - 1], sig |-> "ok"]
<1> DEFINE S == DOMAIN Outcomes \union DOMAIN Code[prog]
           n == Len(m.calls)
<1>1. m.calls \in Seq(S) /\ n \in Nat
  BY MemFacts
<1> HIDE DEF S
<1>2. PICK a : a = SubSeq(m.calls, 1, n - 1)
  OBVIOUS
<1>3. a \in Seq(S) /\ Len(a) = n - 1 /\ \A i \in 1..(n - 1) : a[i] = m.calls[i]
  BY <1>1, <1>2
<1>4. l = [m EXCEPT !.calls = a, !.sig = "ok"]
  BY <1>2 DEF ResultOf
<1>5. /\ l.frames = m.frames /\ l.left = m.left /\ l.kind = m.kind /\ l.reg = m.reg
      /\ l.sig = "ok" /\ l.calls = a /\ l \in Mem
  BY <1>3, <1>4 DEF Mem, S, Signals
<1> HIDE DEF n
<1>6. l.calls[Len(l.calls)] = m.calls[n - 1]
  <2>1. n > 1
    BY DEF n
  <2>2. n - 1 \in 1..(n - 1)
    BY <1>1, <2>1
  <2>3. QED
    BY <1>3, <1>5, <2>2
<1>7. RunOf(l) = [kind |-> m.kind, reg |-> m.reg, last |-> m.calls[n - 1], sig |-> "ok"]
  BY <1>5, <1>6 DEF RunOf
<1>8. QED
  BY <1>3, <1>5, <1>7 DEF n

(* An exception that leaves a procedure ends its call, and leaves its *)
(* frame behind.                                                      *)
LEMMA LeaveMem ==
    ASSUME NEW m \in Mem, Len(m.calls) > 1, NEW l, l = LeaveActivation("proc", m)
    PROVE  /\ l \in Mem /\ l.frames = m.frames /\ l.left = m.left + 1
           /\ Len(l.calls) = Len(m.calls) - 1
           /\ \A i \in 1..(Len(m.calls) - 1) : l.calls[i] = m.calls[i]
           /\ RunOf(l) = [kind |-> m.kind, reg |-> m.reg,
                          last |-> m.calls[Len(m.calls) - 1], sig |-> m.sig]
<1> DEFINE S == DOMAIN Outcomes \union DOMAIN Code[prog]
           n == Len(m.calls)
<1>1. m.calls \in Seq(S) /\ n \in Nat /\ m.left \in Nat
  BY MemFacts
<1> HIDE DEF S
<1>2. PICK a : a = SubSeq(m.calls, 1, n - 1)
  OBVIOUS
<1>3. a \in Seq(S) /\ Len(a) = n - 1 /\ \A i \in 1..(n - 1) : a[i] = m.calls[i]
  BY <1>1, <1>2
<1>4. PICK d \in Nat : d = m.left + 1
  BY <1>1
<1>5. l = [m EXCEPT !.calls = a, !.left = d]
  BY <1>2, <1>4 DEF LeaveActivation
<1>6. /\ l.frames = m.frames /\ l.left = d /\ l.kind = m.kind /\ l.reg = m.reg
      /\ l.sig = m.sig /\ l.calls = a /\ l \in Mem
  BY <1>3, <1>5 DEF Mem, S
<1> HIDE DEF n
<1>7. l.calls[Len(l.calls)] = m.calls[n - 1]
  <2>1. n > 1
    BY DEF n
  <2>2. n - 1 \in 1..(n - 1)
    BY <1>1, <2>1
  <2>3. QED
    BY <1>3, <1>6, <2>2
<1>8. RunOf(l) = [kind |-> m.kind, reg |-> m.reg, last |-> m.calls[n - 1], sig |-> m.sig]
  BY <1>6, <1>7 DEF RunOf
<1>9. QED
  BY <1>3, <1>4, <1>6, <1>8 DEF n

(* The frames of a call are on top of what its caller was known to have.    *)
LEMMA CallerFrames ==
    ASSUME NEW F \in Seq(Entries), NEW c \in 0..Len(F), NEW b, NEW k, NEW l,
           FramesAs(SubSeq(F, 1, c), b, k), k.framed,
           l.framed, l.leaked, l.held = Nothing
    PROVE  FramesAs(F, b, l)
<1> DEFINE G == SubSeq(F, 1, c)
<1>1. c \in Nat /\ Len(F) \in Nat /\ c <= Len(F)
  OBVIOUS
<1>2. Len(G) = c /\ \A i \in 1..c : G[i] = F[i]
  BY <1>1
<1> HIDE DEF G
<1>3. b \in 0..Len(G) /\ b < Len(G) /\ G[b + 1] = Boundary
  BY DEF FramesAs, G
<1>4. b \in 0..Len(F) /\ b < Len(F) /\ F[b + 1] = Boundary
  BY <1>1, <1>2, <1>3
<1>5. \A x \in Vars : l.held[x] <= HeldIn(F, x)
  BY NothingHeld
<1>6. QED
  BY <1>4, <1>5 DEF FramesAs

(* What a caller waits at, and what is known there. *)
LEMMA CallerFacts ==
    ASSUME Context, NEW lv, NEW bs, Callers(ctxs, mem, lv, bs),
           Len(ctxs) > 1, Top.kind = "proc", NEW c, c = ctxs[Len(ctxs) - 1]
    PROVE  /\ c \in Act /\ c.proc \in Procs /\ Placed(c) /\ InBlock(c)
           /\ StmtOf(c).op = "assign" /\ StmtOf(c).do = "call"
           /\ StmtOf(c).f = Top.proc /\ StmtOf(c).id = mem.calls[Len(mem.calls) - 1]
           /\ lv[Len(ctxs) - 1] = Len(mem.calls) - 1 /\ Len(mem.calls) > 1
           /\ bs[Len(ctxs) - 1] \in Nat /\ bs[Len(ctxs)] \in Nat
           /\ bs[Len(ctxs) - 1] <= bs[Len(ctxs)] /\ bs[Len(ctxs)] <= Len(mem.frames)
           /\ FramesAs(SubSeq(mem.frames, 1, bs[Len(ctxs)]), bs[Len(ctxs) - 1], KnownAt(c))
           /\ FrameTypes(KnownAt(c)) /\ KnownAt(c).framed
           /\ AssignTyped(prog, c.proc, c.blk, c.pc, StmtOf(c), KnownAt(c))
<1> DEFINE n == Len(ctxs)
<1>1. n \in Nat /\ n > 1 /\ Top = ctxs[n] /\ ctxs \in Seq(Act) /\ prog \in Programs
      /\ \A i \in 1..n : Placed(ctxs[i])
  BY ContextFacts
<1>2. n - 1 \in 1..(n - 1) /\ n - 1 \in 1..n /\ n \in 1..n /\ (n - 1) + 1 = n /\ n - 1 <= n
  BY <1>1
<1>3. c \in Act /\ c.proc \in Procs /\ Placed(c)
  <2>1. c \in Act
    BY <1>1, <1>2, ElementOfSeq
  <2>2. QED
    BY <1>1, <1>2, <2>1 DEF Act
<1> HIDE DEF n
<1>4. InBlock(c) /\ StmtOf(c).op = "assign"
  <2>1. WellNested(ctxs)
    BY ContextFacts DEF Sound
  <2>2. OnTopOf(ctxs[(n - 1) + 1], ctxs[n - 1])
    BY <1>2, <2>1 DEF WellNested, n
  <2>3. OnTopOf(Top, c)
    BY <1>1, <1>2, <2>2 DEF n
  <2>4. QED
    BY <2>3 DEF OnTopOf, InBlock
<1>5. Awaits(ctxs, mem, lv, bs, n - 1)
  <2>1. ctxs[(n - 1) + 1].kind = "proc"
    BY <1>1, <1>2
  <2>2. QED
    BY <1>2, <2>1 DEF Callers, n
<1>6. /\ lv[(n - 1) + 1] = lv[n - 1] + 1 /\ lv[n] = Len(mem.calls)
      /\ lv[n] \in Nat \ {0} /\ lv[n - 1] \in Nat \ {0}
      /\ bs[n - 1] \in Nat /\ bs[n] \in Nat /\ bs[n - 1] <= bs[n] /\ bs[n] <= Len(mem.frames)
  <2>1. ctxs[(n - 1) + 1].kind = "proc"
    BY <1>1, <1>2
  <2>2. /\ lv \in [1..n -> Nat \ {0}] /\ bs \in [1..n -> Nat]
        /\ \A i, j \in 1..n : i <= j => lv[i] <= lv[j] /\ bs[i] <= bs[j]
        /\ \A i \in 1..(n - 1) : lv[i + 1] = lv[i] + (IF ctxs[i + 1].kind = "proc" THEN 1 ELSE 0)
        /\ lv[n] = Len(mem.calls) /\ bs[n] <= Len(mem.frames)
    BY DEF Callers, Levels, n
  <2>3. lv[(n - 1) + 1] = lv[n - 1] + 1
    BY <1>2, <2>1, <2>2
  <2>4. bs[n - 1] <= bs[n]
    BY <1>2, <2>2
  <2>5. QED
    BY <1>2, <2>2, <2>3, <2>4
<1>7. lv[n - 1] = Len(mem.calls) - 1 /\ Len(mem.calls) > 1
  <2>1. lv[n] = lv[n - 1] + 1
    BY <1>2, <1>6
  <2>2. QED
    BY <1>6, <2>1
<1>8. /\ StmtOf(c).do = "call" /\ StmtOf(c).f = Top.proc
      /\ StmtOf(c).id = mem.calls[Len(mem.calls) - 1]
      /\ FramesAs(SubSeq(mem.frames, 1, bs[n]), bs[n - 1], KnownAt(c))
  BY <1>1, <1>2, <1>5, <1>7 DEF Awaits, n
<1>9. AssignTyped(prog, c.proc, c.blk, c.pc, StmtOf(c), KnownAt(c)) /\ Sane(StmtOf(c), KnownAt(c))
  BY <1>3, <1>4, AssignFacts
<1>10. KnownAt(c).framed
  BY <1>8, <1>9 DEF Sane
<1>11. FrameTypes(KnownAt(c))
  BY <1>1, <1>3, <1>4, TypedStmt DEF Context
<1>12. QED
  BY <1>3, <1>4, <1>6, <1>7, <1>8, <1>9, <1>10, <1>11 DEF n

(* The try statement below a section, and the catch block of both. *)
LEMMA SectionFacts ==
    ASSUME Context, NEW lv, NEW bs, Callers(ctxs, mem, lv, bs), Top.kind = "try",
           NEW c, c = ctxs[Len(ctxs) - 1]
    PROVE  /\ Len(ctxs) > 1 /\ c.proc = Top.proc
           /\ Top.fail # NoBlock /\ Catch(prog, Top.proc, Top.blk) = Top.fail
           /\ Catch(prog, Top.proc, Top.fail) = c.fail
           /\ lv[Len(ctxs)] = lv[Len(ctxs) - 1] /\ bs[Len(ctxs)] = bs[Len(ctxs) - 1]
<1> DEFINE n == Len(ctxs)
<1>1. n \in Nat /\ Top = ctxs[n] /\ ctxs \in Seq(Act) /\ prog \in Programs /\ Top.proc \in Procs
      /\ Placed(Top) /\ \A i \in 1..n : Placed(ctxs[i])
  BY ContextFacts
<1>2. n > 1 /\ Top.proc = c.proc /\ Top.fail \in DOMAIN Depth[prog][Top.proc]
  BY ContextFacts, TopFacts
<1>3. n - 1 \in 1..(n - 1) /\ n - 1 \in 1..n /\ (n - 1) + 1 = n
  BY <1>1, <1>2
<1> HIDE DEF n
<1>4. InBlock(c) /\ StmtOf(c).op = "try" /\ StmtOf(c).catch = Top.fail
  <2>1. WellNested(ctxs)
    BY ContextFacts DEF Sound
  <2>2. OnTopOf(ctxs[(n - 1) + 1], ctxs[n - 1])
    BY <1>3, <2>1 DEF WellNested, n
  <2>3. OnTopOf(Top, c)
    BY <1>1, <1>3, <2>2 DEF n
  <2>4. QED
    BY <2>3 DEF OnTopOf, InBlock
<1>5. Placed(c)
  BY <1>1, <1>3 DEF n
<1>6. StmtTyped(prog, c.proc, c.blk, c.pc)
  BY <1>1, <1>2, <1>4, <1>5, TypedStmt DEF Context
<1>7. TryTyped(prog, c.proc, c.blk, StmtOf(c), KnownAt(c))
  BY <1>4, <1>6 DEF StmtTyped, StmtOf, BlocksOf, KnownAt
<1>8. Catch(prog, Top.proc, Top.fail) = c.fail
  BY <1>2, <1>4, <1>5, <1>7 DEF TryTyped, Placed
<1>9. Top.fail # NoBlock
  BY <1>1, <1>2, TypedProc DEF Context
<1>10. Catch(prog, Top.proc, Top.blk) = Top.fail
  BY <1>1 DEF Placed
<1>11. lv[n] = lv[n - 1] /\ bs[n] = bs[n - 1]
  <2>1. /\ lv[(n - 1) + 1] = lv[n - 1] + (IF ctxs[(n - 1) + 1].kind = "proc" THEN 1 ELSE 0)
        /\ ctxs[(n - 1) + 1].kind = "try" => bs[(n - 1) + 1] = bs[n - 1]
    BY <1>3 DEF Callers, Levels, n
  <2>2. lv[n - 1] \in Nat
    BY <1>3 DEF Callers, Levels, n
  <2>3. QED
    BY <1>1, <1>3, <2>1, <2>2
<1>12. QED
  BY <1>2, <1>8, <1>9, <1>10, <1>11 DEF n

(* A section ends, and the activation below goes on where it may. *)
LEMMA SectionEnds ==
    ASSUME Context, NEW lv, NEW bs, Callers(ctxs, mem, lv, bs), Top.kind = "try",
           NEW to \in AllBlocks, to \in DOMAIN Types[prog].known[Top.proc],
           \A c : c.proc = Top.proc => RunsAs(MovedTo(c, to, 1), mem, bs[Len(ctxs)]),
           Catch(prog, Top.proc, to) = Catch(prog, Top.proc, Top.fail)
    PROVE  DataOK(Jump(Below, to), "run", mem)
<1> DEFINE n == Len(ctxs)
           c == ctxs[n - 1]
<1>1. n \in Nat /\ ctxs \in Seq(Act) /\ prog \in Programs /\ mem \in Mem
      /\ \A i \in 1..n : Placed(ctxs[i])
  BY ContextFacts
<1>2. /\ n > 1 /\ c.proc = Top.proc
      /\ Catch(prog, Top.proc, Top.fail) = c.fail
      /\ lv[n] = lv[n - 1] /\ bs[n] = bs[n - 1]
  BY SectionFacts
<1>3. /\ Below \in Seq(Act) /\ Len(Below) = n - 1 /\ \A i \in 1..(n - 1) : Below[i] = ctxs[i]
      /\ Below = SubSeq(ctxs, 1, n - 1)
  BY <1>1, <1>2, BelowFacts DEF Below
<1> HIDE DEF n, c
<1>4. PICK lw, bt : Callers(Below, mem, lw, bt) /\ bt[n - 1] = bs[n - 1]
  <2>1. Len(mem.calls) = lv[n - 1]
    BY <1>2 DEF Callers, n
  <2>2. Keeps(mem.frames, mem.frames, bs[n - 1])
    <3>1. bs[n] \in Nat /\ bs[n] <= Len(mem.frames)
      <4>1. n \in 1..n
        BY <1>1, <1>2
      <4>2. QED
        BY <4>1 DEF Callers, Levels, n
    <3>2. QED
      BY <1>1, <1>2, <3>1, MemFacts DEF Keeps
  <2>3. \E lw, bt : Callers(SubSeq(ctxs, 1, n - 1), mem, lw, bt) /\ bt[n - 1] = bs[n - 1]
    BY <1>1, <1>2, <2>1, <2>2, DropCallers DEF n
  <2>4. QED
    BY <1>3, <2>3
<1>5. n - 1 \in 1..(n - 1) /\ n - 1 > 0 /\ \A i \in 1..(n - 1) : i \in 1..n
  BY <1>1, <1>2
<1>6. Below[Len(Below)] = c
  BY <1>3, <1>5 DEF c
<1>7. \A i \in 1..Len(Below) : Placed(Below[i])
  BY <1>1, <1>3, <1>5
<1>8. RunsAs(MovedTo(c, to, 1), mem, bt[n - 1])
  BY <1>2, <1>4 DEF n
<1>9. QED
  BY <1>1, <1>2, <1>3, <1>4, <1>5, <1>6, <1>7, <1>8, JumpData

(* The activation on top goes on in a block that its types let it enter.   *)
LEMMA EnterData ==
    ASSUME Context, mode = "run", NEW lv, NEW bs, Callers(ctxs, mem, lv, bs),
           TopAs(ctxs, mode, mem, bs[Len(ctxs)]), NEW to, NEW R, RunOf(mem) \in R,
           Enters(prog, Top.proc, to, KnownAt(Top), R),
           Catch(prog, Top.proc, to) = Catch(prog, Top.proc, Top.blk)
    PROVE  DataOK(Jump(ctxs, to), "run", mem)
<1> DEFINE b == bs[Len(ctxs)]
<1>1. TrueOf(mem, b, KnownAt(Top))
  BY StmtFacts
<1>2. /\ prog \in Programs /\ ctxs \in Seq(Act) /\ Len(ctxs) > 0
      /\ Top = ctxs[Len(ctxs)] /\ Top.proc \in Procs /\ Placed(Top) /\ mem \in Mem
      /\ \A i \in 1..Len(ctxs) : Placed(ctxs[i])
  BY ContextFacts
<1>3. to \in DOMAIN Types[prog].known[Top.proc] /\ RunsAs(MovedTo(Top, to, 1), mem, b)
  BY <1>1, <1>2, EnterBlock DEF Context
<1>4. to \in AllBlocks
  BY <1>2, <1>3, TypedProc DEF Context
<1>5. Catch(prog, Top.proc, to) = Top.fail
  BY <1>2 DEF Placed
<1>6. QED
  BY <1>2, <1>3, <1>4, <1>5, JumpData

(* Branch: the temporary it tests says which block is entered. *)
LEMMA BranchData ==
    ASSUME Context, Branch
    PROVE  DataOK(ctxs', "run", mem')
<1>1. PICK lv, bs : Callers(ctxs, mem, lv, bs) /\ TopAs(ctxs, mode, mem, bs[Len(ctxs)])
  BY ContextFacts
<1> DEFINE k == KnownAt(Top)
<1>2. mode = "run" /\ Stmt.op = "branch" /\ mem' = mem
  BY DEF Branch, At
<1>3. PICK r \in CondStmt(Stmt, mem) :
         r.out \in {"yes", "no"} /\ ctxs' = Jump(ctxs, IF r.out = "yes" THEN Stmt.yes ELSE Stmt.no)
  BY DEF Branch, Context, DataIsInterp
<1>4. RunOf(mem) \in k.runs /\ StmtTyped(prog, Top.proc, Top.blk, Top.pc)
      /\ Stmt = Code[prog][Top.proc].blocks[Top.blk][Top.pc]
  BY <1>1, <1>2, StmtFacts
<1>5. BranchTyped(prog, Top.proc, Top.blk, Stmt, k)
      /\ Catch(prog, Top.proc, Stmt.yes) = Catch(prog, Top.proc, Top.blk)
      /\ Catch(prog, Top.proc, Stmt.no) = Catch(prog, Top.proc, Top.blk)
  BY <1>2, <1>4 DEF StmtTyped, KnownAt
<1>6. RunOf(mem).reg = mem.reg /\ mem.reg \in Regs
  BY ContextFacts DEF RunOf, Mem
<1> HIDE DEF k
<1>7. CASE mem.reg = "true"
  <2>1. r.out = "yes"
    BY <1>3, <1>7 DEF CondStmt
  <2>2. RunOf(mem) \in {q \in k.runs : q.reg = "true"}
    BY <1>4, <1>6, <1>7
  <2>3. Enters(prog, Top.proc, Stmt.yes, k, {q \in k.runs : q.reg = "true"})
    BY <1>5 DEF BranchTyped
  <2>4. DataOK(Jump(ctxs, Stmt.yes), "run", mem)
    BY <1>1, <1>2, <1>5, <2>2, <2>3, EnterData DEF k
  <2>5. QED
    BY <1>2, <1>3, <2>1, <2>4
<1>8. CASE mem.reg = "false"
  <2>1. r.out = "no"
    BY <1>3, <1>8 DEF CondStmt
  <2>2. RunOf(mem) \in {q \in k.runs : q.reg = "false"}
    BY <1>4, <1>6, <1>8
  <2>3. Enters(prog, Top.proc, Stmt.no, k, {q \in k.runs : q.reg = "false"})
    BY <1>5 DEF BranchTyped
  <2>4. DataOK(Jump(ctxs, Stmt.no), "run", mem)
    BY <1>1, <1>2, <1>5, <2>2, <2>3, EnterData DEF k
  <2>5. QED
    BY <1>2, <1>3, <2>1, <2>4
<1>9. CASE mem.reg = "nonbool"
  BY <1>3, <1>9 DEF CondStmt
<1>10. QED
  BY <1>6, <1>7, <1>8, <1>9 DEF Regs

(* Goto. *)
LEMMA GotoData ==
    ASSUME Context, Goto
    PROVE  DataOK(ctxs', "run", mem')
<1>1. PICK lv, bs : Callers(ctxs, mem, lv, bs) /\ TopAs(ctxs, mode, mem, bs[Len(ctxs)])
  BY ContextFacts
<1>2. mode = "run" /\ Stmt.op = "goto" /\ mem' = mem /\ ctxs' = Jump(ctxs, Stmt.to)
  BY DEF Goto, At
<1>3. RunOf(mem) \in KnownAt(Top).runs /\ StmtTyped(prog, Top.proc, Top.blk, Top.pc)
      /\ Stmt = Code[prog][Top.proc].blocks[Top.blk][Top.pc]
  BY <1>1, <1>2, StmtFacts
<1>4. Enters(prog, Top.proc, Stmt.to, KnownAt(Top), KnownAt(Top).runs)
      /\ Catch(prog, Top.proc, Stmt.to) = Catch(prog, Top.proc, Top.blk)
  BY <1>2, <1>3 DEF StmtTyped, KnownAt
<1>5. DataOK(Jump(ctxs, Stmt.to), "run", mem)
  BY <1>1, <1>2, <1>3, <1>4, EnterData
<1>6. QED
  BY <1>2, <1>5

(* BranchPanic: the exception is the user's. *)
LEMMA BranchPanicData ==
    ASSUME Context, BranchPanic
    PROVE  DataOK(ctxs', "unwind", mem')
<1>1. PICK lv, bs : Callers(ctxs, mem, lv, bs) /\ TopAs(ctxs, mode, mem, bs[Len(ctxs)])
  BY ContextFacts
<1> DEFINE k == KnownAt(Top)
           b == bs[Len(ctxs)]
           l == [mem EXCEPT !.kind = "usr"]
           R == {[q EXCEPT !.kind = "usr"] : q \in {x \in k.runs : x.reg = "nonbool"}}
<1>2. mode = "run" /\ Stmt.op = "branch" /\ ctxs' = ctxs
  BY DEF BranchPanic, At
<1>3. PICK r \in CondStmt(Stmt, mem) : r.out = "panic" /\ mem' = r.mem
  BY DEF BranchPanic, Context, DataIsInterp
<1>4. /\ TrueOf(mem, b, k) /\ RunOf(mem) \in k.runs /\ StmtTyped(prog, Top.proc, Top.blk, Top.pc)
      /\ Stmt = Code[prog][Top.proc].blocks[Top.blk][Top.pc]
  BY <1>1, <1>2, StmtFacts
<1>5. BranchTyped(prog, Top.proc, Top.blk, Stmt, k)
  BY <1>2, <1>4 DEF StmtTyped, KnownAt
<1>6. /\ mem \in Mem /\ Top.proc \in Procs /\ Placed(Top) /\ Top = ctxs[Len(ctxs)]
      /\ prog \in Programs /\ ctxs \in Seq(Act) /\ Len(ctxs) > 0
      /\ \A i \in 1..Len(ctxs) : Placed(ctxs[i])
  BY ContextFacts
<1>7. RunOf(mem).reg = mem.reg /\ mem.reg \in Regs
  BY <1>6 DEF RunOf, Mem
<1>8. mem.reg = "nonbool" /\ mem' = l
  <2>1. mem.reg = "true" => r.out = "yes"
    BY <1>3 DEF CondStmt
  <2>2. mem.reg = "false" => r.out = "no"
    BY <1>3 DEF CondStmt
  <2>3. mem.reg = "nonbool"
    BY <1>3, <1>7, <2>1, <2>2 DEF Regs
  <2>4. r = [out |-> "panic", mem |-> l]
    BY <1>3, <2>3 DEF CondStmt
  <2>5. QED
    BY <1>3, <2>3, <2>4
<1>9. /\ l.frames = mem.frames /\ l.calls = mem.calls /\ l.left = mem.left /\ l.kind = "usr"
      /\ l.reg = mem.reg /\ l.sig = mem.sig /\ l \in Mem
  BY <1>6 DEF Mem, Kinds
<1> HIDE DEF l
<1>10. RunOf(l) = [RunOf(mem) EXCEPT !.kind = "usr"]
  BY <1>9 DEF RunOf
<1>11. SameBelow(mem, l)
  BY <1>9 DEF SameBelow
<1> HIDE DEF k, b
<1>12. RunOf(l) \in R
  BY <1>4, <1>7, <1>8, <1>10
<1>13. k.framed /\ Lands(prog, Top.proc, Top.blk, Thrown(Stmt, k), R)
  BY <1>5 DEF BranchTyped
<1> HIDE DEF R
<1>14. TrueOf(l, b, Thrown(Stmt, k)) /\ Thrown(Stmt, k).framed
  <2>1. TrueOf(mem, b, Thrown(Stmt, k)) /\ Thrown(Stmt, k).framed
    BY <1>4, <1>6, <1>13, ThrownTrue
  <2>2. QED
    BY <2>1, <1>9, SameFrames
<1>15. ThrowsAs(Top, l, b)
  <2>1. Lands(prog, Top.proc, Top.blk, Thrown(Stmt, k), {RunOf(l)})
    BY <1>12, <1>13, LandsOne
  <2>2. QED
    BY <1>14, <2>1 DEF ThrowsAs
<1>16. Keeps(mem.frames, l.frames, b)
  BY <1>4, <1>6, <1>9, KeepsItself
<1>17. DataOK(ctxs, "unwind", l)
  BY <1>1, <1>6, <1>11, <1>15, <1>16, ThrowData DEF b
<1>18. QED
  BY <1>2, <1>8, <1>17

(* Try: the section begins on the frames there are. *)
LEMMA TryData ==
    ASSUME Context, At("try")
    PROVE  DataOK(Append(ctxs, TryActivation(Top.proc, Stmt.attempt, Stmt.catch)), "run", mem)
<1>1. PICK lv, bs : Callers(ctxs, mem, lv, bs) /\ TopAs(ctxs, mode, mem, bs[Len(ctxs)])
  BY ContextFacts
<1> DEFINE k == KnownAt(Top)
           n == Len(ctxs)
           c == TryActivation(Top.proc, Stmt.attempt, Stmt.catch)
<1>2. mode = "run" /\ Stmt.op = "try"
  BY DEF At
<1>3. /\ TrueOf(mem, bs[n], k) /\ RunOf(mem) \in k.runs /\ StmtTyped(prog, Top.proc, Top.blk, Top.pc)
      /\ Stmt = Code[prog][Top.proc].blocks[Top.blk][Top.pc]
  BY <1>1, <1>2, StmtFacts
<1>4. TryTyped(prog, Top.proc, Top.blk, Stmt, k)
  BY <1>2, <1>3 DEF StmtTyped, KnownAt
<1>5. /\ mem \in Mem /\ Top.proc \in Procs
      /\ prog \in Programs /\ ctxs \in Seq(Act) /\ n > 0 /\ n \in Nat
      /\ \A i \in 1..n : Placed(ctxs[i])
  BY ContextFacts
<1>6. /\ c.kind = "try" /\ c.proc = Top.proc /\ c.fail = Stmt.catch /\ c.blk = Stmt.attempt
      /\ c = MovedTo(c, Stmt.attempt, 1)
  BY DEF TryActivation, MovedTo
<1>7. Stmt.attempt \in DOMAIN Types[prog].known[Top.proc] /\ RunsAs(MovedTo(c, Stmt.attempt, 1), mem, bs[n])
  <2>1. Enters(prog, Top.proc, Stmt.attempt, k, k.runs)
    BY <1>4 DEF TryTyped
  <2> HIDE DEF c, n, k
  <2>2. QED
    BY <1>3, <1>5, <1>6, <2>1, EnterBlock DEF Context
<1>8. c \in Act
  <2>1. Stmt.attempt \in AllBlocks
    BY <1>5, <1>7, TypedProc DEF Context
  <2>2. Stmt.catch \in AllBlocks
    <3>1. Stmt.catch \in DOMAIN Depth[prog][Top.proc]
      BY <1>4 DEF TryTyped
    <3>2. DOMAIN Depth[prog][Top.proc] \subseteq AllBlocks
      BY ContextFacts, TopFacts
    <3>3. QED
      BY <3>1, <3>2
  <2>3. QED
    BY <1>5, <2>1, <2>2, ActFacts DEF TryActivation
<1>9. Placed(c)
  BY <1>4, <1>6, <1>7 DEF Placed, TryTyped
<1> HIDE DEF c, n
<1>10. PICK lw, bt : Callers(Append(ctxs, c), mem, lw, bt) /\ bt[n + 1] = bs[n]
  <2>1. \E lw, bt : /\ Callers(Append(ctxs, c), mem, lw, bt)
                    /\ bt[n + 1] = IF c.kind = "try" THEN bs[n] ELSE Len(mem.frames)
    BY <1>1, <1>5, <1>6, <1>8, PushCallers DEF n
  <2>2. QED
    BY <1>6, <2>1
<1>11. /\ Len(Append(ctxs, c)) = n + 1 /\ Append(ctxs, c)[n + 1] = c
       /\ \A i \in 1..(n + 1) : Placed(Append(ctxs, c)[i])
  <2>1. Len(Append(ctxs, c)) = n + 1 /\ Append(ctxs, c)[n + 1] = c
        /\ \A i \in 1..n : Append(ctxs, c)[i] = ctxs[i]
    BY <1>5 DEF n
  <2>2. \A i \in 1..(n + 1) : i \in 1..n \/ i = n + 1
    BY <1>5
  <2>3. QED
    BY <1>5, <1>9, <2>1, <2>2
<1>12. TopAs(Append(ctxs, c), "run", mem, bt[n + 1])
  BY <1>6, <1>7, <1>10, <1>11 DEF TopAs
<1>13. QED
  BY <1>5, <1>10, <1>11, <1>12 DEF DataOK, c

(* TryEnd: the activation below goes on after the section. *)
LEMMA TryEndData ==
    ASSUME Context, TryEnd
    PROVE  DataOK(ctxs', "run", mem')
<1>1. PICK lv, bs : Callers(ctxs, mem, lv, bs) /\ TopAs(ctxs, mode, mem, bs[Len(ctxs)])
  BY ContextFacts
<1> DEFINE k == KnownAt(Top)
           b == bs[Len(ctxs)]
<1>2. mode = "run" /\ Stmt.op = "tryend" /\ Top.kind = "try" /\ ctxs' = Jump(Below, Stmt.to)
  BY DEF TryEnd, At
<1>3. mem' = mem
  BY DEF TryEnd, Context, DataIsInterp, LeaveActivation
<1>4. /\ TrueOf(mem, b, k) /\ RunOf(mem) \in k.runs /\ StmtTyped(prog, Top.proc, Top.blk, Top.pc)
      /\ Stmt = Code[prog][Top.proc].blocks[Top.blk][Top.pc]
  BY <1>1, <1>2, StmtFacts
<1>5. TryEndTyped(prog, Top.proc, Top.blk, Stmt, k)
  BY <1>2, <1>4 DEF StmtTyped, KnownAt
<1>6. mem \in Mem /\ Top.proc \in Procs /\ prog \in Programs /\ Placed(Top)
  BY ContextFacts
<1>7. /\ Enters(prog, Top.proc, Stmt.to, k, k.runs)
      /\ Catch(prog, Top.proc, Stmt.to) = Catch(prog, Top.proc, Top.fail)
  BY <1>5, <1>6 DEF TryEndTyped, Placed
<1> HIDE DEF k, b
<1>8. Stmt.to \in DOMAIN Types[prog].known[Top.proc]
      /\ \A c : c.proc = Top.proc => RunsAs(MovedTo(c, Stmt.to, 1), mem, b)
  <2>1. ASSUME NEW c, c.proc = Top.proc
        PROVE  RunsAs(MovedTo(c, Stmt.to, 1), mem, b)
    BY <1>4, <1>6, <1>7, <2>1, EnterBlock DEF Context
  <2>2. Stmt.to \in DOMAIN Types[prog].known[Top.proc]
    BY <1>4, <1>7 DEF Enters
  <2>3. QED
    BY <2>1, <2>2
<1>9. Stmt.to \in AllBlocks
  BY <1>6, <1>8, TypedProc DEF Context
<1>10. DataOK(Jump(Below, Stmt.to), "run", mem)
  BY <1>1, <1>2, <1>7, <1>8, <1>9, SectionEnds DEF b
<1>11. QED
  BY <1>2, <1>3, <1>10

(* CatchUnwind: the catch block is entered as its types say. *)
LEMMA CatchData ==
    ASSUME Context, CatchUnwind
    PROVE  DataOK(ctxs', "run", mem')
<1>1. PICK lv, bs : Callers(ctxs, mem, lv, bs) /\ TopAs(ctxs, mode, mem, bs[Len(ctxs)])
  BY ContextFacts
<1> DEFINE b == bs[Len(ctxs)]
           to == Top.fail
<1>2. mode = "unwind" /\ Top.kind = "try" /\ ctxs' = Jump(Below, to)
  BY DEF CatchUnwind
<1>3. mem' = mem
  BY DEF CatchUnwind, Context, DataIsInterp, LeaveActivation
<1>4. mem \in Mem /\ Top.proc \in Procs /\ prog \in Programs /\ Top = ctxs[Len(ctxs)]
  BY ContextFacts
<1>5. to # NoBlock /\ Catch(prog, Top.proc, Top.blk) = to
  BY <1>1, <1>2, SectionFacts
<1>6. PICK k : TrueOf(mem, b, k) /\ Lands(prog, Top.proc, Top.blk, k, {RunOf(mem)})
  BY <1>1, <1>2, <1>4 DEF TopAs, ThrowsAs
<1>7. Enters(prog, Top.proc, to, k, {RunOf(mem)})
  BY <1>5, <1>6 DEF Lands
<1> HIDE DEF b, to
<1>8. to \in DOMAIN Types[prog].known[Top.proc]
      /\ \A c : c.proc = Top.proc => RunsAs(MovedTo(c, to, 1), mem, b)
  <2>1. ASSUME NEW c, c.proc = Top.proc
        PROVE  RunsAs(MovedTo(c, to, 1), mem, b)
    BY <1>4, <1>6, <1>7, <2>1, EnterBlock DEF Context
  <2>2. to \in DOMAIN Types[prog].known[Top.proc]
    BY <1>7 DEF Enters
  <2>3. QED
    BY <2>1, <2>2
<1>9. to \in AllBlocks
  BY <1>4, <1>8, TypedProc DEF Context
<1>10. DataOK(Jump(Below, to), "run", mem)
  BY <1>1, <1>2, <1>8, <1>9, SectionEnds DEF b, to
<1>11. QED
  BY <1>2, <1>3, <1>10

(* A procedure that keeps its frames tidy has none left when it returns,   *)
(* so its caller finds the stack as it was; of another nothing is known.   *)
LEMMA ReturnFrames ==
    ASSUME NEW F \in Seq(Entries), NEW b, NEW k, FrameTypes(k), FramesAs(F, b, k), ~ k.framed,
           NEW d, NEW h, FrameTypes(h), h.framed, FramesAs(SubSeq(F, 1, b), d, h),
           NEW s, s.do = "call", NEW tidy, k.leaked => s.f \notin tidy,
           NEW a, a = After(tidy, s, h)
    PROVE  FramesAs(F, d, a) /\ FrameTypes(a) /\ a.framed
<1>1. /\ a.framed = TRUE /\ a.leaked = (h.leaked \/ s.f \notin tidy)
      /\ a.held = IF s.f \in tidy THEN h.held ELSE Nothing
  <2>1. a.framed = (s.do # "frame_pop") /\ a.held = HeldAfter(tidy, s, h)
        /\ a.leaked = (h.leaked \/ (s.do = "call" /\ s.f \notin tidy))
    BY DEF After
  <2>2. HeldAfter(tidy, s, h) = IF s.f \in tidy THEN h.held ELSE Nothing
    BY DEF HeldAfter
  <2>3. QED
    BY <2>1, <2>2
<1>2. h.leaked \in BOOLEAN /\ h.held \in [Vars -> Nat] /\ Nothing \in [Vars -> Nat]
  BY DEF FrameTypes, Nothing
<1>3. FrameTypes(a)
  BY <1>1, <1>2 DEF FrameTypes
<1>4. b \in 0..Len(F) /\ (~ k.leaked => Len(F) = b) /\ Len(F) \in Nat
  BY DEF FramesAs
<1>5. CASE s.f \in tidy
  <2>1. a.held = h.held /\ a.leaked = h.leaked
    BY <1>1, <1>2, <1>5
  <2>2. Len(F) = b
    BY <1>4, <1>5
  <2>3. SubSeq(F, 1, b) = F
    BY <2>2
  <2>4. FramesAs(F, d, h)
    BY <2>3
  <2>5. Fits(h, a)
    <3>1. \A x \in Vars : a.held[x] <= h.held[x]
      BY <1>2, <2>1
    <3>2. a.framed = h.framed
      BY <1>1 DEF FrameTypes
    <3>3. QED
      BY <2>1, <3>1, <3>2 DEF Fits
  <2>6. QED
    BY <1>1, <1>3, <2>4, <2>5, FramesFit
<1>6. CASE s.f \notin tidy
  <2>1. a.held = Nothing /\ a.leaked /\ a.framed
    BY <1>1, <1>6
  <2>2. FramesAs(F, d, a)
    BY <1>4, <2>1, CallerFrames
  <2>3. QED
    BY <1>3, <2>1, <2>2
<1>7. QED
  BY <1>5, <1>6

(* Return: the caller's call is complete, as its types say. *)
LEMMA ReturnData ==
    ASSUME Context, Return, Len(ctxs) > 1
    PROVE  DataOK(ctxs', "run", mem')
<1>1. PICK lv, bs : Callers(ctxs, mem, lv, bs) /\ TopAs(ctxs, mode, mem, bs[Len(ctxs)])
  BY ContextFacts
<1> DEFINE n == Len(ctxs)
           k == KnownAt(Top)
           c == ctxs[n - 1]
           h == KnownAt(c)
           s == StmtOf(c)
           tidy == Types[prog].tidy
           a == After(tidy, s, h)
           l == ResultOf(Stmt, BlocksOf(c.proc)[c.blk][c.pc], mem)
<1>2. mode = "run" /\ Stmt.op = "return" /\ Top.kind = "proc" /\ ctxs' = Advance(Below)
  BY ContextFacts DEF Return, At
<1>3. mem' = l
  BY ContextFacts DEF Return, Context, DataIsInterp
<1>4. /\ TrueOf(mem, bs[n], k) /\ RunOf(mem) \in k.runs /\ StmtTyped(prog, Top.proc, Top.blk, Top.pc)
      /\ Stmt = Code[prog][Top.proc].blocks[Top.blk][Top.pc]
  BY <1>1, <1>2, StmtFacts
<1>5. ReturnTyped(prog, Top.proc, k)
  BY <1>2, <1>4 DEF StmtTyped, KnownAt
<1>6. /\ mem \in Mem /\ prog \in Programs /\ ctxs \in Seq(Act) /\ n \in Nat
      /\ \A i \in 1..n : Placed(ctxs[i])
  BY ContextFacts
<1>7. /\ c \in Act /\ c.proc \in Procs /\ Placed(c) /\ InBlock(c)
      /\ s.op = "assign" /\ s.do = "call" /\ s.f = Top.proc /\ s.id = mem.calls[Len(mem.calls) - 1]
      /\ lv[n - 1] = Len(mem.calls) - 1 /\ Len(mem.calls) > 1
      /\ bs[n - 1] \in Nat /\ bs[n] \in Nat
      /\ bs[n - 1] <= bs[n] /\ bs[n] <= Len(mem.frames)
      /\ FramesAs(SubSeq(mem.frames, 1, bs[n]), bs[n - 1], h)
      /\ FrameTypes(h) /\ h.framed
      /\ AssignTyped(prog, c.proc, c.blk, c.pc, s, h)
  BY <1>1, <1>2, CallerFacts
<1>8. n - 1 \in 1..n /\ n - 1 > 0
  BY <1>6
<1>9. mem.frames \in Seq(Entries) /\ Len(mem.frames) \in Nat /\ Len(mem.calls) \in Nat /\ mem.left \in Nat
  BY <1>6, MemFacts
<1>10. /\ l \in Mem /\ l.frames = mem.frames /\ l.left = mem.left
       /\ Len(l.calls) = Len(mem.calls) - 1
       /\ \A i \in 1..(Len(mem.calls) - 1) : l.calls[i] = mem.calls[i]
       /\ RunOf(l) = [kind |-> mem.kind, reg |-> mem.reg, last |-> s.id, sig |-> "ok"]
  <2>1. PICK x, y : l = ResultOf(x, y, mem)
    OBVIOUS
  <2> HIDE DEF l
  <2>2. /\ l \in Mem /\ l.frames = mem.frames /\ l.left = mem.left
        /\ Len(l.calls) = Len(mem.calls) - 1
        /\ \A i \in 1..(Len(mem.calls) - 1) : l.calls[i] = mem.calls[i]
        /\ RunOf(l) = [kind |-> mem.kind, reg |-> mem.reg,
                       last |-> mem.calls[Len(mem.calls) - 1], sig |-> "ok"]
    BY <1>6, <1>7, <2>1, ReturnMem
  <2>3. QED
    BY <1>7, <2>2
<1> HIDE DEF n, k, c, h, s, tidy, l
<1>11. FramesAs(mem.frames, bs[n - 1], a) /\ FrameTypes(a) /\ a.framed
  <2>1. FrameTypes(k) /\ FramesAs(mem.frames, bs[n], k) /\ ~ k.framed
    BY <1>4, <1>5 DEF TrueOf, ReturnTyped
  <2>2. k.leaked => s.f \notin tidy
    BY <1>5, <1>7 DEF ReturnTyped, tidy
  <2> HIDE DEF a
  <2>3. QED
    BY <1>7, <1>9, <2>1, <2>2, ReturnFrames DEF a
<1> HIDE DEF a
<1>12. FramesCounted(l, a)
  <2>1. ~ k.framed /\ FramesCounted(mem, k)
    BY <1>4, <1>5 DEF TrueOf, ReturnTyped
  <2>2. Cardinality(Boundaries(mem.frames)) = (Len(mem.calls) - 1) + 0 + mem.left
    BY <2>1 DEF FramesCounted
  <2>3. (Len(mem.calls) - 1) + 0 + mem.left = ((Len(mem.calls) - 1) - 1) + 1 + mem.left
    BY <1>9
  <2>4. QED
    BY <1>10, <1>11, <2>2, <2>3 DEF FramesCounted
<1>13. TrueOf(l, bs[n - 1], a)
  BY <1>10, <1>11, <1>12 DEF TrueOf
<1>14. RunOf(l) \in Known(prog, c.proc, c.blk)[c.pc + 1].runs
  <2>1. RunOf(mem).kind = "lng"
    BY <1>4, <1>5 DEF ReturnTyped
  <2>2. mem.kind = "lng" /\ mem.reg \in Regs
    BY <1>6, <2>1 DEF RunOf, Mem
  <2>3. RunOf(l) \in Back(s.id)
    BY <1>10, <2>2 DEF Back
  <2>4. Back(s.id) \subseteq Known(prog, c.proc, c.blk)[c.pc + 1].runs
    BY <1>7 DEF AssignTyped
  <2>5. QED
    BY <2>3, <2>4
<1>15. RunsAs(MovedTo(c, c.blk, c.pc + 1), l, bs[n - 1])
  BY <1>7, <1>10, <1>13, <1>14, GoesOn DEF a, tidy, s, h
<1>16. Keeps(mem.frames, l.frames, bs[n - 1]) /\ Keeps(l.frames, l.frames, bs[n - 1])
  BY <1>7, <1>9, <1>10 DEF Keeps
<1>17. /\ Below \in Seq(Act) /\ Len(Below) = n - 1 /\ \A i \in 1..(n - 1) : Below[i] = ctxs[i]
       /\ Below = SubSeq(ctxs, 1, n - 1)
  BY <1>6, BelowFacts DEF Below, n
<1>18. PICK lw, bt : Callers(Below, l, lw, bt) /\ bt[n - 1] = bs[n - 1]
  <2>1. /\ Len(l.calls) = lv[n - 1]
        /\ \A i \in 1..(lv[n - 1] - 1) : l.calls[i] = mem.calls[i]
    BY <1>7, <1>9, <1>10
  <2>2. \E lw, bt : Callers(SubSeq(ctxs, 1, n - 1), l, lw, bt) /\ bt[n - 1] = bs[n - 1]
    BY <1>1, <1>6, <1>10, <1>16, <2>1, DropCallers DEF n
  <2>3. QED
    BY <1>17, <2>2
<1>19. n - 1 \in 1..(n - 1) /\ \A i \in 1..(n - 1) : i \in 1..n
  BY <1>6, <1>8
<1>20. Below[Len(Below)] = c
  BY <1>17, <1>19 DEF c
<1>21. \A i \in 1..Len(Below) : Placed(Below[i])
  BY <1>6, <1>17, <1>19
<1>22. SameBelow(l, l)
  BY <1>10 DEF SameBelow
<1>23. RunsAs(MovedTo(Below[Len(Below)], Below[Len(Below)].blk, Below[Len(Below)].pc + 1), l, bt[Len(Below)])
  BY <1>15, <1>17, <1>18, <1>20
<1>24. DataOK(Advance(Below), "run", l)
  <2>1. Keeps(l.frames, l.frames, bt[Len(Below)]) /\ Len(Below) > 0
    BY <1>8, <1>16, <1>17, <1>18
  <2>2. QED
    BY <1>6, <1>10, <1>17, <1>18, <1>21, <1>22, <1>23, <2>1, AdvanceData
<1>25. QED
  BY <1>2, <1>3, <1>24

(* UnwindProc: the caller's types say where the exception goes next. *)
LEMMA UnwindData ==
    ASSUME Context, UnwindProc, Len(ctxs) > 1
    PROVE  DataOK(ctxs', "unwind", mem')
<1>1. PICK lv, bs : Callers(ctxs, mem, lv, bs) /\ TopAs(ctxs, mode, mem, bs[Len(ctxs)])
  BY ContextFacts
<1> DEFINE n == Len(ctxs)
           c == ctxs[n - 1]
           h == KnownAt(c)
           s == StmtOf(c)
           raising == Types[prog].raising
           a == Thrown(s, h)
           l == LeaveActivation("proc", mem)
<1>2. mode = "unwind" /\ Top.kind = "proc" /\ ctxs' = Below
  BY ContextFacts DEF UnwindProc
<1>3. mem' = l
  BY DEF UnwindProc, Context, DataIsInterp
<1>4. /\ mem \in Mem /\ prog \in Programs /\ ctxs \in Seq(Act) /\ n \in Nat
      /\ Top = ctxs[n] /\ Placed(Top) /\ Sound(ctxs)
      /\ \A i \in 1..n : Placed(ctxs[i])
  BY ContextFacts
<1>5. PICK k : TrueOf(mem, bs[n], k) /\ k.framed /\ Lands(prog, Top.proc, Top.blk, k, {RunOf(mem)})
  BY <1>1, <1>2, <1>4 DEF TopAs, ThrowsAs
<1>6. /\ c \in Act /\ c.proc \in Procs /\ Placed(c) /\ InBlock(c)
      /\ s.op = "assign" /\ s.do = "call" /\ s.f = Top.proc /\ s.id = mem.calls[Len(mem.calls) - 1]
      /\ lv[n - 1] = Len(mem.calls) - 1 /\ Len(mem.calls) > 1
      /\ bs[n - 1] \in Nat /\ bs[n] \in Nat
      /\ bs[n - 1] <= bs[n] /\ bs[n] <= Len(mem.frames)
      /\ FramesAs(SubSeq(mem.frames, 1, bs[n]), bs[n - 1], h)
      /\ FrameTypes(h) /\ h.framed
      /\ AssignTyped(prog, c.proc, c.blk, c.pc, s, h)
  BY <1>1, <1>2, CallerFacts
<1>7. mem.frames \in Seq(Entries) /\ Len(mem.frames) \in Nat /\ Len(mem.calls) \in Nat /\ mem.left \in Nat
  BY <1>4, MemFacts
<1>8. /\ l \in Mem /\ l.frames = mem.frames /\ l.left = mem.left + 1
      /\ Len(l.calls) = Len(mem.calls) - 1
      /\ \A i \in 1..(Len(mem.calls) - 1) : l.calls[i] = mem.calls[i]
      /\ RunOf(l) = [kind |-> mem.kind, reg |-> mem.reg, last |-> s.id, sig |-> mem.sig]
  BY <1>4, <1>6, LeaveMem
<1>9. Catch(prog, Top.proc, Top.blk) = NoBlock
  <2>1. Top.fail = NoBlock
    <3>1. n \in 1..n
      BY <1>4
    <3>2. KeepsLabels(ctxs)
      BY <1>4 DEF Sound
    <3>3. QED
      BY <1>2, <1>4, <3>1, <3>2 DEF KeepsLabels
  <2>2. QED
    BY <1>4, <2>1 DEF Placed
<1>10. mem.sig = mem.kind /\ mem.kind \in raising[s.f]
  <2>1. RunOf(mem).sig = RunOf(mem).kind /\ RunOf(mem).kind \in raising[Top.proc]
    BY <1>5, <1>9 DEF Lands
  <2>2. QED
    BY <1>6, <2>1 DEF RunOf
<1> HIDE DEF n, c, h, s, l, raising
<1>11. RunOf(l) \in Out(raising, s)
  <2>1. mem.reg \in Regs
    BY <1>4 DEF Mem
  <2>2. QED
    BY <1>8, <1>10, <2>1 DEF Out
<1>12. Lands(prog, c.proc, c.blk, a, Out(raising, s))
  BY <1>6 DEF AssignTyped, raising
<1>13. a.framed /\ a.leaked /\ a.held = Nothing /\ FrameTypes(a)
  <2>1. a = [framed |-> h.framed, leaked |-> TRUE, held |-> Nothing]
    BY <1>6 DEF Thrown
  <2>2. QED
    BY <1>6, <2>1 DEF FrameTypes, Nothing
<1> HIDE DEF a
<1>14. FramesAs(l.frames, bs[n - 1], a)
  <2>1. bs[n] \in 0..Len(mem.frames)
    BY <1>6, <1>7
  <2>2. QED
    BY <1>6, <1>7, <1>8, <1>13, <2>1, CallerFrames
<1>15. FramesCounted(l, a)
  <2>1. Cardinality(Boundaries(mem.frames)) = (Len(mem.calls) - 1) + 1 + mem.left
    BY <1>5 DEF TrueOf, FramesCounted
  <2>2. (Len(mem.calls) - 1) + 1 + mem.left = ((Len(mem.calls) - 1) - 1) + 1 + (mem.left + 1)
    BY <1>7
  <2>3. QED
    BY <1>8, <1>13, <2>1, <2>2 DEF FramesCounted
<1>16. TrueOf(l, bs[n - 1], a)
  BY <1>13, <1>14, <1>15 DEF TrueOf
<1>17. ThrowsAs(c, l, bs[n - 1])
  BY <1>6, <1>11, <1>12, <1>13, <1>16, ThrownAt DEF a, s, h
<1>18. Keeps(mem.frames, l.frames, bs[n - 1])
  BY <1>6, <1>7, <1>8 DEF Keeps
<1>19. /\ Below \in Seq(Act) /\ Len(Below) = n - 1 /\ \A i \in 1..(n - 1) : Below[i] = ctxs[i]
       /\ Below = SubSeq(ctxs, 1, n - 1)
  BY <1>4, BelowFacts DEF Below, n
<1>20. PICK lw, bt : Callers(Below, l, lw, bt) /\ bt[n - 1] = bs[n - 1]
  <2>1. /\ Len(l.calls) = lv[n - 1]
        /\ \A i \in 1..(lv[n - 1] - 1) : l.calls[i] = mem.calls[i]
    BY <1>6, <1>7, <1>8
  <2>2. \E lw, bt : Callers(SubSeq(ctxs, 1, n - 1), l, lw, bt) /\ bt[n - 1] = bs[n - 1]
    BY <1>1, <1>4, <1>8, <1>18, <2>1, DropCallers DEF n
  <2>3. QED
    BY <1>19, <2>2
<1>21. n - 1 \in 1..(n - 1) /\ \A i \in 1..(n - 1) : i \in 1..n
  BY <1>4 DEF n
<1>22. Below[Len(Below)] = c
  BY <1>19, <1>21 DEF c
<1>23. \A i \in 1..Len(Below) : Placed(Below[i])
  BY <1>4, <1>19, <1>21
<1>24. TopAs(Below, "unwind", l, bt[Len(Below)])
  BY <1>17, <1>19, <1>20, <1>22 DEF TopAs
<1>25. DataOK(Below, "unwind", l)
  BY <1>8, <1>20, <1>23, <1>24 DEF DataOK
<1>26. QED
  BY <1>2, <1>3, <1>25

(* The invariant holds when the program starts. *)
LEMMA InitData ==
    ASSUME WellTyped(Programs), DataIsInterp, Init
    PROVE  DataInv
<1> DEFINE c == Activation(Main)
           start == Code[prog][Main].start
           none == [framed |-> FALSE, leaked |-> FALSE, held |-> Nothing]
           m == StartMem
           one == [i \in 1..1 |-> 1]
           zero == [i \in 1..1 |-> 0]
<1>1. prog \in Programs /\ ctxs = <<c>> /\ mode = "run" /\ mem = m
  BY DEF Init, DataIsInterp, EnterActivation
<1>2. Main \in Procs
  BY <1>1, ProgramsAssumption DEF Procs, Labelled
<1>3. /\ c.kind = "proc" /\ c.proc = Main /\ c.fail = NoBlock
      /\ c.blk = start /\ c = MovedTo(c, start, 1)
  BY DEF Activation, MovedTo
<1>4. /\ m.frames = <<>> /\ m.kind = "lng" /\ m.reg = "true" /\ m.calls = <<Main>>
      /\ m.sig = "ok" /\ m.left = 0 /\ Len(m.calls) = 1 /\ m.calls[1] = Main
  BY DEF StartMem
<1>5. m \in Mem
  <2>1. <<Main>> \in Seq(DOMAIN Outcomes \union DOMAIN Code[prog]) /\ <<>> \in Seq(Entries)
    BY <1>2 DEF Procs
  <2>2. QED
    BY <2>1 DEF StartMem, Mem, Kinds, Regs, Signals
<1> HIDE DEF m
<1>6. RunOf(m) = [kind |-> "lng", reg |-> "true", last |-> Main, sig |-> "ok"]
  BY <1>4 DEF RunOf
<1>7. RunOf(m) \in Back(Main)
  BY <1>6 DEF Back, Regs
<1>8. TrueOf(m, 0, none)
  <2>1. m.frames \in Seq(Entries) /\ Len(m.frames) = 0
    BY <1>4, <1>5, MemFacts
  <2>2. FramesAs(m.frames, 0, none)
    BY <2>1, NoFramesYet
  <2>3. FrameTypes(none)
    BY DEF FrameTypes, Nothing
  <2>4. FramesCounted(m, none)
    <3>1. Boundaries(m.frames) = {}
      BY <1>4 DEF Boundaries
    <3>2. Cardinality(Boundaries(m.frames)) = 0
      BY <3>1, FS_EmptySet
    <3>3. QED
      BY <1>4, <3>2 DEF FramesCounted
  <2>5. QED
    BY <2>2, <2>3, <2>4 DEF TrueOf
<1>9. EntryTyped(prog, Main)
  BY <1>1, <1>2, TypedProc DEF ProcTyped
<1>10. Enters(prog, Main, start, none, Back(Main)) /\ Catch(prog, Main, start) = NoBlock
  BY <1>9 DEF EntryTyped
<1> HIDE DEF none, start
<1>11. start \in DOMAIN Types[prog].known[Main] /\ RunsAs(c, m, 0)
  <2> HIDE DEF c
  <2>1. start \in DOMAIN Types[prog].known[c.proc] /\ RunsAs(MovedTo(c, start, 1), m, 0)
    BY <1>1, <1>2, <1>3, <1>5, <1>7, <1>8, <1>10, EnterBlock
  <2>2. QED
    BY <1>3, <2>1
<1>12. Placed(c)
  BY <1>3, <1>10, <1>11 DEF Placed
<1> HIDE DEF c
<1>13. Len(ctxs) = 1 /\ ctxs[1] = c
  BY <1>1
<1>14. Callers(ctxs, m, one, zero) /\ one[1] = 1 /\ zero[1] = 0
  <2>1. one \in [1..1 -> Nat \ {0}] /\ zero \in [1..1 -> Nat] /\ one[1] = 1 /\ zero[1] = 0
    OBVIOUS
  <2>2. \A i \in 1..1 : i = 1
    OBVIOUS
  <2>3. 1..(1 - 1) = {}
    OBVIOUS
  <2>4. Len(m.frames) = 0
    BY <1>4
  <2> HIDE DEF one, zero
  <2>5. Levels(ctxs, one, zero)
    BY <1>13, <2>1, <2>2, <2>3 DEF Levels
  <2>6. QED
    BY <1>4, <1>13, <2>1, <2>3, <2>4, <2>5 DEF Callers
<1>15. TopAs(ctxs, "run", m, zero[1])
  BY <1>11, <1>13, <1>14 DEF TopAs
<1>16. DataOK(ctxs, "run", m)
  <2>1. \A i \in 1..Len(ctxs) : Placed(ctxs[i])
    BY <1>12, <1>13
  <2>2. QED
    BY <1>5, <1>13, <1>14, <1>15, <2>1 DEF DataOK
<1>17. QED
  BY <1>1, <1>16 DEF DataInv

(* What the invariant says depends on the program only through what the    *)
(* program does not change.                                                *)
LEMMA SameProgram ==
    ASSUME prog' = prog, DataOK(ctxs', mode', mem')
    PROVE  DataInv'
<1>1. \A c : Placed(c)' <=> Placed(c)
  BY DEF Placed
<1>2. Mem' = Mem
  BY DEF Mem
<1>3. \A s, m, lv, bs : Callers(s, m, lv, bs)' <=> Callers(s, m, lv, bs)
  BY DEF Callers, Levels, Awaits, StmtOf, BlocksOf, KnownAt
<1>4. \A c, m, b : RunsAs(c, m, b)' <=> RunsAs(c, m, b)
  BY DEF RunsAs, InBlock, BlocksOf, KnownAt
<1>5. \A c, m, b : ThrowsAs(c, m, b)' <=> ThrowsAs(c, m, b)
  BY DEF ThrowsAs
<1>6. QED
  BY <1>1, <1>2, <1>3, <1>4, <1>5 DEF DataInv, DataOK, TopAs

(* No step breaks the invariant: one case per action. *)
LEMMA StepData ==
    ASSUME WellTyped(Programs), DataIsInterp, IInv, DataInv, [Next]_vars
    PROVE  DataInv'
<1>1. IInv'
  BY StepIInv
<1>2. CASE mode \in {"run", "unwind"}
  <2>1. Context
    BY <1>2 DEF Context, DataInv
  <2>2. ASSUME prog' = prog, DataOK(ctxs', "run", mem'), mode' = "run"
        PROVE  DataInv'
    BY <2>2, SameProgram
  <2>3. ASSUME prog' = prog, DataOK(ctxs', "unwind", mem'), mode' = "unwind"
        PROVE  DataInv'
    BY <2>3, SameProgram
  <2>4. ASSUME mode' \notin {"run", "unwind"}
        PROVE  DataInv'
    BY <2>4 DEF DataInv
  <2>5. Len(ctxs) \in Nat /\ Len(ctxs) > 0
    BY <2>1, ContextFacts
  <2>50. Len(ctxs) # 1 => Len(ctxs) > 1
    BY <2>5, OneOrMore
  <2>6. mode = "run" => Top.pc \in DOMAIN Block
    <3>1. PICK lv, bs : Callers(ctxs, mem, lv, bs) /\ TopAs(ctxs, mode, mem, bs[Len(ctxs)])
      BY <2>1, ContextFacts
    <3>2. QED
      BY <2>1, <3>1, StmtFacts
  <2>7. CASE Refetch
    BY <2>6, <2>7 DEF Refetch
  <2>8. CASE AssignOk
    <3>1. DataOK(ctxs', "run", mem')
      BY <2>1, <2>8, AssignOkData
    <3>2. prog' = prog /\ mode' = "run"
      BY <2>8 DEF AssignOk, At
    <3>3. QED
      BY <2>2, <3>1, <3>2
  <2>9. CASE AssignPanic
    <3>1. DataOK(ctxs', "unwind", mem')
      BY <2>1, <2>9, AssignPanicData
    <3>2. prog' = prog /\ mode' = "unwind"
      BY <2>9 DEF AssignPanic, Panic
    <3>3. QED
      BY <2>3, <3>1, <3>2
  <2>10. CASE AssignExit
    BY <2>4, <2>10 DEF AssignExit
  <2>11. CASE Call
    <3>1. PICK r \in EvalStmt(Stmt, mem) :
             /\ r.out = "call"
             /\ r.callee \in Procs
             /\ \/ Overflow
                \/ /\ ctxs' = Append(ctxs, Activation(r.callee))
                   /\ mem' = r.mem
                   /\ UNCHANGED <<prog, mode, payload>>
      BY <2>1, <2>11 DEF Call, Context, DataIsInterp, EnterActivation
    <3>2. CASE Overflow
      BY <2>4, <3>2 DEF Overflow
    <3>3. CASE /\ ctxs' = Append(ctxs, Activation(r.callee))
               /\ mem' = r.mem
               /\ UNCHANGED <<prog, mode, payload>>
      <4>1. At("assign") /\ mode = "run"
        BY <2>11 DEF Call, At
      <4>2. Activation(r.callee) \in Act
        <5>1. ProcLabelled(Code[prog][r.callee], Depth[prog][r.callee])
          BY <2>1, <3>1, ContextFacts, ProgramsAssumption DEF Procs, Labelled
        <5>2. Code[prog][r.callee].start \in AllBlocks
          BY <3>1, <5>1 DEF ProcLabelled, AllBlocks, BlocksOf
        <5>3. QED
          BY <3>1, <5>2, ActFacts DEF Activation
      <4>3. DataOK(Append(ctxs, Activation(r.callee)), "run", r.mem)
        BY <2>1, <3>1, <4>1, <4>2, CallData
      <4>4. QED
        BY <2>2, <3>3, <4>1, <4>3
    <3>4. QED
      BY <3>1, <3>2, <3>3
  <2>12. CASE Branch
    <3>1. DataOK(ctxs', "run", mem')
      BY <2>1, <2>12, BranchData
    <3>2. prog' = prog /\ mode' = "run"
      BY <2>12 DEF Branch, At
    <3>3. QED
      BY <2>2, <3>1, <3>2
  <2>13. CASE BranchPanic
    <3>1. DataOK(ctxs', "unwind", mem')
      BY <2>1, <2>13, BranchPanicData
    <3>2. prog' = prog /\ mode' = "unwind"
      BY <2>13 DEF BranchPanic, Panic
    <3>3. QED
      BY <2>3, <3>1, <3>2
  <2>14. CASE Goto
    <3>1. DataOK(ctxs', "run", mem')
      BY <2>1, <2>14, GotoData
    <3>2. prog' = prog /\ mode' = "run"
      BY <2>14 DEF Goto, At
    <3>3. QED
      BY <2>2, <3>1, <3>2
  <2>15. CASE Return
    <3>1. CASE Len(ctxs) = 1
      BY <2>4, <2>15, <3>1 DEF Return
    <3>2. CASE Len(ctxs) # 1
      <4>1. DataOK(ctxs', "run", mem')
        BY <2>1, <2>50, <2>15, <3>2, ReturnData
      <4>2. prog' = prog /\ mode' = "run"
        BY <2>15, <3>2 DEF Return, At
      <4>3. QED
        BY <2>2, <4>1, <4>2
    <3>3. QED
      BY <3>1, <3>2
  <2>16. CASE ReturnInTry
    BY <1>1, <2>16, ProgramsAssumption DEF ReturnInTry, Panic, IInv, NoTryMismatch, TryMismatches
  <2>17. CASE Unreachable
    <3>1. mode = "run" /\ Stmt.op = "unreachable"
      BY <2>17 DEF Unreachable, At
    <3>2. PICK lv, bs : Callers(ctxs, mem, lv, bs) /\ TopAs(ctxs, mode, mem, bs[Len(ctxs)])
      BY <2>1, ContextFacts
    <3>3. RunOf(mem) \in KnownAt(Top).runs /\ StmtTyped(prog, Top.proc, Top.blk, Top.pc)
          /\ Stmt = Code[prog][Top.proc].blocks[Top.blk][Top.pc]
      BY <2>1, <3>1, <3>2, StmtFacts
    <3>4. KnownAt(Top).runs = {}
      BY <3>1, <3>3 DEF StmtTyped, KnownAt
    <3>5. QED
      BY <3>3, <3>4
  <2>18. CASE Try
    <3>1. CASE Overflow
      BY <2>4, <3>1 DEF Overflow
    <3>2. CASE ~ Overflow
      <4>1. /\ At("try") /\ mode = "run"
            /\ ctxs' = Append(ctxs, TryActivation(Top.proc, Stmt.attempt, Stmt.catch))
            /\ mem' = mem /\ prog' = prog /\ mode' = mode
        BY <2>1, <2>18, <3>2 DEF Try, At, Context, DataIsInterp, EnterActivation
      <4>2. DataOK(Append(ctxs, TryActivation(Top.proc, Stmt.attempt, Stmt.catch)), "run", mem)
        BY <2>1, <4>1, TryData
      <4>3. QED
        BY <2>2, <4>1, <4>2
    <3>3. QED
      BY <3>1, <3>2
  <2>19. CASE TryEnd
    <3>1. DataOK(ctxs', "run", mem')
      BY <2>1, <2>19, TryEndData
    <3>2. prog' = prog /\ mode' = "run"
      BY <2>19 DEF TryEnd, At
    <3>3. QED
      BY <2>2, <3>1, <3>2
  <2>20. CASE TryEndUnmet
    BY <1>1, <2>20, ProgramsAssumption DEF TryEndUnmet, Panic, IInv, NoTryMismatch, TryMismatches
  <2>21. CASE UnwindProc
    <3>1. CASE Len(ctxs) = 1
      BY <2>4, <2>21, <3>1 DEF UnwindProc
    <3>2. CASE Len(ctxs) # 1
      <4>1. DataOK(ctxs', "unwind", mem')
        BY <2>1, <2>50, <2>21, <3>2, UnwindData
      <4>2. prog' = prog /\ mode' = "unwind"
        BY <2>21, <3>2 DEF UnwindProc
      <4>3. QED
        BY <2>3, <4>1, <4>2
    <3>3. QED
      BY <3>1, <3>2
  <2>22. CASE CatchUnwind
    <3>1. DataOK(ctxs', "run", mem')
      BY <2>1, <2>22, CatchData
    <3>2. prog' = prog /\ mode' = "run"
      BY <2>22 DEF CatchUnwind
    <3>3. QED
      BY <2>2, <3>1, <3>2
  <2>23. CASE UNCHANGED vars
    <3>1. DataOK(ctxs', mode', mem') /\ prog' = prog
      BY <1>2, <2>23 DEF vars, DataInv
    <3>2. QED
      BY <3>1, SameProgram
  <2>24. CASE Terminated
    BY <1>2, <2>24 DEF Terminated
  <2>25. QED
    BY <2>7, <2>8, <2>9, <2>10, <2>11, <2>12, <2>13, <2>14, <2>15, <2>16, <2>17, <2>18,
       <2>19, <2>20, <2>21, <2>22, <2>23, <2>24 DEF Next, Step
<1>3. CASE mode \notin {"run", "unwind"}
  <2>1. mode' = mode
    BY <1>3 DEF Next, Step, Terminated, vars, Refetch, AssignOk, AssignPanic, AssignExit, Call, Branch,
         BranchPanic, Goto, Return, ReturnInTry, Unreachable, Try, TryEnd, TryEndUnmet,
         UnwindProc, CatchUnwind, At
  <2>2. QED
    BY <1>3, <2>1 DEF DataInv
<1>4. QED
  BY <1>2, <1>3

(* The types are true of the data in every reachable state. *)
THEOREM DataInvariance ==
    ASSUME WellTyped(Programs), DataIsInterp
    PROVE  Spec => []DataInv
<1>1. Init => DataInv
  BY InitData
<1>2. IInv /\ DataInv /\ [Next]_vars => DataInv'
  BY StepData
<1>3. QED
  BY <1>1, <1>2, Invariance, PTL DEF Spec

(* What the invariants need of the data at an assignment. *)
LEMMA AtAssign ==
    ASSUME WellTyped(Programs), DataIsInterp, IInv, DataInv, mode = "run"
    PROVE  /\ Top.pc \in DOMAIN Block
           /\ Stmt.op = "assign" =>
                /\ mem \in Mem
                /\ \E b : TrueOf(mem, b, KnownAt(Top))
                /\ RunOf(mem) \in KnownAt(Top).runs
                /\ AssignTyped(prog, Top.proc, Top.blk, Top.pc, Stmt, KnownAt(Top))
                /\ Sane(Stmt, KnownAt(Top))
<1>1. Context
  BY DEF Context, DataInv
<1>2. PICK lv, bs : Callers(ctxs, mem, lv, bs) /\ TopAs(ctxs, mode, mem, bs[Len(ctxs)])
  BY <1>1, ContextFacts
<1>3. /\ InBlock(Top) /\ Top.pc \in DOMAIN Block /\ Stmt = StmtOf(Top)
      /\ TrueOf(mem, bs[Len(ctxs)], KnownAt(Top)) /\ RunOf(mem) \in KnownAt(Top).runs
  BY <1>1, <1>2, StmtFacts
<1>4. mem \in Mem /\ Top.proc \in Procs /\ Placed(Top)
  BY <1>1, ContextFacts
<1>5. Stmt.op = "assign" => /\ AssignTyped(prog, Top.proc, Top.blk, Top.pc, Stmt, KnownAt(Top))
                            /\ Sane(Stmt, KnownAt(Top))
  BY <1>1, <1>3, <1>4, AssignFacts
<1>6. QED
  BY <1>3, <1>4, <1>5

(* EXCEPTION_KIND is Lng whenever a part of the program is about to run.   *)
THEOREM KindFreshCorrect ==
    ASSUME WellTyped(Programs), DataIsInterp
    PROVE  Spec => []KindFresh
<1>1. IInv /\ DataInv => KindFresh
  <2> SUFFICES ASSUME IInv, DataInv, AtPart PROVE mem.kind = "lng"
    BY DEF KindFresh
  <2>1. mode = "run" /\ Stmt.op = "assign" /\ Stmt.do \in Parts
    BY DEF AtPart, AtDo, At, Parts
  <2>2. RunOf(mem) \in KnownAt(Top).runs
        /\ AssignTyped(prog, Top.proc, Top.blk, Top.pc, Stmt, KnownAt(Top))
    BY <2>1, AtAssign
  <2>3. RunOf(mem).kind = "lng"
    BY <2>1, <2>2 DEF AssignTyped, PartTyped
  <2>4. QED
    BY <2>3 DEF RunOf
<1>2. QED
  BY <1>1, Invariance, DataInvariance, PTL

(* The frames on the stack are those of the active procedures and of the   *)
(* ones an exception has left.                                             *)
THEOREM FramesMatchedCorrect ==
    ASSUME WellTyped(Programs), DataIsInterp
    PROVE  Spec => []FramesMatched
<1>1. IInv /\ DataInv => FramesMatched
  <2> SUFFICES ASSUME IInv, DataInv, AtPart
               PROVE  Cardinality(Boundaries(mem.frames)) = Len(mem.calls) + mem.left
    BY DEF FramesMatched
  <2>1. mode = "run" /\ Stmt.op = "assign" /\ Stmt.do \in Parts
    BY DEF AtPart, AtDo, At, Parts
  <2>2. PICK b : TrueOf(mem, b, KnownAt(Top))
    BY <2>1, AtAssign
  <2>3. mem \in Mem /\ Sane(Stmt, KnownAt(Top))
    BY <2>1, AtAssign
  <2>4. KnownAt(Top).framed
    BY <2>1, <2>3 DEF Sane, Parts
  <2>5. Cardinality(Boundaries(mem.frames)) = (Len(mem.calls) - 1) + 1 + mem.left
    BY <2>2, <2>4 DEF TrueOf, FramesCounted
  <2>6. Len(mem.calls) \in Nat /\ mem.left \in Nat
    BY <2>3, MemFacts
  <2>7. QED
    BY <2>5, <2>6
<1>2. QED
  BY <1>1, Invariance, DataInvariance, PTL

(* stack_pop finds its variable in the frame on top. *)
THEOREM PopFindsCorrect ==
    ASSUME WellTyped(Programs), DataIsInterp
    PROVE  Spec => []PopFinds
<1>1. IInv /\ DataInv => PopFinds
  <2> SUFFICES ASSUME IInv, DataInv, AtDo({"pop"})
               PROVE  GetPos(mem.frames, Stmt.var) # 0
    BY DEF PopFinds
  <2>1. mode = "run" /\ Stmt.op = "assign" /\ Stmt.do = "pop"
    BY DEF AtDo, At
  <2>2. PICK b : TrueOf(mem, b, KnownAt(Top))
    BY <2>1, AtAssign
  <2>3. mem \in Mem /\ Sane(Stmt, KnownAt(Top))
    BY <2>1, AtAssign
  <2>4. \E r : r \in EvalStmt(Stmt, mem)
    BY <2>1 DEF EvalStmt
  <2>5. QED
    BY <2>1, <2>2, <2>3, <2>4, PopAssign
<1>2. QED
  BY <1>1, Invariance, DataInvariance, PTL

(* No block runs off its end. *)
THEOREM BlocksEndCorrect ==
    ASSUME WellTyped(Programs), DataIsInterp
    PROVE  Spec => []BlocksEnd
<1>1. IInv /\ DataInv => BlocksEnd
  BY AtAssign DEF BlocksEnd
<1>2. QED
  BY <1>1, Invariance, DataInvariance, PTL

(* The parts that ran last, when the latest one is now id. *)
LEMMA NewLast ==
    ASSUME NEW m \in Mem, NEW l, SameBelow(m, l), Len(m.calls) > 0,
           NEW id, RunOf(l).last = id
    PROVE  l.calls = Append(SubSeq(m.calls, 1, Len(m.calls) - 1), id)
<1> DEFINE S == DOMAIN Outcomes \union DOMAIN Code[prog]
           n == Len(m.calls)
<1>1. m.calls \in Seq(S) /\ l.calls \in Seq(S) /\ n \in Nat /\ Len(l.calls) = n
      /\ \A i \in 1..(n - 1) : l.calls[i] = m.calls[i]
  BY MemFacts DEF SameBelow
<1>2. l.calls[n] = id
  BY <1>1 DEF RunOf
<1> HIDE DEF S, n
<1>3. n > 0
  BY DEF n
<1>4. PICK a : a = SubSeq(m.calls, 1, n - 1)
  OBVIOUS
<1>5. a \in Seq(S) /\ Len(a) = n - 1 /\ \A i \in 1..(n - 1) : a[i] = m.calls[i]
  BY <1>1, <1>4 DEF n
<1>6. id \in S
  <2>1. n \in 1..n
    BY <1>1, <1>3
  <2>2. QED
    BY <1>1, <1>2, <2>1, ElementOfSeq
<1>7. /\ Append(a, id) \in Seq(S) /\ Len(Append(a, id)) = n
      /\ Append(a, id)[n] = id /\ \A i \in 1..(n - 1) : Append(a, id)[i] = a[i]
  BY <1>1, <1>3, <1>5, <1>6
<1>8. \A i \in 1..n : i = n \/ i \in 1..(n - 1)
  BY <1>1, <1>3
<1>9. \A i \in 1..n : l.calls[i] = Append(a, id)[i]
  BY <1>1, <1>2, <1>5, <1>7, <1>8
<1>10. l.calls = Append(a, id)
  <2>1. PICK q : q = Append(a, id)
    OBVIOUS
  <2>2. q \in Seq(S) /\ Len(q) = n /\ \A i \in 1..n : l.calls[i] = q[i]
    BY <1>7, <1>9, <2>1
  <2>3. l.calls = q
    BY <1>1, <2>2
  <2>4. QED
    BY <2>1, <2>3
<1>11. QED
  BY <1>4, <1>10 DEF n

(* A part of the program runs in one of its ways, or calls a procedure.    *)
LEMMA PartRuns ==
    ASSUME NEW m \in Mem, Len(m.calls) > 0, NEW g, NEW s, NEW k, PartTyped(g, s, k),
           s.do \in Parts, NEW r \in EvalStmt(s, m)
    PROVE  \/ /\ r.out \in {"ok", "panic", "exit"}
              /\ r.mem.calls = Append(SubSeq(m.calls, 1, Len(m.calls) - 1), s.id)
              /\ r.mem.sig \in Outcomes[s.id]
           \/ r.out = "call" /\ s.do = "call" /\ r.mem = Called(m, s.id, s.f)
<1>1. /\ s.id \in DOMAIN Outcomes
      /\ s.do \in {"leaf", "call"} => Outcomes[s.id] \subseteq {"ok", "true", "false", "usr", "lng"}
      /\ s.do = "exit" => "exit" \in Outcomes[s.id]
      /\ s.do = "backtrack" => "bt" \in Outcomes[s.id]
  BY DEF PartTyped
<1>2. ASSUME s.do \in {"leaf", "call"},
             r \in LeafResults(s, m) \union {LeafResult(s, m, o) : o \in Outcomes[s.id]}
      PROVE  /\ r.out \in {"ok", "panic", "exit"}
             /\ r.mem.calls = Append(SubSeq(m.calls, 1, Len(m.calls) - 1), s.id)
             /\ r.mem.sig \in Outcomes[s.id]
  <2>1. /\ SameBelow(m, r.mem)
        /\ \/ r.out = "ok" /\ RunOf(r.mem) \in LeafGoes(s.id, RunOf(m))
           \/ r.out = "panic" /\ RunOf(r.mem) \in LeafThrows(s.id, RunOf(m))
    BY <1>1, <1>2, LeafFacts
  <2>2. \A q : q \in LeafGoes(s.id, RunOf(m)) \union LeafThrows(s.id, RunOf(m)) =>
                  q.last = s.id /\ q.sig \in Outcomes[s.id]
    <3>1. ASSUME NEW o, NEW x, NEW e, e = Ended(RunOf(m), s.id, o)
          PROVE  /\ e.last = s.id /\ e.sig = o
                 /\ [e EXCEPT !.reg = x].last = s.id /\ [e EXCEPT !.reg = x].sig = o
                 /\ [e EXCEPT !.kind = x].last = s.id /\ [e EXCEPT !.kind = x].sig = o
      BY <3>1 DEF Ended
    <3>2. ASSUME NEW q \in LeafGoes(s.id, RunOf(m)) \union LeafThrows(s.id, RunOf(m))
          PROVE  \E o \in Outcomes[s.id] : \E x, e :
                     /\ e = Ended(RunOf(m), s.id, o)
                     /\ q = e \/ q = [e EXCEPT !.reg = x] \/ q = [e EXCEPT !.kind = x]
      BY DEF LeafGoes, LeafThrows
    <3>3. ASSUME NEW q \in LeafGoes(s.id, RunOf(m)) \union LeafThrows(s.id, RunOf(m))
          PROVE  q.last = s.id /\ q.sig \in Outcomes[s.id]
      <4>1. PICK o \in Outcomes[s.id] : \E x, e :
                /\ e = Ended(RunOf(m), s.id, o)
                /\ q = e \/ q = [e EXCEPT !.reg = x] \/ q = [e EXCEPT !.kind = x]
        BY <3>2
      <4>2. PICK x, e : /\ e = Ended(RunOf(m), s.id, o)
                        /\ q = e \/ q = [e EXCEPT !.reg = x] \/ q = [e EXCEPT !.kind = x]
        BY <4>1
      <4>3. /\ e.last = s.id /\ e.sig = o
            /\ [e EXCEPT !.reg = x].last = s.id /\ [e EXCEPT !.reg = x].sig = o
            /\ [e EXCEPT !.kind = x].last = s.id /\ [e EXCEPT !.kind = x].sig = o
        BY <3>1, <4>2
      <4>4. q.last = s.id /\ q.sig = o
        BY <4>2, <4>3
      <4>5. QED
        BY <4>4
    <3>4. QED
      BY <3>3
  <2>3. RunOf(r.mem).last = s.id /\ RunOf(r.mem).sig \in Outcomes[s.id]
    BY <2>1, <2>2
  <2>4. r.mem.calls = Append(SubSeq(m.calls, 1, Len(m.calls) - 1), s.id)
    BY <2>1, <2>3, NewLast
  <2>5. QED
    BY <2>1, <2>3, <2>4 DEF RunOf
<1>3. ASSUME NEW o \in Signals, o \in Outcomes[s.id], NEW l, l.calls = Ran(m, s.id, o).calls,
             l.sig = o, r.mem = l, r.out \in {"ok", "panic", "exit"}
      PROVE  /\ r.out \in {"ok", "panic", "exit"}
             /\ r.mem.calls = Append(SubSeq(m.calls, 1, Len(m.calls) - 1), s.id)
             /\ r.mem.sig \in Outcomes[s.id]
  <2>1. PICK q : q = Ran(m, s.id, o)
    OBVIOUS
  <2>2. SameBelow(m, q) /\ RunOf(q) = Ended(RunOf(m), s.id, o)
    BY <1>1, <2>1, RanFacts DEF SameBelow
  <2>3. RunOf(q).last = s.id
    BY <2>2 DEF Ended
  <2>4. q.calls = Append(SubSeq(m.calls, 1, Len(m.calls) - 1), s.id)
    BY <2>2, <2>3, NewLast
  <2>5. QED
    BY <1>3, <2>1, <2>4
<1>4. CASE s.do = "leaf"
  <2>1. r \in LeafResults(s, m)
    BY <1>4 DEF EvalStmt
  <2>2. QED
    BY <1>2, <1>4, <2>1
<1>5. CASE s.do = "call"
  <2>1. r \in CallResults(s, m)
    BY <1>5 DEF EvalStmt
  <2>2. \/ r.out = "call" /\ r.mem = Called(m, s.id, s.f)
        \/ r \in {LeafResult(s, m, o) : o \in Outcomes[s.id]}
    BY <2>1 DEF CallResults, Called
  <2>3. QED
    BY <1>2, <1>5, <2>2
<1>6. CASE s.do = "exit"
  <2>1. r.out = "exit" /\ r.mem = Ran(m, s.id, "exit")
    BY <1>6 DEF EvalStmt
  <2>2. "exit" \in Signals
    BY DEF Signals
  <2>3. Ran(m, s.id, "exit").sig = "exit"
    BY <1>1, <2>2, RanFacts
  <2>4. QED
    BY <1>1, <1>3, <1>6, <2>1, <2>2, <2>3
<1>7. CASE s.do = "backtrack"
  <2> DEFINE q == Ran(m, s.id, "bt")
  <2>1. r.out = "panic" /\ r.mem = [q EXCEPT !.kind = "bt"]
    BY <1>7 DEF EvalStmt, PanicMem
  <2>2. "bt" \in Signals
    BY DEF Signals
  <2>3. q \in Mem /\ q.sig = "bt"
    BY <1>1, <2>2, RanFacts
  <2> HIDE DEF q
  <2>4. r.mem.calls = q.calls /\ r.mem.sig = "bt"
    BY <2>1, <2>3 DEF Mem
  <2>5. QED
    BY <1>1, <1>3, <1>7, <2>1, <2>2, <2>4 DEF q
<1>8. QED
  BY <1>4, <1>5, <1>6, <1>7 DEF Parts

(* What the lowering adds is not seen. *)
LEMMA QuietRuns ==
    ASSUME NEW m \in Mem, NEW s, NEW k, Sane(s, k), s.do \notin Parts, NEW r \in EvalStmt(s, m)
    PROVE  r.out \in {"ok", "panic"} /\ r.mem.calls = m.calls /\ r.mem.sig = m.sig
<1>1. s.do \in {"frame_add", "frame_pop", "add", "pop", "kind_is", "reset", "rethrow", "true"}
  BY DEF Sane
<1>2. ASSUME NEW f, r = OkMem([m EXCEPT !.frames = f]) \/ r = PanicMem(m)
      PROVE  r.out \in {"ok", "panic"} /\ r.mem.calls = m.calls /\ r.mem.sig = m.sig
  BY <1>2 DEF OkMem, PanicMem, Mem
<1>3. ASSUME NEW x, \/ r = OkMem([m EXCEPT !.reg = x])
                    \/ r = OkMem([m EXCEPT !.kind = x])
      PROVE  r.out \in {"ok", "panic"} /\ r.mem.calls = m.calls /\ r.mem.sig = m.sig
  BY <1>3 DEF OkMem, Mem
<1>4. CASE s.do = "frame_add"
  BY <1>2, <1>4 DEF EvalStmt
<1>5. CASE s.do = "frame_pop"
  BY <1>2, <1>5 DEF EvalStmt
<1>6. CASE s.do = "add"
  BY <1>2, <1>6 DEF EvalStmt
<1>7. CASE s.do = "pop"
  <2>1. r = Popped(s, m)
    BY <1>7 DEF EvalStmt
  <2>2. r = PanicMem(m) \/ r = OkMem([m EXCEPT !.frames = Without(@, GetPos(m.frames, s.var))])
    BY <2>1 DEF Popped
  <2>3. QED
    BY <1>2, <2>2
<1>8. CASE s.do = "kind_is"
  BY <1>3, <1>8 DEF EvalStmt
<1>9. CASE s.do = "reset"
  BY <1>3, <1>9 DEF EvalStmt
<1>10. CASE s.do = "true"
  BY <1>3, <1>10 DEF EvalStmt
<1>11. CASE s.do = "rethrow"
  BY <1>11 DEF EvalStmt, PanicMem
<1>12. QED
  BY <1>1, <1>4, <1>5, <1>6, <1>7, <1>8, <1>9, <1>10, <1>11

(* A part runs, or calls a procedure, and it may be next. *)
LEMMA PartWritten ==
    ASSUME Context, mode = "run", Stmt.op = "assign", Stmt.do \in Parts, prog' = prog,
           NEW r \in EvalStmt(Stmt, mem), mem' = r.mem
    PROVE  Promise!Next
<1>1. PICK lv, bs : Callers(ctxs, mem, lv, bs) /\ TopAs(ctxs, mode, mem, bs[Len(ctxs)])
  BY ContextFacts
<1> DEFINE k == KnownAt(Top)
<1>2. InBlock(Top) /\ Stmt = StmtOf(Top) /\ RunOf(mem) \in k.runs
  BY <1>1, StmtFacts
<1>3. mem \in Mem /\ Top.proc \in Procs /\ Placed(Top)
  BY ContextFacts
<1>4. PartTyped(prog, Stmt, k)
  <2>1. AssignTyped(prog, Top.proc, Top.blk, Top.pc, Stmt, k)
    BY <1>2, <1>3, AssignFacts
  <2>2. QED
    BY <2>1 DEF AssignTyped
<1>5. Len(mem.calls) > 0 /\ mem.calls # <<>>
  BY <1>1, CallersTop
<1> HIDE DEF k
<1>6. <<mem.calls[Len(mem.calls)], mem.sig, Stmt.id>> \in Flow[prog] /\ Stmt.id \in DOMAIN Outcomes
  <2>1. <<RunOf(mem).last, RunOf(mem).sig, Stmt.id>> \in Flow[prog] /\ Stmt.id \in DOMAIN Outcomes
    BY <1>2, <1>4 DEF PartTyped
  <2>2. RunOf(mem).last = mem.calls[Len(mem.calls)] /\ RunOf(mem).sig = mem.sig
    BY DEF RunOf
  <2>3. QED
    BY <2>1, <2>2
<1>7. Promise!Follows(Stmt.id)
  BY <1>5, <1>6 DEF Promise!Follows, Promise!Last
<1>8. \/ /\ r.mem.calls = Append(SubSeq(mem.calls, 1, Len(mem.calls) - 1), Stmt.id)
         /\ r.mem.sig \in Outcomes[Stmt.id]
      \/ Stmt.do = "call" /\ r.mem = Called(mem, Stmt.id, Stmt.f)
  BY <1>3, <1>4, <1>5, PartRuns
<1>9. CASE /\ r.mem.calls = Append(SubSeq(mem.calls, 1, Len(mem.calls) - 1), Stmt.id)
           /\ r.mem.sig \in Outcomes[Stmt.id]
  <2>1. Promise!Run(Stmt.id)
    BY <1>7, <1>9 DEF Promise!Run, Promise!Below
  <2>2. QED
    BY <1>6, <2>1 DEF Promise!Next
<1>10. CASE Stmt.do = "call" /\ r.mem = Called(mem, Stmt.id, Stmt.f)
  <2>1. Stmt.f \in DOMAIN Text[prog] /\ <<Stmt.id, "call", Stmt.f>> \in Flow[prog]
    BY <1>4, <1>10 DEF PartTyped
  <2> DEFINE q == Ran(mem, Stmt.id, "ok")
  <2>2. "ok" \in Signals
    BY DEF Signals
  <2>3. q \in Mem /\ SameBelow(mem, q) /\ RunOf(q) = Ended(RunOf(mem), Stmt.id, "ok") /\ q.sig = "ok"
    BY <1>3, <1>5, <1>6, <2>2, RanFacts DEF SameBelow
  <2>4. r.mem = [q EXCEPT !.calls = Append(@, Stmt.f)]
    BY <1>10 DEF Called
  <2> HIDE DEF q
  <2>5. r.mem.calls = Append(q.calls, Stmt.f) /\ r.mem.sig = "ok"
    BY <2>3, <2>4 DEF Mem
  <2>6. q.calls = Append(SubSeq(mem.calls, 1, Len(mem.calls) - 1), Stmt.id)
    <3>1. RunOf(q).last = Stmt.id
      BY <2>3 DEF Ended
    <3>2. QED
      BY <1>3, <1>5, <2>3, <3>1, NewLast
  <2>7. Promise!CallProc(Stmt.id)
    BY <1>7, <2>1, <2>5, <2>6 DEF Promise!CallProc, Promise!Below
  <2>8. QED
    BY <1>6, <2>7 DEF Promise!Next
<1>11. QED
  BY <1>8, <1>9, <1>10

(* An assignment of the lowering's own is not seen. *)
LEMMA QuietWritten ==
    ASSUME Context, mode = "run", Stmt.op = "assign", Stmt.do \notin Parts,
           NEW r \in EvalStmt(Stmt, mem), mem' = r.mem
    PROVE  r.out \in {"ok", "panic"} /\ mem'.calls = mem.calls /\ mem'.sig = mem.sig
<1>1. PICK lv, bs : Callers(ctxs, mem, lv, bs) /\ TopAs(ctxs, mode, mem, bs[Len(ctxs)])
  BY ContextFacts
<1>2. InBlock(Top) /\ Stmt = StmtOf(Top)
  BY <1>1, StmtFacts
<1>3. mem \in Mem /\ Top.proc \in Procs /\ Placed(Top)
  BY ContextFacts
<1>4. Sane(Stmt, KnownAt(Top))
  BY <1>2, <1>3, AssignFacts
<1>5. r.out \in {"ok", "panic"} /\ r.mem.calls = mem.calls /\ r.mem.sig = mem.sig
  BY <1>3, <1>4, QuietRuns
<1>6. QED
  BY <1>5

(* A procedure ends: the call of it has succeeded. *)
LEMMA ReturnWritten ==
    ASSUME Context, Return
    PROVE  Promise!Return
<1>1. PICK lv, bs : Callers(ctxs, mem, lv, bs) /\ TopAs(ctxs, mode, mem, bs[Len(ctxs)])
  BY ContextFacts
<1> DEFINE k == KnownAt(Top)
<1>2. mode = "run" /\ Stmt.op = "return" /\ Top.kind = "proc" /\ prog' = prog
  BY DEF Return, At
<1>3. /\ RunOf(mem) \in k.runs /\ StmtTyped(prog, Top.proc, Top.blk, Top.pc)
      /\ Stmt = Code[prog][Top.proc].blocks[Top.blk][Top.pc]
  BY <1>1, <1>2, StmtFacts
<1>4. ReturnTyped(prog, Top.proc, k)
  BY <1>2, <1>3 DEF StmtTyped, KnownAt
<1>5. mem \in Mem /\ Len(ctxs) \in Nat /\ Len(ctxs) > 0
  BY ContextFacts
<1>6. Len(mem.calls) > 0 /\ mem.calls # <<>>
  BY <1>1, CallersTop
<1> HIDE DEF k
<1>7. Promise!Follows("return")
  <2>1. <<RunOf(mem).last, RunOf(mem).sig, "return">> \in Flow[prog]
    BY <1>3, <1>4 DEF ReturnTyped
  <2>2. RunOf(mem).last = mem.calls[Len(mem.calls)] /\ RunOf(mem).sig = mem.sig
    BY DEF RunOf
  <2>3. QED
    BY <1>6, <2>1, <2>2 DEF Promise!Follows, Promise!Last
<1> DEFINE a == SubSeq(mem.calls, 1, Len(mem.calls) - 1)
<1>8. CASE Len(ctxs) = 1
  <2>1. mem' = LeaveActivation("proc", mem)
    BY <1>8 DEF Return, Context, DataIsInterp
  <2>2. mem'.calls = a /\ mem'.sig = mem.sig
    BY <1>5, <2>1 DEF LeaveActivation, Mem
  <2>3. a = <<>>
    <3>1. Len(mem.calls) = 1
      <4>1. lv[Len(ctxs)] = Len(mem.calls) /\ lv[1] = 1
        BY <1>1 DEF Callers, Levels
      <4>2. QED
        BY <1>8, <4>1
    <3>2. QED
      BY <1>5, <3>1, MemFacts
  <2>4. QED
    BY <1>2, <1>7, <2>2, <2>3 DEF Promise!Return, Promise!Below
<1>9. CASE Len(ctxs) # 1
  <2>1. PICK x, y : mem' = ResultOf(x, y, mem)
    BY <1>9 DEF Return, Context, DataIsInterp
  <2>2. mem'.calls = a /\ mem'.sig = "ok"
    BY <1>5, <2>1 DEF ResultOf, Mem
  <2>3. a # <<>>
    <3>1. Len(mem.calls) > 1
      <4>1. Len(ctxs) > 1
        BY <1>5, <1>9, OneOrMore
      <4>2. QED
        BY <1>1, <1>2, <4>1, CallerFacts
    <3>2. PICK b : b = a
      OBVIOUS
    <3>3. Len(b) = Len(mem.calls) - 1
      BY <1>5, <3>1, <3>2, MemFacts
    <3> HIDE DEF a
    <3>4. b # <<>>
      BY <3>1, <3>3, <1>5, MemFacts
    <3>5. QED
      BY <3>2, <3>4
  <2>4. QED
    BY <1>2, <1>7, <2>2, <2>3 DEF Promise!Return, Promise!Below
<1>10. QED
  BY <1>8, <1>9

(* An exception leaves a procedure. *)
LEMMA RaiseWritten ==
    ASSUME Context, UnwindProc
    PROVE  Promise!Raise
<1>1. PICK lv, bs : Callers(ctxs, mem, lv, bs) /\ TopAs(ctxs, mode, mem, bs[Len(ctxs)])
  BY ContextFacts
<1>2. mode = "unwind" /\ Top.kind = "proc" /\ prog' = prog
  BY DEF UnwindProc
<1>3. mem' = LeaveActivation("proc", mem)
  BY DEF UnwindProc, Context, DataIsInterp
<1>4. /\ mem \in Mem /\ ctxs \in Seq(Act) /\ Len(ctxs) \in Nat /\ Len(ctxs) > 0
      /\ Top = ctxs[Len(ctxs)] /\ Placed(Top) /\ Sound(ctxs)
  BY ContextFacts
<1>5. PICK k : Lands(prog, Top.proc, Top.blk, k, {RunOf(mem)})
  BY <1>1, <1>2, <1>4 DEF TopAs, ThrowsAs
<1>6. Catch(prog, Top.proc, Top.blk) = NoBlock
  <2>1. Len(ctxs) \in 1..Len(ctxs) /\ KeepsLabels(ctxs)
    BY <1>4 DEF Sound
  <2>2. Top.fail = NoBlock
    BY <1>2, <1>4, <2>1 DEF KeepsLabels
  <2>3. QED
    BY <1>4, <2>2 DEF Placed
<1>7. Promise!Follows("raise")
  <2>1. <<RunOf(mem).last, RunOf(mem).sig, "raise">> \in Flow[prog]
    BY <1>5, <1>6 DEF Lands
  <2>2. RunOf(mem).last = mem.calls[Len(mem.calls)] /\ RunOf(mem).sig = mem.sig
    BY DEF RunOf
  <2>3. Len(mem.calls) > 0 /\ mem.calls # <<>>
    BY <1>1, CallersTop
  <2>4. QED
    BY <2>1, <2>2, <2>3 DEF Promise!Follows, Promise!Last
<1>8. mem'.calls = SubSeq(mem.calls, 1, Len(mem.calls) - 1) /\ mem'.sig = mem.sig
  BY <1>3, <1>4 DEF LeaveActivation, Mem
<1>9. QED
  BY <1>2, <1>7, <1>8 DEF Promise!Raise, Promise!Below

(* Every step of the interpreter is one the program is written to take, or *)
(* is not seen: one case per action.                                       *)
LEMMA StepWritten ==
    ASSUME WellTyped(Programs), DataIsInterp, IInv, DataInv, [Next]_vars
    PROVE  [Promise!Next]_<<prog, mem.calls, mem.sig>>
<1>1. ASSUME prog' = prog, mem'.calls = mem.calls, mem'.sig = mem.sig
      PROVE  [Promise!Next]_<<prog, mem.calls, mem.sig>>
  BY <1>1
<1>2. ASSUME prog' = prog, mem' = mem
      PROVE  [Promise!Next]_<<prog, mem.calls, mem.sig>>
  BY <1>2
<1>3. CASE UNCHANGED vars
  BY <1>2, <1>3 DEF vars
<1>4. CASE Terminated
  BY <1>2, <1>4 DEF Terminated, vars
<1>5. CASE Step
  <2>1. mode \in {"run", "unwind"}
    BY <1>5 DEF Step, Refetch, AssignOk, AssignPanic, AssignExit, Call, Branch, BranchPanic, Goto,
         Return, ReturnInTry, Unreachable, Try, TryEnd, TryEndUnmet, UnwindProc, CatchUnwind, At
  <2>2. Context
    BY <2>1 DEF Context, DataInv
  <2>3. mem \in Mem
    BY <2>2, ContextFacts
  <2>4. ASSUME At("assign"), prog' = prog, NEW r \in EvalStmt(Stmt, mem), mem' = r.mem
        PROVE  [Promise!Next]_<<prog, mem.calls, mem.sig>>
    <3>1. mode = "run" /\ Stmt.op = "assign"
      BY <2>4 DEF At
    <3>2. CASE Stmt.do \in Parts
      <4>1. Promise!Next
        BY <2>2, <2>4, <3>1, <3>2, PartWritten
      <4>2. QED
        BY <4>1
    <3>3. CASE Stmt.do \notin Parts
      <4>1. mem'.calls = mem.calls /\ mem'.sig = mem.sig
        BY <2>2, <2>4, <3>1, <3>3, QuietWritten
      <4>2. QED
        BY <1>1, <2>4, <4>1
    <3>4. QED
      BY <3>2, <3>3
  <2>5. CASE AssignOk \/ AssignPanic \/ AssignExit
    <3>1. At("assign") /\ prog' = prog /\ \E r \in EvalStmt(Stmt, mem) : mem' = r.mem
      BY <2>2, <2>5 DEF AssignOk, AssignPanic, AssignExit, Context, DataIsInterp
    <3>2. QED
      BY <2>4, <3>1
  <2>6. CASE Call
    <3>1. CASE Overflow
      BY <1>2, <3>1 DEF Overflow
    <3>2. CASE ~ Overflow
      <4>1. At("assign") /\ prog' = prog /\ \E r \in EvalStmt(Stmt, mem) : mem' = r.mem
        BY <2>2, <2>6, <3>2 DEF Call, Context, DataIsInterp, EnterActivation
      <4>2. QED
        BY <2>4, <4>1
    <3>3. QED
      BY <3>1, <3>2
  <2>7. CASE Refetch \/ Branch \/ Goto \/ ReturnInTry \/ Unreachable \/ TryEndUnmet
    BY <1>2, <2>7 DEF Refetch, Branch, Goto, ReturnInTry, Unreachable, TryEndUnmet
  <2>8. CASE Try
    <3>1. prog' = prog /\ mem' = mem
      BY <2>2, <2>8 DEF Try, Overflow, Context, DataIsInterp, EnterActivation
    <3>2. QED
      BY <1>2, <3>1
  <2>9. CASE TryEnd \/ CatchUnwind
    <3>1. prog' = prog /\ mem' = mem
      BY <2>2, <2>9 DEF TryEnd, CatchUnwind, Context, DataIsInterp, LeaveActivation
    <3>2. QED
      BY <1>2, <3>1
  <2>10. CASE BranchPanic
    <3>1. PICK r \in CondStmt(Stmt, mem) : prog' = prog /\ mem' = r.mem
      BY <2>2, <2>10 DEF BranchPanic, Context, DataIsInterp
    <3>2. r.mem = mem \/ r.mem = [mem EXCEPT !.kind = "usr"]
      <4>1. mem.reg \in {"true", "false", "nonbool"}
        BY <2>3 DEF Mem, Regs
      <4>2. QED
        BY <3>1, <4>1 DEF CondStmt
    <3>3. mem'.calls = mem.calls /\ mem'.sig = mem.sig
      BY <2>3, <3>1, <3>2 DEF Mem
    <3>4. QED
      BY <1>1, <3>1, <3>3
  <2>11. CASE Return
    <3>1. Promise!Return
      BY <2>2, <2>11, ReturnWritten
    <3>2. QED
      BY <3>1 DEF Promise!Next
  <2>12. CASE UnwindProc
    <3>1. Promise!Raise
      BY <2>2, <2>12, RaiseWritten
    <3>2. QED
      BY <3>1 DEF Promise!Next
  <2>13. QED
    BY <1>5, <2>5, <2>6, <2>7, <2>8, <2>9, <2>10, <2>11, <2>12 DEF Step
<1>6. QED
  BY <1>3, <1>4, <1>5 DEF Next

(* The program runs as it is written: the parts of it in the order of its   *)
(* statements, and every exception to the clause that handles its kind.     *)
THEOREM RunsAsWrittenCorrect ==
    ASSUME WellTyped(Programs), DataIsInterp
    PROVE  Spec => RunsAsWritten
<1>1. Init => Promise!Init
  <2> SUFFICES ASSUME Init PROVE Promise!Init
    OBVIOUS
  <2>1. prog \in Programs /\ mem = StartMem
    BY DEF Init, DataIsInterp, EnterActivation
  <2>2. QED
    BY <2>1 DEF StartMem, Promise!Init
<1>2. IInv /\ DataInv /\ [Next]_vars => [Promise!Next]_<<prog, mem.calls, mem.sig>>
  BY StepWritten
<1>3. QED
  BY <1>1, <1>2, Invariance, DataInvariance, PTL DEF Spec, RunsAsWritten, Promise!Spec

===========================================================================
