---------------------------- MODULE Stack_proofs ----------------------------
(***************************************************************************)
(* What each operation of Stack keeps: the shape of the store, the entries *)
(* below those it pushes or removes, the slots and objects that are there. *)
(* A store that has the shape is one of a program K describes by names     *)
(* (those stack entries other than this and members may have), procs (the  *)
(* procedures on the heap) and classes (whether there are objects of       *)
(* classes).                                                               *)
(***************************************************************************)
EXTENDS Stack, FiniteInduction, SequenceTheorems

(* Functions; and maps from finitely many names. *)
IsMap(f) == f = [x \in DOMAIN f |-> f[x]]

NamesMap(f) == IsMap(f) /\ DOMAIN f \subseteq STRING /\ IsFiniteSet(DOMAIN f)

(* What slots and objects are numbered by. *)
Slots == Nat \ {0}

Entry == {Boundary} \union [entry : {"var"}, name : STRING, cell : Nat]
                    \union [entry : {"alias"}, name : STRING, cell : Nat, cross : BOOLEAN]

ObjOK(o, K) ==
    \/ o.kind = "list"
    \/ o.kind = "proc" /\ o \in K.procs
    \/ o.kind = "image" /\ NamesMap(o.vals)
    \/ /\ o.kind = "object" /\ K.classes
       /\ NamesMap(o.members) /\ DOMAIN o.members \subseteq K.names
       /\ \A n \in DOMAIN o.members : o.members[n] \in Nat

FramesOK(f) == f \in Seq(Entry)

CellsOK(c) == IsMap(c) /\ DOMAIN c \subseteq Slots /\ IsFiniteSet(DOMAIN c)

ObjsOK(o, K) ==
    /\ IsMap(o) /\ DOMAIN o \subseteq Slots /\ IsFiniteSet(DOMAIN o)
    /\ \A r \in DOMAIN o : ObjOK(o[r], K)

IsStore(s) == DOMAIN s = {"frames", "cells", "objs"}

(* The types of a store. *)
Shape(s, K) ==
    /\ IsStore(s) /\ FramesOK(s.frames) /\ CellsOK(s.cells) /\ ObjsOK(s.objs, K)
    /\ K.names \subseteq STRING

(* t is s with other frames, slots or objects. *)
Fields(t, f, c, o) == IsStore(t) /\ t.frames = f /\ t.cells = c /\ t.objs = o

(* The fields of a store that is updated. *)
LEMMA Updates ==
    ASSUME NEW s, IsStore(s)
    PROVE  /\ \A f : Fields([s EXCEPT !.frames = f], f, s.cells, s.objs)
           /\ \A c : Fields([s EXCEPT !.cells = c], s.frames, c, s.objs)
           /\ \A o : Fields([s EXCEPT !.objs = o], s.frames, s.cells, o)
           /\ \A f, c : Fields([s EXCEPT !.frames = f, !.cells = c], f, c, s.objs)
           /\ \A o, c : Fields([s EXCEPT !.objs = o, !.cells = c], s.frames, c, o)
  BY DEF IsStore, Fields

(* What With makes of a function. *)
LEMMA WithFacts ==
    ASSUME NEW f, NEW d, NEW e
    PROVE  /\ IsMap(With(f, d, e))
           /\ DOMAIN With(f, d, e) = DOMAIN f \union {d}
           /\ With(f, d, e)[d] = e
           /\ \A x \in DOMAIN f : x # d => With(f, d, e)[x] = f[x]
  BY DEF IsMap, With

(* What Without leaves of a function. *)
LEMMA WithoutFacts ==
    ASSUME NEW f, NEW S
    PROVE  /\ IsMap(Without(f, S))
           /\ DOMAIN Without(f, S) = DOMAIN f \ S
           /\ \A x \in DOMAIN f \ S : Without(f, S)[x] = f[x]
  BY DEF IsMap, Without

(* One more name in a map from names. *)
LEMMA WithNames ==
    ASSUME NEW f, NamesMap(f), NEW n \in STRING, NEW v
    PROVE  NamesMap(With(f, n, v))
<1>1. IsMap(With(f, n, v)) /\ DOMAIN With(f, n, v) = DOMAIN f \union {n}
  BY WithFacts
<1>2. IsFiniteSet(DOMAIN f \union {n})
  BY FS_AddElement DEF NamesMap
<1>3. QED
  BY <1>1, <1>2 DEF NamesMap

(* One more slot. *)
LEMMA CellsWith ==
    ASSUME NEW c, CellsOK(c), NEW d \in Slots, NEW v
    PROVE  CellsOK(With(c, d, v))
<1>1. IsMap(With(c, d, v)) /\ DOMAIN With(c, d, v) = DOMAIN c \union {d}
  BY WithFacts
<1>2. IsFiniteSet(DOMAIN c \union {d})
  BY FS_AddElement DEF CellsOK
<1>3. QED
  BY <1>1, <1>2 DEF CellsOK

(* Fewer slots. *)
LEMMA CellsWithout ==
    ASSUME NEW c, CellsOK(c), NEW S
    PROVE  CellsOK(Without(c, S))
<1>1. IsMap(Without(c, S)) /\ DOMAIN Without(c, S) = DOMAIN c \ S
  BY WithoutFacts
<1>2. IsFiniteSet(DOMAIN c \ S)
  BY FS_Difference DEF CellsOK
<1>3. QED
  BY <1>1, <1>2 DEF CellsOK

(* A slot that holds something else. *)
LEMMA CellsSet ==
    ASSUME NEW c, CellsOK(c), NEW d, NEW v
    PROVE  CellsOK([c EXCEPT ![d] = v])
  BY DEF CellsOK, IsMap

(* One more object. *)
LEMMA ObjsWith ==
    ASSUME NEW K, NEW o, ObjsOK(o, K), NEW r \in Slots, NEW obj, ObjOK(obj, K)
    PROVE  ObjsOK(With(o, r, obj), K)
<1>1. /\ IsMap(With(o, r, obj)) /\ DOMAIN With(o, r, obj) = DOMAIN o \union {r}
      /\ With(o, r, obj)[r] = obj
      /\ \A q \in DOMAIN o : q # r => With(o, r, obj)[q] = o[q]
  BY DEF With, IsMap
<1>2. IsFiniteSet(DOMAIN o \union {r})
  BY FS_AddElement DEF ObjsOK
<1>3. QED
  BY <1>1, <1>2 DEF ObjsOK

(* Fewer objects. *)
LEMMA ObjsWithout ==
    ASSUME NEW K, NEW o, ObjsOK(o, K), NEW S
    PROVE  ObjsOK(Without(o, S), K)
<1>1. /\ IsMap(Without(o, S)) /\ DOMAIN Without(o, S) = DOMAIN o \ S
      /\ \A q \in DOMAIN o \ S : Without(o, S)[q] = o[q]
  BY WithoutFacts
<1>2. IsFiniteSet(DOMAIN o \ S)
  BY FS_Difference DEF ObjsOK
<1>3. QED
  BY <1>1, <1>2 DEF ObjsOK

(* An object that changes. *)
LEMMA ObjsSet ==
    ASSUME NEW K, NEW o, ObjsOK(o, K), NEW r, NEW obj, ObjOK(obj, K)
    PROVE  ObjsOK([o EXCEPT ![r] = obj], K)
  BY DEF ObjsOK, IsMap

(* There is a name that is not used.  *)
LEMMA FreshFacts ==
    ASSUME NEW used, IsFiniteSet(used)
    PROVE  Fresh(used) \in Slots /\ Fresh(used) \notin used
<1> DEFINE n == Cardinality(used)
           T == {i \in 1..(n + 1) : i \notin used}
<1>1. n \in Nat
  BY FS_CardinalityType
<1>2. T # {}
  <2>1. SUFFICES ASSUME 1..(n + 1) \subseteq used PROVE FALSE
    OBVIOUS
  <2>2. Cardinality(1..(n + 1)) = n + 1
    BY <1>1, FS_Interval
  <2>3. Cardinality(1..(n + 1)) <= n
    BY <2>1, FS_Subset
  <2>4. QED
    BY <1>1, <2>2, <2>3
<1>3. T \subseteq Nat
  BY <1>1
<1> HIDE DEF T
<1>4. PICK i \in T : \A m \in T : i <= m
  BY <1>2, <1>3, LeastNumber
<1>5. i \in 1..(n + 1) /\ i \notin used /\ \A j \in 1..(i - 1) : j \in used
  BY <1>1, <1>4 DEF T
<1>6. QED
  BY <1>1, <1>5 DEF Fresh, Slots

(* Finitely many slots and objects are referred to. *)
LEMMA NamedFinite ==
    ASSUME NEW K, NEW s, Shape(s, K)
    PROVE  IsFiniteSet(CellsNamed(s)) /\ IsFiniteSet(ObjsNamed(s))
<1> DEFINE A == {j \in DOMAIN s.frames : s.frames[j].entry = "alias"}
           Aliased == {s.frames[i].cell : i \in A}
           Held == {s.cells[c] : c \in DOMAIN s.cells}
<1>1. /\ IsFiniteSet(DOMAIN s.cells) /\ IsFiniteSet(DOMAIN s.objs)
      /\ Len(s.frames) \in Nat /\ DOMAIN s.frames = 1..Len(s.frames)
  BY DEF Shape, FramesOK, CellsOK, ObjsOK
<1>2. IsFiniteSet(A)
  <2>1. IsFiniteSet(1..Len(s.frames)) /\ A \subseteq 1..Len(s.frames)
    BY <1>1, FS_Interval
  <2>2. QED
    BY <2>1, FS_Subset
<1>3. IsFiniteSet(Aliased)
  <2>1. [i \in A |-> s.frames[i].cell] \in Surjection(A, Aliased)
    BY DEF Surjection
  <2> HIDE DEF A, Aliased
  <2>2. QED
    BY <1>2, <2>1, FS_Surjection
<1>4. IsFiniteSet(Held)
  <2>1. [c \in DOMAIN s.cells |-> s.cells[c]] \in Surjection(DOMAIN s.cells, Held)
    BY DEF Surjection
  <2> HIDE DEF Held
  <2>2. QED
    BY <1>1, <2>1, FS_Surjection
<1>5. CellsNamed(s) = DOMAIN s.cells \union Aliased /\ ObjsNamed(s) = DOMAIN s.objs \union (Held \ {Om})
  BY DEF CellsNamed, ObjsNamed
<1> HIDE DEF Aliased, Held
<1>6. IsFiniteSet(Held \ {Om})
  BY <1>4, FS_Difference
<1>7. IsFiniteSet(DOMAIN s.cells \union Aliased) /\ IsFiniteSet(DOMAIN s.objs \union (Held \ {Om}))
  BY <1>1, <1>3, <1>6, FS_Union
<1>8. QED
  BY <1>5, <1>7

-----------------------------------------------------------------------------
(* An object gets a name nothing refers to. *)
LEMMA AllocFacts ==
    ASSUME NEW K, NEW s, Shape(s, K), NEW obj, ObjOK(obj, K)
    PROVE  \E r \in Slots :
              /\ r \notin ObjsNamed(s) /\ r \notin DOMAIN s.objs
              /\ Alloc(s, obj)[2] = r
              /\ Fields(Alloc(s, obj)[1], s.frames, s.cells, With(s.objs, r, obj))
              /\ Shape(Alloc(s, obj)[1], K)
<1> DEFINE r == Fresh(ObjsNamed(s))
           t == [s EXCEPT !.objs = With(@, r, obj)]
<1>1. r \in Slots /\ r \notin ObjsNamed(s)
  BY NamedFinite, FreshFacts
<1>2. r \notin DOMAIN s.objs
  BY <1>1 DEF ObjsNamed
<1> HIDE DEF r
<1>3. Fields(t, s.frames, s.cells, With(s.objs, r, obj))
  BY Updates DEF Shape
<1>4. ObjsOK(With(s.objs, r, obj), K)
  BY <1>1, ObjsWith DEF Shape
<1> HIDE DEF t
<1>5. Shape(t, K)
  BY <1>3, <1>4 DEF Shape, Fields
<1>6. Alloc(s, obj) = <<t, r>>
  BY DEF Alloc, AllocAt, t, r
<1>7. QED
  BY <1>1, <1>2, <1>3, <1>5, <1>6

(* A slot gets a name nothing refers to. *)
LEMMA NewCellFacts ==
    ASSUME NEW K, NEW s, Shape(s, K), NEW v
    PROVE  \E c \in Slots :
              /\ c \notin CellsNamed(s) /\ c \notin DOMAIN s.cells
              /\ NewCell(s, v)[2] = c
              /\ Fields(NewCell(s, v)[1], s.frames, With(s.cells, c, v), s.objs)
              /\ Shape(NewCell(s, v)[1], K)
<1> DEFINE c == Fresh(CellsNamed(s))
           t == [s EXCEPT !.cells = With(@, c, v)]
<1>1. c \in Slots /\ c \notin CellsNamed(s)
  BY NamedFinite, FreshFacts
<1>2. c \notin DOMAIN s.cells
  BY <1>1 DEF CellsNamed
<1> HIDE DEF c
<1>3. Fields(t, s.frames, With(s.cells, c, v), s.objs)
  BY Updates DEF Shape
<1>4. CellsOK(With(s.cells, c, v))
  BY <1>1, CellsWith DEF Shape
<1> HIDE DEF t
<1>5. Shape(t, K)
  BY <1>3, <1>4 DEF Shape, Fields
<1>6. NewCell(s, v) = <<t, c>>
  BY DEF NewCell, CellAt, t, c
<1>7. QED
  BY <1>1, <1>2, <1>3, <1>5, <1>6

(* The entries stay, or others than boundaries are added. *)
Same(s, t, K) == Shape(t, K) /\ t.frames = s.frames

Begins(f, g) == Len(f) <= Len(g) /\ \A i \in 1..Len(f) : g[i] = f[i]

Extends(f, g, N) ==
    Begins(f, g) /\ \A i \in (Len(f) + 1)..Len(g) : g[i] # Boundary /\ g[i].name \in N

Grows(s, t, K) == Shape(t, K) /\ Extends(s.frames, t.frames, K.names)

(* To begin with, and to extend by names, are orders on stacks. *)
LEMMA ExtendsFacts ==
    ASSUME NEW N, NEW f, FramesOK(f)
    PROVE  /\ Extends(f, f, N)
           /\ \A g, h : FramesOK(g) /\ FramesOK(h) /\ Begins(f, g) /\ Begins(g, h) => Begins(f, h)
           /\ \A g, h : FramesOK(g) /\ FramesOK(h) /\ Extends(f, g, N) /\ Extends(g, h, N)
                        => Extends(f, h, N)
<1>1. Len(f) \in Nat
  BY DEF FramesOK
<1>2. Extends(f, f, N)
  BY <1>1 DEF Extends, Begins
<1>3. ASSUME NEW g, NEW h, FramesOK(g), FramesOK(h), Begins(f, g), Begins(g, h)
      PROVE  Begins(f, h)
  BY <1>1, <1>3 DEF FramesOK, Begins
<1>4. ASSUME NEW g, NEW h, FramesOK(g), FramesOK(h), Extends(f, g, N), Extends(g, h, N)
      PROVE  Extends(f, h, N)
  <2>1. Begins(f, h) /\ Len(g) \in Nat /\ Len(h) \in Nat
    BY <1>3, <1>4 DEF Extends, FramesOK
  <2>2. ASSUME NEW i \in (Len(f) + 1)..Len(h)
        PROVE  h[i] # Boundary /\ h[i].name \in N
    <3>1. CASE i \in (Len(f) + 1)..Len(g)
      BY <1>1, <1>4, <2>1, <3>1 DEF Extends, Begins
    <3>2. CASE i \notin (Len(f) + 1)..Len(g)
      BY <1>1, <1>4, <2>1, <3>2 DEF Extends
    <3>3. QED
      BY <3>1, <3>2
  <2>3. QED
    BY <2>1, <2>2 DEF Extends
<1>5. QED
  BY <1>2, <1>3, <1>4

(* Stores that are the same, or grow, do so in any number of steps. *)
LEMMA Grown ==
    ASSUME NEW K, NEW s, NEW t, Shape(s, K)
    PROVE  /\ Same(s, t, K) => Grows(s, t, K)
           /\ Grows(s, s, K)
           /\ \A u : Grows(s, t, K) /\ Grows(t, u, K) => Grows(s, u, K)
  BY ExtendsFacts DEF Same, Grows, Shape

(* Slots and objects stay what they are. *)
Keeps(s, t) ==
    /\ \A r \in DOMAIN s.objs : r \in DOMAIN t.objs /\ t.objs[r] = s.objs[r]
    /\ \A c \in DOMAIN s.cells : c \in DOMAIN t.cells /\ t.cells[c] = s.cells[c]

(* To keep slots and objects is an order on stores. *)
LEMMA KeepsFacts ==
    ASSUME NEW s
    PROVE  Keeps(s, s) /\ \A t, u : Keeps(s, t) /\ Keeps(t, u) => Keeps(s, u)
<1>1. ASSUME NEW t, NEW u, Keeps(s, t), Keeps(t, u) PROVE Keeps(s, u)
  BY <1>1 DEF Keeps
<1>2. QED
  BY <1>1 DEF Keeps

(* A new object changes no other. *)
LEMMA AllocKeeps ==
    ASSUME NEW K, NEW s, Shape(s, K), NEW obj, ObjOK(obj, K)
    PROVE  Same(s, Alloc(s, obj)[1], K) /\ Keeps(s, Alloc(s, obj)[1])
<1> DEFINE t == Alloc(s, obj)[1]
<1>1. PICK r \in Slots :
         /\ r \notin DOMAIN s.objs
         /\ Fields(t, s.frames, s.cells, With(s.objs, r, obj)) /\ Shape(t, K)
  BY AllocFacts
<1> HIDE DEF t
<1>2. \A q \in DOMAIN s.objs : q \in DOMAIN t.objs /\ t.objs[q] = s.objs[q]
  BY <1>1 DEF Fields, With
<1>3. QED
  BY <1>1, <1>2 DEF Keeps, Same, Fields, t

(* A new slot changes no other. *)
LEMMA NewCellKeeps ==
    ASSUME NEW K, NEW s, Shape(s, K), NEW v
    PROVE  Same(s, NewCell(s, v)[1], K) /\ Keeps(s, NewCell(s, v)[1])
<1> DEFINE t == NewCell(s, v)[1]
<1>1. PICK c \in Slots :
         /\ c \notin DOMAIN s.cells
         /\ Fields(t, s.frames, With(s.cells, c, v), s.objs) /\ Shape(t, K)
  BY NewCellFacts
<1> HIDE DEF t
<1>2. \A d \in DOMAIN s.cells : d \in DOMAIN t.cells /\ t.cells[d] = s.cells[d]
  BY <1>1 DEF Fields, With
<1>3. QED
  BY <1>1, <1>2 DEF Keeps, Same, Fields, t

(* A copy of a list or procedure changes nothing that is there. *)
LEMMA UnshareFlatSame ==
    ASSUME NEW K, NEW s, Shape(s, K), NEW v
    PROVE  Same(s, UnshareFlat(s, v)[1], K) /\ Keeps(s, UnshareFlat(s, v)[1])
<1>1. CASE v \in DOMAIN s.objs
  <2>1. ObjOK(s.objs[v], K)
    BY <1>1 DEF Shape, ObjsOK
  <2>2. QED
    BY <1>1, <2>1, AllocKeeps DEF UnshareFlat
<1>2. CASE v \notin DOMAIN s.objs
  BY <1>2, KeepsFacts DEF UnshareFlat, Same
<1>3. QED
  BY <1>1, <1>2

(* A slot for a new value changes nothing that is there. *)
LEMMA BoxedSame ==
    ASSUME NEW K, NEW s, NEW val, Same(s, val[1], K)
    PROVE  /\ Same(s, Boxed(val)[1], K) /\ Boxed(val)[2] \in Slots
           /\ Keeps(s, val[1]) => Keeps(s, Boxed(val)[1])
<1>1. Same(s, Boxed(val)[1], K) /\ Boxed(val)[2] \in Slots
  BY NewCellFacts DEF Boxed, Same, Fields
<1>2. Keeps(val[1], Boxed(val)[1])
  BY NewCellKeeps DEF Boxed, Same
<1>3. QED
  BY <1>1, <1>2, KeepsFacts

-----------------------------------------------------------------------------
Chosen(env, D) == CHOOSE x \in D : TRUE

(* A map from names to slots, and the store it was made from s in. *)
SlotsFor(s, acc, K) ==
    /\ Same(s, acc[1], K) /\ Keeps(s, acc[1])
    /\ NamesMap(acc[2]) /\ \A n \in DOMAIN acc[2] : acc[2][n] \in Nat

MemberStep(env, n, acc) ==
    Bind(n, Boxed(UnshareFlat(acc[1], env[1].cells[env[2][n]])), acc[2])

MembersSoFar(env, D, acc) ==
    SlotsFor(env[1], acc, env[3]) /\ DOMAIN acc[2] \subseteq DOMAIN env[2]

MembersFold == INSTANCE Folding WITH Op <- MemberStep, Pick <- Chosen, Good <- MembersSoFar

(* The map that has no names. *)
LEMMA EmptyNames == NamesMap(Empty) /\ DOMAIN Empty = {}
  BY FS_EmptySet DEF NamesMap, IsMap, Empty

(* Copies of all members change nothing that is there. *)
LEMMA UnshareMembersSame ==
    ASSUME NEW K, NEW s, Shape(s, K), NEW members, NamesMap(members)
    PROVE  /\ SlotsFor(s, UnshareMembers(s, members), K)
           /\ DOMAIN UnshareMembers(s, members)[2] \subseteq DOMAIN members
<1> DEFINE env == <<s, members, K>>
           S == DOMAIN members
<1>1. UnshareMembers(s, members) = MembersFold!Fold(env, <<s, Empty>>, S)
  BY DEF UnshareMembers, FoldSet, MapThenFoldSet, MemberStep, Chosen, MembersFold!Fold, MembersFold!Equation
<1>2. MembersFold!IsFiniteSet(S)
  BY DEF NamesMap, IsFiniteSet, MembersFold!IsFiniteSet
<1>3. \A D \in SUBSET S : D # {} => Chosen(env, D) \in D
  BY DEF Chosen
<1>4. MembersSoFar(env, {}, <<s, Empty>>)
  BY EmptyNames, KeepsFacts DEF MembersSoFar, SlotsFor, Same
<1>5. ASSUME NEW D \in SUBSET S, D # {}, NEW r, MembersSoFar(env, D \ {Chosen(env, D)}, r)
      PROVE  MembersSoFar(env, D, MemberStep(env, Chosen(env, D), r))
  <2> DEFINE n == Chosen(env, D)
             copy == Boxed(UnshareFlat(r[1], s.cells[members[n]]))
  <2>1. n \in STRING /\ n \in S /\ DOMAIN r[2] \subseteq S
    BY <1>3, <1>5 DEF NamesMap, MembersSoFar
  <2>2. /\ Same(s, r[1], K) /\ NamesMap(r[2]) /\ \A m \in DOMAIN r[2] : r[2][m] \in Nat
        /\ Keeps(s, r[1])
    BY <1>5 DEF MembersSoFar, SlotsFor
  <2>3. /\ Same(s, UnshareFlat(r[1], s.cells[members[n]])[1], K)
        /\ Keeps(s, UnshareFlat(r[1], s.cells[members[n]])[1])
    <3> DEFINE u == UnshareFlat(r[1], s.cells[members[n]])[1]
    <3>1. Shape(r[1], K)
      BY <2>2 DEF Same
    <3>2. Same(r[1], u, K) /\ Keeps(r[1], u)
      BY <3>1, UnshareFlatSame
    <3> HIDE DEF u
    <3>3. Keeps(s, u)
      BY <2>2, <3>2, KeepsFacts
    <3>4. QED
      BY <2>2, <3>2, <3>3 DEF Same, u
  <2>4. Same(s, copy[1], K) /\ copy[2] \in Slots /\ Keeps(s, copy[1])
    BY <2>3, BoxedSame
  <2> HIDE DEF n, copy
  <2>5. NamesMap(With(r[2], n, copy[2])) /\ DOMAIN With(r[2], n, copy[2]) \subseteq S
    <3>1. NamesMap(With(r[2], n, copy[2]))
      BY <2>1, <2>2, WithNames
    <3>2. DOMAIN With(r[2], n, copy[2]) = DOMAIN r[2] \union {n}
      BY WithFacts
    <3>3. QED
      BY <2>1, <2>2, <3>1, <3>2
  <2>6. \A m \in DOMAIN With(r[2], n, copy[2]) : With(r[2], n, copy[2])[m] \in Nat
    BY <2>2, <2>4 DEF With, Slots
  <2>7. MemberStep(env, n, r) = <<copy[1], With(r[2], n, copy[2])>>
    BY DEF MemberStep, Bind, copy
  <2>8. QED
    BY <2>4, <2>5, <2>6, <2>7 DEF MembersSoFar, SlotsFor, n
<1> HIDE DEF env, S
<1>6. MembersSoFar(env, S, MembersFold!Fold(env, <<s, Empty>>, S))
  BY <1>2, <1>3, <1>4, <1>5, MembersFold!FoldKeeps
<1>7. QED
  BY <1>1, <1>6 DEF MembersSoFar, env

(* A copy changes nothing that is there, and leaves the stack as it is. *)
LEMMA UnshareSame ==
    ASSUME NEW K, NEW s, Shape(s, K), NEW v
    PROVE  Same(s, Unshare(s, v)[1], K) /\ Keeps(s, Unshare(s, v)[1])
<1>1. CASE v \in DOMAIN s.objs /\ s.objs[v].kind = "object"
  <2> DEFINE members == s.objs[v].members
             copy == UnshareMembers(s, members)
  <2>1. ObjOK(s.objs[v], K)
    BY <1>1 DEF Shape, ObjsOK
  <2>2. NamesMap(members) /\ DOMAIN members \subseteq K.names /\ K.classes
    BY <1>1, <2>1 DEF ObjOK
  <2>3. SlotsFor(s, copy, K) /\ DOMAIN copy[2] \subseteq DOMAIN members
    BY <2>2, UnshareMembersSame
  <2>4. Unshare(s, v) = Alloc(copy[1], Object(copy[2]))
    BY <1>1 DEF Unshare, AllocObject
  <2> HIDE DEF copy
  <2>5. ObjOK(Object(copy[2]), K)
    BY <2>2, <2>3 DEF ObjOK, SlotsFor, Object
  <2>6. /\ Same(copy[1], Alloc(copy[1], Object(copy[2]))[1], K)
        /\ Keeps(copy[1], Alloc(copy[1], Object(copy[2]))[1])
    BY <2>3, <2>5, AllocKeeps DEF SlotsFor, Same
  <2>7. Keeps(s, copy[1]) /\ Same(s, copy[1], K)
    BY <2>3 DEF SlotsFor
  <2>8. Keeps(s, Alloc(copy[1], Object(copy[2]))[1])
    BY <2>6, <2>7, KeepsFacts
  <2>9. QED
    BY <2>4, <2>6, <2>7, <2>8 DEF Same
<1>2. CASE ~ (v \in DOMAIN s.objs /\ s.objs[v].kind = "object")
  BY <1>2, UnshareFlatSame DEF Unshare
<1>3. QED
  BY <1>1, <1>2

-----------------------------------------------------------------------------
(* Freeing values leaves the stack as it is. *)
LEMMA InvalidateSame ==
    ASSUME NEW K, NEW s, Shape(s, K), NEW V
    PROVE  Same(s, InvalidateAll(s, V), K)
<1> DEFINE gone == V \cap DOMAIN s.objs
           boxes == UNION {Boxes(s, v) : v \in gone}
           held == {s.cells[c] : c \in boxes}
<1>1. InvalidateAll(s, V) = [s EXCEPT !.objs = Without(@, gone \union held), !.cells = Without(@, boxes)]
  BY DEF InvalidateAll
<1> HIDE DEF gone, boxes, held
<1>2. Fields(InvalidateAll(s, V), s.frames, Without(s.cells, boxes), Without(s.objs, gone \union held))
  BY <1>1, Updates DEF Shape
<1>3. CellsOK(Without(s.cells, boxes)) /\ ObjsOK(Without(s.objs, gone \union held), K)
  BY CellsWithout, ObjsWithout DEF Shape
<1>4. QED
  BY <1>2, <1>3 DEF Same, Shape, Fields

(* The maximum of a set of numbers up to n. *)
LEMMA Greatest ==
    ASSUME NEW n \in Nat, NEW T, T \subseteq 1..n, T # {}
    PROVE  Max(T) \in T /\ \A i \in T : i <= Max(T)
<1>1. \E x \in T : \A y \in T : x >= y
  <2>1. \A y \in T : y \in Int
    OBVIOUS
  <2>2. QED
    BY <2>1, GreatestNumber
<1>2. Max(T) \in T /\ \A y \in T : Max(T) >= y
  BY <1>1 DEF Max
<1>3. \A y \in T : y \in Int
  OBVIOUS
<1>4. QED
  BY <1>2, <1>3

(* The last boundary is one, and there is none above it. *)
LEMMA LastBoundaryFacts ==
    ASSUME NEW f, FramesOK(f)
    PROVE  /\ LastBoundary(f) \in 0..Len(f)
           /\ LastBoundary(f) # 0 => f[LastBoundary(f)] = Boundary
           /\ \A i \in 1..Len(f) : f[i] = Boundary => i <= LastBoundary(f)
<1> DEFINE B == {i \in DOMAIN f : f[i] = Boundary}
<1>1. Len(f) \in Nat /\ B \subseteq 1..Len(f) /\ DOMAIN f = 1..Len(f)
  BY DEF FramesOK
<1>2. LastBoundary(f) = IF B = {} THEN 0 ELSE Max(B)
  BY DEF LastBoundary, Innermost
<1>3. CASE B = {}
  BY <1>1, <1>2, <1>3
<1>4. CASE B # {}
  <2>1. Max(B) \in B /\ \A i \in B : i <= Max(B)
    <3> HIDE DEF B
    <3>1. QED
      BY <1>1, <1>4, Greatest
  <2>2. QED
    BY <1>1, <1>2, <1>4, <2>1
<1>5. QED
  BY <1>3, <1>4

(* What is left of a stack that is truncated. *)
LEMMA TruncateFacts ==
    ASSUME NEW K, NEW s, Shape(s, K), NEW pos \in 1..(Len(s.frames) + 1)
    PROVE  /\ Shape(Truncate(s, pos), K)
           /\ Fields(Truncate(s, pos), SubSeq(s.frames, 1, pos - 1),
                     Without(s.cells, VarCells(s.frames, pos)), s.objs)
           /\ Len(Truncate(s, pos).frames) = pos - 1
           /\ \A i \in 1..(pos - 1) : Truncate(s, pos).frames[i] = s.frames[i]
<1>1. Fields(Truncate(s, pos), SubSeq(s.frames, 1, pos - 1),
             Without(s.cells, VarCells(s.frames, pos)), s.objs)
  BY Updates DEF Truncate, Shape
<1>2. CellsOK(Without(s.cells, VarCells(s.frames, pos)))
  BY CellsWithout DEF Shape
<1>3. s.frames \in Seq(Entry) /\ Len(s.frames) \in Nat
  BY DEF Shape, FramesOK
<1>4. /\ SubSeq(s.frames, 1, pos - 1) \in Seq(Entry)
      /\ Len(SubSeq(s.frames, 1, pos - 1)) = pos - 1
      /\ \A i \in 1..(pos - 1) : SubSeq(s.frames, 1, pos - 1)[i] = s.frames[i]
  BY <1>3, SubSeqProperties
<1>5. QED
  BY <1>1, <1>2, <1>4 DEF Shape, Fields, FramesOK

(* What is left after frame_pop. *)
LEMMA FramePopFacts ==
    ASSUME NEW K, NEW s, Shape(s, K)
    PROVE  /\ Shape(FramePop(s), K)
           /\ LastFrame(s) \in 1..(Len(s.frames) + 1)
           /\ Len(FramePop(s).frames) = LastFrame(s) - 1
           /\ \A i \in 1..(LastFrame(s) - 1) : FramePop(s).frames[i] = s.frames[i]
<1> DEFINE freed == {s.cells[c] : c \in VarCells(s.frames, LastFrame(s))}
           t == InvalidateAll(s, freed)
<1>1. FramePop(s) = Truncate(t, LastFrame(s))
  BY DEF FramePop
<1>2. Shape(t, K) /\ t.frames = s.frames
  BY InvalidateSame DEF Same
<1>3. LastFrame(s) \in 1..(Len(s.frames) + 1)
  BY LastBoundaryFacts DEF LastFrame, Shape, FramesOK
<1> HIDE DEF t
<1>4. QED
  BY <1>1, <1>2, <1>3, TruncateFacts

-----------------------------------------------------------------------------
(* The entry e is pushed. *)
Pushed(s, t, e, K) == Shape(t, K) /\ t.frames = Append(s.frames, e)

(* A store with one more entry. *)
LEMMA PushFacts ==
    ASSUME NEW K, NEW s, Shape(s, K), NEW t, NEW e \in Entry,
           Fields(t, Append(s.frames, e), s.cells, s.objs)
    PROVE  Pushed(s, t, e, K)
<1>1. Append(s.frames, e) \in Seq(Entry)
  BY AppendProperties DEF Shape, FramesOK
<1>2. QED
  BY <1>1 DEF Pushed, Shape, Fields, FramesOK

(* A stack with one more entry. *)
LEMMA Appended ==
    ASSUME NEW f, FramesOK(f), NEW e \in Entry
    PROVE  /\ FramesOK(Append(f, e))
           /\ Len(Append(f, e)) = Len(f) + 1
           /\ Begins(f, Append(f, e))
           /\ Append(f, e)[Len(f) + 1] = e
           /\ \A N : e # Boundary /\ e.name \in N => Extends(f, Append(f, e), N)
  BY AppendProperties DEF FramesOK, Begins, Extends

(* What entries are made of. *)
LEMMA EntryFacts ==
    ASSUME NEW n \in STRING, NEW c \in Nat, NEW cross \in BOOLEAN
    PROVE  /\ Variable(n, c) \in Entry /\ Variable(n, c) # Boundary
           /\ AliasOf(n, c, cross) \in Entry /\ AliasOf(n, c, cross) # Boundary
           /\ Variable(n, c).name = n /\ Variable(n, c).cell = c
           /\ AliasOf(n, c, cross).name = n /\ AliasOf(n, c, cross).cell = c
           /\ Boundary \in Entry
  BY DEF Variable, AliasOf, Boundary, Entry

(* frame_push pushes a boundary. *)
LEMMA FramePushPushed ==
    ASSUME NEW K, NEW s, Shape(s, K)
    PROVE  Pushed(s, FramePush(s), Boundary, K)
  BY Updates, PushFacts DEF FramePush, Shape, Entry

(* Neither a boundary nor an alias changes an object. *)
LEMMA PushedObjs ==
    ASSUME NEW K, NEW s, Shape(s, K)
    PROVE  /\ FramePush(s).objs = s.objs
           /\ \A n, c, cross : Alias(s, n, c, cross).objs = s.objs
<1>1. IsStore(s)
  BY DEF Shape
<1>2. \A f : [s EXCEPT !.frames = f].objs = s.objs
  BY <1>1, Updates DEF Fields
<1>3. QED
  BY <1>2 DEF FramePush, Alias

(* alias pushes an alias. *)
LEMMA AliasPushed ==
    ASSUME NEW K, NEW s, Shape(s, K), NEW n \in STRING, NEW c \in Nat, NEW cross \in BOOLEAN
    PROVE  Pushed(s, Alias(s, n, c, cross), AliasOf(n, c, cross), K)
  BY Updates, PushFacts, EntryFacts DEF Alias, Shape

(* A slot becomes that of a variable on top of the stack. *)
LEMMA PushVariablePushed ==
    ASSUME NEW K, NEW box, Shape(box[1], K), box[2] \in Nat, NEW n \in STRING
    PROVE  /\ Pushed(box[1], PushVariable(box, n)[1], Variable(n, box[2]), K)
           /\ PushVariable(box, n)[2] = box[2]
  BY Updates, PushFacts, EntryFacts DEF PushVariable, Shape

(* add pushes a variable with a slot of its own. *)
LEMMA AddPushed ==
    ASSUME NEW K, NEW s, Shape(s, K), NEW n \in STRING
    PROVE  Add(s, n)[2] \in Slots /\ Pushed(s, Add(s, n)[1], Variable(n, Add(s, n)[2]), K)
<1> DEFINE box == Boxed(Inherited(s, Get(s, n)))
<1>1. Same(s, Inherited(s, Get(s, n))[1], K)
  BY UnshareSame DEF Inherited, Same
<1>2. Same(s, box[1], K) /\ box[2] \in Slots
  BY <1>1, BoxedSame
<1>3. Add(s, n) = PushVariable(box, n)
  BY DEF Add
<1> HIDE DEF box
<1>4. /\ Pushed(box[1], PushVariable(box, n)[1], Variable(n, box[2]), K)
      /\ PushVariable(box, n)[2] = box[2]
  BY <1>2, PushVariablePushed DEF Same, Slots
<1>5. QED
  BY <1>2, <1>3, <1>4 DEF Pushed, Same

(* A pushed entry that is no boundary makes the stack grow by its name. *)
LEMMA PushedGrows ==
    ASSUME NEW K, NEW s, NEW t, Shape(s, K), NEW e \in Entry, e # Boundary,
           e.name \in K.names, Pushed(s, t, e, K)
    PROVE  Grows(s, t, K)
  BY Appended DEF Pushed, Grows, Shape

(* A lookup finds an accessible entry of the name, and none above it is    *)
(* one.                                                                    *)
LEMMA GetPosFacts ==
    ASSUME NEW K, NEW s, Shape(s, K), NEW n
    PROVE  /\ GetPos(s, n) \in 0..Len(s.frames)
           /\ GetPos(s, n) # 0 => /\ s.frames[GetPos(s, n)] # Boundary
                                  /\ s.frames[GetPos(s, n)].name = n
           /\ \A i \in 1..Len(s.frames) :
                 s.frames[i] # Boundary /\ s.frames[i].name = n /\ Accessible(s, i)
                   => i <= GetPos(s, n)
<1> DEFINE T == {i \in DOMAIN s.frames : s.frames[i] # Boundary /\ s.frames[i].name = n
                                           /\ Accessible(s, i)}
<1>1. Len(s.frames) \in Nat /\ T \subseteq 1..Len(s.frames) /\ DOMAIN s.frames = 1..Len(s.frames)
  BY DEF Shape, FramesOK
<1>2. GetPos(s, n) = IF T = {} THEN 0 ELSE Max(T)
  BY DEF GetPos, Innermost
<1>3. CASE T = {}
  BY <1>1, <1>2, <1>3
<1>4. CASE T # {}
  <2>1. Max(T) \in T /\ \A i \in T : i <= Max(T)
    <3> HIDE DEF T
    <3>1. QED
      BY <1>1, <1>4, Greatest
  <2>2. GetPos(s, n) = Max(T)
    BY <1>2, <1>4
  <2>3. Max(T) \in 1..Len(s.frames) /\ s.frames[Max(T)] # Boundary /\ s.frames[Max(T)].name = n
    BY <1>1, <2>1
  <2>4. QED
    BY <1>1, <2>1, <2>2, <2>3
<1>5. QED
  BY <1>3, <1>4

(* The parts of a variable or an alias. *)
LEMMA CellOfNat ==
    ASSUME NEW f, FramesOK(f), NEW i \in 1..Len(f), f[i] # Boundary
    PROVE  f[i].cell \in Nat /\ f[i].name \in STRING /\ f[i].entry \in {"var", "alias"}
<1>1. f[i] \in Entry
  BY ElementOfSeq DEF FramesOK
<1>2. QED
  BY <1>1 DEF Entry

(* A lookup returns a slot, or none. *)
LEMMA GetNat ==
    ASSUME NEW K, NEW s, Shape(s, K), NEW n
    PROVE  Get(s, n) \in Nat
<1>1. CASE GetPos(s, n) = 0
  BY <1>1 DEF Get, CellOf, NoCell
<1>2. CASE GetPos(s, n) # 0
  <2>1. GetPos(s, n) \in 1..Len(s.frames) /\ s.frames[GetPos(s, n)] # Boundary
    <3>1. /\ GetPos(s, n) \in 0..Len(s.frames)
          /\ GetPos(s, n) # 0 => s.frames[GetPos(s, n)] # Boundary
      BY GetPosFacts
    <3>2. Len(s.frames) \in Nat
      BY DEF Shape, FramesOK
    <3>3. QED
      BY <1>2, <3>1, <3>2
  <2>2. s.frames[GetPos(s, n)].cell \in Nat
    BY <2>1, CellOfNat DEF Shape
  <2>3. QED
    BY <1>2, <2>2 DEF Get, CellOf
<1>3. QED
  BY <1>1, <1>2

(* A name that is not found is a new variable. *)
LEMMA GetOrNewFacts ==
    ASSUME NEW K, NEW s, Shape(s, K), NEW n \in STRING
    PROVE  /\ GetOrNew(s, n)[2] \in Nat
           /\ \/ GetOrNew(s, n)[1] = s
              \/ Pushed(s, GetOrNew(s, n)[1], Variable(n, GetOrNew(s, n)[2]), K)
<1>1. CASE Get(s, n) = NoCell
  BY <1>1, AddPushed DEF GetOrNew, Slots
<1>2. CASE Get(s, n) # NoCell
  BY <1>2, GetNat DEF GetOrNew
<1>3. QED
  BY <1>1, <1>2

-----------------------------------------------------------------------------
(* Stack images. *)
NamesFor(s, acc, K) == Same(s, acc[1], K) /\ Keeps(s, acc[1]) /\ NamesMap(acc[2])

ImageStep(env, n, acc) == Bind(n, Unshare(acc[1], HeldBy(env[1], env[2], n)), acc[2])

ImageSoFar(env, D, acc) ==
    NamesFor(env[1], acc, env[3])
      /\ DOMAIN acc[2] \subseteq {env[1].frames[i].name : i \in env[2]}

ImageFold == INSTANCE Folding WITH Op <- ImageStep, Pick <- Chosen, Good <- ImageSoFar

(* An image has names of the entries it is taken of, and the copies change *)
(* nothing that is there.                                                  *)
LEMMA ImageSame ==
    ASSUME NEW K, NEW s, Shape(s, K), NEW Q, Q \subseteq Entries(s)
    PROVE  /\ NamesFor(s, ImageOf(s, Q), K)
           /\ DOMAIN ImageOf(s, Q)[2] \subseteq {s.frames[i].name : i \in Q}
<1> DEFINE env == <<s, Q, K>>
           S == {s.frames[i].name : i \in Q}
<1>1. ImageOf(s, Q) = ImageFold!Fold(env, <<s, Empty>>, S)
  BY DEF ImageOf, FoldSet, MapThenFoldSet, ImageStep, Chosen, ImageFold!Fold, ImageFold!Equation
<1>2. S \subseteq STRING /\ IsFiniteSet(S)
  <2>1. FramesOK(s.frames) /\ Len(s.frames) \in Nat /\ DOMAIN s.frames = 1..Len(s.frames)
    BY DEF Shape, FramesOK
  <2>2. \A i \in Q : i \in 1..Len(s.frames) /\ s.frames[i] # Boundary
    BY <2>1 DEF Entries
  <2>3. \A i \in Q : s.frames[i].name \in STRING
    BY <2>1, <2>2, CellOfNat
  <2>4. IsFiniteSet(Q)
    <3>1. IsFiniteSet(1..Len(s.frames)) /\ Q \subseteq 1..Len(s.frames)
      BY <2>1, <2>2, FS_Interval
    <3>2. QED
      BY <3>1, FS_Subset
  <2>5. [i \in Q |-> s.frames[i].name] \in Surjection(Q, S)
    BY DEF Surjection
  <2>6. S \subseteq STRING
    BY <2>3
  <2> HIDE DEF S
  <2>7. QED
    BY <2>4, <2>5, <2>6, FS_Surjection
<1>3. ImageFold!IsFiniteSet(S)
  BY <1>2 DEF IsFiniteSet, ImageFold!IsFiniteSet
<1>4. \A D \in SUBSET S : D # {} => Chosen(env, D) \in D
  BY DEF Chosen
<1>5. ImageSoFar(env, {}, <<s, Empty>>)
  BY EmptyNames, KeepsFacts DEF ImageSoFar, NamesFor, Same
<1>6. ASSUME NEW D \in SUBSET S, D # {}, NEW r, ImageSoFar(env, D \ {Chosen(env, D)}, r)
      PROVE  ImageSoFar(env, D, ImageStep(env, Chosen(env, D), r))
  <2> DEFINE n == Chosen(env, D)
             copy == Unshare(r[1], HeldBy(s, Q, n))
  <2>1. n \in STRING /\ n \in S
    <3>1. n \in D
      BY <1>4, <1>6
    <3>2. S \subseteq STRING
      BY <1>2
    <3> HIDE DEF n, S
    <3>3. QED
      BY <1>6, <3>1, <3>2
  <2>2. Same(s, r[1], K) /\ NamesMap(r[2]) /\ DOMAIN r[2] \subseteq S /\ Keeps(s, r[1])
    BY <1>6 DEF ImageSoFar, NamesFor
  <2>3. Same(s, copy[1], K) /\ Keeps(s, copy[1])
    <3>1. Shape(r[1], K) /\ r[1].frames = s.frames
      BY <2>2 DEF Same
    <3>2. Same(r[1], copy[1], K) /\ Keeps(r[1], copy[1])
      BY <3>1, UnshareSame
    <3>3. Same(s, copy[1], K)
      BY <3>1, <3>2 DEF Same
    <3>4. QED
      BY <2>2, <3>2, <3>3, KeepsFacts
  <2> HIDE DEF n, copy
  <2>4. NamesMap(With(r[2], n, copy[2])) /\ DOMAIN With(r[2], n, copy[2]) \subseteq S
    <3>1. NamesMap(With(r[2], n, copy[2]))
      BY <2>1, <2>2, WithNames
    <3>2. DOMAIN With(r[2], n, copy[2]) = DOMAIN r[2] \union {n}
      BY WithFacts
    <3>3. QED
      BY <2>1, <2>2, <3>1, <3>2
  <2>5. ImageStep(env, n, r) = <<copy[1], With(r[2], n, copy[2])>>
    BY DEF ImageStep, Bind, copy
  <2>6. QED
    BY <2>3, <2>4, <2>5 DEF ImageSoFar, NamesFor, n
<1> HIDE DEF env, S
<1>7. ImageSoFar(env, S, ImageFold!Fold(env, <<s, Empty>>, S))
  BY <1>3, <1>4, <1>5, <1>6, ImageFold!FoldKeeps
<1>8. QED
  BY <1>1, <1>7 DEF ImageSoFar, env

(* copy_reachable changes nothing that is there. *)
LEMMA CopyReachableSame ==
    ASSUME NEW K, NEW s, Shape(s, K)
    PROVE  NamesFor(s, CopyReachable(s), K)
  BY ImageSame DEF CopyReachable

(* The frame goes. *)
LEMMA FrameSaveFacts ==
    ASSUME NEW K, NEW s, Shape(s, K), LastBoundary(s.frames) # 0
    PROVE  /\ Shape(FrameSave(s)[1], K) /\ NamesMap(FrameSave(s)[2])
           /\ Len(FrameSave(s)[1].frames) = LastBoundary(s.frames) - 1
           /\ \A i \in 1..(LastBoundary(s.frames) - 1) :
                 FrameSave(s)[1].frames[i] = s.frames[i]
           /\ DOMAIN FrameSave(s)[2] \subseteq {s.frames[i].name : i \in Frame(s)}
           /\ \A r \in DOMAIN s.objs :
                 r \in DOMAIN FrameSave(s)[1].objs /\ FrameSave(s)[1].objs[r] = s.objs[r]
<1> DEFINE image == ImageOf(s, Frame(s))
           b == LastBoundary(s.frames)
<1>1. NamesFor(s, image, K) /\ DOMAIN image[2] \subseteq {s.frames[i].name : i \in Frame(s)}
  BY ImageSame DEF Frame
<1>2. b \in 1..(Len(s.frames) + 1)
  BY LastBoundaryFacts DEF Shape, FramesOK
<1>3. FrameSave(s) = <<Truncate(image[1], b), image[2]>>
  BY DEF FrameSave, TornDown
<1> HIDE DEF image
<1>4. Shape(image[1], K) /\ image[1].frames = s.frames /\ NamesMap(image[2]) /\ Keeps(s, image[1])
  BY <1>1 DEF NamesFor, Same
<1>5. b \in 1..(Len(image[1].frames) + 1)
  BY <1>2, <1>4
<1> HIDE DEF b
<1>6. /\ Shape(Truncate(image[1], b), K)
      /\ Len(Truncate(image[1], b).frames) = b - 1
      /\ \A i \in 1..(b - 1) : Truncate(image[1], b).frames[i] = image[1].frames[i]
      /\ Truncate(image[1], b).objs = image[1].objs
  BY <1>4, <1>5, TruncateFacts DEF Fields
<1>7. QED
  BY <1>1, <1>3, <1>4, <1>6 DEF b, Keeps

RestoreStep(env, n, acc) == PushVariable(Boxed(Unshare(acc, env[2][n])), n)[1]

RestoredSoFar(env, D, acc) == Grows(env[1], acc, env[3])

RestoreFold == INSTANCE Folding WITH Op <- RestoreStep, Pick <- Chosen, Good <- RestoredSoFar

(* frame_restore makes the stack grow by names of the image. *)
LEMMA FrameRestoreGrows ==
    ASSUME NEW K, NEW s, Shape(s, K), NEW image, NamesMap(image), DOMAIN image \subseteq K.names
    PROVE  Grows(s, FrameRestore(s, image), K)
<1> DEFINE env == <<s, image, K>>
           S == DOMAIN image
<1>1. FrameRestore(s, image) = RestoreFold!Fold(env, s, S)
  BY DEF FrameRestore, FoldSet, MapThenFoldSet, RestoreStep, Chosen, RestoreFold!Fold, RestoreFold!Equation
<1>2. RestoreFold!IsFiniteSet(S)
  BY DEF NamesMap, IsFiniteSet, RestoreFold!IsFiniteSet
<1>3. \A D \in SUBSET S : D # {} => Chosen(env, D) \in D
  BY DEF Chosen
<1>4. RestoredSoFar(env, {}, s)
  BY Grown DEF RestoredSoFar
<1>5. ASSUME NEW D \in SUBSET S, D # {}, NEW r, RestoredSoFar(env, D \ {Chosen(env, D)}, r)
      PROVE  RestoredSoFar(env, D, RestoreStep(env, Chosen(env, D), r))
  <2> DEFINE n == Chosen(env, D)
             box == Boxed(Unshare(r, image[n]))
  <2>1. n \in STRING /\ n \in K.names
    BY <1>3, <1>5 DEF NamesMap
  <2>2. Grows(s, r, K) /\ Shape(r, K)
    BY <1>5 DEF RestoredSoFar, Grows
  <2>3. Same(r, box[1], K) /\ box[2] \in Slots
    BY <2>2, UnshareSame, BoxedSame
  <2>4. RestoreStep(env, n, r) = PushVariable(box, n)[1]
    BY DEF RestoreStep
  <2> HIDE DEF n, box
  <2>5. Pushed(r, PushVariable(box, n)[1], Variable(n, box[2]), K)
    BY <2>1, <2>3, PushVariablePushed DEF Same, Pushed, Slots
  <2>6. Variable(n, box[2]) \in Entry /\ Variable(n, box[2]) # Boundary /\ Variable(n, box[2]).name = n
    BY <2>1, <2>3, EntryFacts DEF Slots
  <2>7. Grows(r, PushVariable(box, n)[1], K)
    BY <2>1, <2>2, <2>5, <2>6, PushedGrows
  <2>8. QED
    BY <2>2, <2>4, <2>7, Grown DEF RestoredSoFar, n
<1> HIDE DEF env, S
<1>6. RestoredSoFar(env, S, RestoreFold!Fold(env, s, S))
  BY <1>2, <1>3, <1>4, <1>5, RestoreFold!FoldKeeps
<1>7. QED
  BY <1>1, <1>6 DEF RestoredSoFar, env

-----------------------------------------------------------------------------
(* Class objects.  What refers to one still does. *)
IsObject(s, r) == r \in DOMAIN s.objs /\ s.objs[r].kind = "object"

(* object_add leaves the stack as it is, and the object an object. *)
LEMMA ObjectAddFacts ==
    ASSUME NEW K, NEW s, Shape(s, K), NEW r, IsObject(s, r), NEW n \in K.names
    PROVE  /\ Same(s, ObjectAdd(s, r, n)[1], K)
           /\ ObjectAdd(s, r, n)[2] \in Slots
           /\ IsObject(ObjectAdd(s, r, n)[1], r)
<1> DEFINE members == s.objs[r].members
           box == NewCell(s, Om)
           c == box[2]
           old == IF n \in DOMAIN members THEN {members[n]} ELSE {}
           new == Object(With(members, n, c))
           t == [box[1] EXCEPT !.objs[r] = new, !.cells = Without(@, old)]
<1>1. /\ c \in Slots
      /\ Fields(box[1], s.frames, With(s.cells, c, Om), s.objs)
      /\ Shape(box[1], K)
  BY NewCellFacts
<1>2. ObjOK(s.objs[r], K)
  BY DEF Shape, ObjsOK, IsObject
<1>3. /\ NamesMap(members) /\ DOMAIN members \subseteq K.names /\ K.classes
      /\ \A m \in DOMAIN members : members[m] \in Nat
      /\ n \in STRING
  BY <1>2 DEF ObjOK, IsObject, Shape
<1>4. ObjectAdd(s, r, n) = <<t, c>>
  BY DEF ObjectAdd, AddSlot
<1> HIDE DEF box, members, c, old, t
<1>5. /\ NamesMap(With(members, n, c)) /\ DOMAIN With(members, n, c) \subseteq K.names
      /\ \A m \in DOMAIN With(members, n, c) : With(members, n, c)[m] \in Nat
  <2>1. NamesMap(With(members, n, c))
    BY <1>3, WithNames
  <2>2. QED
    BY <1>1, <1>3, <2>1 DEF With, Slots
<1>6. ObjOK(new, K) /\ new.kind = "object"
  BY <1>3, <1>5 DEF ObjOK, Object
<1> HIDE DEF new
<1>7. Fields(t, box[1].frames, Without(box[1].cells, old), [box[1].objs EXCEPT ![r] = new])
  BY <1>1, Updates DEF t, Shape
<1>8. CellsOK(Without(box[1].cells, old)) /\ ObjsOK([box[1].objs EXCEPT ![r] = new], K)
  BY <1>1, <1>6, CellsWithout, ObjsSet DEF Shape
<1>9. Same(s, t, K)
  BY <1>1, <1>7, <1>8 DEF Same, Shape, Fields
<1>10. IsObject(t, r)
  <2>1. t.objs = [s.objs EXCEPT ![r] = new]
    BY <1>1, <1>7 DEF Fields
  <2>2. QED
    BY <2>1, <1>6 DEF IsObject
<1>11. QED
  BY <1>1, <1>4, <1>9, <1>10

ObjectStep(env, n, acc) == SetCell(ObjectAdd(acc, env[2], n), env[3][n])

ObjectSoFar(env, D, acc) == Same(env[1], acc, env[4]) /\ IsObject(acc, env[2])

ObjectFold == INSTANCE Folding WITH Op <- ObjectStep, Pick <- Chosen, Good <- ObjectSoFar

(* A slot that is filled leaves the stack and the objects as they are. *)
LEMMA SetCellSame ==
    ASSUME NEW K, NEW s, NEW at, Same(s, at[1], K), NEW v
    PROVE  /\ Same(s, SetCell(at, v), K)
           /\ SetCell(at, v).objs = at[1].objs
<1>1. Fields(SetCell(at, v), at[1].frames, [at[1].cells EXCEPT ![at[2]] = v], at[1].objs)
  BY Updates DEF SetCell, Same, Shape
<1>2. CellsOK([at[1].cells EXCEPT ![at[2]] = v])
  BY CellsSet DEF Same, Shape
<1>3. QED
  BY <1>1, <1>2 DEF Same, Shape, Fields

(* object_add_image leaves the stack as it is. *)
LEMMA ObjectAddImageSame ==
    ASSUME NEW K, NEW s, Shape(s, K), NEW r, IsObject(s, r), NEW image, NamesMap(image),
           DOMAIN image \subseteq K.names
    PROVE  Same(s, ObjectAddImage(s, r, image), K)
<1> DEFINE env == <<s, r, image, K>>
           S == DOMAIN image
<1>1. ObjectAddImage(s, r, image) = ObjectFold!Fold(env, s, S)
  BY DEF ObjectAddImage, FoldSet, MapThenFoldSet, ObjectStep, Chosen, ObjectFold!Fold, ObjectFold!Equation
<1>2. ObjectFold!IsFiniteSet(S)
  BY DEF NamesMap, IsFiniteSet, ObjectFold!IsFiniteSet
<1>3. \A D \in SUBSET S : D # {} => Chosen(env, D) \in D
  BY DEF Chosen
<1>4. ObjectSoFar(env, {}, s)
  BY DEF ObjectSoFar, Same
<1>5. ASSUME NEW D \in SUBSET S, D # {}, NEW q, ObjectSoFar(env, D \ {Chosen(env, D)}, q)
      PROVE  ObjectSoFar(env, D, ObjectStep(env, Chosen(env, D), q))
  <2> DEFINE n == Chosen(env, D)
             at == ObjectAdd(q, r, n)
  <2>1. n \in K.names
    BY <1>3, <1>5
  <2>2. Same(s, q, K) /\ IsObject(q, r)
    BY <1>5 DEF ObjectSoFar
  <2>3. Same(q, at[1], K) /\ IsObject(at[1], r)
    BY <2>1, <2>2, ObjectAddFacts DEF Same
  <2>4. ObjectStep(env, n, q) = SetCell(at, image[n])
    BY DEF ObjectStep
  <2> HIDE DEF n, at
  <2>5. Same(q, SetCell(at, image[n]), K) /\ IsObject(SetCell(at, image[n]), r)
    BY <2>3, SetCellSame DEF IsObject
  <2>6. QED
    BY <2>2, <2>4, <2>5 DEF ObjectSoFar, Same, n
<1> HIDE DEF env, S
<1>6. ObjectSoFar(env, S, ObjectFold!Fold(env, s, S))
  BY <1>2, <1>3, <1>4, <1>5, ObjectFold!FoldKeeps
<1>7. QED
  BY <1>1, <1>6 DEF ObjectSoFar, env

(* What is left without an entry. *)
LEMMA DropEntryFacts ==
    ASSUME NEW K, NEW s, Shape(s, K), NEW i \in 1..Len(s.frames)
    PROVE  /\ Shape(DropEntry(s, i), K)
           /\ DropEntry(s, i).frames = RemoveAt(s.frames, i)
           /\ DropEntry(s, i).objs = s.objs
<1> DEFINE cells == IF s.frames[i].entry = "var" THEN Without(s.cells, {s.frames[i].cell}) ELSE s.cells
<1>1. DropEntry(s, i) = [s EXCEPT !.frames = RemoveAt(@, i), !.cells = cells]
  BY DEF DropEntry
<1>2. CellsOK(cells)
  BY CellsWithout DEF Shape
<1> HIDE DEF cells
<1>3. Fields(DropEntry(s, i), RemoveAt(s.frames, i), cells, s.objs)
  BY <1>1, Updates DEF Shape
<1>4. RemoveAt(s.frames, i) \in Seq(Entry)
  <2>1. s.frames \in Seq(Entry) /\ Len(s.frames) \in Nat
    BY DEF Shape, FramesOK
  <2>2. /\ SubSeq(s.frames, 1, i - 1) \in Seq(Entry)
        /\ SubSeq(s.frames, i + 1, Len(s.frames)) \in Seq(Entry)
    BY <2>1, SubSeqProperties
  <2>3. QED
    BY <2>2, ConcatProperties DEF RemoveAt
<1>5. QED
  BY <1>2, <1>3, <1>4 DEF Shape, Fields, FramesOK

(* A list without one element. *)
LEMMA RemoveAtFacts ==
    ASSUME NEW f, FramesOK(f), NEW i \in 1..Len(f)
    PROVE  /\ Len(RemoveAt(f, i)) = Len(f) - 1
           /\ \A j \in 1..(i - 1) : RemoveAt(f, i)[j] = f[j]
           /\ \A j \in i..(Len(f) - 1) : RemoveAt(f, i)[j] = f[j + 1]
<1> DEFINE low == SubSeq(f, 1, i - 1)
           high == SubSeq(f, i + 1, Len(f))
<1>1. f \in Seq(Entry) /\ Len(f) \in Nat /\ \A j \in 1..Len(f) : f[j] \in Entry
  BY ElementOfSeq DEF FramesOK
<1>2. /\ low \in Seq(Entry) /\ Len(low) = i - 1
      /\ \A j \in 1..(i - 1) : low[j] = f[j]
  BY <1>1, SubSeqProperties
<1>3. /\ high \in Seq(Entry) /\ Len(high) = Len(f) - i
      /\ \A j \in 1..(Len(f) - i) : high[j] = f[j + i]
  BY <1>1, SubSeqProperties
<1>4. RemoveAt(f, i) = low \o high
  BY DEF RemoveAt
<1> HIDE DEF low, high
<1>5. /\ Len(low \o high) = Len(f) - 1
      /\ \A j \in 1..(i - 1) : (low \o high)[j] = low[j]
      /\ \A j \in i..(Len(f) - 1) : (low \o high)[j] = high[j - (i - 1)]
  BY <1>1, <1>2, <1>3
<1>6. \A j \in i..(Len(f) - 1) : high[j - (i - 1)] = f[j + 1]
  BY <1>1, <1>3
<1>7. QED
  BY <1>2, <1>4, <1>5, <1>6
=============================================================================
