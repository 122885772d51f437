------------------------- MODULE ScopeFrames_proofs -------------------------
(***************************************************************************)
(* The frames of the procedures that run.  The invariant says of each of   *)
(* them how its frames start and end on top of those of its caller; from   *)
(* it follow CallerFramesKept, FramesCounted, NamesAgree, ReturnRestores   *)
(* and ThisScoped.                                                         *)
(***************************************************************************)
EXTENDS Scope, Stack_proofs

-----------------------------------------------------------------------------
(* What procedure_new and what it calls do to the stack: the registers of  *)
(* the procedure hold the slots of the entries they push, each the last of *)
(* its name.                                                               *)

(* Slots of the names a procedure defines, each the one of the last entry  *)
(* of that name, which is above position b with no boundary after it.      *)
LastNamed(f, b, n, c) ==
    \E p \in (b + 1)..Len(f) :
        /\ f[p] # Boundary /\ f[p].name = n /\ f[p].cell = c
        /\ \A q \in (p + 1)..Len(f) : f[q] # Boundary /\ f[q].name # n

DefsOK(defs) == NamesMap(defs) /\ \A n \in DOMAIN defs : defs[n] \in Nat

DefsFor(s, acc, K) ==
    /\ Grows(s, acc[1], K) /\ DefsOK(acc[2])
    /\ \A n \in DOMAIN acc[2] : LastNamed(acc[1].frames, Len(s.frames), n, acc[2][n])

(* A pushed entry is the last of its name, and other names keep theirs. *)
LEMMA LastNamedPushed ==
    ASSUME NEW f, FramesOK(f), NEW e \in Entry, e # Boundary, NEW b \in Nat, b <= Len(f)
    PROVE  /\ LastNamed(Append(f, e), b, e.name, e.cell)
           /\ \A n, c : LastNamed(f, b, n, c) /\ n # e.name => LastNamed(Append(f, e), b, n, c)
<1> DEFINE g == Append(f, e)
<1>1. Len(f) \in Nat /\ Len(g) = Len(f) + 1 /\ g[Len(f) + 1] = e /\ \A i \in 1..Len(f) : g[i] = f[i]
  BY Appended DEF Begins, FramesOK
<1> HIDE DEF g
<1>2. LastNamed(g, b, e.name, e.cell)
  <2>1. Len(f) + 1 \in (b + 1)..Len(g) /\ \A q \in ((Len(f) + 1) + 1)..Len(g) : FALSE
    BY <1>1
  <2>2. QED
    BY <1>1, <2>1 DEF LastNamed
<1>3. ASSUME NEW n, NEW c, LastNamed(f, b, n, c), n # e.name
      PROVE  LastNamed(g, b, n, c)
  <2>1. PICK p \in (b + 1)..Len(f) :
           /\ f[p] # Boundary /\ f[p].name = n /\ f[p].cell = c
           /\ \A q \in (p + 1)..Len(f) : f[q] # Boundary /\ f[q].name # n
    BY <1>3 DEF LastNamed
  <2>2. p \in (b + 1)..Len(g) /\ g[p] = f[p]
    BY <1>1
  <2>3. ASSUME NEW q \in (p + 1)..Len(g) PROVE g[q] # Boundary /\ g[q].name # n
    <3>1. CASE q = Len(f) + 1
      BY <1>1, <1>3, <3>1
    <3>2. CASE q # Len(f) + 1
      <4>1. q \in (p + 1)..Len(f) /\ q \in 1..Len(f)
        BY <1>1, <3>2
      <4>2. QED
        BY <1>1, <2>1, <4>1
    <3>3. QED
      BY <3>1, <3>2
  <2>4. QED
    BY <2>1, <2>2, <2>3 DEF LastNamed
<1>4. QED
  BY <1>2, <1>3 DEF g

(* A name bound to the slot of the entry that is pushed. *)
LEMMA BindPushed ==
    ASSUME NEW K, NEW s, Shape(s, K), NEW acc, DefsFor(s, acc, K), NEW u, Same(acc[1], u, K),
           NEW n \in K.names, NEW c \in Nat, NEW t, NEW e \in Entry, e # Boundary,
           e.name = n, e.cell = c, Pushed(u, t, e, K)
    PROVE  DefsFor(s, <<t, With(acc[2], n, c)>>, K)
<1> DEFINE f == acc[1].frames
           defs == With(acc[2], n, c)
<1>1. /\ FramesOK(f) /\ FramesOK(s.frames) /\ Len(f) \in Nat /\ Len(s.frames) \in Nat
      /\ Len(s.frames) <= Len(f)
  BY DEF DefsFor, Grows, Extends, Begins, Shape, FramesOK
<1>2. t.frames = Append(f, e) /\ Shape(t, K)
  BY DEF Pushed, Same
<1>3. Grows(acc[1], t, K) /\ Shape(acc[1], K)
  BY <1>1, <1>2, Appended DEF Grows, DefsFor
<1>4. Grows(s, t, K)
  BY <1>3, Grown DEF DefsFor
<1>5. n \in STRING
  BY DEF Shape
<1>6. /\ NamesMap(defs) /\ DOMAIN defs = DOMAIN acc[2] \union {n} /\ defs[n] = c
      /\ \A m \in DOMAIN acc[2] : m # n => defs[m] = acc[2][m]
  <2>1. NamesMap(defs)
    BY <1>5, WithNames DEF DefsFor, DefsOK
  <2>2. QED
    BY <2>1 DEF With
<1> HIDE DEF defs
<1>7. \A m \in DOMAIN defs : defs[m] \in Nat
  BY <1>6 DEF DefsFor, DefsOK
<1>8. ASSUME NEW m \in DOMAIN defs
      PROVE  LastNamed(t.frames, Len(s.frames), m, defs[m])
  <2>1. CASE m = n
    BY <1>1, <1>2, <1>6, <2>1, LastNamedPushed
  <2>2. CASE m # n
    <3>1. LastNamed(f, Len(s.frames), m, defs[m])
      BY <1>6, <2>2 DEF DefsFor
    <3>2. QED
      BY <1>1, <1>2, <2>2, <3>1, LastNamedPushed
  <2>3. QED
    BY <2>1, <2>2
<1>9. QED
  BY <1>4, <1>6, <1>7, <1>8 DEF DefsFor, DefsOK, defs

(* Registers stay right when the stack stays the same. *)
LEMMA SameDefs ==
    ASSUME NEW K, NEW s, Shape(s, K), NEW acc, DefsFor(s, acc, K), NEW u, Same(acc[1], u, K)
    PROVE  DefsFor(s, <<u, acc[2]>>, K)
<1>1. Shape(acc[1], K) /\ Grows(acc[1], u, K)
  BY Grown DEF DefsFor, Grows
<1>2. Grows(s, u, K)
  BY <1>1, Grown DEF DefsFor
<1>3. QED
  BY <1>2 DEF DefsFor, Same

(* A local variable of the procedure is bound to its slot. *)
LEMMA AddLocalDefs ==
    ASSUME NEW K, NEW s, Shape(s, K), NEW acc, DefsFor(s, acc, K), NEW n \in K.names
    PROVE  DefsFor(s, AddLocal(acc, n), K)
<1> DEFINE c == Add(acc[1], n)[2]
           t == Add(acc[1], n)[1]
           e == Variable(n, c)
<1>1. Shape(acc[1], K) /\ n \in STRING
  BY DEF DefsFor, Grows, Shape
<1>2. c \in Slots /\ Pushed(acc[1], t, e, K)
  BY <1>1, AddPushed
<1> HIDE DEF c, t
<1>3. e \in Entry /\ e # Boundary /\ e.name = n /\ e.cell = c /\ c \in Nat
  BY <1>1, <1>2, EntryFacts DEF Slots
<1>4. Same(acc[1], acc[1], K)
  BY <1>1 DEF Same
<1> HIDE DEF e
<1>5. DefsFor(s, <<t, With(acc[2], n, c)>>, K)
  BY <1>2, <1>3, <1>4, BindPushed
<1>6. QED
  BY <1>5 DEF AddLocal, Bind, t, c

(* An own member of the procedure is bound to its slot. *)
LEMMA AddOwnDefs ==
    ASSUME NEW K, NEW s, Shape(s, K), NEW acc, DefsFor(s, acc, K), NEW n \in K.names,
           NEW r, IsObject(acc[1], r)
    PROVE  DefsFor(s, AddOwn(acc, r, n), K) /\ IsObject(AddOwn(acc, r, n)[1], r)
<1> DEFINE u == ObjectAdd(acc[1], r, n)[1]
           c == ObjectAdd(acc[1], r, n)[2]
           e == AliasOf(n, c, TRUE)
           t == Alias(u, n, c, TRUE)
<1>1. Shape(acc[1], K) /\ n \in STRING
  BY DEF DefsFor, Grows, Shape
<1>2. Same(acc[1], u, K) /\ c \in Slots /\ IsObject(u, r)
  BY <1>1, ObjectAddFacts
<1>3. AddOwn(acc, r, n) = <<t, With(acc[2], n, c)>>
  BY DEF AddOwn, AliasMember, Bind
<1> HIDE DEF u, c
<1>4. e \in Entry /\ e # Boundary /\ e.name = n /\ e.cell = c /\ c \in Nat
  BY <1>1, <1>2, EntryFacts DEF Slots
<1>5. Pushed(u, t, e, K)
  BY <1>1, <1>2, <1>4, AliasPushed DEF Same
<1>6. IsObject(t, r)
  <2>1. t.objs = u.objs
    BY <1>2, Updates DEF Alias, Fields, Same, Shape
  <2>2. QED
    BY <1>2, <2>1 DEF IsObject
<1> HIDE DEF e, t
<1>7. DefsFor(s, <<t, With(acc[2], n, c)>>, K)
  BY <1>2, <1>4, <1>5, BindPushed
<1>8. QED
  BY <1>3, <1>6, <1>7

(* The loops over the names of a procedure. *)
HighestOf(env, D) == Max(D)

LastIn(seq) == \A D \in SUBSET DOMAIN seq : D # {} => Max(D) \in D

(* The last element of a list, as folds take them. *)
LEMMA LastFacts ==
    ASSUME NEW S, NEW seq \in Seq(S)
    PROVE  LastIn(seq) /\ IsFiniteSet(DOMAIN seq) /\ \A i \in DOMAIN seq : seq[i] \in S
<1>1. Len(seq) \in Nat /\ DOMAIN seq = 1..Len(seq)
  OBVIOUS
<1>2. \A D \in SUBSET (1..Len(seq)) : D # {} => Max(D) \in D
  BY <1>1, Greatest
<1>3. IsFiniteSet(1..Len(seq))
  BY <1>1, FS_Interval
<1>4. QED
  BY <1>1, <1>2, <1>3, ElementOfSeq DEF LastIn

OwnStep(env, i, acc) == AddOwn(acc, env[2], env[3][i])

OwnSoFar(env, D, acc) == DefsFor(env[1], acc, env[4]) /\ IsObject(acc[1], env[2])

OwnFold == INSTANCE Folding WITH Op <- OwnStep, Pick <- HighestOf, Good <- OwnSoFar

(* All own members are bound to their slots. *)
LEMMA OwnDefs ==
    ASSUME NEW K, NEW s, Shape(s, K), NEW acc, DefsFor(s, acc, K), NEW seq \in Seq(K.names),
           NEW r, IsObject(acc[1], r)
    PROVE  DefsFor(s, AddOwns(acc, r, seq), K)
<1> DEFINE env == <<s, r, seq, K>>
           S == DOMAIN seq
           result == AddOwns(acc, r, seq)
<1>1. result = OwnFold!Fold(env, acc, S)
  BY DEF AddOwns, FoldLeft, MapThenFoldSet, OwnStep, HighestOf, OwnFold!Fold, OwnFold!Equation
<1>2. OwnFold!IsFiniteSet(S)
  BY LastFacts DEF IsFiniteSet, OwnFold!IsFiniteSet
<1>3. \A D \in SUBSET S : D # {} => HighestOf(env, D) \in D
  BY LastFacts DEF HighestOf, LastIn
<1>4. OwnSoFar(env, {}, acc)
  BY DEF OwnSoFar
<1>5. ASSUME NEW D \in SUBSET S, D # {}, NEW q, OwnSoFar(env, D \ {HighestOf(env, D)}, q)
      PROVE  OwnSoFar(env, D, OwnStep(env, HighestOf(env, D), q))
  <2> DEFINE n == seq[HighestOf(env, D)]
  <2>1. n \in K.names
    BY <1>3, <1>5, LastFacts
  <2>2. DefsFor(s, q, K) /\ IsObject(q[1], r)
    BY <1>5 DEF OwnSoFar
  <2> HIDE DEF n
  <2>3. DefsFor(s, AddOwn(q, r, n), K) /\ IsObject(AddOwn(q, r, n)[1], r)
    BY <2>1, <2>2, AddOwnDefs
  <2>4. QED
    BY <2>3 DEF OwnStep, OwnSoFar, n
<1> HIDE DEF env, S
<1>6. OwnSoFar(env, S, OwnFold!Fold(env, acc, S))
  BY <1>2, <1>3, <1>4, <1>5, OwnFold!FoldKeeps
<1>7. QED
  BY <1>1, <1>6 DEF OwnSoFar, env

LocalStep(env, i, acc) == AddLocal(acc, env[2][i])

LocalsSoFar(env, D, acc) == DefsFor(env[1], acc, env[3])

LocalFold == INSTANCE Folding WITH Op <- LocalStep, Pick <- HighestOf, Good <- LocalsSoFar

(* All local variables are bound to their slots. *)
LEMMA LocalDefs ==
    ASSUME NEW K, NEW s, Shape(s, K), NEW acc, DefsFor(s, acc, K), NEW seq \in Seq(K.names)
    PROVE  DefsFor(s, AddLocals(acc, seq), K)
<1> DEFINE env == <<s, seq, K>>
           S == DOMAIN seq
<1>1. AddLocals(acc, seq) = LocalFold!Fold(env, acc, S)
  BY DEF AddLocals, FoldLeft, MapThenFoldSet, LocalStep, HighestOf, LocalFold!Fold, LocalFold!Equation
<1>2. LocalFold!IsFiniteSet(S)
  BY LastFacts DEF IsFiniteSet, LocalFold!IsFiniteSet
<1>3. \A D \in SUBSET S : D # {} => HighestOf(env, D) \in D
  BY LastFacts DEF HighestOf, LastIn
<1>4. LocalsSoFar(env, {}, acc)
  BY DEF LocalsSoFar
<1>5. ASSUME NEW D \in SUBSET S, D # {}, NEW q, LocalsSoFar(env, D \ {HighestOf(env, D)}, q)
      PROVE  LocalsSoFar(env, D, LocalStep(env, HighestOf(env, D), q))
  <2> DEFINE n == seq[HighestOf(env, D)]
  <2>1. n \in K.names
    BY <1>3, <1>5, LastFacts
  <2>2. DefsFor(s, q, K)
    BY <1>5 DEF LocalsSoFar
  <2> HIDE DEF n
  <2>3. DefsFor(s, AddLocal(q, n), K)
    BY <2>1, <2>2, AddLocalDefs
  <2>4. QED
    BY <2>3 DEF LocalStep, LocalsSoFar, n
<1> HIDE DEF env, S
<1>6. LocalsSoFar(env, S, LocalFold!Fold(env, acc, S))
  BY <1>2, <1>3, <1>4, <1>5, LocalFold!FoldKeeps
<1>7. QED
  BY <1>1, <1>6 DEF LocalsSoFar, env

-----------------------------------------------------------------------------
(* Entering a procedure. *)
LEMMA AddsDefs ==
    ASSUME NEW K, NEW s, Shape(s, K), NEW acc, DefsFor(s, acc, K), NEW p,
           Code[p].own \in Seq(K.names), Code[p].locals \in Seq(K.names)
    PROVE  DefsFor(s, Variables(acc, p), K)
<1> DEFINE this == Get(acc[1], "this")
           own == IF IsKind(acc[1], this, "object")
                  THEN AddOwns(acc, acc[1].cells[this], Code[p].own) ELSE acc
<1>1. Variables(acc, p) = AddLocals(own, Code[p].locals)
  BY DEF Variables
<1>2. DefsFor(s, own, K)
  <2>1. CASE IsKind(acc[1], this, "object")
    <3>1. IsObject(acc[1], acc[1].cells[this])
      BY <2>1 DEF IsKind, Kind, IsObject
    <3>2. QED
      BY <2>1, <3>1, OwnDefs
  <2>2. CASE ~ IsKind(acc[1], this, "object")
    BY <2>2
  <2>3. QED
    BY <2>1, <2>2
<1> HIDE DEF own
<1>3. QED
  BY <1>1, <1>2, LocalDefs

(* A parameter passed by reference is bound to the slot of the argument. *)
LEMMA ByReferenceDefs ==
    ASSUME NEW K, NEW s, Shape(s, K), NEW acc, DefsFor(s, acc, K), NEW n \in K.names,
           NEW arg \in Nat
    PROVE  DefsFor(s, ByReference(acc, n, arg), K)
<1> DEFINE e == AliasOf(n, arg, FALSE)
           t == Alias(acc[1], n, arg, FALSE)
<1>1. Shape(acc[1], K) /\ n \in STRING /\ Same(acc[1], acc[1], K)
  BY DEF DefsFor, Grows, Shape, Same
<1>2. e \in Entry /\ e # Boundary /\ e.name = n /\ e.cell = arg
  BY <1>1, EntryFacts
<1>3. Pushed(acc[1], t, e, K)
  BY <1>1, AliasPushed
<1> HIDE DEF e, t
<1>4. DefsFor(s, <<t, With(acc[2], n, arg)>>, K)
  BY <1>1, <1>2, <1>3, BindPushed
<1>5. QED
  BY <1>4 DEF ByReference, t

(* A slot that is filled leaves the stack as it is. *)
LEMMA FilledSame ==
    ASSUME NEW K, NEW s, NEW val, Same(s, val[1], K), NEW c
    PROVE  Same(s, Filled(val, c)[1], K) /\ Filled(val, c)[2] = c
<1> DEFINE t == [val[1] EXCEPT !.cells[c] = val[2]]
<1>1. Fields(t, val[1].frames, [val[1].cells EXCEPT ![c] = val[2]], val[1].objs)
  BY Updates DEF Same, Shape
<1>2. CellsOK([val[1].cells EXCEPT ![c] = val[2]])
  BY CellsSet DEF Same, Shape
<1>3. Filled(val, c) = <<t, c>>
  BY DEF Filled
<1> HIDE DEF t
<1>4. QED
  BY <1>1, <1>2, <1>3 DEF Same, Shape, Fields

(* A parameter passed by value is bound to its own slot. *)
LEMMA ByValueDefs ==
    ASSUME NEW K, NEW s, Shape(s, K), NEW acc, DefsFor(s, acc, K), NEW n \in K.names,
           NEW arg
    PROVE  DefsFor(s, ByValue(acc, n, arg), K)
<1> DEFINE at == Add(acc[1], n)
           full == CopyInto(at, arg)
           local == AddLocal(acc, n)
<1>1. DefsFor(s, local, K)
  BY AddLocalDefs
<1>2. local = <<at[1], With(acc[2], n, at[2])>>
  BY DEF AddLocal, Bind
<1>3. Shape(at[1], K)
  BY <1>1, <1>2 DEF DefsFor, Grows
<1>4. Same(at[1], full[1], K) /\ full[2] = at[2]
  <2>1. Same(at[1], Unshare(at[1], at[1].cells[arg])[1], K)
    BY <1>3, UnshareSame
  <2>2. QED
    BY <2>1, FilledSame DEF CopyInto
<1>5. ByValue(acc, n, arg) = <<full[1], local[2]>>
  BY <1>2, <1>4 DEF ByValue, Bind
<1> HIDE DEF at, full, local
<1>6. Same(local[1], full[1], K)
  BY <1>2, <1>4
<1>7. QED
  BY <1>1, <1>5, <1>6, SameDefs

(* The procedure's names are among those of the program. *)
NamesOf(p, N) ==
    /\ Code[p].own \in Seq(N) /\ Code[p].locals \in Seq(N)
    /\ Code[p].param \in N \union {""}

(* A parameter is bound to the slot of its entry. *)
LEMMA ParameterDefs ==
    ASSUME NEW K, NEW s, Shape(s, K), NEW acc, DefsFor(s, acc, K), NEW p \in DOMAIN Code,
           NamesOf(p, K.names), NEW arg \in Nat
    PROVE  DefsFor(s, Parameter(acc, p, arg), K)
<1>1. CASE Code[p].param = ""
  BY <1>1 DEF Parameter
<1>2. CASE Code[p].param # "" /\ Code[p].rw
  BY <1>2, ByReferenceDefs DEF Parameter, NamesOf
<1>3. CASE Code[p].param # "" /\ ~ Code[p].rw
  BY <1>3, ByValueDefs DEF Parameter, NamesOf
<1>4. QED
  BY <1>1, <1>2, <1>3, CodeAssumption DEF CodeAssumption

(* The result of entering a procedure: above the boundary of its frame are *)
(* its variables and parameters, or what its image held.                   *)
Entered(s, result, K) ==
    LET framed == Append(s.frames, Boundary)
    IN  /\ Shape(result[1], K) /\ DefsOK(result[2])
        /\ Extends(framed, result[1].frames, K.names)
        /\ \A n \in DOMAIN result[2] :
              LastNamed(result[1].frames, Len(framed), n, result[2][n])

(* Registers for entries above a frame are for entries above what is below *)
(* it.                                                                     *)
LEMMA DefsAbove ==
    ASSUME NEW K, NEW s, NEW t, Shape(s, K), Grows(s, t, K), NEW acc, DefsFor(t, acc, K)
    PROVE  DefsFor(s, acc, K)
<1>1. Grows(s, acc[1], K)
  BY Grown DEF DefsFor
<1>2. ASSUME NEW n \in DOMAIN acc[2]
      PROVE  LastNamed(acc[1].frames, Len(s.frames), n, acc[2][n])
  <2>1. LastNamed(acc[1].frames, Len(t.frames), n, acc[2][n])
    BY DEF DefsFor
  <2>2. Len(s.frames) \in Nat /\ Len(t.frames) \in Nat /\ Len(s.frames) <= Len(t.frames)
    BY DEF Grows, Extends, Begins, Shape, FramesOK
  <2>3. QED
    BY <2>1, <2>2 DEF LastNamed
<1>3. QED
  BY <1>1, <1>2 DEF DefsFor

(* A procedure that is entered pushes a boundary, and then entries whose   *)
(* slots its registers hold.                                               *)
LEMMA EnterEntered ==
    ASSUME NEW K, NEW s, Shape(s, K), NEW p \in DOMAIN Code, NamesOf(p, K.names), NEW arg \in Nat,
           NEW image, image # Om => /\ Kind(s, image) = "image"
                                    /\ DOMAIN s.objs[image].vals \subseteq K.names
    PROVE  Entered(s, Enter(s, p, image, arg), K)
<1> DEFINE pushed == FramePush(s)
           framed == Framed(s, image)
           bound == Variables(<<framed, Empty>>, p)
<1>1. Shape(pushed, K) /\ pushed.frames = Append(s.frames, Boundary)
  BY FramePushPushed DEF Pushed
<1>2. Grows(pushed, framed, K)
  <2>1. CASE image = Om
    BY <1>1, <2>1, Grown DEF Framed
  <2>2. CASE image # Om
    <3>1. image \in DOMAIN s.objs /\ s.objs[image].kind = "image"
      BY <2>2 DEF Kind
    <3>2. ObjOK(s.objs[image], K)
      BY <3>1 DEF Shape, ObjsOK
    <3>3. NamesMap(s.objs[image].vals)
      BY <3>1, <3>2 DEF ObjOK
    <3>4. QED
      BY <1>1, <2>2, <3>3, FrameRestoreGrows DEF Framed
  <2>3. QED
    BY <2>1, <2>2
<1> HIDE DEF pushed, framed
<1>3. DefsFor(framed, <<framed, Empty>>, K) /\ Shape(framed, K)
  BY <1>2, Grown, EmptyNames DEF DefsFor, DefsOK, Grows
<1>4. DefsFor(framed, bound, K)
  BY <1>3, AddsDefs DEF NamesOf
<1> HIDE DEF bound
<1>5. DefsFor(framed, Parameter(bound, p, arg), K)
  BY <1>3, <1>4, ParameterDefs
<1>6. DefsFor(pushed, Parameter(bound, p, arg), K)
  BY <1>1, <1>2, <1>5, DefsAbove
<1>7. Enter(s, p, image, arg) = Parameter(bound, p, arg)
  BY DEF Enter, bound, framed
<1>8. QED
  BY <1>1, <1>6, <1>7 DEF Entered, DefsFor, Grows

-----------------------------------------------------------------------------
(* How many boundaries there are. *)
Boundaries(f) == Cardinality({i \in DOMAIN f : f[i] = Boundary})

(* A stack has finitely many boundaries. *)
LEMMA BoundariesFinite ==
    ASSUME NEW f, FramesOK(f)
    PROVE  IsFiniteSet({i \in DOMAIN f : f[i] = Boundary}) /\ Boundaries(f) \in Nat
<1> DEFINE B == {i \in DOMAIN f : f[i] = Boundary}
<1>1. Len(f) \in Nat /\ B \subseteq 1..Len(f)
  BY DEF FramesOK
<1>2. IsFiniteSet(1..Len(f))
  BY <1>1, FS_Interval
<1> HIDE DEF B
<1>3. IsFiniteSet(B)
  BY <1>1, <1>2, FS_Subset
<1>4. QED
  BY <1>3, FS_CardinalityType DEF Boundaries, B

(* Variables and aliases add no boundaries. *)
LEMMA BoundariesExtends ==
    ASSUME NEW N, NEW f, FramesOK(f), NEW g, FramesOK(g), Extends(f, g, N)
    PROVE  Boundaries(g) = Boundaries(f)
<1>1. {i \in DOMAIN g : g[i] = Boundary} = {i \in DOMAIN f : f[i] = Boundary}
  BY DEF Extends, Begins, FramesOK
<1>2. QED
  BY <1>1 DEF Boundaries

(* A pushed boundary is one more. *)
LEMMA BoundariesAppend ==
    ASSUME NEW f, FramesOK(f)
    PROVE  Boundaries(Append(f, Boundary)) = Boundaries(f) + 1
<1> DEFINE g == Append(f, Boundary)
           B == {i \in DOMAIN f : f[i] = Boundary}
           C == {i \in DOMAIN g : g[i] = Boundary}
<1>1. /\ Len(f) \in Nat /\ Len(g) = Len(f) + 1 /\ g[Len(f) + 1] = Boundary
      /\ \A i \in 1..Len(f) : g[i] = f[i]
      /\ DOMAIN f = 1..Len(f) /\ DOMAIN g = 1..Len(g)
  BY Appended, EntryFacts DEF Begins, FramesOK
<1>2. C = B \union {Len(f) + 1} /\ Len(f) + 1 \notin B
  <2> HIDE DEF g
  <2>1. QED
    BY <1>1
<1>3. IsFiniteSet(B) /\ Boundaries(f) = Cardinality(B) /\ Boundaries(g) = Cardinality(C)
  BY BoundariesFinite DEF Boundaries
<1> HIDE DEF B, C, g
<1>4. Cardinality(B \union {Len(f) + 1}) = Cardinality(B) + 1
  BY <1>2, <1>3, FS_AddElement
<1>5. QED
  BY <1>2, <1>3, <1>4 DEF g

(* With its innermost frame a stack loses one boundary. *)
LEMMA BoundariesCut ==
    ASSUME NEW f, FramesOK(f), LastBoundary(f) # 0,
           NEW g, FramesOK(g), Len(g) = LastBoundary(f) - 1, \A i \in 1..Len(g) : g[i] = f[i]
    PROVE  Boundaries(g) = Boundaries(f) - 1
<1> DEFINE last == LastBoundary(f)
           B == {i \in DOMAIN f : f[i] = Boundary}
           C == {i \in DOMAIN g : g[i] = Boundary}
<1>1. /\ last \in 1..Len(f) /\ f[last] = Boundary /\ Len(f) \in Nat
      /\ \A i \in 1..Len(f) : f[i] = Boundary => i <= last
      /\ DOMAIN f = 1..Len(f) /\ DOMAIN g = 1..Len(g)
  BY LastBoundaryFacts DEF FramesOK
<1> HIDE DEF last
<1>2. Len(g) = last - 1
  BY DEF last
<1>3. C = B \ {last} /\ last \in B
  BY <1>1, <1>2
<1>4. IsFiniteSet(B) /\ Boundaries(f) = Cardinality(B) /\ Boundaries(g) = Cardinality(C)
  BY BoundariesFinite DEF Boundaries
<1> HIDE DEF B, C
<1>5. Cardinality(B \ {last}) = Cardinality(B) - 1
  BY <1>3, <1>4, FS_RemoveElement
<1>6. QED
  BY <1>3, <1>4, <1>5

(* Without an entry that is none a stack has as many boundaries. *)
LEMMA BoundariesRemove ==
    ASSUME NEW f, FramesOK(f), NEW k \in 1..Len(f), f[k] # Boundary,
           FramesOK(RemoveAt(f, k))
    PROVE  Boundaries(RemoveAt(f, k)) = Boundaries(f)
<1> DEFINE g == RemoveAt(f, k)
           B == {i \in DOMAIN f : f[i] = Boundary}
           C == {i \in DOMAIN g : g[i] = Boundary}
           h == [i \in B |-> IF i < k THEN i ELSE i - 1]
<1>1. /\ Len(f) \in Nat /\ Len(g) = Len(f) - 1
      /\ \A j \in 1..(k - 1) : g[j] = f[j]
      /\ \A j \in k..(Len(f) - 1) : g[j] = f[j + 1]
      /\ DOMAIN f = 1..Len(f) /\ DOMAIN g = 1..Len(g)
  BY RemoveAtFacts DEF FramesOK
<1> HIDE DEF g
<1>2. k \notin B /\ B \subseteq 1..Len(f)
  BY <1>1
<1>3. \A i \in B : h[i] \in C
  BY <1>1, <1>2
<1>4. \A i, j \in B : h[i] = h[j] => i = j
  BY <1>1, <1>2
<1>5. \A j \in C : \E i \in B : h[i] = j
  <2>1. SUFFICES ASSUME NEW j \in C PROVE \E i \in B : h[i] = j
    OBVIOUS
  <2>2. CASE j < k
    <3>1. j \in B /\ h[j] = j
      BY <1>1, <2>2
    <3>2. QED
      BY <3>1
  <2>3. CASE ~ (j < k)
    <3>1. j + 1 \in B /\ h[j + 1] = j
      BY <1>1, <2>3
    <3>2. QED
      BY <3>1
  <2>4. QED
    BY <2>2, <2>3
<1>6. IsFiniteSet(B) /\ Boundaries(f) = Cardinality(B) /\ Boundaries(g) = Cardinality(C)
  BY BoundariesFinite DEF Boundaries
<1>7. h \in Bijection(B, C)
  <2>1. h \in [B -> C]
    BY <1>3
  <2> HIDE DEF h, B, C
  <2>2. QED
    BY <1>4, <1>5, <2>1 DEF Bijection, Injection, Surjection, IsInjective
<1> HIDE DEF h, B, C
<1>8. Cardinality(B) = Cardinality(C)
  BY <1>6, <1>7, FS_Bijection DEF ExistsBijection
<1>9. QED
  BY <1>6, <1>8 DEF g

-----------------------------------------------------------------------------
(* The procedures that run, and the frames each of them has: those of all  *)
(* but the last are what its callee has found.                             *)
Acts ==
    [proc : DOMAIN Code, how : {"call", "new", "method"}, image : Nat,
     defs : UNION {[N -> Nat] : N \in SUBSET STRING}, sections : Nat, temps : SUBSET Nat,
     this : Nat, to : STRING, base : Seq(Entry)]

FramesOf(A, f, i) == IF i = Len(A) THEN f ELSE A[i + 1].base

(* How the frames of activation a start, above those of its caller.        *)
ThisOf(a) == AliasOf("this", a.this, TRUE)

BegunCall(a, g) == a.how = "call" /\ Len(a.base) + 1 <= Len(g) /\ g[Len(a.base) + 1] = Boundary

BegunNew(a, g) ==
    /\ a.how = "new" /\ a.this # NoCell /\ Len(a.base) + 2 <= Len(g)
    /\ g[Len(a.base) + 1] = ThisOf(a) /\ g[Len(a.base) + 2] = Boundary

BegunMethod(a, g) ==
    /\ a.how = "method" /\ a.this # NoCell /\ Len(a.base) + 2 <= Len(g)
    /\ g[Len(a.base) + 1] = Boundary /\ g[Len(a.base) + 2] = ThisOf(a)
    /\ \E m \in (Len(a.base) + 3)..Len(g) : g[m] = Boundary

Begun(a, g) == BegunCall(a, g) \/ BegunNew(a, g) \/ BegunMethod(a, g)

(* Nothing else above them is a boundary. *)
Exact(a, g) ==
    \/ a.how = "call" /\ \A i \in (Len(a.base) + 2)..Len(g) : g[i] # Boundary
    \/ a.how = "new" /\ \A i \in (Len(a.base) + 3)..Len(g) : g[i] # Boundary
    \/ a.how = "method" /\ \E m \in (Len(a.base) + 3)..Len(g) :
           g[m] = Boundary /\ \A i \in (Len(a.base) + 2)..Len(g) : i # m => g[i] # Boundary

(* The registers are what a lookup by name finds. *)
Found(a, g) == \A n \in DOMAIN a.defs : LastNamed(g, 0, n, a.defs[n])

MethodCalls(A) == Cardinality({i \in DOMAIN A : A[i].how = "method"})

(* The entries named this are those the calls make. *)
ThisAt(a) == IF a.how = "new" THEN Len(a.base) + 1 ELSE Len(a.base) + 2

ThisPlaced(A, f) ==
    \A p \in 1..Len(f) : f[p] # Boundary /\ f[p].name = "this" =>
        \E j \in 1..Len(A) : A[j].how # "call" /\ p = ThisAt(A[j])

ActsOK(A) == A \in Seq(Acts) /\ Len(A) \in Nat \ {0} /\ A[1].how = "call"

Nested(A, f) == \A j \in 1..Len(A) : \A i \in 1..j : Begins(A[i].base, FramesOf(A, f, j))

AllBegun(A, f) == \A i \in 1..Len(A) : Begun(A[i], FramesOf(A, f, i))

Counted(A, f, l) == Boundaries(f) = Len(A) + MethodCalls(A) + l

AllTidy(A, f) == \A i \in 1..Len(A) : Exact(A[i], FramesOf(A, f, i)) /\ Found(A[i], FramesOf(A, f, i))

(* A program without closures, exceptions, and variables named this. *)
Names == STRING \ {"this"}

Plain ==
    /\ ~ Raising
    /\ \A d \in Defs : ~ Code[d[2]].closure /\ d[1] \in Names
    /\ Data \union Arguments \subseteq Names
    /\ \A d \in Instances : d[1] \in Names
    /\ \A c \in Copies : c[1] \in Names /\ c[2] \in Names
    /\ \A p \in DOMAIN Code : NamesOf(p, Names)

(* f: the frames on the stack; l: how many procedures exceptions have left. *)
FramesInv(A, f, l) ==
    /\ ActsOK(A) /\ FramesOK(f) /\ l \in Nat
    /\ Nested(A, f) /\ AllBegun(A, f) /\ Counted(A, f, l)
    /\ l = 0 => AllTidy(A, f)
    /\ l = 0 /\ Plain => ThisPlaced(A, f)

(* Activations of a list of them are some, each with the stack of its      *)
(* caller.                                                                 *)
LEMMA ActFacts ==
    ASSUME NEW A \in Seq(Acts), NEW i \in 1..Len(A)
    PROVE  A[i] \in Acts /\ FramesOK(A[i].base) /\ Len(A[i].base) \in Nat
<1>1. A[i] \in Acts
  BY ElementOfSeq
<1>2. FramesOK(A[i].base)
  BY <1>1 DEF Acts, FramesOK
<1>3. Len(A[i].base) \in Nat
  BY <1>2 DEF FramesOK
<1>4. QED
  BY <1>1, <1>2, <1>3

(* The frames an activation may have are a stack. *)
LEMMA FramesOfOK ==
    ASSUME NEW A \in Seq(Acts), NEW f, FramesOK(f), NEW i \in 1..Len(A)
    PROVE  FramesOK(FramesOf(A, f, i)) /\ Len(FramesOf(A, f, i)) \in Nat
<1>1. CASE i = Len(A)
  BY <1>1 DEF FramesOf, FramesOK
<1>2. CASE i # Len(A)
  <2>1. i + 1 \in 1..Len(A)
    BY <1>2
  <2>2. FramesOK(A[i + 1].base) /\ Len(A[i + 1].base) \in Nat
    BY <2>1, ActFacts
  <2>3. QED
    BY <1>2, <2>2 DEF FramesOf
<1>3. QED
  BY <1>1, <1>2

(* Two lists of activations that differ in what the frames do not show.    *)
Alike(A, B) ==
    /\ B \in Seq(Acts) /\ Len(B) = Len(A)
    /\ \A i \in 1..Len(A) : /\ B[i].how = A[i].how /\ B[i].base = A[i].base
                            /\ B[i].defs = A[i].defs /\ B[i].this = A[i].this

(* The invariant reads no more of activations than what Alike compares. *)
LEMMA AlikeInv ==
    ASSUME NEW A, NEW f, NEW l, FramesInv(A, f, l), NEW B, Alike(A, B)
    PROVE  FramesInv(B, f, l)
<1>1. ActsOK(B) /\ DOMAIN A = 1..Len(A) /\ DOMAIN B = 1..Len(B) /\ Len(A) \in Nat
  BY DEF FramesInv, ActsOK, Alike
<1>2. \A i \in 1..Len(A) : FramesOf(B, f, i) = FramesOf(A, f, i)
  <2>1. SUFFICES ASSUME NEW i \in 1..Len(A) PROVE FramesOf(B, f, i) = FramesOf(A, f, i)
    OBVIOUS
  <2>1a. Len(A) \in Nat /\ i \in Nat /\ 1 <= i /\ i <= Len(A)
    BY <1>1
  <2>2. i # Len(A) => i + 1 \in 1..Len(A)
    BY <2>1a
  <2>3. QED
    BY <2>2 DEF FramesOf, Alike
<1>3. Nested(B, f)
  BY <1>1, <1>2 DEF FramesInv, Nested, Alike
<1>4. AllBegun(B, f)
  <2>1. SUFFICES ASSUME NEW i \in 1..Len(A) PROVE Begun(B[i], FramesOf(A, f, i))
    BY <1>1, <1>2 DEF AllBegun, Alike
  <2>2. Begun(A[i], FramesOf(A, f, i))
    BY DEF FramesInv, AllBegun
  <2> DEFINE g == FramesOf(A, f, i)
  <2> HIDE DEF g
  <2>3. ASSUME NEW a, NEW b, b.how = a.how, b.base = a.base, b.this = a.this, Begun(a, g)
        PROVE  Begun(b, g)
    BY <2>3 DEF Begun, BegunCall, BegunNew, BegunMethod, ThisOf
  <2>4. QED
    BY <2>2, <2>3 DEF Alike, g
<1>5. MethodCalls(B) = MethodCalls(A)
  <2>1. {i \in DOMAIN B : B[i].how = "method"} = {i \in DOMAIN A : A[i].how = "method"}
    BY <1>1 DEF Alike
  <2>2. QED
    BY <2>1 DEF MethodCalls
<1>6. l = 0 => AllTidy(B, f)
  <2>1. SUFFICES ASSUME l = 0, NEW i \in 1..Len(A)
                 PROVE  Exact(B[i], FramesOf(A, f, i)) /\ Found(B[i], FramesOf(A, f, i))
    BY <1>1, <1>2 DEF AllTidy, Alike
  <2>2. Exact(A[i], FramesOf(A, f, i)) /\ Found(A[i], FramesOf(A, f, i))
    BY <2>1 DEF FramesInv, AllTidy
  <2>3. B[i].how = A[i].how /\ B[i].base = A[i].base /\ B[i].defs = A[i].defs
    BY DEF Alike
  <2> DEFINE g == FramesOf(A, f, i)
  <2> HIDE DEF g
  <2>4. ASSUME NEW a, NEW b, b.how = a.how, b.base = a.base, b.defs = a.defs, Exact(a, g), Found(a, g)
        PROVE  Exact(b, g) /\ Found(b, g)
    <3>1. Found(b, g)
      BY <2>4 DEF Found
    <3>2. Exact(b, g)
      BY <2>4 DEF Exact
    <3>3. QED
      BY <3>1, <3>2
  <2>5. QED
    BY <2>2, <2>3, <2>4 DEF g
<1>7. l = 0 /\ Plain => ThisPlaced(B, f)
  <2>1. SUFFICES ASSUME l = 0, Plain, NEW p \in 1..Len(f), f[p] # Boundary, f[p].name = "this"
                 PROVE  \E j \in 1..Len(B) : B[j].how # "call" /\ p = ThisAt(B[j])
    BY DEF ThisPlaced
  <2>2. ThisPlaced(A, f)
    BY <2>1 DEF FramesInv
  <2>3. PICK j \in 1..Len(A) : A[j].how # "call" /\ p = ThisAt(A[j])
    BY <2>1, <2>2 DEF ThisPlaced
  <2>4. j \in 1..Len(B) /\ B[j].how = A[j].how /\ B[j].base = A[j].base
    BY <2>3 DEF Alike
  <2>5. ThisAt(B[j]) = ThisAt(A[j])
    BY <2>4 DEF ThisAt
  <2>6. QED
    BY <2>3, <2>4, <2>5
<1>8. QED
  BY <1>1, <1>3, <1>4, <1>5, <1>6, <1>7 DEF FramesInv, Counted, Alike

-----------------------------------------------------------------------------
(* An entry is pushed while a procedure runs. *)
LEMMA BegunLonger ==
    ASSUME NEW a \in Acts, NEW f, FramesOK(f), Begun(a, f), NEW g, FramesOK(g), Begins(f, g)
    PROVE  Begun(a, g)
<1>1. Len(f) \in Nat /\ Len(g) \in Nat /\ Len(f) <= Len(g) /\ Len(a.base) \in Nat
  BY DEF FramesOK, Begins, Acts
<1>2. \A i \in 1..Len(f) : g[i] = f[i]
  BY DEF Begins
<1>3. CASE BegunCall(a, f)
  <2>1. Len(a.base) + 1 \in 1..Len(f)
    BY <1>1, <1>3 DEF BegunCall
  <2>2. BegunCall(a, g)
    BY <1>1, <1>2, <1>3, <2>1 DEF BegunCall
  <2>3. QED
    BY <2>2 DEF Begun
<1>4. CASE BegunNew(a, f)
  <2>1. Len(a.base) + 1 \in 1..Len(f) /\ Len(a.base) + 2 \in 1..Len(f)
    BY <1>1, <1>4 DEF BegunNew
  <2>2. BegunNew(a, g)
    BY <1>1, <1>2, <1>4, <2>1 DEF BegunNew
  <2>3. QED
    BY <2>2 DEF Begun
<1>5. CASE BegunMethod(a, f)
  <2>1. PICK m \in (Len(a.base) + 3)..Len(f) : f[m] = Boundary
    BY <1>5 DEF BegunMethod
  <2>2. m \in (Len(a.base) + 3)..Len(g) /\ g[m] = Boundary
    BY <1>1, <1>2, <2>1
  <2>3. Len(a.base) + 1 \in 1..Len(f) /\ Len(a.base) + 2 \in 1..Len(f)
    BY <1>1, <1>5 DEF BegunMethod
  <2>4. BegunMethod(a, g)
    BY <1>1, <1>2, <1>5, <2>2, <2>3 DEF BegunMethod
  <2>5. QED
    BY <2>4 DEF Begun
<1>6. QED
  BY <1>3, <1>4, <1>5 DEF Begun

(* A variable or an alias on top adds no boundary to a frame. *)
LEMMA ExactPushed ==
    ASSUME NEW a \in Acts, NEW f, FramesOK(f), Exact(a, f), NEW e \in Entry, e # Boundary
    PROVE  Exact(a, Append(f, e))
<1> DEFINE g == Append(f, e)
<1>1. Len(f) \in Nat /\ Len(g) = Len(f) + 1 /\ Len(a.base) \in Nat
  BY Appended DEF FramesOK, Acts
<1>2. (\A i \in 1..Len(f) : g[i] = f[i]) /\ g[Len(f) + 1] # Boundary
  BY Appended DEF Begins
<1> HIDE DEF g
<1>3. CASE a.how = "method"
  <2>1. PICK m \in (Len(a.base) + 3)..Len(f) :
           f[m] = Boundary /\ \A i \in (Len(a.base) + 2)..Len(f) : i # m => f[i] # Boundary
    BY <1>3 DEF Exact
  <2>2. m \in (Len(a.base) + 3)..Len(g) /\ g[m] = Boundary
    BY <1>1, <1>2, <2>1
  <2>3. ASSUME NEW i \in (Len(a.base) + 2)..Len(g), i # m PROVE g[i] # Boundary
    <3>1. CASE i = Len(f) + 1
      BY <1>2, <3>1
    <3>2. CASE i # Len(f) + 1
      <4>1. i \in (Len(a.base) + 2)..Len(f) /\ i \in 1..Len(f)
        BY <1>1, <3>2
      <4>2. QED
        BY <1>2, <2>1, <2>3, <4>1
    <3>3. QED
      BY <3>1, <3>2
  <2>4. QED
    BY <1>3, <2>2, <2>3 DEF Exact, g
<1>4. ASSUME NEW k \in {2, 3}, \A i \in (Len(a.base) + k)..Len(f) : f[i] # Boundary
      PROVE  \A i \in (Len(a.base) + k)..Len(g) : g[i] # Boundary
  BY <1>1, <1>2, <1>4
<1>5. CASE a.how # "method"
  BY <1>4, <1>5 DEF Exact, g
<1>6. QED
  BY <1>3, <1>5

(* A statement pushes an entry for a name that is no register of the       *)
(* running procedure.                                                      *)
LEMMA StepGrow ==
    ASSUME NEW A, NEW f, NEW l, FramesInv(A, f, l), NEW e \in Entry, e # Boundary,
           e.name \notin DOMAIN A[Len(A)].defs, Plain => e.name \in Names
    PROVE  FramesInv(A, Append(f, e), l)
<1> DEFINE g == Append(f, e)
           n == Len(A)
<1>1. n \in Nat \ {0} /\ A \in Seq(Acts) /\ FramesOK(f)
  BY DEF FramesInv, ActsOK
<1>2. FramesOK(g) /\ Begins(f, g) /\ Len(g) = Len(f) + 1 /\ g[Len(f) + 1] = e /\ Len(f) \in Nat
  BY <1>1, Appended DEF FramesOK
<1>3. Boundaries(g) = Boundaries(f)
  <2>1. Extends(f, g, {e.name})
    BY <1>1, Appended
  <2>2. QED
    BY <1>1, <1>2, <2>1, BoundariesExtends
<1> HIDE DEF g
<1>4. \A i \in 1..n : FramesOf(A, g, i) = IF i = n THEN g ELSE FramesOf(A, f, i)
  BY DEF FramesOf
<1>5. FramesOf(A, f, n) = f /\ n \in 1..n
  BY <1>1 DEF FramesOf
<1>6. Nested(A, g)
  <2>1. SUFFICES ASSUME NEW j \in 1..n, NEW i \in 1..j PROVE Begins(A[i].base, FramesOf(A, g, j))
    BY DEF Nested
  <2>2. Begins(A[i].base, FramesOf(A, f, j))
    BY DEF FramesInv, Nested
  <2>3. CASE j # n
    BY <1>4, <2>2, <2>3
  <2>4. CASE j = n
    <3>1. i \in 1..Len(A)
      BY <1>1, <2>4
    <3>2. FramesOK(A[i].base)
      BY <1>1, <3>1, ActFacts
    <3>3. Begins(A[i].base, g)
      BY <1>1, <1>2, <1>5, <2>2, <2>4, <3>2, ExtendsFacts
    <3>4. QED
      BY <1>4, <2>4, <3>3
  <2>5. QED
    BY <2>3, <2>4
<1>7. AllBegun(A, g)
  <2>1. SUFFICES ASSUME NEW i \in 1..n PROVE Begun(A[i], FramesOf(A, g, i))
    BY DEF AllBegun
  <2>2. Begun(A[i], FramesOf(A, f, i)) /\ A[i] \in Acts
    BY <1>1, ActFacts DEF FramesInv, AllBegun
  <2>3. CASE i # n
    BY <1>4, <2>2, <2>3
  <2>4. CASE i = n
    BY <1>1, <1>2, <1>4, <1>5, <2>2, <2>4, BegunLonger
  <2>5. QED
    BY <2>3, <2>4
<1>8. ASSUME l = 0 PROVE AllTidy(A, g)
  <2>1. SUFFICES ASSUME NEW i \in 1..n
        PROVE  Exact(A[i], FramesOf(A, g, i)) /\ Found(A[i], FramesOf(A, g, i))
    BY DEF AllTidy
  <2>2. Exact(A[i], FramesOf(A, f, i)) /\ Found(A[i], FramesOf(A, f, i)) /\ A[i] \in Acts
    BY <1>1, <1>8, ActFacts DEF FramesInv, AllTidy
  <2>3. CASE i # n
    BY <1>4, <2>2, <2>3
  <2>4. CASE i = n
    <3>1. Exact(A[i], g)
      BY <1>1, <1>5, <2>2, <2>4, ExactPushed DEF g
    <3>2. ASSUME NEW m \in DOMAIN A[i].defs PROVE LastNamed(g, 0, m, A[i].defs[m])
      <4>1. LastNamed(f, 0, m, A[i].defs[m]) /\ m # e.name
        BY <1>5, <2>2, <2>4 DEF Found
      <4>2. 0 \in Nat /\ 0 <= Len(f)
        BY <1>2
      <4>3. QED
        BY <1>1, <4>1, <4>2, LastNamedPushed DEF g
    <3>3. QED
      BY <1>4, <2>4, <3>1, <3>2 DEF Found
  <2>5. QED
    BY <2>3, <2>4
<1>9. ASSUME l = 0, Plain PROVE ThisPlaced(A, g)
  <2>1. SUFFICES ASSUME NEW p \in 1..Len(g), g[p] # Boundary, g[p].name = "this"
        PROVE  \E j \in 1..n : A[j].how # "call" /\ p = ThisAt(A[j])
    BY DEF ThisPlaced
  <2>2. p # Len(f) + 1
    BY <1>2, <1>9, <2>1 DEF Names
  <2>3. p \in 1..Len(f)
    BY <1>2, <2>2
  <2>4. f[p] = g[p]
    BY <1>2, <2>3 DEF Begins
  <2>5. QED
    BY <1>9, <2>1, <2>3, <2>4 DEF FramesInv, ThisPlaced
<1>10. QED
  BY <1>2, <1>3, <1>6, <1>7, <1>8, <1>9 DEF FramesInv, Counted, g

-----------------------------------------------------------------------------
(* A procedure is called. *)
MethodIndices(A) == {i \in DOMAIN A : A[i].how = "method"}

(* Finitely many activations are methods. *)
LEMMA MethodsFinite ==
    ASSUME NEW A \in Seq(Acts)
    PROVE  IsFiniteSet(MethodIndices(A)) /\ MethodCalls(A) \in Nat
<1>1. Len(A) \in Nat /\ MethodIndices(A) \subseteq 1..Len(A)
  BY DEF MethodIndices
<1>2. IsFiniteSet(1..Len(A))
  BY <1>1, FS_Interval
<1>2a. IsFiniteSet(MethodIndices(A))
  BY <1>1, <1>2, FS_Subset
<1>3. QED
  BY <1>2a, FS_CardinalityType DEF MethodCalls, MethodIndices

(* One more call is one more method call, if it is one. *)
LEMMA MethodsAppend ==
    ASSUME NEW A \in Seq(Acts), NEW a \in Acts
    PROVE  MethodCalls(Append(A, a)) = MethodCalls(A) + (IF a.how = "method" THEN 1 ELSE 0)
<1> DEFINE B == Append(A, a)
           M == MethodIndices(A)
           n == Len(A) + 1
<1>1. /\ Len(A) \in Nat /\ B \in Seq(Acts) /\ Len(B) = n /\ B[n] = a
      /\ \A i \in 1..Len(A) : B[i] = A[i]
      /\ DOMAIN A = 1..Len(A) /\ DOMAIN B = 1..n
  BY AppendProperties
<1> HIDE DEF B
<1>2. MethodIndices(B) = IF a.how = "method" THEN M \union {n} ELSE M
  BY <1>1 DEF MethodIndices
<1>3a. n \notin M
  BY <1>1 DEF MethodIndices
<1>3. IsFiniteSet(M) /\ MethodCalls(A) = Cardinality(M) /\ Cardinality(M) \in Nat
  BY MethodsFinite DEF MethodCalls, MethodIndices
<1>3b. MethodCalls(B) = Cardinality(MethodIndices(B))
  BY DEF MethodCalls, MethodIndices
<1> HIDE DEF M, n
<1>4. Cardinality(M \union {n}) = Cardinality(M) + 1
  BY <1>3a, <1>3, FS_AddElement
<1>5. QED
  BY <1>2, <1>3, <1>3b, <1>4 DEF B

Called(a, f, g) ==
    /\ FramesOK(g) /\ Begins(f, g) /\ Begun(a, g) /\ Exact(a, g) /\ Found(a, g)
    /\ Boundaries(g) = Boundaries(f) + (IF a.how = "method" THEN 2 ELSE 1)
    /\ Plain => \A p \in (Len(f) + 1)..Len(g) :
          g[p] # Boundary /\ g[p].name = "this" => a.how # "call" /\ p = ThisAt(a)

(* A call: one more activation, with its frames on top of those of the     *)
(* caller.                                                                 *)
LEMMA StepCall ==
    ASSUME NEW A, NEW f, NEW l, FramesInv(A, f, l), NEW a \in Acts, a.base = f,
           NEW g, Called(a, f, g)
    PROVE  FramesInv(Append(A, a), g, l)
<1> DEFINE B == Append(A, a)
           n == Len(A)
<1>1. n \in Nat \ {0} /\ A \in Seq(Acts) /\ FramesOK(f) /\ Len(f) \in Nat /\ A[1].how = "call"
  BY DEF FramesInv, ActsOK, FramesOK
<1>2. B \in Seq(Acts) /\ Len(B) = n + 1 /\ B[n + 1] = a /\ \A i \in 1..n : B[i] = A[i]
  BY <1>1, AppendProperties
<1>3. MethodCalls(B) = MethodCalls(A) + (IF a.how = "method" THEN 1 ELSE 0) /\ MethodCalls(A) \in Nat
  BY <1>1, MethodsAppend, MethodsFinite
<1> HIDE DEF B
<1>4. ActsOK(B)
  BY <1>1, <1>2 DEF ActsOK
<1>5. FramesOf(B, g, n + 1) = g /\ \A i \in 1..n : FramesOf(B, g, i) = FramesOf(A, f, i)
  <2>1. ASSUME NEW i \in 1..n PROVE FramesOf(B, g, i) = FramesOf(A, f, i)
    <3>1. i # n + 1 /\ (i # n => i + 1 \in 1..n)
      BY <1>1
    <3>2. QED
      BY <1>2, <3>1 DEF FramesOf
  <2>2. QED
    BY <1>2, <2>1 DEF FramesOf
<1>6. Nested(B, g)
  <2>1. SUFFICES ASSUME NEW j \in 1..(n + 1), NEW i \in 1..j
        PROVE  Begins(B[i].base, FramesOf(B, g, j))
    BY <1>2 DEF Nested
  <2>2. CASE j # n + 1
    <3>1. j \in 1..n /\ i \in 1..n
      BY <1>1, <2>2
    <3>2. QED
      BY <1>2, <1>5, <3>1 DEF FramesInv, Nested
  <2>3. CASE j = n + 1
    <3>1. CASE i = n + 1
      BY <1>2, <1>5, <2>3, <3>1 DEF Called
    <3>2. CASE i # n + 1
      <4>1. i \in 1..n /\ n \in 1..n
        BY <1>1, <2>3, <3>2
      <4>2. Begins(A[i].base, f)
        BY <4>1 DEF FramesInv, Nested, FramesOf
      <4>3. FramesOK(A[i].base)
        BY <1>1, <4>1, ActFacts
      <4>4. Begins(A[i].base, g)
        BY <1>1, <4>2, <4>3, ExtendsFacts DEF Called
      <4>5. QED
        BY <1>2, <1>5, <2>3, <4>1, <4>4
    <3>3. QED
      BY <3>1, <3>2
  <2>4. QED
    BY <2>2, <2>3
<1>7. ASSUME NEW i \in 1..(n + 1), i # n + 1
      PROVE  i \in 1..n
  BY <1>1, <1>7
<1>8. AllBegun(B, g)
  BY <1>2, <1>5, <1>7 DEF FramesInv, AllBegun, Called
<1>9. ASSUME l = 0 PROVE AllTidy(B, g)
  BY <1>2, <1>5, <1>7, <1>9 DEF FramesInv, AllTidy, Called
<1>10. ASSUME l = 0, Plain PROVE ThisPlaced(B, g)
  <2>1. SUFFICES ASSUME NEW p \in 1..Len(g), g[p] # Boundary, g[p].name = "this"
        PROVE  \E j \in 1..(n + 1) : B[j].how # "call" /\ p = ThisAt(B[j])
    BY <1>2 DEF ThisPlaced
  <2>2. CASE p \in 1..Len(f)
    <3>1. f[p] = g[p]
      BY <2>2 DEF Called, Begins
    <3>2. PICK j \in 1..n : A[j].how # "call" /\ p = ThisAt(A[j])
      BY <1>10, <2>1, <2>2, <3>1 DEF FramesInv, ThisPlaced
    <3>3. j \in 1..(n + 1)
      BY <1>1
    <3>4. QED
      BY <1>2, <3>2, <3>3
  <2>3. CASE p \notin 1..Len(f)
    <3>1. p \in (Len(f) + 1)..Len(g) /\ n + 1 \in 1..(n + 1)
      BY <1>1, <2>3
    <3>2. a.how # "call" /\ p = ThisAt(a)
      BY <1>10, <2>1, <3>1 DEF Called
    <3>3. QED
      BY <1>2, <3>1, <3>2
  <2>4. QED
    BY <2>2, <2>3
<1>11. Counted(B, g, l)
  <2>1. Boundaries(f) = n + MethodCalls(A) + l /\ l \in Nat
    BY DEF FramesInv, Counted
  <2>2. Boundaries(g) = Boundaries(f) + (IF a.how = "method" THEN 2 ELSE 1)
    BY DEF Called
  <2>3. n \in Nat /\ MethodCalls(A) \in Nat
    BY <1>1, <1>3
  <2>4. \E more \in {0, 1} : MethodCalls(B) = MethodCalls(A) + more
                             /\ Boundaries(g) = Boundaries(f) + (more + 1)
    BY <1>3, <2>2
  <2>5. Boundaries(g) = (n + 1) + MethodCalls(B) + l
    BY <2>1, <2>3, <2>4
  <2>6. QED
    BY <1>2, <2>5 DEF Counted
<1>12. QED
  BY <1>4, <1>6, <1>8, <1>9, <1>10, <1>11 DEF FramesInv, Called, B

-----------------------------------------------------------------------------
(* Procedures return, or an exception leaves them. *)
LEMMA BasesGrow ==
    ASSUME NEW A \in Seq(Acts), NEW f, Nested(A, f), NEW j \in 1..Len(A), NEW i \in 1..j
    PROVE  Len(A[i].base) <= Len(A[j].base)
<1>1. Len(A) \in Nat
  OBVIOUS
<1>2. CASE i = j
  <2>1. Len(A[j].base) \in Nat
    BY ActFacts
  <2>2. QED
    BY <1>2, <2>1
<1>3. CASE i # j
  <2>1. j - 1 \in 1..Len(A) /\ i \in 1..(j - 1) /\ j - 1 # Len(A) /\ (j - 1) + 1 = j
    BY <1>1, <1>3
  <2>2. Begins(A[i].base, FramesOf(A, f, j - 1))
    BY <2>1 DEF Nested
  <2>3. FramesOf(A, f, j - 1) = A[j].base
    BY <2>1 DEF FramesOf
  <2>4. QED
    BY <2>2, <2>3 DEF Begins
<1>4. QED
  BY <1>2, <1>3

(* Activations above number k are left: their frames go, or, when an       *)
(* exception leaves them, some of them stay.                               *)
LEMMA StepCut ==
    ASSUME NEW A, NEW f, NEW l, FramesInv(A, f, l), NEW k \in 1..Len(A),
           NEW g, FramesOK(g), Begins(FramesOf(A, f, k), g), NEW l2 \in Nat,
           Boundaries(g) = k + MethodCalls(SubSeq(A, 1, k)) + l2,
           l2 = 0 => l = 0 /\ g = FramesOf(A, f, k)
    PROVE  FramesInv(SubSeq(A, 1, k), g, l2)
<1> DEFINE B == SubSeq(A, 1, k)
           n == Len(A)
           h == FramesOf(A, f, k)
<1>1. n \in Nat \ {0} /\ A \in Seq(Acts) /\ FramesOK(f) /\ Len(f) \in Nat /\ A[1].how = "call"
  BY DEF FramesInv, ActsOK, FramesOK
<1>2. B \in Seq(Acts) /\ Len(B) = k /\ \A i \in 1..k : B[i] = A[i] /\ i \in 1..n
  BY <1>1, SubSeqProperties
<1> HIDE DEF B
<1>3. ActsOK(B)
  BY <1>1, <1>2 DEF ActsOK
<1>4. FramesOf(B, g, k) = g /\ \A i \in 1..k : i # k => FramesOf(B, g, i) = FramesOf(A, f, i)
  <2>1. ASSUME NEW i \in 1..k, i # k PROVE FramesOf(B, g, i) = FramesOf(A, f, i)
    <3>1. i # n /\ i + 1 \in 1..k
      BY <1>1, <2>1
    <3>2. QED
      BY <1>2, <2>1, <3>1 DEF FramesOf
  <2>2. QED
    BY <1>2, <2>1 DEF FramesOf
<1>5. FramesOK(h)
  BY <1>1, FramesOfOK
<1>6. Nested(B, g)
  <2>1. SUFFICES ASSUME NEW j \in 1..k, NEW i \in 1..j
        PROVE  Begins(B[i].base, FramesOf(B, g, j))
    BY <1>2 DEF Nested
  <2>2. i \in 1..k /\ j \in 1..n /\ i \in 1..n
    BY <1>1
  <2>3. Begins(A[i].base, FramesOf(A, f, j)) /\ B[i].base = A[i].base /\ FramesOK(A[i].base)
    BY <1>1, <1>2, <2>2, ActFacts DEF FramesInv, Nested
  <2>4. CASE j # k
    BY <1>4, <2>3, <2>4
  <2>5. CASE j = k
    <3>1. Begins(A[i].base, h)
      BY <2>3, <2>5
    <3>2. Begins(A[i].base, g)
      BY <1>5, <2>3, <3>1, ExtendsFacts
    <3>3. QED
      BY <1>4, <2>3, <2>5, <3>2
  <2>6. QED
    BY <2>4, <2>5
<1>7. AllBegun(B, g)
  <2>1. SUFFICES ASSUME NEW i \in 1..k PROVE Begun(B[i], FramesOf(B, g, i))
    BY <1>2 DEF AllBegun
  <2>2. Begun(A[i], FramesOf(A, f, i)) /\ A[i] \in Acts /\ B[i] = A[i]
    BY <1>1, <1>2, ActFacts DEF FramesInv, AllBegun
  <2>3. CASE i # k
    BY <1>4, <2>2, <2>3
  <2>4. CASE i = k
    BY <1>4, <1>5, <2>2, <2>4, BegunLonger
  <2>5. QED
    BY <2>3, <2>4
<1>8. ASSUME l2 = 0 PROVE AllTidy(B, g)
  <2>1. SUFFICES ASSUME NEW i \in 1..k
        PROVE  Exact(B[i], FramesOf(B, g, i)) /\ Found(B[i], FramesOf(B, g, i))
    BY <1>2 DEF AllTidy
  <2>2. FramesOf(B, g, i) = FramesOf(A, f, i) /\ B[i] = A[i] /\ i \in 1..n
    BY <1>2, <1>4, <1>8
  <2>3. QED
    BY <1>8, <2>2 DEF FramesInv, AllTidy
<1>9. ASSUME l2 = 0, Plain PROVE ThisPlaced(B, g)
  <2>1. SUFFICES ASSUME NEW p \in 1..Len(g), g[p] # Boundary, g[p].name = "this"
        PROVE  \E j \in 1..k : B[j].how # "call" /\ p = ThisAt(B[j])
    BY <1>2 DEF ThisPlaced
  <2>2. ThisPlaced(A, f) /\ g = h
    BY <1>9 DEF FramesInv
  <2>3. CASE k = n
    <3>1. g = f
      BY <2>2, <2>3 DEF FramesOf
    <3>2. QED
      BY <1>2, <2>1, <2>2, <2>3, <3>1 DEF ThisPlaced
  <2>4. CASE k # n
    <3>1. k + 1 \in 1..n /\ n \in 1..n /\ k + 1 \in 1..n
      BY <1>1, <2>4
    <3>2. g = A[k + 1].base
      BY <2>2, <2>4 DEF FramesOf
    <3>3. Begins(g, f)
      BY <3>1, <3>2 DEF FramesInv, Nested, FramesOf
    <3>4. p \in 1..Len(f) /\ f[p] = g[p] /\ Len(g) \in Nat
      BY <1>1, <3>3 DEF Begins, FramesOK
    <3>5. PICK j \in 1..n : A[j].how # "call" /\ p = ThisAt(A[j])
      BY <2>1, <2>2, <3>4 DEF ThisPlaced
    <3>6. ASSUME k + 1 <= j PROVE FALSE
      <4>1. k + 1 \in 1..j
        BY <1>1, <3>6
      <4>2. Len(g) <= Len(A[j].base)
        BY <1>1, <3>2, <4>1, BasesGrow DEF FramesInv
      <4>3. Len(A[j].base) \in Nat
        BY <1>1, ActFacts
      <4>4. QED
        BY <3>4, <3>5, <4>2, <4>3 DEF ThisAt
    <3>7. j \in 1..k
      BY <1>1, <3>6
    <3>8. QED
      BY <1>2, <3>5, <3>7
  <2>5. QED
    BY <2>3, <2>4
<1>10. QED
  BY <1>2, <1>3, <1>6, <1>7, <1>8, <1>9 DEF FramesInv, Counted, B

-----------------------------------------------------------------------------
(* What the operations a statement is made of do to the store. *)
Kinds ==
    [procs |-> {o \in [kind : {"proc"}, proc : DOMAIN Code, image : Nat] : Plain => o.image = Om},
     names |-> IF Plain THEN Names ELSE STRING, classes |-> Instances # {}]

OK(s) == Shape(s, Kinds)

(* The names of the program are among those stack entries and members may  *)
(* have.                                                                   *)
LEMMA ProgramNames ==
    /\ \A p \in DOMAIN Code : NamesOf(p, Kinds.names)
    /\ Data \union Arguments \subseteq Kinds.names
    /\ \A d \in Defs \union Instances : d[1] \in Kinds.names /\ d[2] \in DOMAIN Code
    /\ \A c \in Copies : c[1] \in Kinds.names /\ c[2] \in Kinds.names
    /\ Kinds.names \subseteq STRING
    /\ Plain => Kinds.names = Names
<1>1. CASE Plain
  <2>1. Kinds.names = Names
    BY <1>1 DEF Kinds
  <2>2. QED
    BY <1>1, <2>1, NamesAssumption DEF NamesAssumption, Plain, Names
<1>2. CASE ~ Plain
  <2>1. Kinds.names = STRING
    BY <1>2 DEF Kinds
  <2>2. \A p \in DOMAIN Code : NamesOf(p, STRING)
    BY CodeAssumption DEF CodeAssumption, NamesOf
  <2>3. QED
    BY <1>2, <2>1, <2>2, NamesAssumption DEF NamesAssumption
<1>3. QED
  BY <1>1, <1>2

(* An assignment leaves the stack as it is. *)
LEMMA PutSame ==
    ASSUME NEW K, NEW s, Shape(s, K), NEW c, NEW v
    PROVE  Same(s, Put(s, c, v), K)
<1>1. Same(s, Invalidate(s, s.cells[c]), K)
  BY InvalidateSame DEF Invalidate
<1>2. Put(s, c, v) = SetCell(<<Invalidate(s, s.cells[c]), c>>, v)
  BY DEF Put, SetCell
<1>3. QED
  BY <1>1, <1>2, SetCellSame

(* Freeing registers leaves the stack and the objects as they are. *)
LEMMA DropSame ==
    ASSUME NEW K, NEW s, Shape(s, K), NEW cells
    PROVE  Same(s, Drop(s, cells), K) /\ Drop(s, cells).objs = s.objs
<1>1. Fields(Drop(s, cells), s.frames, Without(s.cells, cells), s.objs)
  BY Updates DEF Drop, Shape
<1>2. CellsOK(Without(s.cells, cells))
  BY CellsWithout DEF Shape
<1>3. QED
  BY <1>1, <1>2 DEF Same, Shape, Fields

(* A new object leaves the stack as it is, and objects of classes there. *)
LEMMA AllocSame ==
    ASSUME NEW K, NEW s, Shape(s, K), NEW obj, ObjOK(obj, K)
    PROVE  /\ Same(s, Alloc(s, obj)[1], K) /\ Alloc(s, obj)[2] \in Slots
           /\ \A r : IsObject(s, r) => IsObject(Alloc(s, obj)[1], r)
<1>1. PICK r \in Slots :
         /\ r \notin DOMAIN s.objs /\ Alloc(s, obj)[2] = r
         /\ Fields(Alloc(s, obj)[1], s.frames, s.cells, With(s.objs, r, obj))
         /\ Shape(Alloc(s, obj)[1], K)
  BY AllocFacts
<1>2. ASSUME NEW q, IsObject(s, q) PROVE IsObject(Alloc(s, obj)[1], q)
  <2>1. q \in DOMAIN s.objs /\ q # r
    BY <1>1, <1>2 DEF IsObject
  <2>2. With(s.objs, r, obj)[q] = s.objs[q] /\ q \in DOMAIN With(s.objs, r, obj)
    BY <2>1 DEF With
  <2>3. QED
    BY <1>1, <1>2, <2>2 DEF IsObject, Fields
<1>3. QED
  BY <1>1, <1>2 DEF Same, Fields

(* Lists are objects. *)
LEMMA ListsOK ==
    ASSUME NEW K, NEW v
    PROVE  ObjOK(List(v), K) /\ ObjOK(NewList, K)
  BY DEF ObjOK, List, NewList

(* Finding or adding a member leaves the stack as it is. *)
LEMMA MemberSame ==
    ASSUME NEW K, NEW s, Shape(s, K), NEW r, IsObject(s, r), NEW n \in K.names
    PROVE  /\ Same(s, Member(s, r, n)[1], K) /\ IsObject(Member(s, r, n)[1], r)
           /\ Member(s, r, n)[2] \in Nat
<1>1. CASE n \in DOMAIN s.objs[r].members
  <2>1. ObjOK(s.objs[r], K)
    BY DEF Shape, ObjsOK, IsObject
  <2>2. s.objs[r].members[n] \in Nat
    BY <1>1, <2>1 DEF ObjOK, IsObject
  <2>3. QED
    BY <1>1, <2>2 DEF Member, Same
<1>2. CASE n \notin DOMAIN s.objs[r].members
  BY <1>2, ObjectAddFacts DEF Member, Slots
<1>3. QED
  BY <1>1, <1>2

(* An entry for a name the procedure has no slot of is pushed, or none. *)
Moved(a, s, t) ==
    /\ OK(t)
    /\ \/ t.frames = s.frames
       \/ \E e \in Entry : /\ t.frames = Append(s.frames, e) /\ e # Boundary
                           /\ e.name \in Kinds.names \ DOMAIN a.defs

(* What leaves the stack as it is moves it no further. *)
LEMMA MovedSame ==
    ASSUME NEW a, NEW s, NEW t, Moved(a, s, t), NEW u, Same(t, u, Kinds)
    PROVE  Moved(a, s, u)
  BY DEF Moved, Same, OK

(* Resolving a name pushes a variable at most, which holds om unless the   *)
(* name was found.                                                         *)
LEMMA ResolveMoved ==
    ASSUME NEW s, OK(s), Top \in Acts, NEW n \in STRING
    PROVE  /\ n \in Kinds.names => Moved(Top, s, Resolve(s, n)[1])
           /\ Resolve(s, n)[2] \in Nat /\ Resolve(s, n)[1].objs = s.objs
           /\ \A kind : IsKind(Resolve(s, n)[1], Resolve(s, n)[2], kind) /\ kind # "om"
                        => Resolve(s, n)[1] = s
<1>1. CASE n \in DOMAIN Top.defs
  <2>1. Resolve(s, n) = <<s, Top.defs[n]>>
    BY <1>1 DEF Resolve
  <2>2. Top.defs[n] \in Nat
    <3>1. PICK N \in SUBSET STRING : Top.defs \in [N -> Nat]
      BY DEF Acts
    <3>2. QED
      BY <1>1, <3>1
  <2>3. QED
    BY <2>1, <2>2 DEF Moved
<1>2. CASE n \notin DOMAIN Top.defs
  <2>a. Resolve(s, n) = GetOrNew(s, n)
    BY <1>2 DEF Resolve
  <2>0. Resolve(s, n) = GetOrNew(s, n) /\ n \in STRING
    BY <2>a
  <2>1. CASE Get(s, n) # NoCell
    <3>1. GetOrNew(s, n)[1] = s
      BY <2>1 DEF GetOrNew
    <3>2. GetOrNew(s, n)[2] \in Nat
      BY <2>0, GetOrNewFacts DEF OK
    <3>3. QED
      BY <2>0, <3>1, <3>2 DEF Moved
  <2>2. CASE Get(s, n) = NoCell
    <3> DEFINE box == NewCell(s, Om)
               c == box[2]
               t == PushVariable(box, n)[1]
               e == Variable(n, c)
    <3>1. /\ c \in Slots /\ Fields(box[1], s.frames, With(s.cells, c, Om), s.objs)
          /\ OK(box[1])
      BY NewCellFacts DEF OK
    <3>2. GetOrNew(s, n) = PushVariable(box, n)
      BY <2>2 DEF GetOrNew, Add, Inherited, Boxed
    <3>3. Fields(t, Append(s.frames, e), With(s.cells, c, Om), s.objs)
      <4>1. t = [box[1] EXCEPT !.frames = Append(box[1].frames, e)]
        BY DEF PushVariable
      <4> HIDE DEF t, box, e
      <4>2. IsStore(box[1])
        BY <3>1 DEF Fields
      <4>3. Fields(t, Append(box[1].frames, e), box[1].cells, box[1].objs)
        BY <4>1, <4>2, Updates
      <4>4. QED
        BY <3>1, <4>3 DEF Fields
    <3>4. PushVariable(box, n)[2] = c /\ OK(t)
      BY <2>0, <3>1, PushVariablePushed DEF Pushed, OK, Slots
    <3> HIDE DEF box, c, t
    <3>5. e \in Entry /\ e # Boundary /\ e.name = n
      BY <2>0, <3>1, EntryFacts DEF Slots
    <3> HIDE DEF e
    <3>6. n \in Kinds.names => Moved(Top, s, t)
      BY <1>2, <3>3, <3>4, <3>5 DEF Moved, Fields
    <3>7. Kind(t, t.cells[c]) = "om"
      <4>1. t.cells[c] = Om /\ Om \notin DOMAIN t.objs
        <5>1. With(s.cells, c, Om)[c] = Om
          BY DEF With
        <5>2. DOMAIN t.objs \subseteq Slots
          BY <3>4 DEF OK, Shape, ObjsOK
        <5>3. QED
          BY <3>3, <5>1, <5>2 DEF Fields, Slots, Om
      <4>2. QED
        BY <4>1 DEF Kind
    <3>8. Resolve(s, n)[1] = t /\ Resolve(s, n)[2] = c /\ t.objs = s.objs
      BY <2>0, <3>2, <3>3, <3>4 DEF t, Fields
    <3>9. QED
      BY <3>1, <3>6, <3>7, <3>8 DEF IsKind, Slots
  <2>3. QED
    BY <2>1, <2>2
<1>3. QED
  BY <1>1, <1>2

(* The loop over the members of an object. *)
AliasStep(env, m, acc) == Alias(acc, m, env[2][m], TRUE)

AliasesSoFar(env, D, acc) == Grows(env[1], acc, env[3])

AliasFold == INSTANCE Folding WITH Op <- AliasStep, Pick <- Chosen, Good <- AliasesSoFar

(* The aliases for members are names of members on top of the stack. *)
LEMMA MemberAliasesGrows ==
    ASSUME NEW K, NEW s, Shape(s, K), NEW r, IsObject(s, r)
    PROVE  Grows(s, MemberAliases(s, r), K)
<1> DEFINE members == s.objs[r].members
           env == <<s, members, K>>
           S == DOMAIN members
<1>1. MemberAliases(s, r) = AliasFold!Fold(env, s, S)
  BY DEF MemberAliases, FoldSet, MapThenFoldSet, AliasStep, Chosen, AliasFold!Fold, AliasFold!Equation
<1>2. NamesMap(members) /\ S \subseteq K.names /\ \A n \in S : members[n] \in Nat
  BY DEF Shape, ObjsOK, IsObject, ObjOK
<1>3. AliasFold!IsFiniteSet(S)
  BY <1>2 DEF NamesMap, IsFiniteSet, AliasFold!IsFiniteSet
<1>4. \A D \in SUBSET S : D # {} => Chosen(env, D) \in D
  BY DEF Chosen
<1>5. AliasesSoFar(env, {}, s)
  BY Grown DEF AliasesSoFar
<1>6. ASSUME NEW D \in SUBSET S, D # {}, NEW q, AliasesSoFar(env, D \ {Chosen(env, D)}, q)
      PROVE  AliasesSoFar(env, D, AliasStep(env, Chosen(env, D), q))
  <2> DEFINE n == Chosen(env, D)
             c == members[n]
             e == AliasOf(n, c, TRUE)
  <2>1. n \in K.names /\ n \in STRING /\ c \in Nat
    BY <1>2, <1>4, <1>6 DEF NamesMap
  <2>2. Grows(s, q, K) /\ Shape(q, K)
    BY <1>6 DEF AliasesSoFar, Grows
  <2>3. AliasStep(env, n, q) = Alias(q, n, c, TRUE)
    BY DEF AliasStep
  <2> HIDE DEF n, c, env
  <2>4. Pushed(q, Alias(q, n, c, TRUE), e, K)
    BY <2>1, <2>2, AliasPushed
  <2>5. e \in Entry /\ e # Boundary /\ e.name = n
    BY <2>1, EntryFacts
  <2> HIDE DEF e
  <2>6. Grows(q, Alias(q, n, c, TRUE), K)
    BY <2>1, <2>2, <2>4, <2>5, PushedGrows
  <2>7. Grows(s, Alias(q, n, c, TRUE), K)
    BY <2>2, <2>6, Grown
  <2>8. QED
    BY <2>3, <2>7 DEF AliasesSoFar, env, n
<1> HIDE DEF env, S
<1>7. AliasesSoFar(env, S, AliasFold!Fold(env, s, S))
  BY <1>3, <1>4, <1>5, <1>6, AliasFold!FoldKeeps
<1>8. QED
  BY <1>1, <1>7 DEF AliasesSoFar, env

-----------------------------------------------------------------------------
(* The frames a call makes. *)
LEMMA MovedInv ==
    ASSUME NEW A, NEW l, NEW s, FramesInv(A, s.frames, l), NEW t, Moved(A[Len(A)], s, t)
    PROVE  FramesInv(A, t.frames, l)
<1>1. CASE t.frames = s.frames
  BY <1>1
<1>2. CASE t.frames # s.frames
  <2>1. PICK e \in Entry : /\ t.frames = Append(s.frames, e) /\ e # Boundary
                           /\ e.name \in Kinds.names \ DOMAIN A[Len(A)].defs
    BY <1>2 DEF Moved
  <2>2. Plain => e.name \in Names
    BY <2>1, ProgramNames
  <2>3. QED
    BY <2>1, <2>2, StepGrow
<1>3. QED
  BY <1>1, <1>2

(* What is the last of its name above a position is the last of all. *)
LEMMA FoundAbove ==
    ASSUME NEW f, NEW b \in Nat, NEW n, NEW c, LastNamed(f, b, n, c), Len(f) \in Nat
    PROVE  LastNamed(f, 0, n, c)
  BY DEF LastNamed

(* f: the frames of the caller; h: with what the call adds before it       *)
(* enters the procedure; g: when the procedure starts.                     *)
LEMMA EnteredCalled ==
    ASSUME NEW a \in Acts, NEW f, a.base = f, NEW s, OK(s), NEW result, Entered(s, result, Kinds),
           a.defs = result[2],
           \/ a.how = "call" /\ s.frames = f
           \/ a.how = "new" /\ a.this # NoCell /\ s.frames = Append(f, ThisOf(a))
           \/ /\ a.how = "method" /\ a.this # NoCell
              /\ Extends(Append(Append(f, Boundary), ThisOf(a)), s.frames, Kinds.names)
    PROVE  Called(a, f, result[1].frames)
<1> DEFINE h == s.frames
           k == Append(h, Boundary)
           g == result[1].frames
           b == Len(f)
           f1 == Append(f, Boundary)
           f2 == Append(f1, ThisOf(a))
<1>1. FramesOK(f) /\ FramesOK(h) /\ FramesOK(g) /\ b \in Nat /\ Len(h) \in Nat /\ Len(g) \in Nat
  BY DEF Acts, FramesOK, OK, Shape, Entered
<1>2. Boundary \in Entry /\ ThisOf(a) \in Entry /\ ThisOf(a) # Boundary /\ ThisOf(a).name = "this"
  <2>1. a.this \in Nat
    BY DEF Acts
  <2>2. "this" \in STRING
    BY NamesAssumption DEF NamesAssumption
  <2>3. QED
    BY <2>1, <2>2, EntryFacts DEF ThisOf
<1>3. /\ FramesOK(k) /\ Len(k) = Len(h) + 1 /\ k[Len(h) + 1] = Boundary
      /\ \A i \in 1..Len(h) : k[i] = h[i]
  BY <1>1, <1>2, Appended DEF Begins
<1>4. Boundaries(k) = Boundaries(h) + 1
  BY <1>1, BoundariesAppend
<1>5. Extends(k, g, Kinds.names)
  BY DEF Entered
<1>6. Boundaries(g) = Boundaries(k)
  BY <1>1, <1>3, <1>5, BoundariesExtends
<1> HIDE DEF k
<1>7. /\ Len(h) + 1 <= Len(g) /\ g[Len(h) + 1] = Boundary /\ \A i \in 1..Len(h) : g[i] = h[i]
      /\ \A i \in (Len(h) + 2)..Len(g) : g[i] # Boundary /\ g[i].name \in Kinds.names
  <2>1. (Len(h) + 1) \in 1..Len(k) /\ \A i \in 1..Len(h) : i \in 1..Len(k)
    BY <1>1, <1>3
  <2>2. Len(k) <= Len(g) /\ \A i \in 1..Len(k) : g[i] = k[i]
    BY <1>5 DEF Extends, Begins
  <2>3. \A i \in (Len(k) + 1)..Len(g) : g[i] # Boundary /\ g[i].name \in Kinds.names
    BY <1>5 DEF Extends
  <2>4. Len(k) + 1 = Len(h) + 2
    BY <1>1, <1>3
  <2>5. QED
    BY <1>3, <2>1, <2>2, <2>3, <2>4
<1>8. Found(a, g)
  <2>1. SUFFICES ASSUME NEW n \in DOMAIN a.defs PROVE LastNamed(g, 0, n, a.defs[n])
    BY DEF Found
  <2>2. LastNamed(g, Len(k), n, a.defs[n])
    BY DEF Entered, k
  <2>3. Len(k) \in Nat
    BY <1>1, <1>3
  <2>4. QED
    BY <1>1, <2>2, <2>3, FoundAbove
<1>9. Plain => "this" \notin Kinds.names
  BY ProgramNames DEF Names
<1> HIDE DEF h, g, b, f1, f2
<1>10. CASE a.how = "call"
  <2>1. h = f
    BY <1>10 DEF h
  <2>2. Begun(a, g) /\ Exact(a, g) /\ Begins(f, g)
    BY <1>1, <1>7, <1>10, <2>1 DEF Begun, BegunCall, Exact, Begins
  <2>3. ASSUME Plain, NEW p \in (Len(f) + 1)..Len(g), g[p] # Boundary PROVE g[p].name # "this"
    <3>1. p \in (Len(h) + 2)..Len(g)
      BY <1>1, <1>7, <2>1, <2>3
    <3>2. QED
      BY <1>7, <1>9, <2>3, <3>1
  <2>4. QED
    BY <1>1, <1>4, <1>6, <1>8, <1>10, <2>1, <2>2, <2>3 DEF Called, g
<1>11. CASE a.how = "new"
  <2>1. h = Append(f, ThisOf(a)) /\ a.this # NoCell
    BY <1>11 DEF h
  <2>2. Len(h) = b + 1 /\ h[b + 1] = ThisOf(a) /\ \A i \in 1..b : h[i] = f[i]
    BY <1>1, <1>2, <2>1, Appended DEF Begins, b
  <2>3. Boundaries(h) = Boundaries(f)
    <3>1. Extends(f, h, {"this"})
      BY <1>1, <1>2, <2>1, Appended
    <3>2. QED
      BY <1>1, <3>1, BoundariesExtends
  <2>4. b + 2 <= Len(g) /\ g[b + 1] = ThisOf(a) /\ g[b + 2] = Boundary /\ \A i \in 1..b : g[i] = f[i]
    <3>1. b + 1 \in 1..Len(h) /\ \A i \in 1..b : i \in 1..Len(h)
      BY <1>1, <2>2
    <3>2. QED
      BY <1>1, <1>7, <2>2, <3>1
  <2>5. Begun(a, g) /\ Begins(f, g)
    BY <1>1, <1>11, <2>1, <2>4 DEF Begun, BegunNew, Begins, b
  <2>6. \A i \in (b + 3)..Len(g) : g[i] # Boundary /\ g[i].name \in Kinds.names
    BY <1>1, <1>7, <2>2
  <2>7. Exact(a, g)
    BY <1>11, <2>6 DEF Exact, b
  <2>8. ASSUME Plain, NEW p \in (Len(f) + 1)..Len(g), g[p] # Boundary, g[p].name = "this"
        PROVE  p = ThisAt(a)
    <3>1. p \notin (b + 3)..Len(g) /\ p # b + 2
      BY <1>9, <2>4, <2>6, <2>8
    <3>2. p = b + 1
      BY <1>1, <3>1 DEF b
    <3>3. QED
      BY <1>11, <3>2 DEF ThisAt, b
  <2>9. QED
    BY <1>1, <1>4, <1>6, <1>8, <1>11, <2>3, <2>5, <2>7, <2>8 DEF Called, g
<1>12. CASE a.how = "method"
  <2>1. Extends(f2, h, Kinds.names) /\ a.this # NoCell
    BY <1>12 DEF h, f2, f1
  <2>2. FramesOK(f1) /\ Len(f1) = b + 1 /\ f1[b + 1] = Boundary /\ \A i \in 1..b : f1[i] = f[i]
    BY <1>1, <1>2, Appended DEF Begins, b, f1
  <2>3. /\ FramesOK(f2) /\ Len(f2) = Len(f1) + 1 /\ f2[Len(f1) + 1] = ThisOf(a)
        /\ \A i \in 1..Len(f1) : f2[i] = f1[i]
    BY <1>2, <2>2, Appended DEF Begins, f2
  <2>4. Boundaries(h) = Boundaries(f) + 1
    <3>1. Boundaries(f1) = Boundaries(f) + 1
      BY <1>1, BoundariesAppend DEF f1
    <3>2. Extends(f1, f2, {"this"})
      BY <1>2, <2>2, Appended DEF f2
    <3>3. Boundaries(f2) = Boundaries(f1)
      BY <2>2, <2>3, <3>2, BoundariesExtends
    <3>4. Boundaries(h) = Boundaries(f2)
      BY <1>1, <2>1, <2>3, BoundariesExtends
    <3>5. QED
      BY <3>1, <3>3, <3>4
  <2>5. /\ b + 2 <= Len(h) /\ h[b + 1] = Boundary /\ h[b + 2] = ThisOf(a)
        /\ \A i \in 1..b : h[i] = f[i]
        /\ \A i \in (b + 3)..Len(h) : h[i] # Boundary /\ h[i].name \in Kinds.names
    <3>1. Len(f2) = b + 2 /\ f2[b + 1] = Boundary /\ f2[b + 2] = ThisOf(a) /\ \A i \in 1..b : f2[i] = f[i]
      <4>1. b + 1 \in 1..Len(f1) /\ \A i \in 1..b : i \in 1..Len(f1)
        BY <1>1, <2>2
      <4>2. QED
        BY <1>1, <2>2, <2>3, <4>1
    <3>2. Len(f2) <= Len(h) /\ \A i \in 1..Len(f2) : h[i] = f2[i]
      BY <2>1 DEF Extends, Begins
    <3>3. \A i \in (Len(f2) + 1)..Len(h) : h[i] # Boundary /\ h[i].name \in Kinds.names
      BY <2>1 DEF Extends
    <3>4. b + 1 \in 1..Len(f2) /\ b + 2 \in 1..Len(f2) /\ (\A i \in 1..b : i \in 1..Len(f2))
          /\ Len(f2) + 1 = b + 3
      BY <1>1, <3>1
    <3>5. QED
      BY <3>1, <3>2, <3>3, <3>4
  <2>6. g[b + 1] = Boundary /\ g[b + 2] = ThisOf(a) /\ \A i \in 1..b : g[i] = f[i]
    <3>1. b + 1 \in 1..Len(h) /\ b + 2 \in 1..Len(h) /\ \A i \in 1..b : i \in 1..Len(h)
      BY <1>1, <2>5
    <3>2. QED
      BY <1>7, <2>5, <3>1
  <2>7. Len(h) + 1 \in (b + 3)..Len(g) /\ b + 2 <= Len(g)
    BY <1>1, <1>7, <2>5
  <2>8. ASSUME NEW i \in (b + 2)..Len(g), i # Len(h) + 1
        PROVE  g[i] # Boundary /\ (i # b + 2 => g[i].name \in Kinds.names)
    <3>1. CASE i \in (Len(h) + 2)..Len(g)
      BY <1>7, <3>1
    <3>2. CASE i = b + 2
      BY <1>2, <2>6, <3>2
    <3>3. CASE i \in (b + 3)..Len(h)
      <4>1. i \in 1..Len(h)
        BY <1>1, <3>3
      <4>2. QED
        BY <1>7, <2>5, <3>3, <4>1
    <3>4. QED
      BY <1>1, <2>8, <3>1, <3>2, <3>3
  <2>9. Begun(a, g) /\ Begins(f, g)
    <3>1. \A i \in 1..b : g[i] = f[i]
      BY <2>6
    <3>2. QED
      BY <1>1, <1>7, <1>12, <2>1, <2>6, <2>7 DEF Begun, BegunMethod, Begins, b
  <2>10. Exact(a, g)
    BY <1>7, <1>12, <2>7, <2>8 DEF Exact, b
  <2>11. ASSUME Plain, NEW p \in (Len(f) + 1)..Len(g), g[p] # Boundary, g[p].name = "this"
        PROVE  p = ThisAt(a)
    <3>1. p # b + 1 /\ p # Len(h) + 1
      BY <1>7, <2>6, <2>11
    <3>2. p \in (b + 2)..Len(g)
      BY <1>1, <3>1 DEF b
    <3>3. p = b + 2
      BY <1>9, <2>8, <2>11, <3>1, <3>2
    <3>4. QED
      BY <1>12, <3>3 DEF ThisAt, b
  <2>12. Boundaries(f) \in Nat
    BY <1>1, BoundariesFinite
  <2>13. Boundaries(g) = Boundaries(f) + 2
    BY <1>4, <1>6, <2>4, <2>12
  <2>14. QED
    BY <2>13, <1>1, <1>4, <1>6, <1>8, <1>12, <2>4, <2>9, <2>10, <2>11 DEF Called, g
<1>13. QED
  BY <1>10, <1>11, <1>12

-----------------------------------------------------------------------------
(* The inductive invariant. *)
Untried == ~ Raising => left = 0 /\ \A i \in 1..Len(acts) : acts[i].sections = 0

ScopeInv == OK(store) /\ FramesInv(acts, store.frames, left) /\ Untried

(* The parts of the invariant, with the ranges the provers ask for. *)
LEMMA ScopeFacts ==
    ASSUME ScopeInv
    PROVE  /\ acts \in Seq(Acts) /\ Len(acts) \in Nat \ {0} /\ Top \in Acts /\ left \in Nat
           /\ OK(store) /\ Shape(store, Kinds) /\ FramesOK(store.frames) /\ Len(store.frames) \in Nat
<1>1. acts \in Seq(Acts) /\ Len(acts) \in Nat \ {0} /\ left \in Nat
  BY DEF ScopeInv, FramesInv, ActsOK
<1>2. Top \in Acts
  BY <1>1, ElementOfSeq DEF Top
<1>3. QED
  BY <1>1, <1>2 DEF ScopeInv, OK, Shape, FramesOK

(* A statement of the running procedure keeps the invariant. *)
LEMMA StatementStep ==
    ASSUME ScopeInv, Moved(Top, store, store'), acts' = acts, left' = left
    PROVE  ScopeInv'
<1>1. FramesInv(acts, store.frames, left)
  BY DEF ScopeInv
<1>2. FramesInv(acts, store'.frames, left)
  BY <1>1, MovedInv DEF Top
<1>3. OK(store')
  BY DEF Moved
<1>4. Untried'
  BY DEF ScopeInv, Untried
<1>5. QED
  BY <1>2, <1>3, <1>4 DEF ScopeInv

(* Assign keeps the invariant. *)
LEMMA AssignStep ==
    ASSUME ScopeInv, NEW n \in Data, Assign(n)
    PROVE  ScopeInv'
<1> DEFINE at == Resolve(store, n)
           new == Alloc(at[1], NewList)
<1>1. n \in Kinds.names /\ n \in STRING
  BY ProgramNames
<1>2. Moved(Top, store, at[1])
  BY <1>1, ScopeFacts, ResolveMoved
<1>3. store' = Put(new[1], at[2], new[2]) /\ acts' = acts /\ left' = left
  BY DEF Assign
<1> HIDE DEF at
<1>4. Same(at[1], new[1], Kinds) /\ Shape(new[1], Kinds)
  BY <1>2, AllocSame, ListsOK DEF Moved, OK, Same
<1> HIDE DEF new
<1>5. Same(new[1], store', Kinds)
  BY <1>3, <1>4, PutSame
<1>6. Moved(Top, store, store')
  BY <1>2, <1>4, <1>5, MovedSame
<1>7. QED
  BY <1>3, <1>6, StatementStep

(* Modify keeps the invariant. *)
LEMMA ModifyStep ==
    ASSUME ScopeInv, NEW n \in Data, Modify(n)
    PROVE  ScopeInv'
<1> DEFINE at == Resolve(store, n)
           r == at[1].cells[at[2]]
<1>1. n \in Kinds.names /\ n \in STRING
  BY ProgramNames
<1>2. Moved(Top, store, at[1])
  BY <1>1, ScopeFacts, ResolveMoved
<1>3. PICK l \in Lists : store' = [at[1] EXCEPT !.objs[r] = List(l)]
  BY DEF Modify
<1>4. acts' = acts /\ left' = left
  BY DEF Modify
<1> HIDE DEF at, r
<1>5. Same(at[1], store', Kinds)
  <2>1. ObjsOK([at[1].objs EXCEPT ![r] = List(l)], Kinds) /\ IsStore(at[1])
    BY <1>2, ObjsSet, ListsOK DEF Moved, OK, Shape
  <2>2. store' = [at[1] EXCEPT !.objs = [at[1].objs EXCEPT ![r] = List(l)]]
    BY <1>3
  <2>3. Fields(store', at[1].frames, at[1].cells, [at[1].objs EXCEPT ![r] = List(l)])
    BY <2>1, <2>2, Updates
  <2>4. QED
    BY <1>2, <2>1, <2>3 DEF Same, Shape, Fields, Moved, OK
<1>6. Moved(Top, store, store')
  BY <1>2, <1>5, MovedSame
<1>7. QED
  BY <1>4, <1>6, StatementStep

(* The names objects have. *)
LEMMA ObjectNamesOK ==
    ASSUME NEW o \in ObjectNames
    PROVE  o \in STRING /\ (o # "this" => o \in Kinds.names)
<1>1. CASE o = "this"
  BY <1>1, NamesAssumption DEF NamesAssumption
<1>2. CASE o \in {d[1] : d \in Instances}
  BY <1>2, ProgramNames
<1>3. CASE o \in {Code[d[2]].param : d \in Defs} \ {""}
  <2>1. PICK d \in Defs : o = Code[d[2]].param /\ o # ""
    BY <1>3
  <2>2. d[2] \in DOMAIN Code
    BY ProgramNames
  <2>3. NamesOf(d[2], Kinds.names)
    BY <2>2, ProgramNames
  <2>4. o \in Kinds.names
    BY <2>1, <2>3 DEF NamesOf
  <2>5. Kinds.names \subseteq STRING
    BY ProgramNames
  <2>6. QED
    BY <2>4, <2>5
<1>4. QED
  BY <1>1, <1>2, <1>3 DEF ObjectNames

(* AssignMember keeps the invariant. *)
LEMMA AssignMemberStep ==
    ASSUME ScopeInv, NEW o \in ObjectNames, NEW n \in Data, AssignMember(o, n)
    PROVE  ScopeInv'
<1> DEFINE head == Resolve(store, o)
           r == head[1].cells[head[2]]
           new == Alloc(head[1], NewList)
           at == Member(new[1], r, n)
<1>1. o \in STRING /\ n \in Kinds.names
  BY ObjectNamesOK, ProgramNames
<1>2. IsKind(head[1], head[2], "object") /\ acts' = acts /\ left' = left
  BY DEF AssignMember
<1>3. store' = Put(at[1], at[2], new[2])
  BY DEF AssignMember
<1>4. head[1] = store /\ IsObject(store, r)
  <2>1. head[1] = store
    BY <1>1, <1>2, ScopeFacts, ResolveMoved
  <2>2. QED
    BY <1>2, <2>1 DEF IsKind, Kind, IsObject
<1> HIDE DEF r, head
<1>5. Same(store, new[1], Kinds) /\ IsObject(new[1], r)
  BY <1>4, ScopeFacts, AllocSame, ListsOK
<1> HIDE DEF new
<1>6. Same(new[1], at[1], Kinds)
  BY <1>1, <1>5, MemberSame DEF Same
<1> HIDE DEF at
<1>7. Same(at[1], store', Kinds)
  BY <1>3, <1>6, PutSame DEF Same
<1>8. Moved(Top, store, store')
  BY <1>5, <1>6, <1>7 DEF Moved, Same, OK
<1>9. QED
  BY <1>2, <1>8, StatementStep

(* CopyMember keeps the invariant. *)
LEMMA CopyMemberStep ==
    ASSUME ScopeInv, NEW o \in ObjectNames, NEW c \in Copies, CopyMember(o, c[1], c[2])
    PROVE  ScopeInv'
<1> DEFINE head == Resolve(store, o)
           r == head[1].cells[head[2]]
           from == Member(head[1], r, c[2])
           to == Member(from[1], r, c[1])
           freed == Invalidate(to[1], to[1].cells[to[2]])
           copy == Unshare(freed, to[1].cells[from[2]])
<1>1. o \in STRING /\ c[1] \in Kinds.names /\ c[2] \in Kinds.names
  BY ObjectNamesOK, ProgramNames
<1>2. IsKind(head[1], head[2], "object") /\ acts' = acts /\ left' = left
  BY DEF CopyMember
<1>3. store' = [copy[1] EXCEPT !.cells[to[2]] = copy[2]]
  BY DEF CopyMember
<1>4. head[1] = store /\ IsObject(store, r)
  <2>1. head[1] = store
    BY <1>1, <1>2, ScopeFacts, ResolveMoved
  <2>2. QED
    BY <1>2, <2>1 DEF IsKind, Kind, IsObject
<1>5. from = Member(store, r, c[2])
  BY <1>4
<1> HIDE DEF head, r
<1>6. Same(store, from[1], Kinds) /\ IsObject(from[1], r)
  BY <1>1, <1>4, <1>5, ScopeFacts, MemberSame
<1> HIDE DEF from
<1>7. Same(from[1], to[1], Kinds)
  BY <1>1, <1>6, MemberSame DEF Same
<1> HIDE DEF to
<1>8. Same(to[1], freed, Kinds)
  BY <1>7, InvalidateSame DEF Same, Invalidate
<1> HIDE DEF freed
<1>9. Same(freed, copy[1], Kinds)
  BY <1>8, UnshareSame DEF Same
<1> HIDE DEF copy
<1>10. Same(copy[1], store', Kinds)
  <2>1. Same(copy[1], copy[1], Kinds) /\ store' = SetCell(<<copy[1], to[2]>>, copy[2])
    BY <1>3, <1>9 DEF Same, SetCell
  <2>2. QED
    BY <2>1, SetCellSame
<1>11. Moved(Top, store, store')
  BY <1>6, <1>7, <1>8, <1>9, <1>10 DEF Moved, Same, OK
<1>12. QED
  BY <1>2, <1>11, StatementStep

(* Define keeps the invariant. *)
LEMMA DefineStep ==
    ASSUME ScopeInv, NEW d \in Defs, Define(d[1], d[2])
    PROVE  ScopeInv'
<1> DEFINE p == d[2]
           copied == CopyReachable(store)
           image == Alloc(copied[1], Image(copied[2]))
           new == IF Code[p].closure THEN Alloc(image[1], Procedure(p, image[2]))
                  ELSE Alloc(store, Procedure(p, Om))
<1>1. p \in DOMAIN Code
  BY ProgramNames
<1>2. store' = Put(new[1], Top.defs[d[1]], new[2]) /\ acts' = acts /\ left' = left
  BY DEF Define
<1>3. Same(store, copied[1], Kinds) /\ NamesMap(copied[2])
  BY ScopeFacts, CopyReachableSame DEF NamesFor
<1> HIDE DEF copied
<1>4. Same(copied[1], image[1], Kinds) /\ image[2] \in Slots
  <2>1. ObjOK(Image(copied[2]), Kinds)
    BY <1>3 DEF ObjOK, Image
  <2>2. QED
    BY <1>3, <2>1, AllocSame DEF Same
<1> HIDE DEF image
<1>5. \A i \in Nat : (Plain => i = Om) => ObjOK(Procedure(p, i), Kinds)
  <2>1. SUFFICES ASSUME NEW i \in Nat, Plain => i = Om PROVE ObjOK(Procedure(p, i), Kinds)
    OBVIOUS
  <2>2. Procedure(p, i) \in Kinds.procs /\ Procedure(p, i).kind = "proc"
    BY <1>1, <2>1 DEF Procedure, Kinds
  <2>3. QED
    BY <2>2 DEF ObjOK
<1>6. Same(store, new[1], Kinds)
  <2>1. CASE Code[p].closure
    <3>1. image[2] \in Nat /\ ~ Plain
      BY <1>4, <2>1 DEF Plain, Slots
    <3>2. ObjOK(Procedure(p, image[2]), Kinds)
      BY <1>5, <3>1
    <3>3. Same(image[1], new[1], Kinds)
      BY <1>4, <2>1, <3>2, AllocSame DEF Same
    <3>4. QED
      BY <1>3, <1>4, <3>3 DEF Same
  <2>2. CASE ~ Code[p].closure
    <3>1. ObjOK(Procedure(p, Om), Kinds)
      BY <1>5 DEF Om
    <3>2. QED
      BY <2>2, <3>1, ScopeFacts, AllocSame
  <2>3. QED
    BY <2>1, <2>2
<1> HIDE DEF new
<1>7. Same(new[1], store', Kinds)
  BY <1>2, <1>6, PutSame DEF Same
<1>8. Moved(Top, store, store')
  BY <1>6, <1>7 DEF Moved, Same, OK
<1>9. QED
  BY <1>2, <1>8, StatementStep

-----------------------------------------------------------------------------
(* Calls. *)
LEMMA ActivationOK ==
    ASSUME NEW p \in DOMAIN Code, NEW how \in {"call", "new", "method"}, NEW image \in Nat,
           NEW base \in Seq(Entry), NEW defs, DefsOK(defs)
    PROVE  Activation(p, how, image, base, defs) \in Acts
<1>1. defs \in [DOMAIN defs -> Nat] /\ DOMAIN defs \in SUBSET STRING
  BY DEF DefsOK, NamesMap, IsMap
<1>2. defs \in UNION {[N -> Nat] : N \in SUBSET STRING}
  BY <1>1
<1>3. "" \in STRING
  BY MainAssumption, CodeAssumption DEF MainAssumption, CodeAssumption
<1>4. QED
  BY <1>2, <1>3 DEF Activation, Acts, NoCell

(* A call keeps the invariant when its frames start as those of its kind   *)
(* do.                                                                     *)
LEMMA CallStep ==
    ASSUME ScopeInv, NEW t, Moved(Top, store, t), NEW B, Alike(acts, B),
           \A i \in 1..Len(acts) : B[i].sections = acts[i].sections,
           NEW a \in Acts, a.base = t.frames, a.sections = 0, Called(a, t.frames, store'.frames),
           OK(store'), acts' = Append(B, a), left' = left
    PROVE  ScopeInv'
<1>1. FramesInv(acts, store.frames, left)
  BY DEF ScopeInv
<1>2. FramesInv(acts, t.frames, left)
  BY <1>1, MovedInv DEF Top
<1>3. FramesInv(B, t.frames, left)
  BY <1>2, AlikeInv
<1>4. FramesInv(acts', store'.frames, left')
  BY <1>3, StepCall
<1>5. Untried'
  <2>1. B \in Seq(Acts) /\ Len(B) = Len(acts) /\ Len(acts) \in Nat
    BY ScopeFacts DEF Alike
  <2>2. Len(acts') = Len(acts) + 1 /\ acts'[Len(acts) + 1] = a /\ \A i \in 1..Len(acts) : acts'[i] = B[i]
    BY <2>1, AppendProperties
  <2>3. SUFFICES ASSUME ~ Raising, NEW i \in 1..Len(acts') PROVE acts'[i].sections = 0
    BY DEF ScopeInv, Untried
  <2>4. CASE i = Len(acts) + 1
    BY <2>2, <2>4
  <2>5. CASE i # Len(acts) + 1
    <3>1. i \in 1..Len(acts)
      BY <2>1, <2>2, <2>5
    <3>2. QED
      BY <2>2, <2>3, <3>1 DEF ScopeInv, Untried
  <2>6. QED
    BY <2>4, <2>5
<1>6. QED
  BY <1>4, <1>5 DEF ScopeInv

(* Activations are like themselves. *)
LEMMA AlikeSelf == ASSUME ScopeInv PROVE Alike(acts, acts)
  BY ScopeFacts DEF Alike

(* The argument of a call. *)
LEMMA ArgumentMoved ==
    ASSUME ScopeInv, NEW p, NEW a \in Arguments
    PROVE  /\ Moved(Top, store, Argument(p, store, a)[1]) /\ Argument(p, store, a)[2] \in Nat
           /\ Argument(p, store, a)[1].objs = store.objs
<1>1. a \in Kinds.names /\ a \in STRING
  BY ProgramNames
<1>2. CASE Code[p].param = ""
  BY <1>2, ScopeFacts DEF Argument, Moved, NoCell
<1>3. CASE Code[p].param # ""
  BY <1>1, <1>3, ScopeFacts, ResolveMoved DEF Argument
<1>4. QED
  BY <1>2, <1>3

(* A procedure that is entered starts with its frame and registers on top. *)
LEMMA ProcedureEntered ==
    ASSUME NEW s, OK(s), NEW p \in DOMAIN Code, NEW image \in Nat, Plain => image = Om,
           NEW arg \in Nat, Enterable(s, p, image)
    PROVE  Entered(s, Enter(s, p, image, arg), Kinds)
<1>1. NamesOf(p, Kinds.names) /\ (~ Plain => Kinds.names = STRING)
  BY ProgramNames DEF Kinds
<1>2. ASSUME image # Om
      PROVE  Kind(s, image) = "image" /\ DOMAIN s.objs[image].vals \subseteq Kinds.names
  <2>1. Kind(s, image) = "image" /\ ~ Plain
    BY <1>2 DEF Enterable
  <2>2. image \in DOMAIN s.objs /\ s.objs[image].kind = "image"
    BY <2>1 DEF Kind
  <2>3. ObjOK(s.objs[image], Kinds)
    BY <2>2 DEF OK, Shape, ObjsOK
  <2>4. NamesMap(s.objs[image].vals)
    BY <2>2, <2>3 DEF ObjOK
  <2>5. QED
    BY <1>1, <2>1, <2>4 DEF NamesMap
<1>3. QED
  BY <1>1, <1>2, EnterEntered DEF OK

(* A procedure on the heap is one of the program; no closure in a plain    *)
(* program.                                                                *)
LEMMA ProcedureFacts ==
    ASSUME NEW s, OK(s), NEW v, Kind(s, v) = "proc"
    PROVE  /\ s.objs[v].proc \in DOMAIN Code /\ s.objs[v].image \in Nat
           /\ Plain => s.objs[v].image = Om
<1>1. v \in DOMAIN s.objs /\ s.objs[v].kind = "proc"
  BY DEF Kind
<1>2. ObjOK(s.objs[v], Kinds)
  BY <1>1 DEF OK, Shape, ObjsOK
<1>3. s.objs[v] \in Kinds.procs
  BY <1>1, <1>2 DEF ObjOK
<1>4. QED
  BY <1>3 DEF Kinds

(* Call keeps the invariant. *)
LEMMA CallProcedureStep ==
    ASSUME ScopeInv, NEW d \in Defs, NEW a \in Arguments, Call(d[1], a)
    PROVE  ScopeInv'
<1> DEFINE f == d[1]
           head == Resolve(store, f)
           fn == head[1].cells[head[2]]
           p == head[1].objs[fn].proc
           image == head[1].objs[fn].image
           arg == Argument(p, head[1], a)
           t == arg[1]
           entered == Enter(t, p, image, arg[2])
           new == Activation(p, "call", image, t.frames, entered[2])
<1>1. f \in STRING
  BY ProgramNames
<1>2. IsKind(head[1], head[2], "proc") /\ left' = left
  BY DEF Call
<1>3. Enterable(t, p, image) /\ store' = entered[1] /\ acts' = Append(acts, new)
  BY DEF Call
<1>4. head[1] = store
  BY <1>1, <1>2, ScopeFacts, ResolveMoved
<1>5. Kind(store, fn) = "proc"
  BY <1>2, <1>4 DEF IsKind
<1>6. /\ p \in DOMAIN Code /\ image \in Nat
      /\ Plain => image = Om
  BY <1>4, <1>5, ScopeFacts, ProcedureFacts
<1> HIDE DEF image
<1>7. Moved(Top, store, t) /\ arg[2] \in Nat /\ OK(t)
  BY <1>4, ArgumentMoved DEF Moved
<1> HIDE DEF p, arg
<1>8. Entered(t, entered, Kinds)
  BY <1>3, <1>6, <1>7, ProcedureEntered
<1> HIDE DEF entered
<1>9. DefsOK(entered[2]) /\ OK(store')
  BY <1>3, <1>8 DEF Entered, OK
<1>10. t.frames \in Seq(Entry) /\ "call" \in {"call", "new", "method"}
  BY <1>7 DEF OK, Shape, FramesOK
<1>11. new \in Acts
  BY <1>6, <1>9, <1>10, ActivationOK
<1>12. /\ new.how = "call" /\ new.base = t.frames /\ new.defs = entered[2] /\ new.sections = 0
  BY DEF Activation
<1> HIDE DEF new
<1>13. Called(new, t.frames, store'.frames)
  BY <1>3, <1>7, <1>8, <1>11, <1>12, EnteredCalled
<1>14. QED
  BY <1>2, <1>3, <1>7, <1>9, <1>11, <1>12, <1>13, AlikeSelf, CallStep

(* Construct keeps the invariant. *)
LEMMA ConstructStep ==
    ASSUME ScopeInv, NEW d \in Instances, NEW a \in Arguments, Construct(d[1], d[2], a)
    PROVE  ScopeInv'
<1> DEFINE n == d[1]
           k == d[2]
           arg == Argument(k, store, a)
           t == arg[1]
           obj == Alloc(t, Object(Empty))
           reg == NewCell(obj[1], obj[2])
           c == reg[2]
           named == Alias(reg[1], "this", c, TRUE)
           entered == Enter(named, k, Om, arg[2])
           base == Activation(k, "new", Om, t.frames, entered[2])
           new == [base EXCEPT !.temps = {c}, !.this = c, !.to = n]
<1>1. n \in STRING /\ k \in DOMAIN Code
  BY ProgramNames
<1>2. Enterable(named, k, Om) /\ store' = entered[1] /\ acts' = Append(acts, new) /\ left' = left
  BY DEF Construct
<1>3. Moved(Top, store, t) /\ arg[2] \in Nat /\ OK(t)
  BY ArgumentMoved DEF Moved
<1> HIDE DEF arg
<1>4. Same(t, obj[1], Kinds)
  <2>1. ObjOK(Object(Empty), Kinds)
    BY EmptyNames DEF ObjOK, Object, Kinds
  <2>2. QED
    BY <1>3, <2>1, AllocSame DEF OK
<1> HIDE DEF obj
<1>5. Same(t, reg[1], Kinds) /\ c \in Slots
  BY <1>4, NewCellFacts DEF Same, Fields
<1> HIDE DEF reg, c
<1>6. OK(named) /\ named.frames = Append(t.frames, AliasOf("this", c, TRUE))
  <2>1. "this" \in STRING /\ c \in Nat /\ Shape(reg[1], Kinds)
    BY <1>5, NamesAssumption DEF NamesAssumption, Slots, Same
  <2>2. Pushed(reg[1], named, AliasOf("this", c, TRUE), Kinds)
    BY <2>1, AliasPushed
  <2>3. QED
    BY <1>5, <2>2 DEF Pushed, Same, OK
<1> HIDE DEF named
<1>7. Entered(named, entered, Kinds)
  BY <1>1, <1>2, <1>3, <1>6, ProcedureEntered DEF Om
<1> HIDE DEF entered
<1>8. DefsOK(entered[2]) /\ OK(store')
  BY <1>2, <1>7 DEF Entered, OK
<1>9. base \in Acts
  <2>1. t.frames \in Seq(Entry) /\ "new" \in {"call", "new", "method"} /\ Om \in Nat
    BY <1>3 DEF OK, Shape, FramesOK, Om
  <2>2. QED
    BY <1>1, <1>8, <2>1, ActivationOK
<1>10. /\ base.how = "new" /\ base.base = t.frames /\ base.defs = entered[2] /\ base.sections = 0
  BY DEF Activation
<1> HIDE DEF base
<1>11. new \in Acts
  BY <1>1, <1>5, <1>9 DEF Acts, Slots
<1>12. /\ new.how = "new" /\ new.base = t.frames /\ new.defs = entered[2] /\ new.sections = 0
       /\ new.this = c
  BY <1>9, <1>10 DEF Acts
<1> HIDE DEF new
<1>13. new.this # NoCell /\ named.frames = Append(t.frames, ThisOf(new))
  BY <1>5, <1>6, <1>12 DEF ThisOf, Slots, NoCell
<1>14. Called(new, t.frames, store'.frames)
  BY <1>2, <1>6, <1>7, <1>11, <1>12, <1>13, EnteredCalled
<1>15. QED
  BY <1>2, <1>3, <1>8, <1>11, <1>12, <1>14, AlikeSelf, CallStep

(* Only temps of the running procedure, or its sections, change. *)
LEMMA TopAlike ==
    ASSUME ScopeInv, NEW a \in Acts, a.how = Top.how, a.base = Top.base, a.defs = Top.defs,
           a.this = Top.this
    PROVE  /\ Alike(acts, [acts EXCEPT ![Len(acts)] = a])
           /\ \A i \in 1..Len(acts) :
                 [acts EXCEPT ![Len(acts)] = a][i] = IF i = Len(acts) THEN a ELSE acts[i]
<1> DEFINE B == [acts EXCEPT ![Len(acts)] = a]
<1>1. acts \in Seq(Acts) /\ Len(acts) \in 1..Len(acts)
  BY ScopeFacts
<1>2. B \in Seq(Acts) /\ Len(B) = Len(acts)
  BY <1>1, ExceptSeq
<1>3. \A i \in 1..Len(acts) : B[i] = IF i = Len(acts) THEN a ELSE acts[i]
  BY <1>1
<1> HIDE DEF B
<1>4. QED
  BY <1>2, <1>3 DEF Alike, Top, B

(* One more value to free does not matter for the invariant. *)
LEMMA TempsAlike ==
    ASSUME ScopeInv, NEW c \in Nat
    PROVE  /\ Alike(acts, [acts EXCEPT ![Len(acts)].temps = @ \union {c}])
           /\ \A i \in 1..Len(acts) :
                 [acts EXCEPT ![Len(acts)].temps = @ \union {c}][i].sections = acts[i].sections
<1> DEFINE a == [Top EXCEPT !.temps = @ \union {c}]
           B == [acts EXCEPT ![Len(acts)].temps = @ \union {c}]
<1>1. a \in Acts /\ Top \in Acts
  BY ScopeFacts DEF Acts
<1>2. a.how = Top.how /\ a.base = Top.base /\ a.defs = Top.defs /\ a.this = Top.this
      /\ a.sections = Top.sections
  BY <1>1 DEF Acts
<1>3. B = [acts EXCEPT ![Len(acts)] = a]
  BY DEF Top
<1> HIDE DEF a, B
<1>4. QED
  BY <1>1, <1>2, <1>3, TopAlike DEF Top, B

(* CallMethod keeps the invariant. *)
LEMMA CallMethodStep ==
    ASSUME ScopeInv, NEW o \in ObjectNames, NEW d \in Defs, NEW a \in Arguments,
           CallMethod(o, d[1], a)
    PROVE  ScopeInv'
<1> DEFINE m == d[1]
           head == Resolve(store, o)
           r == head[1].cells[head[2]]
           fn == head[1].cells[head[1].objs[r].members[m]]
           p == head[1].objs[fn].proc
           image == head[1].objs[fn].image
           arg == Argument(p, head[1], a)
           t == arg[1]
           reg == NewCell(t, r)
           c == reg[2]
           pushed == FramePush(reg[1])
           this == Alias(pushed, "this", c, TRUE)
           named == MemberAliases(this, r)
           entered == Enter(named, p, image, arg[2])
           base == Activation(p, "method", image, t.frames, entered[2])
           new == [base EXCEPT !.this = c]
           B == [acts EXCEPT ![Len(acts)].temps = @ \union {c}]
<1>1. o \in STRING
  BY ObjectNamesOK
<1>2. IsKind(head[1], head[2], "object") /\ Kind(head[1], fn) = "proc" /\ left' = left
  BY DEF CallMethod
<1>3. Enterable(named, p, image) /\ store' = entered[1] /\ acts' = Append(B, new)
  BY DEF CallMethod
<1>4. head[1] = store
  BY <1>1, <1>2, ScopeFacts, ResolveMoved
<1>5. IsObject(store, r)
  BY <1>2, <1>4 DEF IsKind, Kind, IsObject
<1>6. /\ p \in DOMAIN Code /\ image \in Nat
      /\ Plain => image = Om
  BY <1>2, <1>4, ScopeFacts, ProcedureFacts
<1>7. arg = Argument(p, store, a)
  BY <1>4
<1> HIDE DEF image, p, fn, head, r
<1>8. Moved(Top, store, t) /\ arg[2] \in Nat /\ OK(t) /\ t.objs = store.objs
  BY <1>7, ArgumentMoved DEF Moved
<1> HIDE DEF arg
<1>9. Same(t, reg[1], Kinds) /\ c \in Slots /\ reg[1].objs = store.objs
  BY <1>8, NewCellFacts DEF Same, Fields, OK
<1> HIDE DEF reg, c
<1>10. /\ OK(this) /\ this.frames = Append(Append(t.frames, Boundary), AliasOf("this", c, TRUE))
       /\ IsObject(this, r)
  <2>1. Pushed(reg[1], pushed, Boundary, Kinds)
    BY <1>9, FramePushPushed DEF Same
  <2>2. pushed.objs = reg[1].objs
    BY <1>9, PushedObjs DEF Same
  <2> HIDE DEF pushed
  <2>3. /\ "this" \in STRING /\ c \in Nat
        /\ Shape(pushed, Kinds)
    <3>1. "this" \in STRING /\ c \in Nat
      BY <1>9, NamesAssumption DEF NamesAssumption, Slots
    <3>2. QED
      BY <2>1, <3>1 DEF Pushed
  <2>4. Pushed(pushed, this, AliasOf("this", c, TRUE), Kinds)
    BY <2>3, AliasPushed
  <2>5. this.objs = pushed.objs
    <3>1. \A n, k, cross : Alias(pushed, n, k, cross).objs = pushed.objs
      BY <2>3, PushedObjs
    <3>2. QED
      BY <3>1
  <2> HIDE DEF this
  <2>6. this.objs = store.objs
    BY <1>9, <2>2, <2>5
  <2>7. /\ pushed.frames = Append(reg[1].frames, Boundary) /\ reg[1].frames = t.frames
        /\ this.frames = Append(pushed.frames, AliasOf("this", c, TRUE)) /\ Shape(this, Kinds)
    <3>1. reg[1].frames = t.frames
      BY <1>9 DEF Same
    <3>2. pushed.frames = Append(reg[1].frames, Boundary)
      BY <2>1 DEF Pushed
    <3>3. this.frames = Append(pushed.frames, AliasOf("this", c, TRUE)) /\ Shape(this, Kinds)
      BY <2>4 DEF Pushed
    <3>4. QED
      BY <3>1, <3>2, <3>3
  <2>8. QED
    BY <1>5, <2>6, <2>7 DEF OK, IsObject
<1> HIDE DEF pushed, this
<1>11. Grows(this, named, Kinds) /\ OK(named)
  BY <1>10, MemberAliasesGrows DEF Grows, OK
<1> HIDE DEF named
<1>12. Entered(named, entered, Kinds)
  BY <1>3, <1>6, <1>8, <1>11, ProcedureEntered
<1> HIDE DEF entered
<1>13. DefsOK(entered[2]) /\ OK(store')
  BY <1>3, <1>12 DEF Entered, OK
<1>14. base \in Acts
  <2>1. t.frames \in Seq(Entry) /\ "method" \in {"call", "new", "method"}
    BY <1>8 DEF OK, Shape, FramesOK
  <2>2. QED
    BY <1>6, <1>13, <2>1, ActivationOK
<1>15. /\ base.how = "method" /\ base.base = t.frames /\ base.defs = entered[2] /\ base.sections = 0
  BY DEF Activation
<1> HIDE DEF base
<1>16. new \in Acts
  BY <1>9, <1>14 DEF Acts, Slots
<1>17. /\ new.how = "method" /\ new.base = t.frames /\ new.defs = entered[2] /\ new.sections = 0
       /\ new.this = c
  BY <1>14, <1>15 DEF Acts
<1> HIDE DEF new
<1>18. /\ new.this # NoCell
       /\ Extends(Append(Append(t.frames, Boundary), ThisOf(new)), named.frames, Kinds.names)
  BY <1>9, <1>10, <1>11, <1>17 DEF ThisOf, Slots, NoCell, Grows
<1>19. Called(new, t.frames, store'.frames)
  BY <1>3, <1>11, <1>12, <1>16, <1>17, <1>18, EnteredCalled
<1>20. Alike(acts, B) /\ \A i \in 1..Len(acts) : B[i].sections = acts[i].sections
  BY <1>9, TempsAlike DEF Slots
<1> HIDE DEF B
<1>21. QED
  BY <1>2, <1>3, <1>8, <1>13, <1>16, <1>17, <1>19, <1>20, CallStep

-----------------------------------------------------------------------------
(* Returns. *)
LEMMA MethodsCut ==
    ASSUME NEW A \in Seq(Acts), NEW k \in 1..Len(A)
    PROVE  /\ MethodCalls(SubSeq(A, 1, k)) =
                 MethodCalls(SubSeq(A, 1, k - 1)) + (IF A[k].how = "method" THEN 1 ELSE 0)
           /\ SubSeq(A, 1, Len(A)) = A
           /\ MethodCalls(SubSeq(A, 1, k)) \in Nat /\ MethodCalls(SubSeq(A, 1, k - 1)) \in Nat
<1> DEFINE B == SubSeq(A, 1, k)
           C == SubSeq(A, 1, k - 1)
           D == SubSeq(A, 1, Len(A))
<1>1. Len(A) \in Nat /\ A[k] \in Acts
  BY ActFacts
<1>2. B \in Seq(Acts) /\ Len(B) = k /\ \A i \in 1..k : B[i] = A[i]
  BY <1>1, SubSeqProperties
<1>3. C \in Seq(Acts) /\ Len(C) = k - 1 /\ \A i \in 1..(k - 1) : C[i] = A[i]
  BY <1>1, SubSeqProperties
<1>4. D \in Seq(Acts) /\ Len(D) = Len(A) /\ \A i \in 1..Len(A) : D[i] = A[i]
  BY <1>1, SubSeqProperties
<1> HIDE DEF B, C, D
<1>5. D = A
  BY <1>4, SeqEqual
<1>6. B = Append(C, A[k])
  <2> DEFINE E == Append(C, A[k])
  <2>1. E \in Seq(Acts) /\ Len(E) = k /\ E[k] = A[k] /\ \A i \in 1..(k - 1) : E[i] = C[i]
    BY <1>1, <1>3, AppendProperties
  <2> HIDE DEF E
  <2>2. \A i \in 1..k : i # k => i \in 1..(k - 1)
    BY <1>1
  <2>3. \A i \in 1..k : B[i] = E[i]
    BY <1>2, <1>3, <2>1, <2>2
  <2>4. B = E
    BY <1>2, <2>1, <2>3, SeqEqual
  <2>5. QED
    BY <2>4 DEF E
<1>7. MethodCalls(B) = MethodCalls(C) + (IF A[k].how = "method" THEN 1 ELSE 0)
  BY <1>1, <1>3, <1>6, MethodsAppend
<1>8. QED
  BY <1>2, <1>3, <1>5, <1>7, MethodsFinite DEF B, C, D

(* A stack that begins with one of the same length is that one. *)
LEMMA BeginsEqual ==
    ASSUME NEW f, FramesOK(f), NEW g, FramesOK(g), Begins(f, g), Len(g) = Len(f)
    PROVE  g = f
  BY SeqEqual DEF Begins, FramesOK

(* The innermost frame is removed: by frame_pop, or saved as an image. *)
Cut(f, g) ==
    /\ FramesOK(f) /\ FramesOK(g) /\ LastBoundary(f) # 0 /\ Len(g) = LastBoundary(f) - 1
    /\ \A i \in 1..Len(g) : g[i] = f[i]

(* What is left of a stack without its innermost frame. *)
LEMMA CutFacts ==
    ASSUME NEW f, NEW g, Cut(f, g)
    PROVE  /\ Len(f) \in Nat /\ Len(g) \in Nat
           /\ Boundaries(g) = Boundaries(f) - 1 /\ Boundaries(f) \in Nat
           /\ LastBoundary(f) \in 1..Len(f) /\ f[LastBoundary(f)] = Boundary
           /\ \A i \in 1..Len(f) : f[i] = Boundary => i <= LastBoundary(f)
           /\ \A h : FramesOK(h) /\ Begins(h, f) /\ Len(h) < LastBoundary(f) => Begins(h, g)
<1>1. FramesOK(f) /\ FramesOK(g) /\ Len(f) \in Nat /\ Len(g) \in Nat
  BY DEF Cut, FramesOK
<1>2. Boundaries(g) = Boundaries(f) - 1 /\ Boundaries(f) \in Nat
  BY BoundariesCut, BoundariesFinite DEF Cut
<1>3. /\ LastBoundary(f) \in 1..Len(f) /\ f[LastBoundary(f)] = Boundary
      /\ \A i \in 1..Len(f) : f[i] = Boundary => i <= LastBoundary(f)
  BY <1>1, LastBoundaryFacts DEF Cut
<1>4. ASSUME NEW h, FramesOK(h), Begins(h, f), Len(h) < LastBoundary(f)
      PROVE  Begins(h, g)
  <2>1. Len(h) \in Nat /\ Len(h) <= Len(g) /\ \A i \in 1..Len(h) : f[i] = h[i]
    BY <1>1, <1>3, <1>4 DEF Cut, FramesOK, Begins
  <2>2. \A i \in 1..Len(h) : i \in 1..Len(g)
    BY <1>1, <2>1
  <2>3. QED
    BY <2>1, <2>2 DEF Cut, Begins
<1>5. QED
  BY <1>1, <1>2, <1>3, <1>4

(* frame_pop removes the innermost frame. *)
LEMMA PopCut ==
    ASSUME NEW s, OK(s), NEW q \in 1..Len(s.frames), s.frames[q] = Boundary
    PROVE  Cut(s.frames, FramePop(s).frames) /\ OK(FramePop(s)) /\ q <= LastBoundary(s.frames)
<1>1. FramesOK(s.frames) /\ q # 0 /\ Len(s.frames) \in Nat
  BY DEF OK, Shape, FramesOK
<1>2. LastBoundary(s.frames) \in 0..Len(s.frames) /\ q <= LastBoundary(s.frames)
  BY <1>1, LastBoundaryFacts
<1>3. LastBoundary(s.frames) # 0
  BY <1>1, <1>2
<1>4. LastFrame(s) = LastBoundary(s.frames)
  BY <1>3 DEF LastFrame
<1>5. QED
  BY <1>1, <1>2, <1>3, <1>4, FramePopFacts DEF OK, Shape, Cut

(* A return keeps the invariant when it removes the frames of the call. *)
LEMMA ReturnStep ==
    ASSUME ScopeInv, Len(acts) > 1, OK(store'), Begins(Top.base, store'.frames),
           Boundaries(store'.frames) = Boundaries(store.frames) - (IF Top.how = "method" THEN 2 ELSE 1),
           left = 0 => store'.frames = Top.base,
           Alike(SubSeq(acts, 1, Len(acts) - 1), acts'),
           \A i \in 1..(Len(acts) - 1) : acts'[i].sections = acts[i].sections, left' = left
    PROVE  ScopeInv'
<1> DEFINE n == Len(acts)
           k == n - 1
           B == SubSeq(acts, 1, k)
<1>1. acts \in Seq(Acts) /\ n \in Nat \ {0} /\ k \in 1..n /\ k # n /\ k + 1 = n /\ left \in Nat
  BY ScopeFacts
<1>2. FramesOf(acts, store.frames, k) = Top.base
  BY <1>1 DEF FramesOf, Top
<1>3. FramesInv(acts, store.frames, left) /\ FramesOK(store'.frames)
  BY DEF ScopeInv, OK, Shape
<1>4. MethodCalls(acts) = MethodCalls(B) + (IF Top.how = "method" THEN 1 ELSE 0) /\ MethodCalls(B) \in Nat
  <2>1. n \in 1..n
    <3>1. n \in Nat \ {0}
      BY <1>1
    <3> HIDE DEF n
    <3>2. QED
      BY <3>1
  <2>2. /\ MethodCalls(SubSeq(acts, 1, n)) = MethodCalls(B) + (IF Top.how = "method" THEN 1 ELSE 0)
        /\ SubSeq(acts, 1, n) = acts /\ MethodCalls(B) \in Nat
    BY <1>1, <2>1, MethodsCut DEF Top
  <2>3. QED
    BY <2>2
<1>5. Boundaries(store.frames) = n + MethodCalls(acts) + left
  BY <1>3 DEF FramesInv, Counted
<1>6. Boundaries(store'.frames) = k + MethodCalls(B) + left
  <2>1. PICK x \in {0, 1} : /\ MethodCalls(acts) = MethodCalls(B) + x
                            /\ Boundaries(store'.frames) = Boundaries(store.frames) - (x + 1)
    BY <1>4
  <2>2. n \in Nat /\ left \in Nat /\ MethodCalls(B) \in Nat /\ k = n - 1
    BY <1>1, <1>4
  <2> DEFINE M == MethodCalls(B)
             N == MethodCalls(acts)
             F == Boundaries(store.frames)
             G == Boundaries(store'.frames)
  <2>3. M \in Nat /\ N = M + x /\ F = n + N + left /\ G = F - (x + 1) /\ x \in {0, 1}
    BY <1>5, <2>1, <2>2
  <2> HIDE DEF n, k, B, M, N, F, G
  <2>4. G = k + M + left
    BY <2>2, <2>3
  <2>5. QED
    BY <2>4 DEF G, M
<1>7. FramesInv(B, store'.frames, left)
  BY <1>1, <1>2, <1>3, <1>6, StepCut
<1>8. FramesInv(acts', store'.frames, left)
  BY <1>7, AlikeInv
<1>9. Untried'
  <2>1. Len(acts') = k
    BY <1>1, SubSeqProperties DEF Alike
  <2>2. \A i \in 1..k : i \in 1..n
    <3>1. n \in Nat /\ k = n - 1
      BY <1>1
    <3> HIDE DEF n, k
    <3>2. QED
      BY <3>1
  <2>3. QED
    BY <1>1, <2>1, <2>2 DEF ScopeInv, Untried
<1>10. QED
  BY <1>8, <1>9 DEF ScopeInv

(* The frames of the running procedure, on those of its caller. *)
LEMMA TopFrames ==
    ASSUME ScopeInv
    PROVE  /\ Begins(Top.base, store.frames) /\ FramesOK(Top.base) /\ Len(Top.base) \in Nat
           /\ Begun(Top, store.frames)
           /\ left = 0 => Exact(Top, store.frames)
<1> DEFINE n == Len(acts)
<1>1. acts \in Seq(Acts) /\ n \in Nat \ {0}
  BY ScopeFacts
<1>2. n \in 1..n /\ FramesInv(acts, store.frames, left)
  <2>1. FramesInv(acts, store.frames, left)
    BY DEF ScopeInv
  <2> HIDE DEF n
  <2>2. QED
    BY <1>1, <2>1
<1>3. FramesOf(acts, store.frames, n) = store.frames
  BY DEF FramesOf
<1>4. Begins(acts[n].base, FramesOf(acts, store.frames, n))
  BY <1>2 DEF FramesInv, Nested
<1>5. Begun(acts[n], FramesOf(acts, store.frames, n))
  BY <1>2 DEF FramesInv, AllBegun
<1>6. left = 0 => Exact(acts[n], FramesOf(acts, store.frames, n))
  BY <1>2 DEF FramesInv, AllTidy
<1>7. FramesOK(acts[n].base) /\ Len(acts[n].base) \in Nat
  BY <1>1, <1>2, ActFacts
<1>8. QED
  BY <1>3, <1>4, <1>5, <1>6, <1>7 DEF Top

(* The activations below the running one. *)
LEMMA RestFacts ==
    ASSUME ScopeInv, Len(acts) > 1
    PROVE  /\ Rest \in Seq(Acts) /\ Len(Rest) = Len(acts) - 1 /\ Alike(Rest, Rest)
           /\ \A i \in 1..(Len(acts) - 1) : Rest[i] = acts[i]
<1> DEFINE n == Len(acts)
<1>1. acts \in Seq(Acts) /\ n \in Nat \ {0} /\ n > 1
  BY ScopeFacts
<1>2. Rest = SubSeq(acts, 1, n - 1)
  BY DEF Rest
<1> DEFINE k == n - 1
<1>3. k \in 1..n /\ 1 \in Int /\ k \in Int /\ k - 1 + 1 = k
  <2> HIDE DEF n
  <2>1. QED
    BY <1>1
<1>4. \A i \in 1..k : acts[i] \in Acts
  <2>1. SUFFICES ASSUME NEW i \in 1..k PROVE acts[i] \in Acts
    OBVIOUS
  <2>2. i \in 1..n
    <3> HIDE DEF n
    <3>1. QED
      BY <1>1
  <2>3. QED
    BY <1>1, <2>2, ActFacts
<1>5. SubSeq(acts, 1, k) \in Seq(Acts) /\ Len(SubSeq(acts, 1, k)) = k /\ \A i \in 1..k : SubSeq(acts, 1, k)[i] = acts[i]
  BY <1>3, <1>4, SubSeqProperties
<1>6. QED
  BY <1>2, <1>5 DEF Alike

(* Return keeps the invariant, and gives the caller its stack back when no *)
(* exception has left a frame.                                             *)
LEMMA ReturnFromCallStep ==
    ASSUME ScopeInv, Return
    PROVE  ScopeInv' /\ (left = 0 => store'.frames = Top.base)
<1> DEFINE f == store.frames
           q == Len(Top.base) + 1
           pop == FramePop(store)
<1>1. /\ Top.how = "call" /\ Len(acts) > 1 /\ store' = Drop(pop, Top.temps)
      /\ acts' = SubSeq(acts, 1, Len(acts) - 1) /\ left' = left
  BY DEF Return, Rest
<1>2. Begins(Top.base, f) /\ FramesOK(Top.base) /\ Len(Top.base) \in Nat /\ q <= Len(f) /\ f[q] = Boundary
  BY <1>1, TopFrames DEF Begun, BegunCall, BegunNew, BegunMethod
<1>3. OK(store) /\ Len(f) \in Nat
  BY ScopeFacts
<1>4. Cut(f, pop.frames) /\ OK(pop) /\ q <= LastBoundary(f)
  <2>1. q \in 1..Len(f)
    BY <1>2, <1>3
  <2>2. QED
    BY <1>2, <1>3, <2>1, PopCut
<1> HIDE DEF pop
<1>5. /\ Len(pop.frames) = LastBoundary(f) - 1 /\ LastBoundary(f) \in 1..Len(f)
      /\ f[LastBoundary(f)] = Boundary
      /\ Boundaries(pop.frames) = Boundaries(f) - 1
  BY <1>4, CutFacts DEF Cut
<1>6. Begins(Top.base, pop.frames)
  <2>1. Len(Top.base) < LastBoundary(f)
    BY <1>2, <1>3, <1>4, <1>5
  <2>2. QED
    BY <1>2, <1>4, <2>1, CutFacts
<1>7. ASSUME left = 0 PROVE pop.frames = Top.base
  <2>1. \A i \in (Len(Top.base) + 2)..Len(f) : f[i] # Boundary
    BY <1>1, <1>7, TopFrames DEF Exact
  <2>2. LastBoundary(f) = q
    BY <1>2, <1>3, <1>4, <1>5, <2>1
  <2>3. Len(pop.frames) = Len(Top.base)
    BY <1>2, <1>5, <2>2
  <2>4. QED
    BY <1>2, <1>4, <1>6, <2>3, BeginsEqual DEF Cut
<1>8. OK(store') /\ store'.frames = pop.frames
  BY <1>1, <1>4, DropSame DEF OK, Same
<1>9. /\ Alike(SubSeq(acts, 1, Len(acts) - 1), acts')
      /\ \A i \in 1..(Len(acts) - 1) : acts'[i].sections = acts[i].sections
  BY <1>1, RestFacts DEF Rest
<1>10. QED
  BY <1>1, <1>5, <1>6, <1>7, <1>8, <1>9, ReturnStep

(* One value less to free does not matter for the invariant. *)
LEMMA RestAlike ==
    ASSUME ScopeInv, Len(acts) > 1, NEW C
    PROVE  LET B == [Rest EXCEPT ![Len(Rest)].temps = @ \ C]
           IN  Alike(Rest, B) /\ \A i \in 1..(Len(acts) - 1) : B[i].sections = acts[i].sections
<1> DEFINE n == Len(Rest)
           a == [Rest[n] EXCEPT !.temps = @ \ C]
           B == [Rest EXCEPT ![n] = a]
<1>1. /\ Rest \in Seq(Acts) /\ n \in Nat /\ n # 0 /\ n = Len(acts) - 1
      /\ \A i \in 1..(Len(acts) - 1) : Rest[i] = acts[i]
  BY RestFacts, ScopeFacts
<1>2. n \in 1..n
  <2> HIDE DEF n
  <2>1. QED
    BY <1>1
<1>3. Rest[n] \in Acts
  BY <1>1, <1>2, ActFacts
<1>4. a \in Acts
  BY <1>3 DEF Acts
<1>5. a.how = Rest[n].how /\ a.base = Rest[n].base /\ a.defs = Rest[n].defs
      /\ a.this = Rest[n].this /\ a.sections = Rest[n].sections
  BY <1>3 DEF Acts
<1> HIDE DEF a
<1>6. B \in Seq(Acts) /\ Len(B) = n /\ \A i \in 1..n : B[i] = IF i = n THEN a ELSE Rest[i]
  BY <1>1, <1>2, <1>4, ExceptSeq
<1>7. B = [Rest EXCEPT ![Len(Rest)].temps = @ \ C]
  BY DEF a
<1> HIDE DEF B
<1>8. Alike(Rest, B)
  BY <1>5, <1>6 DEF Alike
<1>9. \A i \in 1..n : B[i].sections = Rest[i].sections
  BY <1>5, <1>6
<1>10. QED
  BY <1>1, <1>7, <1>8, <1>9

(* ReturnMethod keeps the invariant, and gives the caller its stack back   *)
(* when no exception has left a frame.                                     *)
LEMMA ReturnFromMethodStep ==
    ASSUME ScopeInv, ReturnMethod
    PROVE  ScopeInv' /\ (left = 0 => store'.frames = Top.base)
<1> DEFINE f == store.frames
           b == Len(Top.base)
           once == FramePop(store)
           twice == FramePop(once)
           gone == Top.temps \union {Top.this}
<1>1. /\ Top.how = "method" /\ store' = Drop(twice, gone) /\ left' = left
      /\ acts' = [Rest EXCEPT ![Len(Rest)].temps = @ \ {Top.this}]
  BY DEF ReturnMethod
<1>2. Len(acts) > 1
  <2>1. Len(acts) \in Nat \ {0} /\ acts[1].how = "call"
    BY DEF ScopeInv, FramesInv, ActsOK
  <2>2. Len(acts) # 1
    BY <1>1, <2>1 DEF Top
  <2>3. QED
    BY <2>1, <2>2
<1>3. /\ Begins(Top.base, f) /\ FramesOK(Top.base) /\ b \in Nat /\ b + 2 <= Len(f) /\ f[b + 1] = Boundary
      /\ \E m \in (b + 3)..Len(f) : f[m] = Boundary
  BY <1>1, TopFrames DEF Begun, BegunCall, BegunNew, BegunMethod
<1>4. OK(store) /\ Len(f) \in Nat
  BY ScopeFacts
<1>5. PICK m \in (b + 3)..Len(f) : f[m] = Boundary
  BY <1>3
<1>6. Cut(f, once.frames) /\ OK(once) /\ m <= LastBoundary(f)
  <2>1. m \in 1..Len(f)
    BY <1>3, <1>4
  <2>2. QED
    BY <1>4, <1>5, <2>1, PopCut
<1>7. /\ Len(once.frames) = LastBoundary(f) - 1 /\ LastBoundary(f) \in 1..Len(f)
      /\ f[LastBoundary(f)] = Boundary /\ Boundaries(f) \in Nat
      /\ Boundaries(once.frames) = Boundaries(f) - 1
      /\ \A i \in 1..Len(once.frames) : once.frames[i] = f[i]
  BY <1>6, CutFacts DEF Cut
<1>8. Begins(Top.base, once.frames)
  <2>1. b + 1 <= LastBoundary(f) /\ LastBoundary(f) \in Nat /\ b \in Nat
    BY <1>3, <1>4, <1>6, <1>7
  <2>2. b < LastBoundary(f)
    BY <2>1
  <2>3. QED
    BY <1>3, <1>6, <2>2, CutFacts
<1>9. b + 1 \in 1..Len(once.frames) /\ once.frames[b + 1] = Boundary
  <2>1. PICK c : c = LastBoundary(f)
    OBVIOUS
  <2>2. b \in Nat /\ c \in Nat /\ b + 3 <= m /\ m <= c /\ m \in Nat
    BY <1>3, <1>4, <1>6, <1>7, <2>1
  <2>3. Len(once.frames) = c - 1
    BY <1>7, <2>1
  <2>4. b + 1 \in 1..(c - 1)
    <3> HIDE DEF b
    <3>1. QED
      BY <2>2
  <2>5. QED
    BY <1>3, <1>7, <2>3, <2>4
<1> HIDE DEF once
<1>10. Cut(once.frames, twice.frames) /\ OK(twice) /\ b + 1 <= LastBoundary(once.frames)
  BY <1>6, <1>9, PopCut
<1> HIDE DEF twice
<1>11. /\ Len(twice.frames) = LastBoundary(once.frames) - 1
       /\ LastBoundary(once.frames) \in 1..Len(once.frames)
       /\ once.frames[LastBoundary(once.frames)] = Boundary
       /\ Boundaries(twice.frames) = Boundaries(once.frames) - 1
  BY <1>10, CutFacts DEF Cut
<1>12. Begins(Top.base, twice.frames)
  <2>1. b < LastBoundary(once.frames)
    BY <1>3, <1>10, <1>11
  <2>2. QED
    BY <1>3, <1>8, <1>10, <2>1, CutFacts
<1>13. ASSUME left = 0 PROVE twice.frames = Top.base
  <2>1. PICK k \in (b + 3)..Len(f) :
           f[k] = Boundary /\ \A i \in (b + 2)..Len(f) : i # k => f[i] # Boundary
    BY <1>1, <1>13, TopFrames DEF Exact
  <2>2. LastBoundary(f) = k
    <3>1. LastBoundary(f) \in (b + 2)..Len(f)
      BY <1>3, <1>4, <1>6, <1>7
    <3>2. QED
      BY <1>7, <2>1, <3>1
  <2>3. LastBoundary(once.frames) = b + 1
    <3> DEFINE j == LastBoundary(once.frames)
    <3>1. j \in 1..Len(once.frames) /\ b + 1 <= j /\ once.frames[j] = Boundary
      BY <1>10, <1>11
    <3>2. f[j] = Boundary /\ j # k
      BY <1>7, <2>1, <2>2, <3>1
    <3>3. j \notin (b + 2)..Len(f)
      <4>1. \A i \in (b + 2)..Len(f) : i # k => f[i] # Boundary
        BY <2>1
      <4> HIDE DEF j, b, f
      <4>2. QED
        BY <3>2, <4>1
    <3>4. j \in Nat /\ b \in Nat /\ b + 1 <= j /\ j <= Len(f)
      <4>1. Len(once.frames) = LastBoundary(f) - 1 /\ LastBoundary(f) \in 1..Len(f)
        BY <1>7
      <4>2. b \in Nat /\ Len(f) \in Nat
        BY <1>3, <1>4
      <4> HIDE DEF j, b, f
      <4>3. QED
        BY <3>1, <4>1, <4>2
    <3> HIDE DEF j, b, f
    <3>5. j = b + 1
      BY <1>4, <3>3, <3>4
    <3>6. QED
      BY <3>5 DEF j
  <2>4. Len(twice.frames) = Len(Top.base)
    BY <1>3, <1>11, <2>3
  <2>5. QED
    BY <1>3, <1>10, <1>12, <2>4, BeginsEqual DEF Cut
<1>14. OK(store') /\ store'.frames = twice.frames
  BY <1>1, <1>10, DropSame DEF OK, Same
<1>15. Boundaries(store'.frames) = Boundaries(f) - 2
  BY <1>7, <1>11, <1>14
<1>16. /\ Alike(SubSeq(acts, 1, Len(acts) - 1), acts')
       /\ \A i \in 1..(Len(acts) - 1) : acts'[i].sections = acts[i].sections
  BY <1>1, <1>2, RestAlike DEF Rest
<1>17. QED
  BY <1>1, <1>2, <1>12, <1>13, <1>14, <1>15, <1>16, ReturnStep

(* What a constructor's frame holds, when it becomes an object.            *)
LEMMA SavedNames ==
    ASSUME ScopeInv, Top.how = "new", LastBoundary(store.frames) # 0,
           Len(Top.base) + 2 <= LastBoundary(store.frames)
    PROVE  DOMAIN FrameSave(store)[2] \subseteq Kinds.names
<1> DEFINE f == store.frames
           n == Len(acts)
<1>1. Shape(store, Kinds) /\ FramesOK(f) /\ Len(f) \in Nat /\ DOMAIN f = 1..Len(f)
  BY ScopeFacts DEF FramesOK
<1>2. DOMAIN FrameSave(store)[2] \subseteq {f[i].name : i \in Frame(store)}
  BY <1>1, FrameSaveFacts
<1>3. ASSUME NEW i \in Frame(store) PROVE f[i].name \in Kinds.names
  <2>1. i \in 1..Len(f) /\ f[i] # Boundary /\ i > LastBoundary(f)
    BY <1>1 DEF Frame, Entries
  <2>2. f[i].name \in STRING
    BY <1>1, <2>1, CellOfNat
  <2>3. CASE ~ Plain
    BY <2>2, <2>3 DEF Kinds
  <2>4. CASE Plain
    <3>1. left = 0
      BY <2>4 DEF ScopeInv, Untried, Plain
    <3>2. FramesInv(acts, f, left)
      BY DEF ScopeInv
    <3>3. ThisPlaced(acts, f)
      BY <2>4, <3>1, <3>2 DEF FramesInv
    <3>4. ASSUME f[i].name = "this" PROVE FALSE
      <4>1. PICK j \in 1..n : i = ThisAt(acts[j])
        BY <2>1, <3>3, <3>4 DEF ThisPlaced
      <4>2. n \in Nat \ {0} /\ acts \in Seq(Acts)
        BY ScopeFacts
      <4>3. Len(acts[j].base) \in Nat
        BY <4>1, <4>2, ActFacts
      <4>4. n \in 1..n /\ j \in 1..n
        <5> HIDE DEF n
        <5>1. QED
          BY <4>1, <4>2
      <4>5. Len(acts[j].base) <= Len(acts[n].base)
        BY <4>2, <4>4, <3>2, BasesGrow DEF FramesInv
      <4>6. Len(acts[j].base) <= Len(Top.base) /\ Len(Top.base) \in Nat /\ LastBoundary(f) \in Nat
        BY <1>1, <4>5, TopFrames, LastBoundaryFacts DEF Top
      <4>7. i <= Len(acts[j].base) + 2
        BY <4>1, <4>3 DEF ThisAt
      <4>8. QED
        BY <2>1, <4>3, <4>6, <4>7
    <3>5. Kinds.names = Names
      BY <2>4 DEF Kinds
    <3>6. QED
      BY <2>2, <3>4, <3>5 DEF Names
  <2>5. QED
    BY <2>3, <2>4
<1>4. QED
  BY <1>2, <1>3

(* The alias for this that a constructor call made goes when it returns.   *)
LEMMA ThisGone ==
    ASSUME NEW s, OK(s), NEW a \in Acts, NEW b, b = Len(a.base), b + 1 <= Len(s.frames),
           FramesOK(a.base), Begins(a.base, s.frames), s.frames[b + 1] = ThisOf(a)
    PROVE  /\ OK(Pop(s, "this")) /\ Begins(a.base, Pop(s, "this").frames)
           /\ Boundaries(Pop(s, "this").frames) = Boundaries(s.frames)
           /\ Pop(s, "this").objs = s.objs
           /\ Len(s.frames) = b + 1 => Pop(s, "this").frames = a.base
<1> DEFINE g == s.frames
           k == GetPos(s, "this")
           h == RemoveAt(g, k)
<1>1. Shape(s, Kinds) /\ FramesOK(g) /\ Len(g) \in Nat /\ b \in Nat /\ DOMAIN g = 1..Len(g)
  BY DEF OK, Shape, FramesOK
<1>2. b + 1 \in 1..Len(g) /\ g[b + 1] # Boundary /\ g[b + 1].name = "this"
  <2>1. a.this \in Nat /\ "this" \in STRING
    BY NamesAssumption DEF Acts, NamesAssumption
  <2>2. AliasOf("this", a.this, TRUE) # Boundary /\ AliasOf("this", a.this, TRUE).name = "this"
    BY <2>1, EntryFacts
  <2>3. g[b + 1] = AliasOf("this", a.this, TRUE)
    BY DEF ThisOf
  <2>4. b + 1 \in 1..Len(g)
    BY <1>1
  <2>5. QED
    BY <2>2, <2>3, <2>4
<1>3. Accessible(s, b + 1)
  BY DEF Accessible, ThisOf, AliasOf
<1>4. k \in 0..Len(g) /\ b + 1 <= k /\ (k # 0 => g[k] # Boundary)
  BY <1>1, <1>2, <1>3, GetPosFacts
<1>5. k \in 1..Len(g) /\ g[k] # Boundary /\ b < k
  BY <1>1, <1>4
<1>6. Pop(s, "this") = DropEntry(s, k)
  BY DEF Pop
<1> HIDE DEF k
<1>7. Shape(DropEntry(s, k), Kinds) /\ DropEntry(s, k).frames = h /\ DropEntry(s, k).objs = s.objs
  BY <1>1, <1>5, DropEntryFacts
<1>8. FramesOK(h)
  BY <1>7 DEF Shape
<1>9. Len(h) = Len(g) - 1 /\ \A j \in 1..(k - 1) : h[j] = g[j]
  BY <1>1, <1>5, RemoveAtFacts
<1>10. Boundaries(h) = Boundaries(g)
  BY <1>1, <1>5, <1>8, BoundariesRemove
<1> HIDE DEF h
<1>11. Begins(a.base, h)
  <2>1. Len(a.base) <= Len(h)
    BY <1>1, <1>5, <1>9
  <2>2. \A i \in 1..b : i \in 1..(k - 1)
    BY <1>1, <1>5
  <2>3. QED
    BY <1>9, <2>1, <2>2 DEF Begins
<1>12. Len(g) = b + 1 => h = a.base
  <2>1. Len(g) = b + 1 => Len(h) = Len(a.base)
    BY <1>1, <1>9
  <2>2. QED
    BY <1>8, <1>11, <2>1, BeginsEqual
<1>13. QED
  BY <1>6, <1>7, <1>10, <1>11, <1>12 DEF OK

(* ReturnObject keeps the invariant, and gives the caller its stack back   *)
(* when no exception has left a frame.                                     *)
LEMMA ReturnFromNewStep ==
    ASSUME ScopeInv, ReturnObject
    PROVE  ScopeInv' /\ (left = 0 => store'.frames = Top.base)
<1> DEFINE f == store.frames
           b == Len(Top.base)
           saved == FrameSave(store)
           g == saved[1].frames
           r == store.cells[Top.this]
           popped == Pop(saved[1], "this")
           object == ObjectAddImage(popped, r, saved[2])
           dropped == Drop(object, Top.temps)
<1>1. /\ Top.how = "new" /\ left' = left /\ acts' = Rest
      /\ \E c : store' = Put(dropped, c, r)
  BY DEF ReturnObject
<1>2. IsObject(store, r)
  BY DEF ReturnObject, IsKind, Kind, IsObject
<1>3. Len(acts) > 1
  <2>1. Len(acts) \in Nat \ {0} /\ acts[1].how = "call"
    BY DEF ScopeInv, FramesInv, ActsOK
  <2>2. Len(acts) # 1
    BY <1>1, <2>1 DEF Top
  <2>3. QED
    BY <2>1, <2>2
<1>4. OK(store) /\ Len(f) \in Nat /\ FramesOK(f) /\ Top \in Acts
  BY ScopeFacts
<1>5. /\ Begins(Top.base, f) /\ FramesOK(Top.base) /\ b \in Nat
      /\ b + 2 <= Len(f) /\ f[b + 1] = ThisOf(Top) /\ f[b + 2] = Boundary
  BY <1>1, TopFrames DEF Begun, BegunCall, BegunNew, BegunMethod
<1>6. LastBoundary(f) \in 0..Len(f) /\ b + 2 <= LastBoundary(f)
  <2>1. b + 2 \in 1..Len(f)
    BY <1>4, <1>5
  <2>2. QED
    BY <1>4, <1>5, <2>1, LastBoundaryFacts
<1>7. LastBoundary(f) # 0
  BY <1>5, <1>6
<1>8. /\ OK(saved[1]) /\ NamesMap(saved[2]) /\ Len(g) = LastBoundary(f) - 1
      /\ \A i \in 1..(LastBoundary(f) - 1) : g[i] = f[i]
      /\ IsObject(saved[1], r)
  BY <1>2, <1>4, <1>7, FrameSaveFacts DEF OK, IsObject
<1>9. DOMAIN saved[2] \subseteq Kinds.names
  BY <1>1, <1>6, <1>7, SavedNames
<1> HIDE DEF saved, r
<1>10. Cut(f, g)
  BY <1>4, <1>7, <1>8 DEF Cut, OK, Shape
<1>11. Begins(Top.base, g) /\ Boundaries(g) = Boundaries(f) - 1
  <2>1. Len(Top.base) < LastBoundary(f)
    BY <1>5, <1>6
  <2>2. QED
    BY <1>5, <1>10, <2>1, CutFacts
<1>12. b + 1 <= Len(g) /\ g[b + 1] = ThisOf(Top)
  <2>1. b + 1 <= Len(g) /\ b + 1 \in 1..(LastBoundary(f) - 1)
    BY <1>5, <1>6, <1>8
  <2>2. QED
    BY <1>5, <1>8, <2>1
<1>13. /\ OK(popped) /\ Begins(Top.base, popped.frames)
       /\ Boundaries(popped.frames) = Boundaries(g) /\ popped.objs = saved[1].objs
       /\ Len(g) = b + 1 => popped.frames = Top.base
  BY <1>4, <1>5, <1>8, <1>11, <1>12, ThisGone
<1> HIDE DEF popped
<1>14. Same(popped, object, Kinds)
  <2>1. IsObject(popped, r)
    BY <1>8, <1>13 DEF IsObject
  <2>2. QED
    BY <1>8, <1>9, <1>13, <2>1, ObjectAddImageSame DEF OK
<1> HIDE DEF object
<1>15. Same(object, dropped, Kinds)
  BY <1>14, DropSame DEF Same
<1> HIDE DEF dropped
<1>16. Same(dropped, store', Kinds)
  BY <1>1, <1>15, PutSame DEF Same
<1>17. OK(store') /\ store'.frames = popped.frames
  BY <1>14, <1>15, <1>16 DEF OK, Same
<1>18. left = 0 => store'.frames = Top.base
  <2>1. SUFFICES ASSUME left = 0 PROVE store'.frames = Top.base
    OBVIOUS
  <2>2. \A i \in (b + 3)..Len(f) : f[i] # Boundary
    BY <1>1, <2>1, TopFrames DEF Exact
  <2>3. f[LastBoundary(f)] = Boundary
    BY <1>4, <1>7, LastBoundaryFacts
  <2>4. LastBoundary(f) = b + 2
    BY <1>4, <1>5, <1>6, <2>2, <2>3
  <2>5. Len(g) = b + 1
    BY <1>5, <1>8, <2>4
  <2>6. QED
    BY <1>13, <1>17, <2>5
<1>19. /\ Alike(SubSeq(acts, 1, Len(acts) - 1), acts')
       /\ \A i \in 1..(Len(acts) - 1) : acts'[i].sections = acts[i].sections
  BY <1>1, <1>3, RestFacts DEF Rest
<1>20. Boundaries(store'.frames) = Boundaries(f) - (IF Top.how = "method" THEN 2 ELSE 1)
  BY <1>1, <1>11, <1>13, <1>17
<1>21. Begins(Top.base, store'.frames)
  BY <1>13, <1>17
<1>22. QED
  BY <1>1, <1>3, <1>17, <1>18, <1>19, <1>20, <1>21, ReturnStep

-----------------------------------------------------------------------------
(* Try sections and exceptions. *)
LEMMA SectionsStep ==
    ASSUME ScopeInv, NEW x \in Nat, acts' = [acts EXCEPT ![Len(acts)].sections = x],
           store' = store, left' = left, Raising
    PROVE  ScopeInv'
<1> DEFINE a == [Top EXCEPT !.sections = x]
<1>1. a \in Acts /\ Top \in Acts
  BY ScopeFacts DEF Acts
<1>2. a.how = Top.how /\ a.base = Top.base /\ a.defs = Top.defs /\ a.this = Top.this
  BY <1>1 DEF Acts
<1>3. acts' = [acts EXCEPT ![Len(acts)] = a]
  BY DEF Top
<1> HIDE DEF a
<1>4. Alike(acts, acts')
  BY <1>1, <1>2, <1>3, TopAlike
<1>5. FramesInv(acts', store.frames, left)
  BY <1>4, AlikeInv DEF ScopeInv
<1>6. QED
  BY <1>5 DEF ScopeInv, Untried, OK

(* OpenTry and CloseTry keep the invariant. *)
LEMMA TryStep ==
    ASSUME ScopeInv, OpenTry \/ CloseTry
    PROVE  ScopeInv'
<1> DEFINE n == Len(acts)
<1>1. Top \in Acts /\ acts \in Seq(Acts) /\ n \in Nat \ {0}
  BY ScopeFacts
<1>2. Top.sections \in Nat
  BY <1>1 DEF Acts
<1>3. CASE OpenTry
  <2>1. Top.sections + 1 \in Nat
    BY <1>2
  <2>2. acts' = [acts EXCEPT ![n].sections = Top.sections + 1] /\ Raising
        /\ store' = store /\ left' = left
    BY <1>3 DEF OpenTry, Top
  <2>3. QED
    BY <2>1, <2>2, SectionsStep
<1>4. CASE CloseTry
  <2>1. Top.sections > 0 /\ store' = store /\ left' = left
        /\ acts' = [acts EXCEPT ![n].sections = Top.sections - 1]
    BY <1>4 DEF CloseTry, Top
  <2>2. Top.sections - 1 \in Nat
    BY <1>2, <2>1
  <2>3. n \in 1..n
    <3> HIDE DEF n
    <3>1. QED
      BY <1>1
  <2>4. Raising
    BY <1>2, <2>1, <2>3 DEF ScopeInv, Untried, Top
  <2>5. QED
    BY <2>1, <2>2, <2>4, SectionsStep
<1>5. QED
  BY <1>3, <1>4

(* The stack when an exception has left all activations but the first i of *)
(* A, which had frames f and l frames more than they had made.             *)
Stage(A, f, l, i, s) ==
    /\ OK(s) /\ Begins(FramesOf(A, f, i), s.frames)
    /\ Boundaries(s.frames) = Len(A) + l + MethodCalls(SubSeq(A, 1, i))
    /\ i = Len(A) => s.frames = f

(* An exception leaves one more activation: a frame of it stays, for a     *)
(* method one of two.                                                      *)
LEMMA UnwindStage ==
    ASSUME NEW A, NEW f, NEW l, FramesInv(A, f, l), NEW i \in 1..Len(A), i # 1,
           NEW s, Stage(A, f, l, i, s)
    PROVE  Stage(A, f, l, i - 1, Unwind(A[i], s))
<1> DEFINE a == A[i]
           h == FramesOf(A, f, i)
           b == Len(a.base)
           t == IF a.how = "new" THEN Invalidate(s, s.cells[a.this]) ELSE s
           freed == Drop(t, a.temps)
           M == MethodCalls(SubSeq(A, 1, i))
           N == MethodCalls(SubSeq(A, 1, i - 1))
<1>1. /\ A \in Seq(Acts) /\ Len(A) \in Nat /\ i - 1 \in 1..Len(A) /\ i - 1 # Len(A) /\ (i - 1) + 1 = i
      /\ FramesOK(f) /\ l \in Nat
  <2>1. A \in Seq(Acts) /\ Len(A) \in Nat /\ FramesOK(f) /\ l \in Nat
    BY DEF FramesInv, ActsOK
  <2>2. QED
    BY <2>1
<1>2. a \in Acts /\ FramesOK(a.base) /\ b \in Nat
  BY <1>1, ActFacts
<1>3. FramesOf(A, f, i - 1) = a.base
  BY <1>1 DEF FramesOf
<1>4. FramesOK(h) /\ FramesOK(s.frames) /\ Shape(s, Kinds)
  BY <1>1, FramesOfOK DEF Stage, OK, Shape
<1>5. Begins(h, s.frames) /\ Boundaries(s.frames) = Len(A) + l + M
  BY DEF Stage
<1>6. Begins(a.base, h)
  BY <1>1 DEF FramesInv, Nested
<1>7. Begins(a.base, s.frames)
  BY <1>2, <1>4, <1>5, <1>6, ExtendsFacts
<1>8. Begun(a, s.frames)
  <2>1. Begun(a, h)
    BY DEF FramesInv, AllBegun
  <2>2. QED
    BY <1>2, <1>4, <1>5, <2>1, BegunLonger
<1>9. M = N + (IF a.how = "method" THEN 1 ELSE 0) /\ N \in Nat
  BY <1>1, MethodsCut
<1> HIDE DEF h
<1>10. Same(s, freed, Kinds)
  <2>1. Same(s, t, Kinds)
    BY <1>4, InvalidateSame DEF Same, Invalidate
  <2>2. QED
    BY <2>1, DropSame DEF Same
<1>11. Unwind(a, s) = IF a.how = "method" THEN FramePop(freed) ELSE freed
  BY DEF Unwind
<1> HIDE DEF freed, t
<1>12. OK(freed) /\ freed.frames = s.frames
  BY <1>10 DEF Same, OK
<1>13. CASE a.how # "method"
  <2>1. M = N
    BY <1>9, <1>13
  <2> HIDE DEF M, N
  <2>2. QED
    BY <1>1, <1>3, <1>5, <1>7, <1>11, <1>12, <1>13, <2>1 DEF Stage, N
<1>14. CASE a.how = "method"
  <2>1. b + 1 \in 1..Len(s.frames) /\ s.frames[b + 1] = Boundary
    <3>1. b + 2 <= Len(s.frames) /\ s.frames[b + 1] = Boundary
      BY <1>8, <1>14 DEF Begun, BegunCall, BegunNew, BegunMethod
    <3>2. Len(s.frames) \in Nat
      BY <1>4 DEF FramesOK
    <3>3. QED
      BY <1>2, <3>1, <3>2
  <2>2. Cut(s.frames, FramePop(freed).frames) /\ OK(FramePop(freed)) /\ b + 1 <= LastBoundary(s.frames)
    BY <1>12, <2>1, PopCut
  <2>3. /\ Boundaries(FramePop(freed).frames) = Boundaries(s.frames) - 1
        /\ LastBoundary(s.frames) \in 1..Len(s.frames) /\ Len(s.frames) \in Nat
    BY <2>2, CutFacts
  <2>4. Len(a.base) < LastBoundary(s.frames)
    BY <1>2, <2>2, <2>3
  <2>5. Begins(a.base, FramePop(freed).frames)
    BY <1>2, <1>7, <2>2, <2>4, CutFacts
  <2>6. M = N + 1 /\ N \in Nat
    BY <1>9, <1>14
  <2> HIDE DEF M, N
  <2>7. Boundaries(FramePop(freed).frames) = Len(A) + l + N
    BY <1>1, <1>5, <2>3, <2>6
  <2>8. QED
    BY <1>1, <1>3, <1>11, <1>14, <2>2, <2>5, <2>7 DEF Stage, N
<1>15. QED
  BY <1>13, <1>14

(* The loop over the activations that an exception leaves. *)
LowestOf(env, D) == Min(D)

(* The least of a set of numbers. *)
LEMMA FirstFacts ==
    ASSUME NEW D, D \subseteq Nat, D # {}
    PROVE  Min(D) \in D /\ \A i \in D : Min(D) <= i
<1>1. \E n \in D : \A m \in D : n <= m
  BY LeastNumber
<1>2. QED
  BY <1>1 DEF Min

UnwindStep(env, j, s) == Unwind(env.calls[j], s)

Unwound(env, D, s) ==
    LET m == Len(env.acts) - env.to
    IN  \A j \in 1..(m + 1) : D = j..m => Stage(env.acts, env.frames, env.left, env.to + j - 1, s)

UnwindFold == INSTANCE Folding WITH Op <- UnwindStep, Pick <- LowestOf, Good <- Unwound

(* One step of the fold over the activations an exception leaves. *)
LEMMA UnwoundStep ==
    ASSUME NEW A, NEW f, NEW l, FramesInv(A, f, l), NEW k \in 1..Len(A), NEW calls,
           \A j \in 1..(Len(A) - k) : calls[j] = A[k + j],
           NEW env, env = [acts |-> A, frames |-> f, left |-> l, to |-> k, calls |-> calls],
           NEW D \in SUBSET (1..(Len(A) - k)), D # {},
           NEW s, Unwound(env, D \ {LowestOf(env, D)}, s)
    PROVE  Unwound(env, D, UnwindStep(env, LowestOf(env, D), s))
<1> DEFINE m == Len(A) - k
<1>1. A \in Seq(Acts) /\ Len(A) \in Nat /\ m \in Nat /\ k \in Nat /\ k >= 1
  <2>1. A \in Seq(Acts) /\ Len(A) \in Nat
    BY DEF FramesInv, ActsOK
  <2>2. QED
    BY <2>1
<1>2. env.acts = A /\ env.frames = f /\ env.left = l /\ env.to = k /\ env.calls = calls
  OBVIOUS
<1>3. SUFFICES ASSUME NEW j \in 1..(m + 1), D = j..m
      PROVE  Stage(A, f, l, k + j - 1, UnwindStep(env, LowestOf(env, D), s))
  BY <1>2 DEF Unwound
<1>4. j \in 1..m /\ j + 1 \in 1..(m + 1) /\ j \in D
  <2> HIDE DEF m
  <2>1. QED
    BY <1>1, <1>3
<1>5. LowestOf(env, D) = j
  <2>1. D \subseteq Nat
    BY <1>1, <1>3
  <2>2. Min(D) \in D /\ Min(D) <= j
    BY <1>4, <2>1, FirstFacts
  <2> HIDE DEF m
  <2>3. Min(D) = j
    BY <1>1, <1>3, <1>4, <2>2
  <2>4. QED
    BY <2>3 DEF LowestOf
<1>6. D \ {j} = (j + 1)..m
  <2> HIDE DEF m
  <2>1. QED
    BY <1>1, <1>3, <1>4
<1>7. Stage(A, f, l, k + (j + 1) - 1, s)
  <2>1. \A i \in 1..(m + 1) : D \ {j} = i..m => Stage(A, f, l, k + i - 1, s)
    BY <1>2, <1>5 DEF Unwound
  <2>2. QED
    BY <1>4, <1>6, <2>1
<1> DEFINE i == k + j
<1>8. i \in 1..Len(A) /\ i # 1 /\ i - 1 = k + j - 1 /\ i = k + (j + 1) - 1
  BY <1>1, <1>4
<1>9. UnwindStep(env, j, s) = Unwind(A[i], s)
  BY <1>2, <1>4 DEF UnwindStep
<1> HIDE DEF i
<1>10. Stage(A, f, l, i - 1, Unwind(A[i], s))
  BY <1>7, <1>8, UnwindStage
<1>11. QED
  BY <1>5, <1>8, <1>9, <1>10

(* What an exception that leaves all activations above number k makes of   *)
(* the stack.                                                              *)
LEMMA UnwindAllStage ==
    ASSUME NEW A, NEW s, OK(s), NEW l, FramesInv(A, s.frames, l), NEW k \in 1..Len(A)
    PROVE  Stage(A, s.frames, l, k, UnwindAll(SubSeq(A, k + 1, Len(A)), s))
<1> DEFINE f == s.frames
           n == Len(A)
           calls == SubSeq(A, k + 1, n)
           m == n - k
           S == DOMAIN calls
           env == [acts |-> A, frames |-> f, left |-> l, to |-> k, calls |-> calls]
<1>1. A \in Seq(Acts) /\ n \in Nat \ {0} /\ k \in Nat /\ k >= 1 /\ k <= n /\ l \in Nat
  <2>1. A \in Seq(Acts) /\ Len(A) \in Nat \ {0} /\ l \in Nat
    BY DEF FramesInv, ActsOK
  <2>2. QED
    BY <2>1
<1>2. S = 1..m /\ \A j \in 1..m : calls[j] = A[k + j]
  <2>1. k + 1 \in Int /\ n \in Int /\ n - (k + 1) + 1 = m
        /\ (IF k + 1 <= n THEN n - (k + 1) + 1 ELSE 0) = m
        /\ \A j \in 1..m : k + 1 + j - 1 = k + j
    <3> HIDE DEF n
    <3>1. QED
      BY <1>1
  <2>2. \A j \in (k + 1)..n : A[j] \in Acts
    <3>1. SUFFICES ASSUME NEW j \in (k + 1)..n PROVE A[j] \in Acts
      OBVIOUS
    <3>2. j \in 1..n
      <4> HIDE DEF n
      <4>1. QED
        BY <1>1
    <3>3. QED
      BY <1>1, <3>2, ActFacts
  <2> HIDE DEF n, m
  <2>3. /\ calls \in Seq(Acts) /\ Len(calls) = (IF k + 1 <= n THEN n - (k + 1) + 1 ELSE 0)
        /\ \A j \in 1..(n - (k + 1) + 1) : calls[j] = A[k + 1 + j - 1]
    BY <2>1, <2>2, SubSeqProperties
  <2> HIDE DEF calls
  <2>4. Len(calls) = m /\ DOMAIN calls = 1..Len(calls)
    BY <2>1, <2>3
  <2>5. QED
    BY <2>1, <2>3, <2>4 DEF S
<1>3. UnwindAll(calls, s) = UnwindFold!Fold(env, s, S)
  BY DEF UnwindAll, FoldRight, MapThenFoldSet, UnwindStep, LowestOf, UnwindFold!Fold, UnwindFold!Equation
<1> HIDE DEF calls, S
<1>4. UnwindFold!IsFiniteSet(S)
  <2>1. m \in Int
    <3> HIDE DEF n
    <3>1. QED
      BY <1>1
  <2>2. IsFiniteSet(S)
    BY <1>2, <2>1, FS_Interval
  <2>3. QED
    BY <2>2 DEF IsFiniteSet, UnwindFold!IsFiniteSet
<1>5. \A D \in SUBSET S : D # {} => LowestOf(env, D) \in D
  <2>1. SUFFICES ASSUME NEW D \in SUBSET S, D # {} PROVE Min(D) \in D
    BY DEF LowestOf
  <2>2. D \subseteq Nat
    BY <1>1, <1>2
  <2>3. QED
    BY <2>1, <2>2, FirstFacts
<1>6. Unwound(env, {}, s)
  <2>1. SUFFICES ASSUME NEW j \in 1..(m + 1), {} = j..m PROVE Stage(A, f, l, k + j - 1, s)
    BY DEF Unwound
  <2>2. k + j - 1 = n
    <3>1. m \in Nat /\ m = n - k
      <4> HIDE DEF n
      <4>1. QED
        BY <1>1
    <3>2. j = m + 1
      <4>1. ASSUME j <= m PROVE FALSE
        <5>1. j \in j..m
          BY <3>1, <4>1
        <5>2. QED
          BY <2>1, <5>1
      <4> HIDE DEF m
      <4>2. QED
        BY <3>1, <4>1
    <3> HIDE DEF n, m
    <3>3. QED
      BY <1>1, <3>1, <3>2
  <2>3. FramesOf(A, f, n) = f /\ Begins(f, f)
    <3>1. FramesOK(f)
      BY DEF FramesInv
    <3>2. QED
      BY DEF FramesOf, Begins, FramesOK
  <2>4. MethodCalls(SubSeq(A, 1, n)) = MethodCalls(A)
    <3>1. n \in 1..n
      <4> HIDE DEF n
      <4>1. QED
        BY <1>1
    <3>2. QED
      BY <1>1, <3>1, MethodsCut
  <2>5. Boundaries(f) = n + l + MethodCalls(A)
    <3>1. Boundaries(f) = n + MethodCalls(A) + l /\ MethodCalls(A) \in Nat
      BY <1>1, MethodsFinite DEF FramesInv, Counted
    <3> HIDE DEF n
    <3>2. QED
      BY <1>1, <3>1
  <2>6. QED
    BY <2>2, <2>3, <2>4, <2>5 DEF Stage
<1>7. ASSUME NEW D \in SUBSET S, D # {}, NEW q, Unwound(env, D \ {LowestOf(env, D)}, q)
      PROVE  Unwound(env, D, UnwindStep(env, LowestOf(env, D), q))
  <2>1. D \in SUBSET (1..(Len(A) - k))
    BY <1>2
  <2>2. QED
    BY <1>2, <1>7, <2>1, UnwoundStep
<1> HIDE DEF env, S
<1>8. Unwound(env, S, UnwindFold!Fold(env, s, S))
  BY <1>4, <1>5, <1>6, <1>7, UnwindFold!FoldKeeps
<1>9. \A j \in 1..(m + 1) : S = j..m => Stage(A, f, l, k + j - 1, UnwindFold!Fold(env, s, S))
  BY <1>8 DEF Unwound, env
<1>10. 1 \in 1..(m + 1) /\ k + 1 - 1 = k
  <2> HIDE DEF n
  <2>1. QED
    BY <1>1
<1>11. Stage(A, f, l, k, UnwindFold!Fold(env, s, S))
  <2> HIDE DEF m
  <2>1. Stage(A, f, l, k + 1 - 1, UnwindFold!Fold(env, s, S))
    BY <1>2, <1>9, <1>10
  <2>2. QED
    BY <1>10, <2>1
<1>12. QED
  BY <1>3, <1>11 DEF calls

(* Raise keeps the invariant, and counts the activations that are left. *)
LEMMA RaiseStep ==
    ASSUME ScopeInv, Raise
    PROVE  ScopeInv' /\ left' = left + (Len(acts) - Len(acts'))
<1> DEFINE n == Len(acts)
           T == {i \in DOMAIN acts : acts[i].sections > 0}
           to == CHOOSE i \in DOMAIN acts : acts[i].sections > 0
                         /\ \A j \in DOMAIN acts : acts[j].sections > 0 => j <= i
           l2 == left + (n - to)
<1>1. /\ acts \in Seq(Acts) /\ n \in Nat \ {0} /\ left \in Nat /\ OK(store)
      /\ FramesInv(acts, store.frames, left) /\ DOMAIN acts = 1..n
  BY ScopeFacts DEF ScopeInv
<1>2. to \in 1..n /\ acts[to].sections > 0
  <2>1. T # {} /\ T \subseteq 1..n
    BY <1>1 DEF Raise
  <2>2. Max(T) \in T /\ \A i \in T : i <= Max(T)
    BY <1>1, <2>1, Greatest
  <2>3. \E i \in DOMAIN acts : acts[i].sections > 0
           /\ \A j \in DOMAIN acts : acts[j].sections > 0 => j <= i
    BY <2>2
  <2>4. QED
    BY <1>1, <2>3
<1>3. /\ store' = UnwindAll(SubSeq(acts, to + 1, n), store) /\ left' = l2
      /\ acts' = [SubSeq(acts, 1, to) EXCEPT ![to].sections = @ - 1]
  BY DEF Raise
<1> HIDE DEF to
<1>4. Stage(acts, store.frames, left, to, store')
  BY <1>1, <1>2, <1>3, UnwindAllStage
<1> DEFINE B == SubSeq(acts, 1, to)
<1>5. l2 \in Nat /\ (l2 = 0 => left = 0 /\ to = n)
  <2> HIDE DEF n
  <2>1. QED
    BY <1>1, <1>2
<1>6. FramesInv(B, store'.frames, l2)
  <2>1. Boundaries(store'.frames) = to + MethodCalls(B) + l2
    <3>1. Boundaries(store'.frames) = n + left + MethodCalls(B) /\ MethodCalls(B) \in Nat
      BY <1>1, <1>2, <1>4, MethodsCut DEF Stage
    <3> HIDE DEF n, B
    <3>2. QED
      BY <1>1, <1>2, <3>1
  <2>2. l2 = 0 => left = 0 /\ store'.frames = FramesOf(acts, store.frames, to)
    BY <1>4, <1>5 DEF Stage, FramesOf
  <2>3. FramesOK(store'.frames) /\ Begins(FramesOf(acts, store.frames, to), store'.frames)
    BY <1>4 DEF Stage, OK, Shape
  <2> HIDE DEF n, l2
  <2>4. QED
    BY <1>1, <1>2, <1>5, <2>1, <2>2, <2>3, StepCut DEF n
<1>7. Alike(B, acts') /\ Len(acts') = to
  <2> DEFINE a == [acts[to] EXCEPT !.sections = @ - 1]
             C == [B EXCEPT ![to] = a]
  <2>1. B \in Seq(Acts) /\ Len(B) = to /\ \A i \in 1..to : B[i] = acts[i]
    BY <1>6, <1>1, <1>2, SubSeqProperties, ActFacts DEF FramesInv, ActsOK
  <2>2. acts[to] \in Acts /\ to \in 1..to
    BY <1>1, <1>2, ActFacts
  <2>3. acts[to].sections - 1 \in Nat
    BY <1>2, <2>2 DEF Acts
  <2>4. a \in Acts /\ a.how = acts[to].how /\ a.base = acts[to].base /\ a.defs = acts[to].defs
        /\ a.this = acts[to].this
    BY <2>2, <2>3 DEF Acts
  <2>5. acts' = C
    BY <1>3, <2>1, <2>2
  <2> HIDE DEF a, B
  <2>6. C \in Seq(Acts) /\ Len(C) = to /\ \A i \in 1..to : C[i] = IF i = to THEN a ELSE B[i]
    BY <2>1, <2>2, <2>4, ExceptSeq
  <2> HIDE DEF C
  <2>7. Alike(B, C)
    BY <2>1, <2>4, <2>6 DEF Alike
  <2>8. QED
    BY <2>5, <2>6, <2>7
<1>8. FramesInv(acts', store'.frames, left')
  BY <1>3, <1>6, <1>7, AlikeInv
<1>9. Untried'
  <2>1. Raising
    <3>1. acts[to].sections # 0
      BY <1>2
    <3>2. QED
      BY <1>2, <3>1 DEF ScopeInv, Untried
  <2>2. QED
    BY <2>1 DEF Untried
<1>10. QED
  BY <1>3, <1>4, <1>7, <1>8, <1>9 DEF ScopeInv, Stage

-----------------------------------------------------------------------------
(* The invariant holds when the program starts, and after each step. *)
LEMMA ScopeStarts ==
    ASSUME Init
    PROVE  ScopeInv
<1> DEFINE empty == [frames |-> <<>>, cells |-> Empty, objs |-> Empty]
           entered == Enter(empty, Main, Om, NoCell)
           a == Activation(Main, "call", Om, <<>>, entered[2])
           g == entered[1].frames
<1>1. store = entered[1] /\ acts = <<a>> /\ left = 0
  BY DEF Init
<1>2. OK(empty) /\ empty.frames = <<>>
  <2>1. IsMap(Empty) /\ DOMAIN Empty = {} /\ IsFiniteSet({})
    BY EmptyNames, FS_EmptySet DEF NamesMap
  <2>2. CellsOK(Empty) /\ ObjsOK(Empty, Kinds)
    BY <2>1 DEF CellsOK, ObjsOK
  <2>3. Kinds.names \subseteq STRING
    BY ProgramNames
  <2>4. <<>> \in Seq(Entry) /\ DOMAIN empty = {"frames", "cells", "objs"}
    OBVIOUS
  <2>5. QED
    BY <2>2, <2>3, <2>4 DEF OK, Shape, IsStore, FramesOK
<1>3. Main \in DOMAIN Code /\ NoCell \in Nat /\ Om \in Nat
  BY MainAssumption DEF MainAssumption, NoCell, Om
<1> HIDE DEF empty
<1>4. Entered(empty, entered, Kinds)
  BY <1>2, <1>3, ProgramNames, EnterEntered DEF OK
<1> HIDE DEF entered
<1>5. a \in Acts
  <2>1. DefsOK(entered[2]) /\ <<>> \in Seq(Entry) /\ "call" \in {"call", "new", "method"}
    BY <1>4 DEF Entered
  <2>2. QED
    BY <1>3, <2>1, ActivationOK
<1>6. a.how = "call" /\ a.base = <<>> /\ a.defs = entered[2] /\ a.sections = 0
  BY DEF Activation
<1> HIDE DEF a
<1>7. Called(a, <<>>, g)
  BY <1>2, <1>4, <1>5, <1>6, EnteredCalled
<1>8. Len(acts) = 1 /\ acts[1] = a /\ acts \in Seq(Acts) /\ DOMAIN acts = {1} /\ store.frames = g
  BY <1>1, <1>5
<1>9. Boundaries(<<>>) = 0 /\ MethodCalls(acts) = 0
  <2>1. {i \in DOMAIN <<>> : <<>>[i] = Boundary} = {}
    OBVIOUS
  <2>2. {i \in DOMAIN acts : acts[i].how = "method"} = {}
    BY <1>6, <1>8
  <2>3. QED
    BY <2>1, <2>2, FS_EmptySet DEF Boundaries, MethodCalls
<1>10. FramesOf(acts, g, 1) = g
  BY <1>8 DEF FramesOf
<1>11. FramesOK(g) /\ OK(store)
  BY <1>1, <1>4 DEF Entered, OK, Shape
<1>12. ActsOK(acts)
  BY <1>6, <1>8 DEF ActsOK
<1>13. Nested(acts, g)
  <2>1. Begins(<<>>, g)
    BY <1>7 DEF Called
  <2>2. \A j \in 1..Len(acts) : j = 1 /\ \A i \in 1..j : i = 1
    BY <1>8
  <2>3. QED
    BY <1>6, <1>8, <1>10, <2>1, <2>2 DEF Nested
<1>14. AllBegun(acts, g) /\ AllTidy(acts, g)
  <2>1. \A i \in 1..Len(acts) : i = 1
    BY <1>8
  <2>2. QED
    BY <1>7, <1>8, <1>10, <2>1 DEF Called, AllBegun, AllTidy
<1>15. Counted(acts, g, 0)
  <2>1. Boundaries(g) = Boundaries(<<>>) + 1
    BY <1>6, <1>7 DEF Called
  <2>2. QED
    BY <1>8, <1>9, <2>1 DEF Counted
<1>16. Plain => ThisPlaced(acts, g)
  <2>1. \A p \in 1..Len(g) : p \in (Len(<<>>) + 1)..Len(g)
    BY <1>11 DEF FramesOK
  <2>2. QED
    BY <1>6, <1>7, <2>1 DEF Called, ThisPlaced
<1>17. FramesInv(acts, store.frames, left)
  BY <1>1, <1>8, <1>11, <1>12, <1>13, <1>14, <1>15, <1>16 DEF FramesInv
<1>18. \A i \in 1..Len(acts) : acts[i].sections = 0
  BY <1>6, <1>8
<1>19. QED
  BY <1>1, <1>11, <1>17, <1>18 DEF ScopeInv, Untried

(* Every step keeps the invariant. *)
LEMMA ScopeStep ==
    ASSUME ScopeInv, [Next]_vars
    PROVE  ScopeInv'
<1>1. CASE UNCHANGED vars
  BY <1>1 DEF vars, ScopeInv, Untried, OK
<1>2. ASSUME NEW n \in Data, Assign(n) PROVE ScopeInv'
  BY <1>2, AssignStep
<1>3. ASSUME NEW n \in Data, Modify(n) PROVE ScopeInv'
  BY <1>3, ModifyStep
<1>4. ASSUME NEW o \in ObjectNames, NEW n \in Data, AssignMember(o, n) PROVE ScopeInv'
  BY <1>4, AssignMemberStep
<1>5. ASSUME NEW o \in ObjectNames, NEW c \in Copies, CopyMember(o, c[1], c[2]) PROVE ScopeInv'
  BY <1>5, CopyMemberStep
<1>6. ASSUME NEW d \in Defs, Define(d[1], d[2]) PROVE ScopeInv'
  BY <1>6, DefineStep
<1>7. ASSUME NEW d \in Defs, NEW a \in Arguments, Call(d[1], a) PROVE ScopeInv'
  BY <1>7, CallProcedureStep
<1>8. ASSUME NEW d \in Instances, NEW a \in Arguments, Construct(d[1], d[2], a) PROVE ScopeInv'
  BY <1>8, ConstructStep
<1>9. ASSUME NEW o \in ObjectNames, NEW d \in Defs, NEW a \in Arguments, CallMethod(o, d[1], a)
      PROVE  ScopeInv'
  BY <1>9, CallMethodStep
<1>10. CASE Return
  BY <1>10, ReturnFromCallStep
<1>11. CASE ReturnMethod
  BY <1>11, ReturnFromMethodStep
<1>12. CASE ReturnObject
  BY <1>12, ReturnFromNewStep
<1>13. CASE OpenTry \/ CloseTry
  BY <1>13, TryStep
<1>14. CASE Raise
  BY <1>14, RaiseStep
<1>15. QED
  BY <1>1, <1>2, <1>3, <1>4, <1>5, <1>6, <1>7, <1>8, <1>9, <1>10, <1>11, <1>12, <1>13, <1>14 DEF Next

(* The invariant holds throughout. *)
THEOREM ScopeInvariant == Spec => []ScopeInv
<1>1. Init => ScopeInv
  BY ScopeStarts
<1>2. ScopeInv /\ [Next]_vars => ScopeInv'
  BY ScopeStep
<1>3. QED
  BY <1>1, <1>2, PTL DEF Spec

-----------------------------------------------------------------------------
(* Whatever a procedure does and calls, and however that is left           *)
(* (frame_pop, frame_save, an exception): the frames of every caller are   *)
(* still at the bottom of the stack.                                       *)
THEOREM CallerFramesKeptCorrect == Spec => []CallerFramesKept
<1>1. ScopeInv => CallerFramesKept
  <2>1. SUFFICES ASSUME ScopeInv, NEW i \in DOMAIN acts PROVE IsPrefix(acts[i].base, store.frames)
    BY DEF CallerFramesKept
  <2> DEFINE n == Len(acts)
             f == store.frames
             b == acts[i].base
  <2>2. acts \in Seq(Acts) /\ n \in Nat \ {0} /\ FramesOK(f) /\ Len(f) \in Nat
    BY <2>1, ScopeFacts
  <2>3. i \in 1..n /\ n \in 1..n /\ i \in 1..Len(acts)
    <3>1. DOMAIN acts = 1..n
      BY <2>2
    <3> HIDE DEF n
    <3>2. i \in 1..n /\ n \in 1..n
      BY <2>2, <3>1
    <3>3. QED
      BY <3>2 DEF n
  <2>4. FramesOK(b) /\ Len(b) \in Nat
    BY <2>2, <2>3, ActFacts
  <2>5. Begins(b, f)
    BY <2>1, <2>3 DEF ScopeInv, FramesInv, Nested, FramesOf
  <2> HIDE DEF n, b, f
  <2>6. /\ \A k \in 1..Len(b) : b[k] \in Entry /\ f[k] \in Entry
        /\ Len(b) <= Len(f)
    BY <2>2, <2>4, <2>5, ElementOfSeq DEF FramesOK, Begins
  <2> DEFINE p == SubSeq(b, 1, Len(b))
             q == SubSeq(f, 1, Len(b))
  <2>7. p \in Seq(Entry) /\ Len(p) = Len(b) /\ \A k \in 1..Len(b) : p[k] = b[k]
    BY <2>4, <2>6, SubSeqProperties
  <2>8. q \in Seq(Entry) /\ Len(q) = Len(b) /\ \A k \in 1..Len(b) : q[k] = f[k]
    BY <2>4, <2>6, SubSeqProperties
  <2> HIDE DEF p, q
  <2>9. p = q
    BY <2>5, <2>7, <2>8, SeqEqual DEF Begins
  <2>10. QED
    BY <2>6, <2>9 DEF IsPrefix, p, q, b, f
<1>2. QED
  BY <1>1, ScopeInvariant, PTL

(* Every call and return of proc.rs, access_expr.rs and class.rs pairs its *)
(* frame_push with a frame_pop or frame_save; only an exception leaves     *)
(* frames, one for each procedure it leaves.                               *)
THEOREM FramesCountedCorrect == Spec => []FramesCounted
<1>1. ScopeInv => FramesCounted
  BY DEF ScopeInv, FramesInv, Counted, Boundaries, MethodCalls, FramesCounted
<1>2. QED
  BY <1>1, ScopeInvariant, PTL

(* While no exception has left a frame, a lookup finds the slots of the    *)
(* registers of the running procedure.                                     *)
LEMMA TopFound ==
    ASSUME ScopeInv, left = 0, NEW n \in DOMAIN Top.defs
    PROVE  Get(store, n) = Top.defs[n]
<1> DEFINE f == store.frames
           m == Len(acts)
<1>1. Shape(store, Kinds) /\ FramesOK(f) /\ Len(f) \in Nat /\ m \in Nat \ {0}
  BY ScopeFacts
<1>2. LastNamed(f, 0, n, Top.defs[n])
  <2>1. m \in 1..m
    <3> HIDE DEF m
    <3>1. QED
      BY <1>1
  <2>2. Found(acts[m], FramesOf(acts, f, m))
    BY <2>1 DEF ScopeInv, FramesInv, AllTidy
  <2>3. QED
    BY <2>2 DEF Found, FramesOf, Top
<1>3. PICK p \in 1..Len(f) :
         /\ f[p] # Boundary /\ f[p].name = n /\ f[p].cell = Top.defs[n]
         /\ \A q \in (p + 1)..Len(f) : f[q] # Boundary /\ f[q].name # n
  BY <1>2 DEF LastNamed
<1>4. LastBoundary(f) \in 0..Len(f) /\ (LastBoundary(f) # 0 => f[LastBoundary(f)] = Boundary)
  BY <1>1, LastBoundaryFacts
<1>5. LastBoundary(f) < p
  BY <1>1, <1>3, <1>4
<1>6. Accessible(store, p)
  BY <1>5 DEF Accessible
<1>7. /\ GetPos(store, n) \in 0..Len(f) /\ p <= GetPos(store, n)
      /\ GetPos(store, n) # 0 => f[GetPos(store, n)].name = n
  BY <1>1, <1>3, <1>6, GetPosFacts
<1>8. GetPos(store, n) = p
  BY <1>1, <1>3, <1>7
<1>9. QED
  BY <1>3, <1>8 DEF Get, CellOf

(* The register the lowering keeps for a name and the lookup by name at    *)
(* run time find the same slot, for any program, unless an exception has   *)
(* left a frame.                                                           *)
THEOREM NamesAgreeCorrect == Spec => []NamesAgree
<1>1. ScopeInv => NamesAgree
  BY TopFound DEF NamesAgree
<1>2. QED
  BY <1>1, ScopeInvariant, PTL

(* After a call, a method call or a construction has returned, the stack   *)
(* is what it was before, entry for entry, unless an exception has left a  *)
(* frame.                                                                  *)
THEOREM ReturnRestoresCorrect == Spec => ReturnRestores
<1>1. ASSUME ScopeInv, [Next]_vars PROVE Restored
  <2>1. Len(acts) \in Nat \ {0} /\ acts \in Seq(Acts) /\ Len(acts) # Len(acts) - 1
    BY <1>1, ScopeFacts
  <2>2. ASSUME acts' = acts PROVE Restored
    BY <2>1, <2>2 DEF Restored
  <2>3. ASSUME NEW S, NEW B \in Seq(S), Len(B) = Len(acts), NEW a, acts' = Append(B, a)
        PROVE  Restored
    <3>1. Len(acts') = Len(acts) + 1
      BY <2>3, AppendProperties
    <3>2. QED
      BY <2>1, <3>1 DEF Restored
  <2>4. CASE UNCHANGED vars
    BY <2>2, <2>4 DEF vars
  <2>5. CASE \/ \E n \in Data : Assign(n) \/ Modify(n)
             \/ \E o \in ObjectNames, n \in Data : AssignMember(o, n)
             \/ \E o \in ObjectNames, c \in Copies : CopyMember(o, c[1], c[2])
             \/ \E d \in Defs : Define(d[1], d[2])
    <3>1. CASE \E n \in Data : Assign(n) \/ Modify(n)
      BY <2>2, <3>1 DEF Assign, Modify
    <3>2. CASE \E o \in ObjectNames, n \in Data : AssignMember(o, n)
      BY <2>2, <3>2 DEF AssignMember
    <3>3. CASE \E o \in ObjectNames, c \in Copies : CopyMember(o, c[1], c[2])
      <4>1. PICK o \in ObjectNames, c \in Copies : CopyMember(o, c[1], c[2])
        BY <3>3
      <4>2. acts' = acts
        BY <4>1 DEF CopyMember
      <4>3. QED
        BY <2>2, <4>2
    <3>4. CASE \E d \in Defs : Define(d[1], d[2])
      BY <2>2, <3>4 DEF Define
    <3>5. QED
      BY <2>5, <3>1, <3>2, <3>3, <3>4
  <2>6. CASE \E d \in Defs, a \in Arguments : Call(d[1], a)
    BY <2>1, <2>3, <2>6 DEF Call
  <2>7. CASE \E d \in Instances, a \in Arguments : Construct(d[1], d[2], a)
    BY <2>1, <2>3, <2>7 DEF Construct
  <2>8. ASSUME NEW o \in ObjectNames, NEW d \in Defs, NEW a \in Arguments, CallMethod(o, d[1], a)
        PROVE  Restored
    <3> DEFINE n == Len(acts)
    <3>1. PICK v, b : acts' = Append([acts EXCEPT ![n] = v], b)
      BY <2>8 DEF CallMethod
    <3>2. acts \in Seq(Acts \union {v}) /\ n \in 1..n
      BY <2>1
    <3> DEFINE B == [acts EXCEPT ![n] = v]
    <3>3. B \in Seq(Acts \union {v}) /\ Len(B) = Len(acts)
      BY <3>2, ExceptSeq
    <3> HIDE DEF B
    <3>4. QED
      BY <2>3, <3>1, <3>3 DEF B
  <2>9. CASE Return \/ ReturnMethod \/ ReturnObject
    <3>1. left' = left /\ (left = 0 => store'.frames = Top.base)
      BY <1>1, <2>9, ReturnFromCallStep, ReturnFromMethodStep, ReturnFromNewStep
         DEF Return, ReturnMethod, ReturnObject
    <3>2. QED
      BY <3>1 DEF Restored
  <2>10. CASE OpenTry \/ CloseTry
    <3>1. Len(acts') = Len(acts)
      BY <2>1, <2>10 DEF OpenTry, CloseTry
    <3>2. QED
      BY <2>1, <3>1 DEF Restored
  <2>11. CASE Raise
    <3>1. ScopeInv' /\ left' = left + (Len(acts) - Len(acts'))
      BY <1>1, <2>11, RaiseStep
    <3>2. left \in Nat
      BY <1>1, ScopeFacts
    <3>3. Len(acts') = Len(acts) - 1 => left' # 0
      BY <2>1, <3>1, <3>2
    <3>4. QED
      BY <3>3 DEF Restored
  <2>12. QED
    BY <1>1, <2>4, <2>5, <2>6, <2>7, <2>8, <2>9, <2>10, <2>11 DEF Next
<1>2. QED
  BY <1>1, ScopeInvariant, PTL DEF Spec, ReturnRestores

(* In a plain program (no closures or exceptions, and this is no name of   *)
(* it) there is an entry for this only while the constructor or method     *)
(* that added it runs.                                                     *)
THEOREM ThisScopedCorrect == ASSUME Plain PROVE Spec => []ThisScoped
<1>1. ASSUME ScopeInv PROVE ThisScoped
  <2> DEFINE f == store.frames
             n == Len(acts)
  <2>1. /\ acts \in Seq(Acts) /\ n \in Nat \ {0} /\ FramesOK(f) /\ Len(f) \in Nat
        /\ DOMAIN f = 1..Len(f) /\ DOMAIN acts = 1..n /\ FramesInv(acts, f, left)
    BY <1>1, ScopeFacts DEF FramesOK, ScopeInv
  <2>2. ThisPlaced(acts, f)
    BY <1>1, <2>1 DEF ScopeInv, Untried, Plain, FramesInv
  <2>3. SUFFICES ASSUME NEW p \in 1..Len(f), f[p] # Boundary, f[p].name = "this"
        PROVE  \E j \in 1..n : acts[j].this = f[p].cell /\ acts[j].this # NoCell
    BY <2>1 DEF ThisScoped, Entries
  <2>4. PICK j \in 1..n : acts[j].how # "call" /\ p = ThisAt(acts[j])
    BY <2>2, <2>3 DEF ThisPlaced
  <2> DEFINE a == acts[j]
             g == FramesOf(acts, f, j)
  <2>5. Begun(a, g) /\ a \in Acts /\ Len(a.base) \in Nat
    BY <2>1, <2>4, ActFacts DEF FramesInv, AllBegun
  <2>6. Begins(g, f)
    <3>1. CASE j = n
      BY <2>1, <3>1 DEF FramesOf, Begins
    <3>2. CASE j # n
      <4>1. j + 1 \in 1..n /\ n \in 1..n
        <5> HIDE DEF n
        <5>1. QED
          BY <2>1, <2>4, <3>2
      <4>2. QED
        BY <2>1, <3>2, <4>1 DEF FramesInv, Nested, FramesOf
    <3>3. QED
      BY <3>1, <3>2
  <2> HIDE DEF g, a
  <2>7. ThisAt(a) \in 1..Len(g) /\ g[ThisAt(a)] = ThisOf(a) /\ a.this # NoCell
    <3>1. Len(g) \in Nat /\ a.how # "call"
      BY <2>1, <2>4, FramesOfOK DEF g, a
    <3>2. QED
      BY <2>5, <3>1 DEF Begun, BegunCall, BegunNew, BegunMethod, ThisAt
  <2>8. f[p] = ThisOf(a) /\ a.this \in Nat
    BY <2>4, <2>5, <2>6, <2>7 DEF Begins, Acts, a
  <2>9. f[p].cell = a.this
    BY <2>8 DEF ThisOf, AliasOf
  <2>10. QED
    BY <2>4, <2>7, <2>9 DEF a
<1>2. QED
  BY <1>1, ScopeInvariant, PTL
==============================================================================
