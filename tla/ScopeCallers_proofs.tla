------------------------- MODULE ScopeCallers_proofs -------------------------
(***************************************************************************)
(* What a procedure may change of the ones that wait for it: in a program  *)
(* without classes, no variable it cannot reach by an alias.               *)
(***************************************************************************)
EXTENDS ScopeOwners_proofs

(* Slot c of s, and its value, are the same in t. *)
Spared(s, t, c) ==
    /\ c \in DOMAIN s.cells /\ c \in DOMAIN t.cells /\ t.cells[c] = s.cells[c]
    /\ s.cells[c] # Om => s.cells[c] \in DOMAIN t.objs /\ t.objs[s.cells[c]] = s.objs[s.cells[c]]

(* A slot that is spared by a step and the next one is spared by both, and *)
(* has the contents it had.                                                *)
LEMMA SparedFacts ==
    ASSUME ClassFree, NEW s, Sound(s), NEW c
    PROVE  /\ \A t : c \in DOMAIN s.cells /\ Keeps(s, t) => Spared(s, t, c)
           /\ \A t, u : Spared(s, t, c) /\ Spared(t, u, c) => Spared(s, u, c)
           /\ \A t : Sound(t) /\ Spared(s, t, c) => Content(t, t.cells[c]) = Content(s, s.cells[c])
<1>1. OK(s) /\ Owned(s)
  BY DEF Sound
<1>2. ASSUME c \in DOMAIN s.cells PROVE ValueOK(s, s.cells[c])
  <2>1. Holder(s, Om, c) /\ Holds(s, Om, c) = s.cells[c]
    BY <1>2 DEF Holder, Holds
  <2>2. QED
    BY <1>1, <2>1 DEF Owned
<1>3. ASSUME NEW t, c \in DOMAIN s.cells, Keeps(s, t) PROVE Spared(s, t, c)
  BY <1>2, <1>3 DEF Spared, Keeps, ValueOK
<1>4. ASSUME NEW t, NEW u, Spared(s, t, c), Spared(t, u, c) PROVE Spared(s, u, c)
  BY <1>4 DEF Spared
<1>5. ASSUME NEW t, Sound(t), Spared(s, t, c) PROVE Content(t, t.cells[c]) = Content(s, s.cells[c])
  <2>1. PICK v : v = s.cells[c]
    OBVIOUS
  <2>2. OK(t) /\ t.cells[c] = v /\ ValueOK(s, v) /\ (v # Om => v \in DOMAIN t.objs /\ t.objs[v] = s.objs[v])
    BY <1>2, <1>5, <2>1 DEF Spared, Sound
  <2>3. ValueOK(t, v)
    BY <2>2 DEF ValueOK
  <2>4. Content(t, v) = Content(s, v)
    BY <1>1, <2>2, <2>3, ContentCopied
  <2>5. QED
    BY <2>1, <2>2, <2>4
<1>6. QED
  BY <1>3, <1>4, <1>5

(* Values in other slots are others. *)
LEMMA OtherSlot ==
    ASSUME NEW s, Sound(s), NEW c \in DOMAIN s.cells, NEW d \in DOMAIN s.cells, c # d, s.cells[c] # Om
    PROVE  s.cells[c] # s.cells[d] /\ s.cells[c] \in DOMAIN s.objs
<1>1. Owned(s)
  BY DEF Sound
<1>2. /\ Holder(s, Om, c) /\ Holder(s, Om, d)
      /\ Holds(s, Om, c) = s.cells[c] /\ Holds(s, Om, d) = s.cells[d]
  BY DEF Holder, Holds
<1>3. ValueOK(s, s.cells[c])
  BY <1>1, <1>2 DEF Owned
<1>4. s.cells[c] # s.cells[d]
  BY <1>1, <1>2 DEF Owned
<1>5. QED
  BY <1>3, <1>4 DEF ValueOK

(* An assignment spares the other slots. *)
LEMMA PutSpares ==
    ASSUME ClassFree, NEW s, Sound(s), NEW d \in DOMAIN s.cells, NEW v, Loose(s, v),
           NEW t, t = Put(s, d, v), NEW c \in DOMAIN s.cells, c # d
    PROVE  Spared(s, t, c)
<1>1. OK(s) /\ Owned(s)
  BY DEF Sound
<1>2. /\ DOMAIN t.cells = DOMAIN s.cells /\ t.cells[c] = s.cells[c]
      /\ DOMAIN t.objs = DOMAIN s.objs \ {s.cells[d]}
      /\ \A r \in DOMAIN s.objs \ {s.cells[d]} : t.objs[r] = s.objs[r]
  BY <1>1, PutOwned
<1>3. QED
  BY <1>2, OtherSlot DEF Spared

-----------------------------------------------------------------------------
(* A slot no entry above position b is for, of a variable that lookups     *)
(* from another frame do not find.                                         *)
Waiting(s, b, c) ==
    /\ c \in DOMAIN s.cells /\ ~ CrossesFrames(s, s.cells[c]) /\ ~ Reached(s.frames, b, c)
    /\ \A p \in 1..Len(s.frames) :
          s.frames[p] # Boundary /\ s.frames[p].cell = c => s.frames[p].entry = "var"

(* The variables of a procedure that waits, without those passed by        *)
(* reference and those that hold procedures, are such slots.               *)
LEMMA PrivateWaits ==
    ASSUME OwnersInv, NEW i \in 1..Len(acts), i < Len(acts), NEW c \in Private(store, acts[i])
    PROVE  Waiting(store, Len(Top.base), c)
<1> DEFINE f == store.frames
           n == Len(acts)
           g == acts[i + 1].base
           b == Len(Top.base)
<1>1. /\ acts \in Seq(Acts) /\ n \in Nat \ {0} /\ FramesInv(acts, f, left) /\ Sound(store)
      /\ FramesOK(f) /\ Len(f) \in Nat /\ Linked(store)
  BY ScopeFacts DEF OwnersInv, ScopeInv, Sound
<1>2. i + 1 \in 1..n /\ n \in 1..n /\ i # n /\ i + 1 \in 1..n
  <2>1. i \in 1..n /\ i < n
    OBVIOUS
  <2> HIDE DEF n
  <2>2. QED
    BY <1>1, <2>1
<1>3. Begins(g, f) /\ FramesOK(g) /\ Len(g) \in Nat /\ Len(g) <= b /\ b \in Nat
  <2>1. Nested(acts, f)
    BY <1>1 DEF FramesInv
  <2>2. FramesOf(acts, f, n) = f
    BY DEF FramesOf
  <2>3. Begins(g, f)
    BY <1>2, <2>1, <2>2 DEF Nested
  <2>4. FramesOK(g) /\ Len(g) \in Nat
    BY <1>1, <1>2, ActFacts
  <2>5. Len(g) <= Len(acts[n].base) /\ Len(acts[n].base) \in Nat
    BY <1>1, <1>2, <2>1, BasesGrow, ActFacts
  <2>6. QED
    BY <2>3, <2>4, <2>5 DEF Top
<1>4. PICK m \in DOMAIN acts[i].defs : c = acts[i].defs[m]
  BY DEF Private
<1>5. c \notin Aliased(store) /\ Kind(store, store.cells[c]) # "proc"
  BY DEF Private, Shared
<1>6. c \in DOMAIN store.cells
  BY <1>4, DefsLive
<1>7. ~ CrossesFrames(store, store.cells[c])
  BY <1>5 DEF CrossesFrames, Kind
<1>8. \A p \in 1..Len(f) : f[p] # Boundary /\ f[p].cell = c => f[p].entry = "var"
  <2>1. SUFFICES ASSUME NEW p \in 1..Len(f), f[p] # Boundary, f[p].cell = c
        PROVE  f[p].entry = "var"
    OBVIOUS
  <2>2. f[p].entry \in {"var", "alias"}
    BY <1>1, <2>1, EntryKinds
  <2>3. p \in Entries(store)
    BY <1>1, <2>1 DEF Entries, FramesOK
  <2>4. f[p].entry # "alias"
    BY <1>5, <2>1, <2>3 DEF Aliased
  <2>5. QED
    BY <2>2, <2>4
<1>9. PICK q \in 1..Len(g) : f[q] # Boundary /\ f[q].cell = c /\ q \in 1..Len(f)
  <2>1. Reached(FramesOf(acts, f, i), Len(acts[i].base), c) /\ Len(acts[i].base) \in Nat
    BY <1>1, <1>4, ActFacts DEF OwnersInv, HeldDefs
  <2>2. FramesOf(acts, f, i) = g
    BY <1>2 DEF FramesOf
  <2>3. PICK q \in (Len(acts[i].base) + 1)..Len(g) : g[q] # Boundary /\ g[q].cell = c
    BY <2>1, <2>2 DEF Reached
  <2>4. q \in 1..Len(g) /\ q \in 1..Len(f)
    BY <1>1, <1>3, <2>1, <2>3 DEF Begins
  <2>5. QED
    BY <1>3, <2>3, <2>4 DEF Begins
<1>10. ~ Reached(f, b, c)
  <2>1. SUFFICES ASSUME Reached(f, b, c) PROVE FALSE
    OBVIOUS
  <2>2. PICK p \in (b + 1)..Len(f) : f[p] # Boundary /\ f[p].cell = c
    BY <2>1 DEF Reached
  <2>3. p \in 1..Len(f)
    BY <1>1, <1>3, <2>2
  <2>4. f[p].entry = "var" /\ f[q].entry = "var"
    BY <1>8, <1>9, <2>2, <2>3
  <2>5. p = q
    BY <1>1, <1>9, <2>2, <2>3, <2>4 DEF Linked
  <2>6. QED
    BY <1>3, <1>9, <2>2, <2>5
<1>11. QED
  BY <1>6, <1>7, <1>8, <1>10 DEF Waiting

(* A lookup finds what is accessible. *)
LEMMA PosAccessible ==
    ASSUME NEW s, OK(s), NEW n, GetPos(s, n) # 0
    PROVE  Accessible(s, GetPos(s, n))
<1> DEFINE T == {i \in DOMAIN s.frames : s.frames[i] # Boundary /\ s.frames[i].name = n
                                           /\ Accessible(s, i)}
<1>1. Len(s.frames) \in Nat /\ T \subseteq 1..Len(s.frames)
  BY DEF OK, Shape, FramesOK
<1>2. GetPos(s, n) = IF T = {} THEN 0 ELSE Max(T)
  BY DEF GetPos, Innermost
<1>3. T # {}
  BY <1>2
<1>4. Max(T) \in T
  BY <1>1, <1>3, Greatest
<1>5. QED
  BY <1>2, <1>3, <1>4

(* The frame of the running procedure starts above the one of its caller.  *)
LEMMA TopBoundary ==
    ASSUME OwnersInv
    PROVE  /\ Len(Top.base) \in Nat /\ LastBoundary(store.frames) \in 1..Len(store.frames)
           /\ Len(Top.base) + 1 <= LastBoundary(store.frames)
<1> DEFINE f == store.frames
           b == Len(Top.base)
<1>1. ScopeInv /\ FramesOK(f) /\ Len(f) \in Nat
  BY ScopeFacts DEF OwnersInv
<1>2. b \in Nat /\ b + 1 <= Len(f) /\ f[b + 1] = Boundary
  BY <1>1, TopFrames, TopLive DEF Begun, BegunCall, BegunNew, BegunMethod
<1>3. b + 1 \in 1..Len(f)
  BY <1>1, <1>2
<1>4. LastBoundary(f) \in 0..Len(f) /\ b + 1 <= LastBoundary(f)
  BY <1>1, <1>2, <1>3, LastBoundaryFacts
<1>5. QED
  BY <1>1, <1>2, <1>4

(* The running procedure does not find such a slot by name. *)
LEMMA GetSpares ==
    ASSUME OwnersInv, NEW c, Waiting(store, Len(Top.base), c), NEW n
    PROVE  Get(store, n) # c
<1> DEFINE f == store.frames
           p == GetPos(store, n)
<1>1. Sound(store) /\ OK(store) /\ Len(f) \in Nat
  BY DEF OwnersInv, Sound, OK, Shape, FramesOK
<1>2. SUFFICES ASSUME Get(store, n) = c PROVE FALSE
  OBVIOUS
<1>3. Get(store, n) # NoCell
  BY <1>1, <1>2, OmNoObject DEF Waiting
<1>4. p \in 1..Len(f) /\ f[p].cell = c /\ f[p] # Boundary /\ p # 0
  BY <1>1, <1>2, <1>3, GetReached
<1>5. Accessible(store, p)
  BY <1>1, <1>4, PosAccessible
<1> HIDE DEF p
<1>6. f[p].entry = "var" /\ ~ CrossesFrames(store, store.cells[f[p].cell])
  BY <1>4 DEF Waiting
<1>7. p > LastBoundary(f)
  BY <1>5, <1>6 DEF Accessible
<1>8. p \in (Len(Top.base) + 1)..Len(f)
  BY <1>1, <1>4, <1>7, TopBoundary
<1>9. Reached(f, Len(Top.base), c)
  BY <1>4, <1>8 DEF Reached
<1>10. QED
  BY <1>9 DEF Waiting

(* Nor has it the slot in a register. *)
LEMMA RegisterSpares ==
    ASSUME OwnersInv, NEW c, Waiting(store, Len(Top.base), c), NEW n \in DOMAIN Top.defs
    PROVE  Top.defs[n] # c
<1>1. Len(acts) \in 1..Len(acts)
  BY TopLive
<1>2. Reached(FramesOf(acts, store.frames, Len(acts)), Len(Top.base), Top.defs[n])
  BY <1>1 DEF OwnersInv, HeldDefs, Top
<1>3. FramesOf(acts, store.frames, Len(acts)) = store.frames
  BY DEF FramesOf
<1>4. QED
  BY <1>2, <1>3 DEF Waiting

(* Either way, the slot of a name is another one. *)
LEMMA ResolveSpares ==
    ASSUME ClassFree, OwnersInv, NEW c, Waiting(store, Len(Top.base), c), NEW n \in STRING,
           NEW t, t = Resolve(store, n)[1], NEW d, d = Resolve(store, n)[2]
    PROVE  /\ Sound(t) /\ Keeps(store, t) /\ c \in DOMAIN t.cells /\ d \in DOMAIN t.cells /\ d # c
           /\ Spared(store, t, c)
<1>1. Sound(t) /\ Keeps(store, t) /\ d \in DOMAIN t.cells /\ Sound(store)
  BY ResolveTop DEF OwnersInv
<1>2. c \in DOMAIN store.cells
  BY DEF Waiting
<1>3. n \in DOMAIN Top.defs => Reached(store.frames, 0, Top.defs[n])
  BY TopLive
<1>4. \/ n \in DOMAIN Top.defs /\ d = Top.defs[n]
      \/ d = Get(store, n)
      \/ d \notin DOMAIN store.cells
  <2>1. CASE n \in DOMAIN Top.defs
    BY <2>1 DEF Resolve
  <2>2. CASE n \notin DOMAIN Top.defs /\ Get(store, n) # NoCell
    BY <2>2 DEF Resolve, GetOrNew
  <2>3. CASE n \notin DOMAIN Top.defs /\ Get(store, n) = NoCell
    <3>1. \/ n \in DOMAIN Top.defs /\ t = store /\ d = Top.defs[n]
          \/ n \notin DOMAIN Top.defs /\ t = store /\ Get(store, n) # NoCell /\ d = Get(store, n)
          \/ d \notin DOMAIN store.cells
      BY <1>1, <1>3, ResolveAdds
    <3>2. QED
      BY <2>3, <3>1
  <2>4. QED
    BY <2>1, <2>2, <2>3
<1>5. d # c
  BY <1>2, <1>4, GetSpares, RegisterSpares
<1>6. QED
  BY <1>1, <1>2, <1>5, SparedFacts DEF Keeps

-----------------------------------------------------------------------------
(* Assign spares the variables of procedures that wait. *)
LEMMA AssignSpares ==
    ASSUME ClassFree, OwnersInv, NEW n \in Data, Assign(n), NEW c, Waiting(store, Len(Top.base), c)
    PROVE  Spared(store, store', c)
<1>1. n \in STRING /\ Sound(store)
  BY ProgramNames DEF OwnersInv
<1>2. PICK t, d : t = Resolve(store, n)[1] /\ d = Resolve(store, n)[2]
  OBVIOUS
<1>3. PICK u, r : u = Alloc(t, NewList)[1] /\ r = Alloc(t, NewList)[2]
  OBVIOUS
<1>4. store' = Put(u, d, r)
  BY <1>2, <1>3 DEF Assign
<1>5. Sound(t) /\ c \in DOMAIN t.cells /\ d \in DOMAIN t.cells /\ d # c /\ Spared(store, t, c)
  BY <1>1, <1>2, ResolveSpares
<1>6. ObjOK(NewList, Kinds) /\ NewList.kind = "list"
  BY ListsOK DEF NewList, List
<1>7. Sound(u) /\ Loose(u, r) /\ Keeps(t, u) /\ u.cells = t.cells
  BY <1>3, <1>5, <1>6, AllocSound
<1>8. Spared(t, u, c)
  BY <1>5, <1>7, SparedFacts
<1>9. Spared(u, store', c)
  BY <1>4, <1>5, <1>7, PutSpares
<1>10. Spared(store, u, c)
  BY <1>1, <1>5, <1>8, SparedFacts
<1>11. QED
  BY <1>1, <1>9, <1>10, SparedFacts

(* Modify changes a list another slot holds. *)
LEMMA ModifySpares ==
    ASSUME ClassFree, OwnersInv, NEW n \in Data, Modify(n), NEW c, Waiting(store, Len(Top.base), c)
    PROVE  Spared(store, store', c)
<1>1. n \in STRING /\ Sound(store)
  BY ProgramNames DEF OwnersInv
<1>2. PICK t, d : t = Resolve(store, n)[1] /\ d = Resolve(store, n)[2]
  OBVIOUS
<1>3. PICK r : r = t.cells[d]
  OBVIOUS
<1>4. PICK v : store' = [t EXCEPT !.objs[r] = List(v)]
  BY <1>2, <1>3 DEF Modify
<1>5. Sound(t) /\ c \in DOMAIN t.cells /\ d \in DOMAIN t.cells /\ d # c /\ Spared(store, t, c)
  BY <1>1, <1>2, ResolveSpares
<1>6. PICK objs : objs = [t.objs EXCEPT ![r] = List(v)]
  OBVIOUS
<1>7. DOMAIN objs = DOMAIN t.objs /\ \A x \in DOMAIN t.objs : x # r => objs[x] = t.objs[x]
  BY <1>6
<1>8. store'.cells = t.cells /\ store'.objs = objs
  <2>1. IsStore(t)
    BY <1>5 DEF Sound, OK, Shape
  <2>2. store' = [t EXCEPT !.objs = objs]
    BY <1>4, <1>6
  <2>3. Fields(store', t.frames, t.cells, objs)
    BY <2>1, <2>2, Updates
  <2>4. QED
    BY <2>3 DEF Fields
<1>9. t.cells[c] # Om => t.cells[c] # r /\ t.cells[c] \in DOMAIN t.objs
  BY <1>3, <1>5, OtherSlot
<1>10. Spared(t, store', c)
  BY <1>5, <1>7, <1>8, <1>9 DEF Spared
<1>11. QED
  BY <1>1, <1>5, <1>10, SparedFacts

(* A procedure is made and assigned to a register. *)
LEMMA ProcedureSpares ==
    ASSUME ClassFree, OwnersInv, NEW c, Waiting(store, Len(Top.base), c),
           NEW n \in DOMAIN Top.defs, NEW d, d = Top.defs[n],
           NEW p \in DOMAIN Code, NEW r \in Nat, Plain => r = Om, NEW t,
           Adds(store, t), t.cells = store.cells,
           NEW u, u = Alloc(t, Procedure(p, r))[1], NEW v, v = Alloc(t, Procedure(p, r))[2],
           store' = Put(u, d, v)
    PROVE  Spared(store, store', c)
<1>1. PICK obj : obj = Procedure(p, r)
  OBVIOUS
<1>2. obj.kind = "proc"
  BY <1>1 DEF Procedure
<1>3. ObjOK(obj, Kinds)
  <2>1. obj \in Kinds.procs
    BY <1>1 DEF Procedure, Kinds
  <2>2. QED
    BY <1>2, <2>1 DEF ObjOK
<1>4. Sound(t) /\ Keeps(store, t) /\ Sound(store)
  BY DEF Adds, OwnersInv
<1>5. Sound(u) /\ Loose(u, v) /\ Keeps(t, u) /\ u.cells = t.cells
  BY <1>1, <1>2, <1>3, <1>4, AllocSound
<1>6. d # c /\ d \in DOMAIN u.cells /\ c \in DOMAIN u.cells
  <2>1. d \in DOMAIN store.cells /\ c \in DOMAIN store.cells
    BY TopLive DEF Waiting
  <2>2. d # c
    BY RegisterSpares
  <2>3. QED
    BY <1>5, <2>1, <2>2
<1>7. Spared(u, store', c)
  BY <1>5, <1>6, PutSpares
<1>8. Keeps(store, u)
  BY <1>4, <1>5, KeepsFacts
<1>9. Spared(store, u, c)
  BY <1>4, <1>8, SparedFacts DEF Waiting
<1>10. QED
  BY <1>4, <1>7, <1>9, SparedFacts

(* Define spares the variables of procedures that wait. *)
LEMMA DefineSpares ==
    ASSUME ClassFree, OwnersInv, NEW e \in Defs, Define(e[1], e[2]),
           NEW c, Waiting(store, Len(Top.base), c)
    PROVE  Spared(store, store', c)
<1>1. PICK p, n : p = e[2] /\ n = e[1]
  OBVIOUS
<1>2. p \in DOMAIN Code /\ n \in DOMAIN Top.defs /\ Sound(store) /\ Captured(store, seen)
  BY <1>1, ProgramNames DEF Define, OwnersInv
<1>3. PICK d : d = Top.defs[n]
  OBVIOUS
<1>4. PICK acc : acc = CopyReachable(store)
  OBVIOUS
<1>5. PICK t, r : t = Alloc(acc[1], Image(acc[2]))[1] /\ r = Alloc(acc[1], Image(acc[2]))[2]
  OBVIOUS
<1>6. CASE Code[p].closure
  <2>1. Adds(store, t) /\ t.cells = store.cells /\ r \in Slots
    BY <1>2, <1>4, <1>5, ImageCaptured
  <2>2. PICK u, v : u = Alloc(t, Procedure(p, r))[1] /\ v = Alloc(t, Procedure(p, r))[2]
    OBVIOUS
  <2>3. store' = Put(u, d, v)
    BY <1>1, <1>3, <1>4, <1>5, <1>6, <2>2 DEF Define
  <2>4. r \in Nat /\ (Plain => r = Om)
    BY <1>1, <1>6, <2>1 DEF Slots, Plain
  <2>5. QED
    BY <1>2, <1>3, <2>1, <2>2, <2>3, <2>4, ProcedureSpares
<1>7. CASE ~ Code[p].closure
  <2>1. PICK u, v : u = Alloc(store, Procedure(p, Om))[1] /\ v = Alloc(store, Procedure(p, Om))[2]
    OBVIOUS
  <2>2. store' = Put(u, d, v)
    BY <1>1, <1>3, <1>7, <2>1 DEF Define
  <2>3. Adds(store, store) /\ Om \in Nat
    BY <1>2, AddsFacts DEF Om
  <2>4. QED
    BY <1>2, <1>3, <2>1, <2>2, <2>3, ProcedureSpares
<1>8. QED
  BY <1>6, <1>7

(* A call adds to the store. *)
LEMMA CallSpares ==
    ASSUME ClassFree, OwnersInv, NEW e \in Defs, NEW a \in Arguments, Call(e[1], a),
           NEW c, Waiting(store, Len(Top.base), c)
    PROVE  Spared(store, store', c)
<1>1. PICK t, p, image, defs : CallMade(t, p, image, defs)
  BY CallFacts
<1>2. Keeps(store, t) /\ Keeps(t, store')
  BY <1>1 DEF CallMade, Adds
<1>3. Keeps(store, store') /\ Sound(store)
  BY <1>2, KeepsFacts DEF OwnersInv
<1>4. QED
  BY <1>3, SparedFacts DEF Waiting

(* A return frees the frame of the procedure that returns. *)
LEMMA ReturnSpares ==
    ASSUME ClassFree, OwnersInv, Return, NEW c, Waiting(store, Len(Top.base), c)
    PROVE  Spared(store, store', c)
<1> DEFINE f == store.frames
           C == VarCells(f, LastFrame(store))
<1>1. PICK pop : pop = FramePop(store)
  OBVIOUS
<1>2. Sound(store) /\ OK(store) /\ Linked(store) /\ FramesOK(f) /\ Len(f) \in Nat
  BY DEF OwnersInv, Sound, OK, Shape, FramesOK
<1>3. store' = Drop(pop, {})
  BY <1>1, TopLive DEF Return
<1>4. /\ Sound(pop) /\ DOMAIN pop.cells = DOMAIN store.cells \ C
      /\ \A d \in DOMAIN pop.cells : pop.cells[d] = store.cells[d]
      /\ DOMAIN pop.objs = DOMAIN store.objs \ {store.cells[d] : d \in C}
      /\ \A r \in DOMAIN pop.objs : pop.objs[r] = store.objs[r]
  BY <1>1, <1>2, PopSound
<1>5. \A d \in C : d \in DOMAIN store.cells /\ d # c
  <2>1. SUFFICES ASSUME NEW j \in DOMAIN f, j >= LastFrame(store), f[j].entry = "var"
        PROVE  f[j].cell \in DOMAIN store.cells /\ f[j].cell # c
    BY DEF VarCells
  <2>2. j \in 1..Len(f) /\ f[j] # Boundary
    BY <1>2, <2>1, EntryKinds
  <2>3. LastFrame(store) = LastBoundary(f)
    BY TopBoundary DEF LastFrame
  <2>4. j \in (Len(Top.base) + 1)..Len(f)
    BY <1>2, <2>1, <2>2, <2>3, TopBoundary
  <2>5. f[j].cell # c
    BY <2>2, <2>4 DEF Waiting, Reached
  <2>6. QED
    BY <1>2, <2>1, <2>2, <2>5 DEF Linked
<1> HIDE DEF C, f
<1>6. c \in DOMAIN store.cells /\ c \in DOMAIN pop.cells /\ pop.cells[c] = store.cells[c]
  BY <1>4, <1>5 DEF Waiting
<1>7. store.cells[c] # Om => store.cells[c] \in DOMAIN pop.objs
  <2>1. ASSUME NEW d \in C, store.cells[c] # Om
        PROVE  store.cells[c] # store.cells[d] /\ store.cells[c] \in DOMAIN store.objs
    BY <1>2, <1>5, <1>6, <2>1, OtherSlot
  <2>2. store.cells[c] # Om => store.cells[c] \in DOMAIN store.objs
    <3>1. Holder(store, Om, c) /\ Holds(store, Om, c) = store.cells[c]
      BY <1>6 DEF Holder, Holds
    <3>2. QED
      BY <1>2, <3>1 DEF Sound, Owned, ValueOK
  <2>3. QED
    BY <1>4, <2>1, <2>2
<1>8. Spared(store, pop, c)
  BY <1>4, <1>6, <1>7 DEF Spared
<1>9. Alone(pop, store')
  <2>1. IsStore(pop) /\ CellsOK(pop.cells)
    BY <1>4 DEF Sound, OK, Shape
  <2>2. QED
    BY <1>3, <2>1, DropNone
<1>10. QED
  BY <1>8, <1>9 DEF Alone, Fields, Spared

(* A step that leaves slots and objects alone spares them. *)
LEMMA AloneSpares ==
    ASSUME ClassFree, OwnersInv, Alone(store, store'), NEW c, Waiting(store, Len(Top.base), c)
    PROVE  Spared(store, store', c)
<1>1. Keeps(store, store') /\ Sound(store)
  BY DEF Alone, Fields, Keeps, OwnersInv
<1>2. QED
  BY <1>1, SparedFacts DEF Waiting

(* In a program without classes a procedure changes no variable of one     *)
(* that waits for it, whatever it assigns, calls, returns from or raises,  *)
(* unless the variable was passed by reference or holds a procedure.       *)
THEOREM CallersUntouchedCorrect ==
    ASSUME ClassFree
    PROVE  Spec => CallersUntouched
<1>1. ASSUME OwnersInv, [Next]_vars PROVE Untouched
  <2>1. OwnersInv'
    BY <1>1, OwnersStep
  <2>2. Sound(store) /\ Sound(store') /\ acts \in Seq(Acts)
    BY <1>1, <2>1, ScopeFacts DEF OwnersInv
  <2>3. SUFFICES ASSUME NEW i \in DOMAIN acts, i < Len(acts), NEW c \in Private(store, acts[i])
        PROVE  c \in DOMAIN store'.cells
                 /\ Content(store', store'.cells[c]) = Content(store, store.cells[c])
    BY DEF Untouched
  <2>4. i \in 1..Len(acts)
    BY <2>2
  <2>5. Waiting(store, Len(Top.base), c)
    BY <1>1, <2>3, <2>4, PrivateWaits
  <2>6. Spared(store, store', c)
    <3>1. CASE UNCHANGED vars \/ OpenTry \/ CloseTry
      <4>1. store' = store
        BY <3>1 DEF vars, OpenTry, CloseTry
      <4>2. Alone(store, store')
        BY <2>2, <4>1 DEF Sound, OK, Shape, Alone, Fields
      <4>3. QED
        BY <1>1, <2>5, <4>2, AloneSpares
    <3>2. CASE \E n \in Data : Assign(n)
      BY <1>1, <2>5, <3>2, AssignSpares
    <3>3. CASE \E n \in Data : Modify(n)
      BY <1>1, <2>5, <3>3, ModifySpares
    <3>4. CASE \E d \in Defs : Define(d[1], d[2])
      BY <1>1, <2>5, <3>4, DefineSpares
    <3>5. CASE \E d \in Defs, a \in Arguments : Call(d[1], a)
      BY <1>1, <2>5, <3>5, CallSpares
    <3>6. CASE Return
      BY <1>1, <2>5, <3>6, ReturnSpares
    <3>7. CASE Raise
      BY <1>1, <2>5, <3>7, RaiseAlone, AloneSpares
    <3>8. QED
      BY <1>1, <3>1, <3>2, <3>3, <3>4, <3>5, <3>6, <3>7, ClassFreeSteps
  <2>7. QED
    BY <2>2, <2>6, SparedFacts DEF Spared
<1>2. QED
  BY <1>1, OwnersInvariant, PTL DEF Spec, CallersUntouched
=============================================================================
