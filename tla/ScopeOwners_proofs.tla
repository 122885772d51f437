------------------------- MODULE ScopeOwners_proofs -------------------------
(***************************************************************************)
(* What owns the values of a program without classes: each value on the    *)
(* heap has one slot or stack image that holds it, and each slot one       *)
(* variable on the stack.                                                  *)
(***************************************************************************)
EXTENDS ScopeFrames_proofs

ClassFree == Instances = {}

(* Slot n (r is Om), or stack image r for the name n, holds a value.       *)
Holder(s, r, n) ==
    IF r = Om THEN n \in DOMAIN s.cells
    ELSE r \in DOMAIN s.objs /\ s.objs[r].kind = "image" /\ n \in DOMAIN s.objs[r].vals

Holds(s, r, n) == IF r = Om THEN s.cells[n] ELSE s.objs[r].vals[n]

ValueOK(s, v) == v = Om \/ (v \in DOMAIN s.objs /\ s.objs[v].kind \in {"list", "proc"})

Owned(s) ==
    /\ \A r, n : Holder(s, r, n) => ValueOK(s, Holds(s, r, n))
    /\ \A r, n, q, m :
          Holder(s, r, n) /\ Holder(s, q, m) /\ Holds(s, r, n) # Om
            /\ Holds(s, r, n) = Holds(s, q, m) => r = q /\ n = m

(* A value nothing holds yet. *)
Loose(s, v) ==
    ValueOK(s, v) /\ (v # Om => \A r, n : Holder(s, r, n) => Holds(s, r, n) # v)

(* A program without classes has lists, procedures and stack images only. *)
LEMMA NoObjects ==
    ASSUME ClassFree, NEW s, OK(s), NEW r \in DOMAIN s.objs
    PROVE  s.objs[r].kind \in {"list", "proc", "image"} /\ r \in Slots
  BY DEF ClassFree, OK, Shape, ObjsOK, ObjOK, Kinds

(* t has a copy v that s has not. *)
Copied(s, t, v) ==
    /\ OK(t) /\ t.frames = s.frames /\ t.cells = s.cells /\ Owned(t) /\ Keeps(s, t)
    /\ Loose(t, v) /\ (v # Om => v \notin DOMAIN s.objs)
    /\ \A u : Loose(s, u) => Loose(t, u)

(* A list or procedure that is made is a value nothing holds yet. *)
LEMMA AllocCopied ==
    ASSUME NEW s, OK(s), Owned(s), NEW obj, ObjOK(obj, Kinds), obj.kind \in {"list", "proc"}
    PROVE  /\ Copied(s, Alloc(s, obj)[1], Alloc(s, obj)[2])
           /\ Alloc(s, obj)[2] \in Slots /\ Alloc(s, obj)[1].objs[Alloc(s, obj)[2]] = obj
<1> DEFINE t == Alloc(s, obj)[1]
<1>1. PICK v \in Slots :
         /\ v \notin ObjsNamed(s) /\ v \notin DOMAIN s.objs /\ Alloc(s, obj)[2] = v
         /\ Fields(t, s.frames, s.cells, With(s.objs, v, obj)) /\ Shape(t, Kinds)
  BY AllocFacts DEF OK
<1> HIDE DEF t
<1>2. /\ t.frames = s.frames /\ t.cells = s.cells
      /\ DOMAIN t.objs = DOMAIN s.objs \union {v} /\ t.objs[v] = obj
      /\ \A r \in DOMAIN s.objs : t.objs[r] = s.objs[r]
  BY <1>1 DEF Fields, With
<1>3. v # Om
  BY <1>1 DEF Slots, Om
<1>4. \A r, n : Holder(t, r, n) <=> Holder(s, r, n)
  BY <1>2, <1>1 DEF Holder
<1>5. \A r, n : Holder(s, r, n) => Holds(t, r, n) = Holds(s, r, n)
  BY <1>2 DEF Holder, Holds
<1>6. \A u : ValueOK(s, u) => ValueOK(t, u)
  BY <1>2 DEF ValueOK
<1>7. \A r, n : Holder(s, r, n) => Holds(s, r, n) # v
  BY <1>1, <1>3 DEF Owned, ValueOK
<1>8. Owned(t)
  BY <1>4, <1>5, <1>6 DEF Owned
<1>9. Loose(t, v)
  <2>1. ValueOK(t, v)
    BY <1>2 DEF ValueOK
  <2>2. QED
    BY <1>4, <1>5, <1>7, <2>1 DEF Loose
<1>10. \A u : Loose(s, u) => Loose(t, u)
  BY <1>4, <1>5, <1>6 DEF Loose
<1>11. Keeps(s, t)
  BY <1>2 DEF Keeps
<1>12. QED
  BY <1>1, <1>2, <1>8, <1>9, <1>10, <1>11 DEF Copied, OK, t

(* A copy is a value nothing holds yet, with the content of the original. *)
LEMMA UnshareCopied ==
    ASSUME ClassFree, NEW s, OK(s), Owned(s), NEW v, ValueOK(s, v)
    PROVE  /\ Copied(s, Unshare(s, v)[1], Unshare(s, v)[2])
           /\ v = Om => Unshare(s, v)[2] = Om
           /\ v # Om => /\ Unshare(s, v)[2] # Om
                        /\ Unshare(s, v)[1].objs[Unshare(s, v)[2]] = s.objs[v]
<1>1. Unshare(s, v) = UnshareFlat(s, v)
  <2>1. ~ (v \in DOMAIN s.objs /\ s.objs[v].kind = "object")
    BY NoObjects
  <2>2. QED
    BY <2>1 DEF Unshare
<1>2. CASE v = Om
  <2>1. v \notin DOMAIN s.objs
    BY <1>2, NoObjects DEF Slots, Om
  <2>2. UnshareFlat(s, v) = <<s, v>>
    BY <2>1 DEF UnshareFlat
  <2>3. Loose(s, v)
    BY <1>2 DEF Loose, ValueOK
  <2>4. QED
    BY <1>1, <1>2, <2>2, <2>3, KeepsFacts DEF Copied
<1>3. CASE v # Om
  <2>1. v \in DOMAIN s.objs /\ s.objs[v].kind \in {"list", "proc"} /\ ObjOK(s.objs[v], Kinds)
    BY <1>3 DEF ValueOK, OK, Shape, ObjsOK
  <2>2. UnshareFlat(s, v) = Alloc(s, s.objs[v])
    BY <2>1 DEF UnshareFlat
  <2>3. QED
    BY <1>1, <1>3, <2>1, <2>2, AllocCopied DEF Slots, Om
<1>4. QED
  BY <1>2, <1>3

(* A slot with a loose value. *)
LEMMA NewCellOwned ==
    ASSUME NEW s, OK(s), Owned(s), NEW v, Loose(s, v)
    PROVE  \E c \in Slots :
              /\ c \notin CellsNamed(s) /\ c \notin DOMAIN s.cells /\ NewCell(s, v)[2] = c
              /\ Fields(NewCell(s, v)[1], s.frames, With(s.cells, c, v), s.objs)
              /\ OK(NewCell(s, v)[1]) /\ Owned(NewCell(s, v)[1])
              /\ \A u : Loose(s, u) /\ u # v => Loose(NewCell(s, v)[1], u)
<1> DEFINE t == NewCell(s, v)[1]
<1>1. PICK c \in Slots :
         /\ c \notin CellsNamed(s) /\ c \notin DOMAIN s.cells /\ NewCell(s, v)[2] = c
         /\ Fields(t, s.frames, With(s.cells, c, v), s.objs) /\ Shape(t, Kinds)
  BY NewCellFacts DEF OK
<1> HIDE DEF t
<1>2. /\ t.objs = s.objs /\ DOMAIN t.cells = DOMAIN s.cells \union {c} /\ t.cells[c] = v
      /\ \A d \in DOMAIN s.cells : t.cells[d] = s.cells[d]
  BY <1>1 DEF Fields, With
<1>3. \A r, n : Holder(t, r, n) <=> Holder(s, r, n) \/ (r = Om /\ n = c)
  BY <1>2 DEF Holder
<1>4. \A r, n : Holder(s, r, n) => Holds(t, r, n) = Holds(s, r, n)
  BY <1>2 DEF Holder, Holds
<1>5. Holds(t, Om, c) = v
  BY <1>2 DEF Holds
<1>6. \A u : ValueOK(s, u) => ValueOK(t, u)
  BY <1>2 DEF ValueOK
<1>7. \A r, n : Holder(t, r, n) => ValueOK(t, Holds(t, r, n))
  BY <1>3, <1>4, <1>5, <1>6 DEF Owned, Loose
<1>8. ASSUME NEW r, NEW n, NEW q, NEW m, Holder(t, r, n), Holder(t, q, m),
             Holds(t, r, n) # Om, Holds(t, r, n) = Holds(t, q, m)
      PROVE  r = q /\ n = m
  <2>1. CASE Holder(s, r, n) /\ Holder(s, q, m)
    BY <1>4, <1>8, <2>1 DEF Owned
  <2>2. CASE ~ Holder(s, r, n)
    BY <1>3, <1>4, <1>5, <1>8, <2>2 DEF Loose
  <2>3. CASE ~ Holder(s, q, m)
    BY <1>3, <1>4, <1>5, <1>8, <2>3 DEF Loose
  <2>4. QED
    BY <2>1, <2>2, <2>3
<1>9. Owned(t)
  BY <1>7, <1>8 DEF Owned
<1>10. \A u : Loose(s, u) /\ u # v => Loose(t, u)
  BY <1>3, <1>4, <1>5, <1>6 DEF Loose
<1>11. QED
  BY <1>1, <1>9, <1>10 DEF OK, t

(* The slots of variables are there, each with one variable, and aliases   *)
(* are for slots of variables below them.                                  *)
Linked(s) ==
    LET f == s.frames
    IN  /\ \A i \in 1..Len(f) : f[i].entry = "var" => f[i].cell \in DOMAIN s.cells
        /\ \A i, j \in 1..Len(f) :
              f[i].entry = "var" /\ f[j].entry = "var" /\ f[i].cell = f[j].cell => i = j
        /\ \A i \in 1..Len(f) : f[i].entry = "alias" =>
              \E j \in 1..(i - 1) : f[j].entry = "var" /\ f[j].cell = f[i].cell

Sound(s) == OK(s) /\ Owned(s) /\ Linked(s)

(* An entry above position b is for slot c. *)
Reached(f, b, c) == \E p \in (b + 1)..Len(f) : f[p] # Boundary /\ f[p].cell = c

(* An entry that is no boundary is a variable or an alias. *)
LEMMA EntryKinds ==
    ASSUME NEW f, FramesOK(f), NEW i \in 1..Len(f)
    PROVE  /\ f[i] = Boundary <=> f[i].entry \notin {"var", "alias"}
           /\ f[i] # Boundary => f[i].cell \in Nat
<1>1. f[i] \in Entry
  BY ElementOfSeq DEF FramesOK
<1>2. QED
  BY <1>1 DEF Entry, Boundary

(* The slots of entries are there. *)
LEMMA ReachedLive ==
    ASSUME NEW s, Sound(s), NEW i \in 1..Len(s.frames), s.frames[i] # Boundary
    PROVE  s.frames[i].cell \in DOMAIN s.cells
<1> DEFINE f == s.frames
<1>1. FramesOK(f) /\ Len(f) \in Nat
  BY DEF Sound, OK, Shape, FramesOK
<1>2. f[i].entry \in {"var", "alias"}
  BY <1>1, EntryKinds
<1>3. CASE f[i].entry = "var"
  BY <1>3 DEF Sound, Linked
<1>4. CASE f[i].entry = "alias"
  <2>1. PICK j \in 1..(i - 1) : f[j].entry = "var" /\ f[j].cell = f[i].cell
    BY <1>4 DEF Sound, Linked
  <2>2. j \in 1..Len(f)
    BY <1>1
  <2>3. QED
    BY <2>1, <2>2 DEF Sound, Linked
<1>5. QED
  BY <1>2, <1>3, <1>4

(* A slot that is reached still is when the stack grows. *)
LEMMA ReachedFacts ==
    ASSUME NEW f, FramesOK(f), NEW b \in Nat, NEW c, Reached(f, b, c)
    PROVE  /\ \A g : FramesOK(g) /\ Begins(f, g) => Reached(g, b, c)
           /\ \A a \in Nat : a <= b => Reached(f, a, c)
<1>1. PICK p \in (b + 1)..Len(f) : f[p] # Boundary /\ f[p].cell = c
  BY DEF Reached
<1>2. Len(f) \in Nat
  BY DEF FramesOK
<1>3. ASSUME NEW g, FramesOK(g), Begins(f, g) PROVE Reached(g, b, c)
  <2>1. Len(g) \in Nat
    BY <1>3 DEF FramesOK
  <2>2. p \in (b + 1)..Len(g) /\ g[p] = f[p]
    BY <1>2, <1>3, <2>1 DEF Begins
  <2>3. QED
    BY <1>1, <2>2 DEF Reached
<1>4. ASSUME NEW a \in Nat, a <= b PROVE Reached(f, a, c)
  <2>1. p \in (a + 1)..Len(f)
    BY <1>2, <1>4
  <2>2. QED
    BY <1>1, <2>1 DEF Reached
<1>5. QED
  BY <1>3, <1>4

(* What a variable or an alias that is pushed keeps. *)
LEMMA LinkedVariable ==
    ASSUME NEW s, OK(s), Linked(s), NEW n \in STRING, NEW c \in Slots, c \notin CellsNamed(s),
           NEW t, FramesOK(t.frames), t.frames = Append(s.frames, Variable(n, c)),
           DOMAIN t.cells = DOMAIN s.cells \union {c}
    PROVE  Linked(t)
<1> DEFINE f == s.frames
           g == t.frames
           m == Len(f)
<1>1. FramesOK(f) /\ m \in Nat /\ DOMAIN f = 1..m
  BY DEF OK, Shape, FramesOK
<1>2. Variable(n, c) \in Entry
  BY EntryFacts DEF Slots
<1>3. Len(g) = m + 1 /\ g[m + 1] = Variable(n, c) /\ \A i \in 1..m : g[i] = f[i]
  BY <1>1, <1>2, Appended DEF Begins
<1>4. g[m + 1].entry = "var" /\ g[m + 1].cell = c
  BY <1>3 DEF Variable
<1>5. \A i \in 1..m : f[i].entry = "var" => f[i].cell # c
  BY DEF Linked, CellsNamed
<1> HIDE DEF f, g, m
<1>6. \A i \in 1..Len(g) : i \in 1..m \/ i = m + 1
  BY <1>1, <1>3
<1>7. \A i \in 1..Len(g) : g[i].entry = "var" => g[i].cell \in DOMAIN t.cells
  <2>1. \A i \in 1..m : f[i].entry = "var" => f[i].cell \in DOMAIN s.cells
    BY DEF Linked, f, m
  <2>2. QED
    BY <1>3, <1>4, <1>6, <2>1
<1>8. \A i, j \in 1..Len(g) :
         g[i].entry = "var" /\ g[j].entry = "var" /\ g[i].cell = g[j].cell => i = j
  <2>1. \A i, j \in 1..m : f[i].entry = "var" /\ f[j].entry = "var" /\ f[i].cell = f[j].cell => i = j
    BY DEF Linked, f, m
  <2>2. QED
    BY <1>3, <1>4, <1>5, <1>6, <2>1
<1>9. ASSUME NEW i \in 1..Len(g), g[i].entry = "alias"
      PROVE  \E j \in 1..(i - 1) : g[j].entry = "var" /\ g[j].cell = g[i].cell
  <2>1. i \in 1..m /\ f[i].entry = "alias" /\ g[i] = f[i]
    BY <1>3, <1>4, <1>6, <1>9
  <2>2. PICK j \in 1..(i - 1) : f[j].entry = "var" /\ f[j].cell = f[i].cell
    BY <2>1 DEF Linked, f, m
  <2>3. j \in 1..m
    BY <1>1, <2>1
  <2>4. QED
    BY <1>3, <2>1, <2>2, <2>3
<1>10. QED
  BY <1>7, <1>8, <1>9 DEF Linked, g

(* An alias for a slot of an entry is for one of a variable. *)
LEMMA LinkedAlias ==
    ASSUME NEW s, OK(s), Linked(s), NEW n \in STRING, NEW c \in Nat, NEW cross \in BOOLEAN,
           Reached(s.frames, 0, c),
           NEW t, FramesOK(t.frames), t.frames = Append(s.frames, AliasOf(n, c, cross)),
           t.cells = s.cells
    PROVE  Linked(t)
<1> DEFINE f == s.frames
           g == t.frames
           m == Len(f)
<1>1. FramesOK(f) /\ m \in Nat
  BY DEF OK, Shape, FramesOK
<1>2. AliasOf(n, c, cross) \in Entry
  BY EntryFacts
<1>3. Len(g) = m + 1 /\ g[m + 1] = AliasOf(n, c, cross) /\ \A i \in 1..m : g[i] = f[i]
  BY <1>1, <1>2, Appended DEF Begins
<1>4. g[m + 1].entry = "alias" /\ g[m + 1].cell = c
  BY <1>3 DEF AliasOf
<1>5. \E j \in 1..m : f[j].entry = "var" /\ f[j].cell = c
  <2>1. PICK p \in 1..m : f[p] # Boundary /\ f[p].cell = c
    BY DEF Reached
  <2>2. f[p].entry \in {"var", "alias"}
    BY <1>1, <2>1, EntryKinds
  <2>3. CASE f[p].entry = "var"
    BY <2>1, <2>3
  <2>4. CASE f[p].entry = "alias"
    <3>1. PICK j \in 1..(p - 1) : f[j].entry = "var" /\ f[j].cell = c
      BY <2>1, <2>4 DEF Linked
    <3>2. j \in 1..m
      BY <1>1
    <3>3. QED
      BY <3>1, <3>2
  <2>5. QED
    BY <2>2, <2>3, <2>4
<1> HIDE DEF f, g, m
<1>6. \A i \in 1..Len(g) : i \in 1..m \/ i = m + 1
  BY <1>1, <1>3
<1>7. \A i \in 1..Len(g) : g[i].entry = "var" => i \in 1..m /\ f[i].entry = "var" /\ g[i] = f[i]
  BY <1>3, <1>4, <1>6
<1>8. ASSUME NEW i \in 1..Len(g), g[i].entry = "alias"
      PROVE  \E j \in 1..(i - 1) : g[j].entry = "var" /\ g[j].cell = g[i].cell
  <2>1. CASE i = m + 1
    <3>1. PICK j \in 1..m : f[j].entry = "var" /\ f[j].cell = c
      BY <1>5
    <3>2. j \in 1..(i - 1)
      BY <1>1, <2>1
    <3>3. QED
      BY <1>3, <1>4, <2>1, <3>1, <3>2
  <2>2. CASE i \in 1..m
    <3>1. f[i].entry = "alias" /\ g[i] = f[i]
      BY <1>3, <1>8, <2>2
    <3>2. PICK j \in 1..(i - 1) : f[j].entry = "var" /\ f[j].cell = f[i].cell
      BY <2>2, <3>1 DEF Linked, f, m
    <3>3. j \in 1..m
      BY <1>1, <2>2
    <3>4. QED
      BY <1>3, <3>1, <3>2, <3>3
  <2>3. QED
    BY <1>6, <2>1, <2>2
<1>9. (\A i \in 1..m : f[i].entry = "var" => f[i].cell \in DOMAIN s.cells)
      /\ \A i, j \in 1..m : f[i].entry = "var" /\ f[j].entry = "var" /\ f[i].cell = f[j].cell => i = j
  BY DEF Linked, f, m
<1>10. QED
  BY <1>7, <1>8, <1>9 DEF Linked, g

-----------------------------------------------------------------------------
(* What a step keeps: stack images, with what they hold. *)
Frozen(s, t) ==
    \A r \in DOMAIN s.objs : s.objs[r].kind = "image" =>
        /\ r \in DOMAIN t.objs /\ t.objs[r] = s.objs[r]
        /\ \A n \in DOMAIN s.objs[r].vals : s.objs[r].vals[n] # Om =>
              /\ s.objs[r].vals[n] \in DOMAIN t.objs
              /\ t.objs[s.objs[r].vals[n]] = s.objs[s.objs[r].vals[n]]

(* What is kept by a step and the next one is kept by both. *)
LEMMA FrozenFacts ==
    ASSUME NEW s, OK(s), Owned(s)
    PROVE  /\ \A t : Keeps(s, t) => Frozen(s, t)
           /\ \A t, u : Frozen(s, t) /\ Frozen(t, u) => Frozen(s, u)
<1>1. \A r \in DOMAIN s.objs : s.objs[r].kind = "image" =>
         \A n \in DOMAIN s.objs[r].vals : s.objs[r].vals[n] # Om => s.objs[r].vals[n] \in DOMAIN s.objs
  <2>1. SUFFICES ASSUME NEW r \in DOMAIN s.objs, s.objs[r].kind = "image",
                        NEW n \in DOMAIN s.objs[r].vals, s.objs[r].vals[n] # Om
                 PROVE  s.objs[r].vals[n] \in DOMAIN s.objs
    OBVIOUS
  <2>2. r # Om
    BY <2>1 DEF OK, Shape, ObjsOK, Slots, Om
  <2>3. Holder(s, r, n) /\ Holds(s, r, n) = s.objs[r].vals[n]
    BY <2>1, <2>2 DEF Holder, Holds
  <2>4. QED
    BY <2>1, <2>3 DEF Owned, ValueOK
<1>2. ASSUME NEW t, Keeps(s, t) PROVE Frozen(s, t)
  BY <1>1, <1>2 DEF Keeps, Frozen
<1>3. ASSUME NEW t, NEW u, Frozen(s, t), Frozen(t, u) PROVE Frozen(s, u)
  <2>1. SUFFICES ASSUME NEW r \in DOMAIN s.objs, s.objs[r].kind = "image"
        PROVE  /\ r \in DOMAIN u.objs /\ u.objs[r] = s.objs[r]
               /\ \A n \in DOMAIN s.objs[r].vals : s.objs[r].vals[n] # Om =>
                     /\ s.objs[r].vals[n] \in DOMAIN u.objs
                     /\ u.objs[s.objs[r].vals[n]] = s.objs[s.objs[r].vals[n]]
    BY DEF Frozen
  <2>2. /\ r \in DOMAIN t.objs /\ t.objs[r] = s.objs[r]
        /\ \A n \in DOMAIN s.objs[r].vals : s.objs[r].vals[n] # Om =>
              /\ s.objs[r].vals[n] \in DOMAIN t.objs
              /\ t.objs[s.objs[r].vals[n]] = s.objs[s.objs[r].vals[n]]
    BY <1>3, <2>1 DEF Frozen
  <2>3. /\ r \in DOMAIN u.objs /\ u.objs[r] = t.objs[r]
        /\ \A n \in DOMAIN t.objs[r].vals : t.objs[r].vals[n] # Om =>
              /\ t.objs[r].vals[n] \in DOMAIN u.objs
              /\ u.objs[t.objs[r].vals[n]] = t.objs[t.objs[r].vals[n]]
    BY <1>3, <2>1, <2>2 DEF Frozen
  <2>4. QED
    BY <2>2, <2>3
<1>4. QED
  BY <1>2, <1>3

(* Values that some slots hold are freed, and the slots go or change. *)
LEMMA FreedObjects ==
    ASSUME ClassFree, NEW s, OK(s), NEW V
    PROVE  /\ OK(InvalidateAll(s, V))
           /\ InvalidateAll(s, V).frames = s.frames /\ InvalidateAll(s, V).cells = s.cells
           /\ DOMAIN InvalidateAll(s, V).objs = DOMAIN s.objs \ V
           /\ \A r \in DOMAIN s.objs \ V : InvalidateAll(s, V).objs[r] = s.objs[r]
<1> DEFINE gone == V \cap DOMAIN s.objs
           boxes == UNION {Boxes(s, v) : v \in gone}
           held == {s.cells[c] : c \in boxes}
           t == InvalidateAll(s, V)
<1>1. boxes = {} /\ held = {}
  <2>1. \A v \in gone : Boxes(s, v) = {}
    <3>1. SUFFICES ASSUME NEW v \in gone PROVE s.objs[v].kind # "object"
      BY DEF Boxes
    <3>2. QED
      BY NoObjects
  <2>2. QED
    BY <2>1
<1>2. OK(t) /\ t.frames = s.frames
  BY InvalidateSame DEF OK, Same
<1>3. t = [s EXCEPT !.objs = Without(s.objs, gone \union held), !.cells = Without(s.cells, boxes)]
  BY DEF InvalidateAll
<1>4. t.objs = Without(s.objs, gone \union held) /\ t.cells = Without(s.cells, boxes)
  <2> DEFINE c == Without(s.cells, boxes)
             o == Without(s.objs, gone \union held)
  <2> HIDE DEF c, o, t
  <2>1. t = [s EXCEPT !.objs = o, !.cells = c]
    BY <1>3 DEF c, o
  <2>2. IsStore(s)
    BY DEF OK, Shape
  <2>3. Fields(t, s.frames, c, o)
    BY <2>1, <2>2, Updates
  <2>4. QED
    BY <2>3 DEF Fields, c, o
<1>5. Without(s.cells, {}) = s.cells
  BY DEF OK, Shape, CellsOK, IsMap, Without
<1>6. QED
  BY <1>1, <1>2, <1>4, <1>5 DEF Without

(* Values some slots hold are freed, with those slots or when they are set *)
(* to om.                                                                  *)
LEMMA FreedOwned ==
    ASSUME ClassFree, NEW s, OK(s), Owned(s), NEW C, C \subseteq DOMAIN s.cells,
           NEW t, t.objs = InvalidateAll(s, {s.cells[c] : c \in C}).objs,
           DOMAIN t.cells \subseteq DOMAIN s.cells,
           \A c \in DOMAIN t.cells \ C : t.cells[c] = s.cells[c],
           \A c \in C \cap DOMAIN t.cells : t.cells[c] = Om
    PROVE  /\ Owned(t) /\ Frozen(s, t)
           /\ \A u : Loose(s, u) => Loose(t, u)
           /\ \A u : ValueOK(s, u) /\ u \notin {s.cells[c] : c \in C} => ValueOK(t, u)
<1> DEFINE V == {s.cells[c] : c \in C}
<1>1. DOMAIN t.objs = DOMAIN s.objs \ V /\ \A r \in DOMAIN s.objs \ V : t.objs[r] = s.objs[r]
  BY FreedObjects
<1>2. \A c \in C : Holder(s, Om, c) /\ Holds(s, Om, c) = s.cells[c]
  BY DEF Holder, Holds
<1>3. \A v \in V : ValueOK(s, v)
  BY <1>2 DEF Owned
<1>4. \A u : ValueOK(s, u) /\ u \notin V => ValueOK(t, u)
  BY <1>1 DEF ValueOK
<1>5. ASSUME NEW r, NEW n, Holder(t, r, n)
      PROVE  \/ r = Om /\ n \in C /\ Holds(t, r, n) = Om
             \/ /\ Holder(s, r, n) /\ Holds(t, r, n) = Holds(s, r, n)
                /\ (Holds(s, r, n) # Om => Holds(s, r, n) \notin V)
  <2>1. CASE r = Om /\ n \in C
    BY <1>5, <2>1 DEF Holder, Holds
  <2>2. CASE ~ (r = Om /\ n \in C)
    <3>1. Holder(s, r, n) /\ Holds(t, r, n) = Holds(s, r, n)
      BY <1>1, <1>5, <2>2 DEF Holder, Holds
    <3>2. ASSUME Holds(s, r, n) # Om, Holds(s, r, n) \in V PROVE FALSE
      <4>1. PICK c \in C : Holds(s, r, n) = s.cells[c]
        BY <3>2
      <4>2. r = Om /\ n = c
        BY <1>2, <3>1, <3>2, <4>1 DEF Owned
      <4>3. QED
        BY <2>2, <4>2
    <3>3. QED
      BY <3>1, <3>2
  <2>3. QED
    BY <2>1, <2>2
<1>6. ValueOK(t, Om)
  BY DEF ValueOK
<1> HIDE DEF V
<1>7. \A r, n : Holder(t, r, n) => ValueOK(t, Holds(t, r, n))
  BY <1>4, <1>5, <1>6 DEF Owned
<1>8. ASSUME NEW r, NEW n, NEW q, NEW m, Holder(t, r, n), Holder(t, q, m),
             Holds(t, r, n) # Om, Holds(t, r, n) = Holds(t, q, m)
      PROVE  r = q /\ n = m
  BY <1>5, <1>8 DEF Owned
<1>9. Owned(t)
  BY <1>7, <1>8 DEF Owned
<1>10. Frozen(s, t)
  <2>1. SUFFICES ASSUME NEW r \in DOMAIN s.objs, s.objs[r].kind = "image"
        PROVE  /\ r \in DOMAIN t.objs /\ t.objs[r] = s.objs[r]
               /\ \A n \in DOMAIN s.objs[r].vals : s.objs[r].vals[n] # Om =>
                     /\ s.objs[r].vals[n] \in DOMAIN t.objs
                     /\ t.objs[s.objs[r].vals[n]] = s.objs[s.objs[r].vals[n]]
    BY DEF Frozen
  <2>2. r # Om
    BY DEF OK, Shape, ObjsOK, Slots, Om
  <2>3. r \notin V
    BY <1>3, <2>1, <2>2 DEF ValueOK
  <2>4. r \in DOMAIN t.objs /\ t.objs[r] = s.objs[r]
    BY <1>1, <2>3
  <2>5. ASSUME NEW n \in DOMAIN s.objs[r].vals, s.objs[r].vals[n] # Om
        PROVE  s.objs[r].vals[n] \in DOMAIN s.objs \ V
    <3>1. Holder(s, r, n) /\ Holder(t, r, n) /\ Holds(s, r, n) = s.objs[r].vals[n]
      BY <2>1, <2>2, <2>4 DEF Holder, Holds
    <3>2. Holds(s, r, n) \notin V
      BY <1>5, <2>2, <2>5, <3>1
    <3>3. ValueOK(s, Holds(s, r, n))
      BY <3>1 DEF Owned
    <3>4. QED
      BY <2>5, <3>1, <3>2, <3>3 DEF ValueOK
  <2>6. QED
    BY <1>1, <2>4, <2>5
<1>11. \A u : Loose(s, u) => Loose(t, u)
  <2>1. SUFFICES ASSUME NEW u, Loose(s, u) PROVE Loose(t, u)
    OBVIOUS
  <2>2. u # Om => u \notin V
    BY <1>2, <2>1 DEF Loose, V
  <2>3. ValueOK(t, u)
    BY <1>4, <1>6, <2>1, <2>2 DEF Loose
  <2>4. QED
    BY <1>5, <2>1, <2>3 DEF Loose
<1>12. QED
  BY <1>4, <1>9, <1>10, <1>11 DEF V

(* A slot is set to a loose value. *)
LEMMA FilledOwned ==
    ASSUME NEW s, Owned(s), NEW c \in DOMAIN s.cells, NEW v, Loose(s, v),
           NEW t, t.objs = s.objs, DOMAIN t.cells = DOMAIN s.cells, t.cells[c] = v,
           \A d \in DOMAIN s.cells : d # c => t.cells[d] = s.cells[d]
    PROVE  Owned(t) /\ \A u : Loose(s, u) /\ u # v => Loose(t, u)
<1>1. \A r, n : Holder(t, r, n) <=> Holder(s, r, n)
  BY DEF Holder
<1>2. \A r, n : Holder(s, r, n) /\ ~ (r = Om /\ n = c) => Holds(t, r, n) = Holds(s, r, n)
  BY DEF Holder, Holds
<1>3. Holds(t, Om, c) = v
  BY DEF Holds
<1>4. \A u : ValueOK(s, u) => ValueOK(t, u)
  BY DEF ValueOK
<1>5. \A r, n : Holder(t, r, n) => ValueOK(t, Holds(t, r, n))
  BY <1>1, <1>2, <1>3, <1>4 DEF Owned, Loose
<1>6. ASSUME NEW r, NEW n, NEW q, NEW m, Holder(t, r, n), Holder(t, q, m),
             Holds(t, r, n) # Om, Holds(t, r, n) = Holds(t, q, m)
      PROVE  r = q /\ n = m
  <2>1. CASE (r = Om /\ n = c) /\ ~ (q = Om /\ m = c)
    BY <1>1, <1>2, <1>3, <1>6, <2>1 DEF Loose
  <2>2. CASE ~ (r = Om /\ n = c) /\ (q = Om /\ m = c)
    BY <1>1, <1>2, <1>3, <1>6, <2>2 DEF Loose
  <2>3. CASE ~ (r = Om /\ n = c) /\ ~ (q = Om /\ m = c)
    BY <1>1, <1>2, <1>6, <2>3 DEF Owned
  <2>4. QED
    BY <2>1, <2>2, <2>3
<1>7. \A u : Loose(s, u) /\ u # v => Loose(t, u)
  BY <1>1, <1>2, <1>3, <1>4 DEF Loose
<1>8. QED
  BY <1>5, <1>6, <1>7 DEF Owned

(* An assignment: what the slot held is freed. *)
LEMMA PutOwned ==
    ASSUME ClassFree, NEW s, OK(s), Owned(s), NEW c \in DOMAIN s.cells, NEW v, Loose(s, v)
    PROVE  /\ OK(Put(s, c, v)) /\ Owned(Put(s, c, v)) /\ Frozen(s, Put(s, c, v))
           /\ Put(s, c, v).frames = s.frames /\ DOMAIN Put(s, c, v).cells = DOMAIN s.cells
           /\ Put(s, c, v).cells[c] = v
           /\ \A d \in DOMAIN s.cells : d # c => Put(s, c, v).cells[d] = s.cells[d]
           /\ DOMAIN Put(s, c, v).objs = DOMAIN s.objs \ {s.cells[c]}
           /\ \A r \in DOMAIN s.objs \ {s.cells[c]} : Put(s, c, v).objs[r] = s.objs[r]
<1> DEFINE freed == Invalidate(s, s.cells[c])
           mid == [objs |-> freed.objs, cells |-> [s.cells EXCEPT ![c] = Om]]
           t == Put(s, c, v)
<1>1. /\ OK(freed) /\ freed.frames = s.frames /\ freed.cells = s.cells
      /\ DOMAIN freed.objs = DOMAIN s.objs \ {s.cells[c]}
      /\ \A r \in DOMAIN s.objs \ {s.cells[c]} : freed.objs[r] = s.objs[r]
  BY FreedObjects DEF Invalidate
<1>2. t = [freed EXCEPT !.cells = [freed.cells EXCEPT ![c] = v]] /\ IsStore(freed)
  BY <1>1 DEF Put, OK, Shape
<1>3. OK(t)
  BY PutSame DEF OK, Same
<1> HIDE DEF freed
<1>4. t.frames = s.frames /\ t.objs = freed.objs /\ t.cells = [s.cells EXCEPT ![c] = v]
  <2> HIDE DEF t
  <2>1. Fields(t, freed.frames, [freed.cells EXCEPT ![c] = v], freed.objs)
    BY <1>2, Updates
  <2>2. QED
    BY <1>1, <2>1 DEF Fields
<1>5. IsMap(s.cells)
  BY DEF OK, Shape, CellsOK
<1>6. DOMAIN t.cells = DOMAIN s.cells /\ t.cells[c] = v /\ \A d \in DOMAIN s.cells : d # c => t.cells[d] = s.cells[d]
  BY <1>4, <1>5 DEF IsMap
<1>7. /\ DOMAIN mid.cells = DOMAIN s.cells /\ mid.cells[c] = Om
      /\ \A d \in DOMAIN s.cells : d # c => mid.cells[d] = s.cells[d]
  BY <1>5 DEF IsMap
<1>8. {s.cells[d] : d \in {c}} = {s.cells[c]}
  OBVIOUS
<1>9. mid.objs = InvalidateAll(s, {s.cells[d] : d \in {c}}).objs
  BY <1>8 DEF Invalidate, freed
<1> HIDE DEF mid, t
<1>10. Owned(mid) /\ Frozen(s, mid) /\ Loose(mid, v)
  <2>1. {c} \subseteq DOMAIN s.cells /\ (\A d \in DOMAIN mid.cells \ {c} : mid.cells[d] = s.cells[d])
        /\ \A d \in {c} \cap DOMAIN mid.cells : mid.cells[d] = Om
    BY <1>7
  <2>2. QED
    BY <1>7, <1>9, <2>1, FreedOwned
<1>11. t.objs = mid.objs
  BY <1>4 DEF mid
<1>12. Owned(t)
  BY <1>6, <1>7, <1>10, <1>11, FilledOwned
<1>13. Frozen(s, t)
  BY <1>10, <1>11 DEF Frozen
<1>14. QED
  BY <1>1, <1>3, <1>4, <1>6, <1>12, <1>13 DEF t

(* frame_pop frees what the variables of the frame hold. *)
LEMMA PopSound ==
    ASSUME ClassFree, NEW s, Sound(s)
    PROVE  /\ Sound(FramePop(s)) /\ Frozen(s, FramePop(s))
           /\ DOMAIN FramePop(s).cells = DOMAIN s.cells \ VarCells(s.frames, LastFrame(s))
           /\ \A c \in DOMAIN FramePop(s).cells : FramePop(s).cells[c] = s.cells[c]
           /\ DOMAIN FramePop(s).objs =
                 DOMAIN s.objs \ {s.cells[c] : c \in VarCells(s.frames, LastFrame(s))}
           /\ \A r \in DOMAIN FramePop(s).objs : FramePop(s).objs[r] = s.objs[r]
<1> DEFINE b == LastFrame(s)
           C == VarCells(s.frames, b)
           V == {s.cells[c] : c \in C}
           freed == InvalidateAll(s, V)
           t == FramePop(s)
<1>1. OK(s) /\ Owned(s) /\ Linked(s) /\ FramesOK(s.frames) /\ Len(s.frames) \in Nat
      /\ DOMAIN s.frames = 1..Len(s.frames)
  BY DEF Sound, OK, Shape, FramesOK
<1>2. OK(freed) /\ freed.frames = s.frames /\ freed.cells = s.cells
      /\ DOMAIN freed.objs = DOMAIN s.objs \ V
      /\ \A r \in DOMAIN s.objs \ V : freed.objs[r] = s.objs[r]
  BY <1>1, FreedObjects
<1>3. OK(t) /\ b \in 1..(Len(s.frames) + 1) /\ Len(t.frames) = b - 1
      /\ \A i \in 1..(b - 1) : t.frames[i] = s.frames[i]
  BY <1>1, FramePopFacts DEF OK
<1>4. t = Truncate(freed, b)
  BY DEF FramePop
<1> HIDE DEF freed, t, b
<1>5. t.cells = Without(s.cells, C) /\ t.objs = freed.objs
  <2>1. Fields(t, SubSeq(s.frames, 1, b - 1), Without(freed.cells, VarCells(freed.frames, b)), freed.objs)
    BY <1>2, <1>3, <1>4, TruncateFacts DEF OK
  <2>2. QED
    BY <1>2, <2>1 DEF Fields
<1>6. DOMAIN t.cells = DOMAIN s.cells \ C /\ \A c \in DOMAIN t.cells : t.cells[c] = s.cells[c]
  <2> HIDE DEF C
  <2>1. QED
    BY <1>5 DEF Without
<1>7. C \subseteq DOMAIN s.cells
  BY <1>1 DEF VarCells, Linked
<1>8. Owned(t) /\ Frozen(s, t)
  <2>1. t.objs = InvalidateAll(s, {s.cells[c] : c \in C}).objs
    BY <1>5 DEF freed
  <2> HIDE DEF C, V
  <2>2. /\ DOMAIN t.cells \subseteq DOMAIN s.cells
        /\ \A c \in DOMAIN t.cells \ C : t.cells[c] = s.cells[c]
        /\ \A c \in C \cap DOMAIN t.cells : t.cells[c] = Om
    BY <1>6
  <2>3. QED
    BY <1>1, <1>7, <2>1, <2>2, FreedOwned
<1>9. Linked(t)
  <2> DEFINE f == s.frames
             g == t.frames
  <2>1. \A i \in 1..Len(g) : i \in 1..Len(f) /\ i < b /\ g[i] = f[i]
    BY <1>1, <1>3
  <2>2. ASSUME NEW i \in 1..Len(g), g[i].entry = "var" PROVE g[i].cell \in DOMAIN t.cells
    <3>1. i \in 1..Len(f) /\ i < b /\ f[i].entry = "var" /\ g[i] = f[i]
      BY <2>1, <2>2
    <3>2. f[i].cell \notin C
      <4>1. SUFFICES ASSUME NEW j \in DOMAIN f, j >= b, f[j].entry = "var", f[j].cell = f[i].cell
            PROVE  FALSE
        BY DEF VarCells
      <4>2. j = i
        BY <1>1, <3>1, <4>1 DEF Linked
      <4>3. QED
        BY <1>1, <1>3, <3>1, <4>1, <4>2
    <3>3. f[i].cell \in DOMAIN s.cells
      BY <1>1, <3>1 DEF Linked
    <3>4. QED
      BY <1>6, <3>1, <3>2, <3>3
  <2>3. \A i, j \in 1..Len(g) :
           g[i].entry = "var" /\ g[j].entry = "var" /\ g[i].cell = g[j].cell => i = j
    BY <1>1, <2>1 DEF Linked
  <2>4. ASSUME NEW i \in 1..Len(g), g[i].entry = "alias"
        PROVE  \E j \in 1..(i - 1) : g[j].entry = "var" /\ g[j].cell = g[i].cell
    <3>1. i \in 1..Len(f) /\ f[i].entry = "alias" /\ g[i] = f[i]
      BY <2>1, <2>4
    <3>2. PICK j \in 1..(i - 1) : f[j].entry = "var" /\ f[j].cell = f[i].cell
      BY <1>1, <3>1 DEF Linked
    <3>3. j \in 1..Len(g)
      BY <1>3
    <3>4. g[j] = f[j]
      BY <2>1, <3>3
    <3>5. QED
      BY <3>1, <3>2, <3>4
  <2>5. QED
    BY <2>2, <2>3, <2>4 DEF Linked
<1>10. DOMAIN t.objs = DOMAIN s.objs \ V /\ \A r \in DOMAIN t.objs : t.objs[r] = s.objs[r]
  BY <1>2, <1>5
<1>11. QED
  BY <1>3, <1>6, <1>8, <1>9, <1>10 DEF Sound, t, b

-----------------------------------------------------------------------------
(* The procedures on the heap. *)
Procs(s) == {o \in {s.objs[r] : r \in DOMAIN s.objs} : o.kind = "proc"}

(* A new object is the only procedure that may be new. *)
LEMMA AllocProcs ==
    ASSUME NEW s, OK(s), NEW obj, ObjOK(obj, Kinds)
    PROVE  Procs(Alloc(s, obj)[1]) \subseteq Procs(s) \union {obj}
<1> DEFINE t == Alloc(s, obj)[1]
<1>1. PICK v \in Slots : Fields(t, s.frames, s.cells, With(s.objs, v, obj))
  BY AllocFacts DEF OK
<1> HIDE DEF t
<1>2. t.objs = With(s.objs, v, obj)
  BY <1>1 DEF Fields
<1>3. \A r \in DOMAIN t.objs : t.objs[r] = obj \/ (r \in DOMAIN s.objs /\ t.objs[r] = s.objs[r])
  BY <1>2 DEF With
<1>4. QED
  BY <1>3 DEF Procs, t

(* A copy is of a procedure that is there. *)
LEMMA UnshareProcs ==
    ASSUME ClassFree, NEW s, OK(s), NEW v
    PROVE  Procs(Unshare(s, v)[1]) \subseteq Procs(s)
<1>1. Unshare(s, v) = UnshareFlat(s, v)
  <2>1. ~ (v \in DOMAIN s.objs /\ s.objs[v].kind = "object")
    BY NoObjects
  <2>2. QED
    BY <2>1 DEF Unshare
<1>2. CASE v \in DOMAIN s.objs
  <2>1. ObjOK(s.objs[v], Kinds)
    BY <1>2 DEF OK, Shape, ObjsOK
  <2>2. Procs(Alloc(s, s.objs[v])[1]) \subseteq Procs(s) \union {s.objs[v]}
    BY <2>1, AllocProcs
  <2>3. \A o \in Procs(Alloc(s, s.objs[v])[1]) : o.kind = "proc"
    BY DEF Procs
  <2>4. s.objs[v].kind = "proc" => s.objs[v] \in Procs(s)
    BY <1>2 DEF Procs
  <2>5. UnshareFlat(s, v) = Alloc(s, s.objs[v])
    BY <1>2 DEF UnshareFlat
  <2>6. QED
    BY <1>1, <2>2, <2>3, <2>4, <2>5
<1>3. CASE v \notin DOMAIN s.objs
  BY <1>1, <1>3 DEF UnshareFlat
<1>4. QED
  BY <1>2, <1>3

(* t has entries, slots and objects that s has not, and all that s has. *)
Adds(s, t) ==
    Sound(t) /\ Begins(s.frames, t.frames) /\ Keeps(s, t) /\ Procs(t) \subseteq Procs(s)

(* To add is an order on stores. *)
LEMMA AddsFacts ==
    ASSUME NEW s, Sound(s)
    PROVE  Adds(s, s) /\ \A t, u : Adds(s, t) /\ Adds(t, u) => Adds(s, u)
<1>1. FramesOK(s.frames) /\ Len(s.frames) \in Nat
  BY DEF Sound, OK, Shape, FramesOK
<1>2. Adds(s, s)
  BY <1>1, KeepsFacts DEF Adds, Begins
<1>3. ASSUME NEW t, NEW u, Adds(s, t), Adds(t, u) PROVE Adds(s, u)
  <2>1. FramesOK(t.frames) /\ FramesOK(u.frames)
    BY <1>3 DEF Adds, Sound, OK, Shape
  <2>2. Begins(s.frames, u.frames)
    BY <1>1, <1>3, <2>1, ExtendsFacts DEF Adds
  <2>3. Keeps(s, u)
    BY <1>3, KeepsFacts DEF Adds
  <2>4. QED
    BY <1>3, <2>2, <2>3 DEF Adds
<1>4. QED
  BY <1>2, <1>3

(* frame_push adds a boundary. *)
LEMMA FramePushAdds ==
    ASSUME NEW s, Sound(s)
    PROVE  Adds(s, FramePush(s)) /\ FramePush(s).frames = Append(s.frames, Boundary)
           /\ FramePush(s).objs = s.objs /\ FramePush(s).cells = s.cells
<1> DEFINE t == FramePush(s)
           f == s.frames
           g == t.frames
           m == Len(f)
<1>1. OK(s) /\ IsStore(s) /\ FramesOK(f) /\ m \in Nat
  BY DEF Sound, OK, Shape, FramesOK
<1>2. OK(t) /\ g = Append(f, Boundary)
  BY <1>1, FramePushPushed DEF Pushed, OK
<1>3. t.cells = s.cells /\ t.objs = s.objs
  BY <1>1, Updates DEF FramePush, Fields
<1> HIDE DEF t
<1>4. Boundary \in Entry /\ Boundary.entry \notin {"var", "alias"}
  BY DEF Entry, Boundary
<1>5. Len(g) = m + 1 /\ g[m + 1] = Boundary /\ (\A i \in 1..m : g[i] = f[i]) /\ Begins(f, g)
  BY <1>1, <1>2, <1>4, Appended DEF Begins
<1>6. Linked(s)
  BY DEF Sound
<1>7. Linked(t)
  <2> HIDE DEF f, g, m
  <2>1. \A i \in 1..Len(g) : i \in 1..m \/ i = m + 1
    BY <1>1, <1>5
  <2>2. \A i \in 1..Len(g) : g[i].entry \in {"var", "alias"} => i \in 1..m /\ g[i] = f[i]
    BY <1>4, <1>5, <2>1
  <2>3. ASSUME NEW i \in 1..Len(g), g[i].entry = "alias"
        PROVE  \E j \in 1..(i - 1) : g[j].entry = "var" /\ g[j].cell = g[i].cell
    <3>1. i \in 1..m /\ f[i].entry = "alias" /\ g[i] = f[i]
      BY <2>2, <2>3
    <3>2. PICK j \in 1..(i - 1) : f[j].entry = "var" /\ f[j].cell = f[i].cell
      BY <1>6, <3>1 DEF Linked, f, m
    <3>3. j \in 1..m
      BY <1>1, <3>1
    <3>4. QED
      BY <1>5, <3>1, <3>2, <3>3
  <2>4. (\A i \in 1..m : f[i].entry = "var" => f[i].cell \in DOMAIN s.cells)
        /\ \A i, j \in 1..m : f[i].entry = "var" /\ f[j].entry = "var" /\ f[i].cell = f[j].cell => i = j
    BY <1>6 DEF Linked, f, m
  <2>5. QED
    BY <1>3, <2>2, <2>3, <2>4 DEF Linked, g
<1>8. Owned(t) /\ Keeps(s, t) /\ Procs(t) \subseteq Procs(s)
  BY <1>3 DEF Sound, Owned, Holder, Holds, ValueOK, Keeps, Procs
<1>9. QED
  BY <1>2, <1>3, <1>5, <1>7, <1>8 DEF Adds, Sound, t

(* Ownership is about slots and objects only. *)
LEMMA OwnedAlike ==
    ASSUME NEW s, NEW t, t.cells = s.cells, t.objs = s.objs
    PROVE  /\ Owned(s) => Owned(t)
           /\ \A u : Loose(s, u) => Loose(t, u)
<1>1. \A r, n : (Holder(t, r, n) <=> Holder(s, r, n)) /\ Holds(t, r, n) = Holds(s, r, n)
  BY DEF Holder, Holds
<1>2. \A u : ValueOK(t, u) <=> ValueOK(s, u)
  BY DEF ValueOK
<1>3. QED
  BY <1>1, <1>2 DEF Owned, Loose

(* A variable is pushed, for a value nothing holds yet. *)
LEMMA VariableAdds ==
    ASSUME NEW s, Sound(s), NEW val, Copied(s, val[1], val[2]), Procs(val[1]) \subseteq Procs(s),
           NEW n \in STRING,
           NEW c, c = Boxed(val)[2], NEW t, t = PushVariable(Boxed(val), n)[1]
    PROVE  /\ Adds(s, t) /\ PushVariable(Boxed(val), n)[2] = c /\ c \in Slots
           /\ c \notin CellsNamed(s) /\ DOMAIN t.cells = DOMAIN s.cells \union {c}
           /\ t.cells[c] = val[2] /\ t.objs = val[1].objs
           /\ t.frames = Append(s.frames, Variable(n, c))
           /\ \A u : Loose(s, u) => Loose(t, u)
<1> DEFINE w == val[1]
           v == val[2]
           box == Boxed(val)
<1>1. OK(w) /\ Owned(w) /\ Loose(w, v) /\ w.frames = s.frames /\ w.cells = s.cells /\ Keeps(s, w)
  BY DEF Copied
<1>2. box = NewCell(w, v)
  BY DEF Boxed
<1>3. PICK d \in Slots :
         /\ d \notin CellsNamed(w) /\ d \notin DOMAIN w.cells /\ box[2] = d
         /\ Fields(box[1], w.frames, With(w.cells, d, v), w.objs)
         /\ OK(box[1]) /\ Owned(box[1])
         /\ \A u : Loose(w, u) /\ u # v => Loose(box[1], u)
  BY <1>1, <1>2, NewCellOwned
<1>4. d = c /\ c \in Slots /\ c \in Nat
  BY <1>3 DEF Slots
<1>5. PushVariable(box, n)[2] = c /\ OK(t) /\ t.frames = Append(box[1].frames, Variable(n, c))
  <2>1. Shape(box[1], Kinds) /\ box[2] \in Nat /\ box[2] = c
    BY <1>3, <1>4 DEF OK
  <2>2. /\ Pushed(box[1], PushVariable(box, n)[1], Variable(n, box[2]), Kinds)
        /\ PushVariable(box, n)[2] = box[2]
    BY <2>1, PushVariablePushed
  <2>3. t = PushVariable(box, n)[1]
    OBVIOUS
  <2> HIDE DEF box
  <2>4. QED
    BY <2>1, <2>2, <2>3 DEF Pushed, OK
<1>6. t.cells = box[1].cells /\ t.objs = box[1].objs
  <2>1. t = [box[1] EXCEPT !.frames = Append(box[1].frames, Variable(n, box[2]))]
    BY DEF PushVariable
  <2>2. IsStore(box[1])
    BY <1>3 DEF Fields
  <2> DEFINE x == box[1]
             f == Append(box[1].frames, Variable(n, box[2]))
  <2>4. t = [x EXCEPT !.frames = f] /\ IsStore(x)
    BY <2>1, <2>2
  <2> HIDE DEF x, f
  <2>5. Fields([x EXCEPT !.frames = f], f, x.cells, x.objs)
    BY <2>4, Updates
  <2>6. Fields(t, f, x.cells, x.objs)
    BY <2>4, <2>5
  <2>7. QED
    BY <2>6 DEF Fields, x
<1> HIDE DEF box, w, v
<1>7. /\ t.frames = Append(s.frames, Variable(n, c)) /\ t.cells = With(s.cells, c, v)
      /\ t.objs = w.objs
  BY <1>1, <1>3, <1>4, <1>5, <1>6 DEF Fields
<1>8. DOMAIN t.cells = DOMAIN s.cells \union {c} /\ t.cells[c] = v
      /\ \A d2 \in DOMAIN s.cells : d2 # c => t.cells[d2] = s.cells[d2]
  BY <1>7 DEF With
<1>9. c \notin CellsNamed(s) /\ c \notin DOMAIN s.cells
  BY <1>1, <1>3, <1>4 DEF CellsNamed
<1>10. Owned(t)
  BY <1>3, <1>6, OwnedAlike
<1>11. FramesOK(t.frames) /\ OK(s) /\ Linked(s) /\ FramesOK(s.frames)
  BY <1>5 DEF OK, Shape, Sound
<1>12. Linked(t)
  <2>1. t.frames = Append(s.frames, Variable(n, c)) /\ DOMAIN t.cells = DOMAIN s.cells \union {c}
    BY <1>7, <1>8
  <2>2. OK(s) /\ Linked(s) /\ FramesOK(t.frames) /\ c \in Slots /\ c \notin CellsNamed(s)
    BY <1>4, <1>9, <1>11
  <2>3. QED
    BY <2>1, <2>2, LinkedVariable
<1>13. Begins(s.frames, t.frames)
  <2>1. Variable(n, c) \in Entry
    BY <1>4, EntryFacts
  <2>2. Begins(s.frames, Append(s.frames, Variable(n, c)))
    BY <1>11, <2>1, Appended
  <2>3. QED
    BY <1>7, <2>2
<1>14. Keeps(s, t)
  BY <1>1, <1>7, <1>8, <1>9 DEF Keeps
<1>15. Procs(t) \subseteq Procs(s)
  <2>1. Procs(t) = Procs(w)
    BY <1>7 DEF Procs
  <2>2. QED
    BY <2>1 DEF w
<1>16. \A u : Loose(s, u) => Loose(t, u)
  <2>1. SUFFICES ASSUME NEW u, Loose(s, u) PROVE Loose(t, u)
    OBVIOUS
  <2>2. Loose(w, u)
    BY <2>1 DEF Copied, w
  <2>3. u = Om \/ u # v
    BY <2>1 DEF Copied, Loose, ValueOK, v
  <2>4. CASE u = Om
    BY <2>4 DEF Loose, ValueOK
  <2>5. CASE u # v
    <3>1. Loose(box[1], u)
      BY <1>3, <2>2, <2>5
    <3>2. QED
      BY <1>6, <3>1, OwnedAlike
  <2>6. QED
    BY <2>3, <2>4, <2>5
<1>17. QED
  BY <1>4, <1>5, <1>7, <1>8, <1>9, <1>10, <1>12, <1>13, <1>14, <1>15, <1>16 DEF Adds, Sound, w, v, box

(* A lookup finds a slot that is reached. *)
LEMMA GetReached ==
    ASSUME NEW s, Sound(s), NEW n, Get(s, n) # NoCell
    PROVE  /\ Reached(s.frames, 0, Get(s, n)) /\ Get(s, n) \in DOMAIN s.cells
           /\ GetPos(s, n) \in 1..Len(s.frames) /\ Get(s, n) = s.frames[GetPos(s, n)].cell
           /\ s.frames[GetPos(s, n)] # Boundary /\ s.frames[GetPos(s, n)].name = n
<1> DEFINE p == GetPos(s, n)
<1>1. Shape(s, Kinds) /\ Len(s.frames) \in Nat
  BY DEF Sound, OK, Shape, FramesOK
<1>2. p \in 0..Len(s.frames) /\ (p # 0 => s.frames[p] # Boundary /\ s.frames[p].name = n)
  BY <1>1, GetPosFacts
<1>3. Get(s, n) = CellOf(s, p)
  BY DEF Get
<1> HIDE DEF p
<1>4. p # 0 /\ Get(s, n) = s.frames[p].cell
  BY <1>3 DEF CellOf
<1>5. p \in 1..Len(s.frames) /\ s.frames[p] # Boundary
  BY <1>1, <1>2, <1>4
<1>6. s.frames[p].cell \in DOMAIN s.cells
  BY <1>5, ReachedLive
<1>7. QED
  BY <1>1, <1>2, <1>4, <1>5, <1>6 DEF Reached, p

(* What a slot holds is a value. *)
LEMMA HeldOK ==
    ASSUME NEW s, Owned(s), NEW c \in DOMAIN s.cells
    PROVE  ValueOK(s, s.cells[c])
<1>1. Holder(s, Om, c) /\ Holds(s, Om, c) = s.cells[c]
  BY DEF Holder, Holds
<1>2. QED
  BY <1>1 DEF Owned

(* add: a variable, with a copy of what its name held. *)
LEMMA AddAdds ==
    ASSUME ClassFree, NEW s, Sound(s), NEW n \in STRING,
           NEW t, t = Add(s, n)[1], NEW c, c = Add(s, n)[2]
    PROVE  /\ Adds(s, t) /\ c \in Slots /\ c \notin CellsNamed(s)
           /\ DOMAIN t.cells = DOMAIN s.cells \union {c} /\ t.frames = Append(s.frames, Variable(n, c))
           /\ Loose(s, t.cells[c]) \/ t.cells[c] \notin DOMAIN s.objs
           /\ Get(s, n) = NoCell => t.cells[c] = Om /\ t.objs = s.objs
           /\ Get(s, n) # NoCell /\ s.cells[Get(s, n)] = Om => t.cells[c] = Om
           /\ Get(s, n) # NoCell /\ s.cells[Get(s, n)] # Om =>
                 t.cells[c] # Om /\ t.objs[t.cells[c]] = s.objs[s.cells[Get(s, n)]]
           /\ \A u : Loose(s, u) => Loose(t, u)
<1> DEFINE val == Inherited(s, Get(s, n))
<1>1. OK(s) /\ Owned(s)
  BY DEF Sound
<1>2. t = PushVariable(Boxed(val), n)[1] /\ Add(s, n) = PushVariable(Boxed(val), n)
  BY DEF Add
<1>3. /\ Copied(s, val[1], val[2]) /\ Procs(val[1]) \subseteq Procs(s)
      /\ Get(s, n) = NoCell => val[2] = Om /\ val[1].objs = s.objs
      /\ Get(s, n) # NoCell /\ s.cells[Get(s, n)] = Om => val[2] = Om
      /\ Get(s, n) # NoCell /\ s.cells[Get(s, n)] # Om =>
            val[2] # Om /\ val[1].objs[val[2]] = s.objs[s.cells[Get(s, n)]]
  <2>1. CASE Get(s, n) = NoCell
    <3>1. val = <<s, Om>>
      BY <2>1 DEF Inherited
    <3>2. Loose(s, Om)
      BY DEF Loose, ValueOK
    <3>3. QED
      BY <1>1, <2>1, <3>1, <3>2, KeepsFacts DEF Copied
  <2>2. CASE Get(s, n) # NoCell
    <3> DEFINE v == s.cells[Get(s, n)]
    <3>1. val = Unshare(s, v)
      BY <2>2 DEF Inherited
    <3>2. ValueOK(s, v)
      BY <1>1, <2>2, GetReached, HeldOK
    <3> HIDE DEF val, v
    <3>3. /\ Copied(s, Unshare(s, v)[1], Unshare(s, v)[2])
          /\ v = Om => Unshare(s, v)[2] = Om
          /\ v # Om => /\ Unshare(s, v)[2] # Om
                       /\ Unshare(s, v)[1].objs[Unshare(s, v)[2]] = s.objs[v]
      BY <1>1, <3>2, UnshareCopied
    <3>4. Procs(Unshare(s, v)[1]) \subseteq Procs(s)
      BY <1>1, UnshareProcs
    <3>5. QED
      BY <2>2, <3>1, <3>3, <3>4 DEF v
  <2>3. QED
    BY <2>1, <2>2
<1> HIDE DEF val
<1>4. c = Boxed(val)[2]
  BY <1>2 DEF PushVariable
<1>5a. t = PushVariable(Boxed(val), n)[1] /\ Copied(s, val[1], val[2]) /\ Procs(val[1]) \subseteq Procs(s)
  BY <1>2, <1>3
<1>5. /\ Adds(s, t) /\ c \in Slots
      /\ c \notin CellsNamed(s) /\ DOMAIN t.cells = DOMAIN s.cells \union {c}
      /\ t.cells[c] = val[2] /\ t.objs = val[1].objs
      /\ t.frames = Append(s.frames, Variable(n, c))
      /\ \A u : Loose(s, u) => Loose(t, u)
  BY <1>4, <1>5a, VariableAdds
<1>6. Loose(s, val[2]) \/ val[2] \notin DOMAIN s.objs
  BY <1>3 DEF Copied, Loose, ValueOK
<1>7. QED
  BY <1>3, <1>5, <1>6

(* alias: another name for a slot of an entry. *)
LEMMA AliasAdds ==
    ASSUME NEW s, Sound(s), NEW n \in STRING, NEW c \in Nat, Reached(s.frames, 0, c),
           NEW cross \in BOOLEAN, NEW t, t = Alias(s, n, c, cross)
    PROVE  /\ Adds(s, t) /\ t.frames = Append(s.frames, AliasOf(n, c, cross))
           /\ t.cells = s.cells /\ t.objs = s.objs
<1>1. OK(s) /\ IsStore(s) /\ FramesOK(s.frames) /\ Linked(s) /\ Owned(s)
  BY DEF Sound, OK, Shape
<1>2. OK(t) /\ t.frames = Append(s.frames, AliasOf(n, c, cross))
  BY <1>1, AliasPushed DEF Pushed, OK
<1>3. t.cells = s.cells /\ t.objs = s.objs
  BY <1>1, Updates DEF Alias, Fields
<1>4. Linked(t)
  <2>1. FramesOK(t.frames)
    BY <1>2 DEF OK, Shape
  <2>2. QED
    BY <1>1, <1>2, <1>3, <2>1, LinkedAlias
<1>5. Owned(t)
  BY <1>1, <1>3, OwnedAlike
<1>6. Begins(s.frames, t.frames)
  <2>1. AliasOf(n, c, cross) \in Entry
    BY EntryFacts
  <2>2. Begins(s.frames, Append(s.frames, AliasOf(n, c, cross)))
    BY <1>1, <2>1, Appended
  <2>3. QED
    BY <1>2, <2>2
<1>7. Keeps(s, t) /\ Procs(t) \subseteq Procs(s)
  BY <1>3 DEF Keeps, Procs
<1>8. QED
  BY <1>2, <1>3, <1>4, <1>5, <1>6, <1>7 DEF Adds, Sound

(* A pushed entry is reached. *)
LEMMA PushedReached ==
    ASSUME NEW f, FramesOK(f), NEW e \in Entry, e # Boundary, NEW b \in Nat, b <= Len(f)
    PROVE  Reached(Append(f, e), b, e.cell)
<1>1. Len(f) \in Nat /\ Len(Append(f, e)) = Len(f) + 1 /\ Append(f, e)[Len(f) + 1] = e
  BY Appended DEF FramesOK
<1>2. Len(f) + 1 \in (b + 1)..Len(Append(f, e))
  BY <1>1
<1>3. QED
  BY <1>1, <1>2 DEF Reached

(* A name is resolved to a slot that is reached: it is a register, it is   *)
(* found, or it is a new variable.                                         *)
LEMMA ResolveAdds ==
    ASSUME ClassFree, NEW s, Sound(s), NEW n \in STRING,
           n \in DOMAIN Top.defs => Reached(s.frames, 0, Top.defs[n]),
           NEW t, t = Resolve(s, n)[1], NEW c, c = Resolve(s, n)[2]
    PROVE  /\ Adds(s, t) /\ Reached(t.frames, 0, c) /\ c \in DOMAIN t.cells
           /\ \/ n \in DOMAIN Top.defs /\ t = s /\ c = Top.defs[n]
              \/ n \notin DOMAIN Top.defs /\ t = s /\ Get(s, n) # NoCell /\ c = Get(s, n)
              \/ /\ n \notin DOMAIN Top.defs /\ Get(s, n) = NoCell /\ t.cells[c] = Om
                 /\ c \notin DOMAIN s.cells /\ t.objs = s.objs
                 /\ t.frames = Append(s.frames, Variable(n, c))
<1>1. CASE n \in DOMAIN Top.defs
  <2>1. t = s /\ c = Top.defs[n]
    BY <1>1 DEF Resolve
  <2>2. PICK p \in (0 + 1)..Len(s.frames) : s.frames[p] # Boundary /\ s.frames[p].cell = c
    BY <1>1, <2>1 DEF Reached
  <2>3. c \in DOMAIN s.cells
    BY <2>2, ReachedLive
  <2>4. QED
    BY <1>1, <2>1, <2>3, AddsFacts
<1>2. CASE n \notin DOMAIN Top.defs /\ Get(s, n) # NoCell
  <2>1. t = s /\ c = Get(s, n)
    BY <1>2 DEF Resolve, GetOrNew
  <2>2. QED
    BY <1>2, <2>1, GetReached, AddsFacts
<1>3. CASE n \notin DOMAIN Top.defs /\ Get(s, n) = NoCell
  <2>1. t = Add(s, n)[1] /\ c = Add(s, n)[2]
    BY <1>3 DEF Resolve, GetOrNew
  <2>2. /\ Adds(s, t) /\ c \in Slots /\ c \notin CellsNamed(s)
        /\ DOMAIN t.cells = DOMAIN s.cells \union {c} /\ t.frames = Append(s.frames, Variable(n, c))
        /\ t.cells[c] = Om /\ t.objs = s.objs
    BY <1>3, <2>1, AddAdds
  <2>3. FramesOK(s.frames) /\ Len(s.frames) \in Nat
    BY DEF Sound, OK, Shape, FramesOK
  <2>4. /\ Variable(n, c) \in Entry /\ Variable(n, c) # Boundary /\ Variable(n, c).cell = c
    BY <2>2, EntryFacts DEF Slots
  <2>5. Reached(t.frames, 0, c)
    BY <2>2, <2>3, <2>4, PushedReached
  <2>6. c \notin DOMAIN s.cells
    BY <2>2 DEF CellsNamed
  <2>7. QED
    BY <1>3, <2>2, <2>5, <2>6
<1>4. QED
  BY <1>1, <1>2, <1>3

-----------------------------------------------------------------------------
(* Stack images.  What the copies made so far are: values nothing holds,   *)
(* no two of them the same, with the content of the originals.             *)

CopiesOf(s, Q, D, acc) ==
    /\ OK(acc[1]) /\ acc[1].frames = s.frames /\ acc[1].cells = s.cells
    /\ Owned(acc[1]) /\ Keeps(s, acc[1]) /\ Procs(acc[1]) \subseteq Procs(s)
    /\ NamesMap(acc[2]) /\ DOMAIN acc[2] = D
    /\ \A n \in D : /\ Loose(acc[1], acc[2][n]) /\ acc[2][n] \notin DOMAIN s.objs
                    /\ HeldBy(s, Q, n) = Om => acc[2][n] = Om
                    /\ HeldBy(s, Q, n) # Om =>
                          acc[2][n] # Om /\ acc[1].objs[acc[2][n]] = s.objs[HeldBy(s, Q, n)]
    /\ \A m, n \in D : m # n /\ acc[2][m] # Om => acc[2][m] # acc[2][n]

CopiesSoFar(env, D, acc) == CopiesOf(env[1], env[2], D, acc)

CopiesFold == INSTANCE Folding WITH Op <- ImageStep, Pick <- Chosen, Good <- CopiesSoFar

(* The entry an image is taken of for a name. *)
HeldAt(s, Q, n) == Max({j \in Q : s.frames[j].name = n})

(* What an image is taken of for a name is what a slot holds. *)
LEMMA HeldByOK ==
    ASSUME NEW s, Sound(s), NEW Q, Q \subseteq Entries(s), NEW i \in Q, NEW n, n = s.frames[i].name
    PROVE  /\ ValueOK(s, HeldBy(s, Q, n))
           /\ HeldAt(s, Q, n) \in Q /\ s.frames[HeldAt(s, Q, n)].name = n
           /\ s.frames[HeldAt(s, Q, n)].cell \in DOMAIN s.cells
           /\ HeldBy(s, Q, n) = s.cells[s.frames[HeldAt(s, Q, n)].cell]
<1> DEFINE T == {j \in Q : s.frames[j].name = n}
           p == Max(T)
<1>1. Len(s.frames) \in Nat /\ DOMAIN s.frames = 1..Len(s.frames) /\ Owned(s)
  BY DEF Sound, OK, Shape, FramesOK
<1>2. T \subseteq 1..Len(s.frames) /\ T # {}
  BY <1>1 DEF Entries
<1> HIDE DEF T
<1>3. p \in T /\ \A j \in T : j <= p
  BY <1>1, <1>2, Greatest
<1> HIDE DEF p
<1>4. p \in Q /\ s.frames[p].name = n /\ p \in 1..Len(s.frames) /\ s.frames[p] # Boundary
  BY <1>1, <1>3 DEF T, Entries
<1>5. s.frames[p].cell \in DOMAIN s.cells
  BY <1>4, ReachedLive
<1>6. HeldBy(s, Q, n) = s.cells[s.frames[p].cell]
  BY DEF HeldBy, p, T
<1>7. ValueOK(s, HeldBy(s, Q, n))
  BY <1>1, <1>5, <1>6, HeldOK
<1>8. QED
  BY <1>3, <1>4, <1>5, <1>6, <1>7 DEF p, T, HeldAt

(* One more copy. *)
LEMMA CopiesStep ==
    ASSUME ClassFree, NEW s, Sound(s), NEW Q, NEW n \in STRING, ValueOK(s, HeldBy(s, Q, n)),
           NEW D, n \in D, NEW r, CopiesOf(s, Q, D \ {n}, r)
    PROVE  CopiesOf(s, Q, D, Bind(n, Unshare(r[1], HeldBy(s, Q, n)), r[2]))
<1> DEFINE h == HeldBy(s, Q, n)
           u == r[1]
           t == Unshare(u, h)[1]
           v == Unshare(u, h)[2]
           vals == With(r[2], n, v)
           acc == Bind(n, Unshare(u, h), r[2])
<1>1. acc[1] = t /\ acc[2] = vals
  BY DEF Bind
<1>2. /\ OK(u) /\ u.frames = s.frames /\ u.cells = s.cells /\ Owned(u) /\ Keeps(s, u)
      /\ Procs(u) \subseteq Procs(s) /\ NamesMap(r[2]) /\ DOMAIN r[2] = D \ {n}
  BY DEF CopiesOf
<1>3. ValueOK(u, h) /\ (h # Om => h \in DOMAIN s.objs /\ u.objs[h] = s.objs[h])
  BY <1>2 DEF ValueOK, Keeps
<1> HIDE DEF h, u, t, v, vals
<1>4. /\ Copied(u, t, v) /\ (h = Om => v = Om) /\ (h # Om => v # Om /\ t.objs[v] = u.objs[h])
  BY <1>2, <1>3, UnshareCopied DEF t, v
<1>5. Procs(t) \subseteq Procs(u)
  BY <1>2, UnshareProcs DEF t
<1>6. /\ OK(t) /\ t.frames = s.frames /\ t.cells = s.cells /\ Owned(t) /\ Keeps(s, t)
      /\ Procs(t) \subseteq Procs(s)
  BY <1>2, <1>4, <1>5, KeepsFacts DEF Copied
<1>7. NamesMap(vals) /\ DOMAIN vals = D /\ vals[n] = v /\ \A m \in D \ {n} : vals[m] = r[2][m]
  <2>1. NamesMap(vals)
    BY <1>2, WithNames DEF vals
  <2>2. QED
    BY <1>2, <2>1 DEF With, vals
<1>8. Om \notin DOMAIN s.objs
  BY DEF Sound, OK, Shape, ObjsOK, Slots, Om
<1>9. Loose(t, v) /\ v \notin DOMAIN s.objs /\ (v # Om => v \notin DOMAIN u.objs)
  BY <1>2, <1>4, <1>8 DEF Copied, Keeps
<1>10. ASSUME NEW m \in D \ {n}
       PROVE  /\ Loose(t, vals[m]) /\ vals[m] \notin DOMAIN s.objs
              /\ vals[m] # Om => vals[m] # v /\ vals[m] \in DOMAIN u.objs
              /\ HeldBy(s, Q, m) = Om => vals[m] = Om
              /\ HeldBy(s, Q, m) # Om =>
                    vals[m] # Om /\ t.objs[vals[m]] = s.objs[HeldBy(s, Q, m)]
  <2> DEFINE w == r[2][m]
  <2>1. /\ Loose(u, w) /\ w \notin DOMAIN s.objs
        /\ HeldBy(s, Q, m) = Om => w = Om
        /\ HeldBy(s, Q, m) # Om => w # Om /\ u.objs[w] = s.objs[HeldBy(s, Q, m)]
    BY <1>10 DEF CopiesOf, u
  <2>2. vals[m] = w
    BY <1>7
  <2> HIDE DEF w
  <2>3. w # Om => w \in DOMAIN u.objs /\ w # v
    BY <1>9, <2>1 DEF Loose, ValueOK
  <2>4. Loose(t, w)
    BY <1>4, <2>1 DEF Copied
  <2>5. w # Om => t.objs[w] = u.objs[w]
    BY <1>4, <2>3 DEF Copied, Keeps
  <2>6. QED
    BY <2>1, <2>2, <2>3, <2>4, <2>5
<1>11. ASSUME NEW m \in D, NEW k \in D, m # k, vals[m] # Om PROVE vals[m] # vals[k]
  <2>1. CASE m = n
    BY <1>7, <1>10, <1>11, <2>1
  <2>2. CASE k = n
    BY <1>7, <1>10, <1>11, <2>2
  <2>3. CASE m # n /\ k # n
    <3>1. m \in D \ {n} /\ k \in D \ {n}
      BY <2>3
    <3>2. r[2][m] # Om => r[2][m] # r[2][k]
      BY <1>11, <3>1 DEF CopiesOf
    <3>3. QED
      BY <1>7, <1>11, <3>1, <3>2
  <2>4. QED
    BY <2>1, <2>2, <2>3
<1>12. ASSUME NEW m \in D
       PROVE  /\ Loose(t, vals[m]) /\ vals[m] \notin DOMAIN s.objs
              /\ HeldBy(s, Q, m) = Om => vals[m] = Om
              /\ HeldBy(s, Q, m) # Om =>
                    vals[m] # Om /\ t.objs[vals[m]] = s.objs[HeldBy(s, Q, m)]
  <2>1. CASE m = n
    BY <1>3, <1>4, <1>7, <1>9, <2>1 DEF h
  <2>2. CASE m # n
    BY <1>10, <2>2
  <2>3. QED
    BY <2>1, <2>2
<1> HIDE DEF acc
<1>13. CopiesOf(s, Q, D, acc)
  BY <1>1, <1>6, <1>7, <1>11, <1>12 DEF CopiesOf
<1>14. QED
  BY <1>13 DEF acc, u, h

(* The copies an image is made of. *)
LEMMA ImageCopies ==
    ASSUME ClassFree, NEW s, Sound(s), NEW Q, Q \subseteq Entries(s)
    PROVE  CopiesOf(s, Q, {s.frames[i].name : i \in Q}, ImageOf(s, Q))
<1> DEFINE env == <<s, Q>>
           S == {s.frames[i].name : i \in Q}
<1>1. ImageOf(s, Q) = CopiesFold!Fold(env, <<s, Empty>>, S)
  BY DEF ImageOf, FoldSet, MapThenFoldSet, ImageStep, Chosen, CopiesFold!Fold, CopiesFold!Equation
<1>2. S \subseteq STRING /\ IsFiniteSet(S)
  <2>1. FramesOK(s.frames) /\ Len(s.frames) \in Nat /\ DOMAIN s.frames = 1..Len(s.frames)
    BY DEF Sound, OK, Shape, FramesOK
  <2>2. \A i \in Q : i \in 1..Len(s.frames) /\ s.frames[i] # Boundary
    BY <2>1 DEF Entries
  <2>3. \A i \in Q : s.frames[i].name \in STRING
    BY <2>1, <2>2, CellOfNat
  <2>4. IsFiniteSet(Q)
    <3>1. IsFiniteSet(1..Len(s.frames)) /\ Q \subseteq 1..Len(s.frames)
      BY <2>1, <2>2, FS_Interval
    <3>2. QED
      BY <3>1, FS_Subset
  <2>5. [i \in Q |-> s.frames[i].name] \in Surjection(Q, S)
    BY DEF Surjection
  <2>6. S \subseteq STRING
    BY <2>3
  <2> HIDE DEF S
  <2>7. QED
    BY <2>4, <2>5, <2>6, FS_Surjection
<1>3. CopiesFold!IsFiniteSet(S)
  BY <1>2 DEF IsFiniteSet, CopiesFold!IsFiniteSet
<1>4. \A D \in SUBSET S : D # {} => Chosen(env, D) \in D
  BY DEF Chosen
<1>5. CopiesSoFar(env, {}, <<s, Empty>>)
  BY EmptyNames, KeepsFacts DEF CopiesSoFar, CopiesOf, Sound
<1>6. ASSUME NEW D \in SUBSET S, D # {}, NEW r, CopiesSoFar(env, D \ {Chosen(env, D)}, r)
      PROVE  CopiesSoFar(env, D, ImageStep(env, Chosen(env, D), r))
  <2> DEFINE n == Chosen(env, D)
  <2>1. n \in STRING /\ n \in S /\ n \in D
    BY <1>2, <1>4, <1>6
  <2>2. PICK i \in Q : n = s.frames[i].name
    BY <2>1
  <2>3. ValueOK(s, HeldBy(s, Q, n))
    BY <2>2, HeldByOK
  <2>4. CopiesOf(s, Q, D \ {n}, r)
    BY <1>6 DEF CopiesSoFar
  <2> HIDE DEF n
  <2>5. CopiesOf(s, Q, D, Bind(n, Unshare(r[1], HeldBy(s, Q, n)), r[2]))
    BY <2>1, <2>3, <2>4, CopiesStep
  <2>6. QED
    BY <2>5 DEF CopiesSoFar, ImageStep, n
<1> HIDE DEF env, S
<1>7. CopiesSoFar(env, S, CopiesFold!Fold(env, <<s, Empty>>, S))
  BY <1>3, <1>4, <1>5, <1>6, CopiesFold!FoldKeeps
<1>8. QED
  BY <1>1, <1>7 DEF CopiesSoFar, env, S

(* The image with the copies goes to the heap. *)
LEMMA ImageAdds ==
    ASSUME NEW s, Sound(s), NEW Q, NEW D, NEW acc, CopiesOf(s, Q, D, acc),
           NEW t, t = Alloc(acc[1], Image(acc[2]))[1], NEW r, r = Alloc(acc[1], Image(acc[2]))[2]
    PROVE  /\ Adds(s, t) /\ t.frames = s.frames /\ t.cells = s.cells
           /\ r \in Slots /\ r \notin DOMAIN s.objs /\ r \in DOMAIN t.objs /\ t.objs[r] = Image(acc[2])
           /\ \A n \in D : /\ HeldBy(s, Q, n) = Om => acc[2][n] = Om
                           /\ HeldBy(s, Q, n) # Om =>
                                 /\ acc[2][n] # Om /\ acc[2][n] \in DOMAIN t.objs
                                 /\ t.objs[acc[2][n]] = s.objs[HeldBy(s, Q, n)]
<1> DEFINE u == acc[1]
           vals == acc[2]
           obj == Image(vals)
<1>1. /\ OK(u) /\ u.frames = s.frames /\ u.cells = s.cells /\ Owned(u) /\ Keeps(s, u)
      /\ Procs(u) \subseteq Procs(s) /\ NamesMap(vals) /\ DOMAIN vals = D
  BY DEF CopiesOf
<1>2. ObjOK(obj, Kinds) /\ obj.kind = "image" /\ obj.vals = vals
  BY <1>1 DEF ObjOK, Image
<1>3. PICK q \in Slots :
         /\ q \notin DOMAIN u.objs /\ Alloc(u, obj)[2] = q
         /\ Fields(Alloc(u, obj)[1], u.frames, u.cells, With(u.objs, q, obj)) /\ Shape(Alloc(u, obj)[1], Kinds)
  BY <1>1, <1>2, AllocFacts DEF OK
<1>4. /\ q = r /\ OK(t) /\ t.frames = s.frames /\ t.cells = s.cells /\ t.objs = With(u.objs, r, obj)
  BY <1>1, <1>3 DEF Fields, OK
<1>5. Procs(t) \subseteq Procs(u) \union {obj}
  BY <1>1, <1>2, AllocProcs
<1> HIDE DEF u, vals, obj
<1>6. /\ r \in Slots /\ r \notin DOMAIN u.objs /\ DOMAIN t.objs = DOMAIN u.objs \union {r} /\ t.objs[r] = obj
      /\ \A q2 \in DOMAIN u.objs : t.objs[q2] = u.objs[q2]
  BY <1>3, <1>4 DEF With
<1>7. r # Om
  BY <1>6 DEF Slots, Om
<1>8. \A q2, n : Holder(t, q2, n) <=> Holder(u, q2, n) \/ (q2 = r /\ n \in D)
  BY <1>1, <1>2, <1>4, <1>6, <1>7 DEF Holder
<1>9. \A q2, n : Holder(u, q2, n) => Holds(t, q2, n) = Holds(u, q2, n) /\ q2 # r
  BY <1>1, <1>4, <1>6, <1>7 DEF Holder, Holds
<1>10. \A n : Holds(t, r, n) = vals[n]
  BY <1>2, <1>6, <1>7 DEF Holds
<1>11. \A v : ValueOK(u, v) => ValueOK(t, v)
  BY <1>6 DEF ValueOK
<1>12. /\ \A n \in D : Loose(u, vals[n])
       /\ \A m, n \in D : m # n /\ vals[m] # Om => vals[m] # vals[n]
  BY DEF CopiesOf, u, vals
<1>13. \A q2, n : Holder(t, q2, n) => ValueOK(t, Holds(t, q2, n))
  BY <1>1, <1>8, <1>9, <1>10, <1>11, <1>12 DEF Owned, Loose
<1>14. ASSUME NEW q1, NEW n, NEW q2, NEW m, Holder(t, q1, n), Holder(t, q2, m),
              Holds(t, q1, n) # Om, Holds(t, q1, n) = Holds(t, q2, m)
       PROVE  q1 = q2 /\ n = m
  <2>1. CASE Holder(u, q1, n) /\ Holder(u, q2, m)
    BY <1>1, <1>9, <1>14, <2>1 DEF Owned
  <2>2. CASE Holder(u, q1, n) /\ ~ Holder(u, q2, m)
    BY <1>8, <1>9, <1>10, <1>12, <1>14, <2>2 DEF Loose
  <2>3. CASE ~ Holder(u, q1, n) /\ Holder(u, q2, m)
    BY <1>8, <1>9, <1>10, <1>12, <1>14, <2>3 DEF Loose
  <2>4. CASE ~ Holder(u, q1, n) /\ ~ Holder(u, q2, m)
    BY <1>8, <1>10, <1>12, <1>14, <2>4
  <2>5. QED
    BY <2>1, <2>2, <2>3, <2>4
<1>15. Owned(t)
  BY <1>13, <1>14 DEF Owned
<1>16. Linked(t) /\ Begins(s.frames, t.frames)
  BY <1>4 DEF Sound, Linked, Begins, OK, Shape, FramesOK
<1>17. Keeps(s, t)
  <2>1. Keeps(u, t)
    BY <1>1, <1>4, <1>6 DEF Keeps
  <2>2. QED
    BY <1>1, <2>1, KeepsFacts
<1>18. Procs(t) \subseteq Procs(s)
  <2>1. obj \notin Procs(t)
    BY <1>2 DEF Procs
  <2>2. QED
    BY <1>1, <1>5, <2>1
<1>19. r \notin DOMAIN s.objs
  BY <1>1, <1>6 DEF Keeps
<1>20. ASSUME NEW n \in D
       PROVE  /\ HeldBy(s, Q, n) = Om => vals[n] = Om
              /\ HeldBy(s, Q, n) # Om => /\ vals[n] # Om /\ vals[n] \in DOMAIN t.objs
                                         /\ t.objs[vals[n]] = s.objs[HeldBy(s, Q, n)]
  <2>1. /\ HeldBy(s, Q, n) = Om => vals[n] = Om
        /\ HeldBy(s, Q, n) # Om => vals[n] # Om /\ u.objs[vals[n]] = s.objs[HeldBy(s, Q, n)]
    BY <1>20 DEF CopiesOf, u, vals
  <2>2. vals[n] # Om => vals[n] \in DOMAIN u.objs
    BY <1>12, <1>20 DEF Loose, ValueOK
  <2>3. QED
    BY <1>6, <2>1, <2>2
<1>21. QED
  BY <1>4, <1>6, <1>15, <1>16, <1>17, <1>18, <1>19, <1>20 DEF Adds, Sound, vals, obj

-----------------------------------------------------------------------------
(* What a value is made of, without classes. *)
LEMMA ContentFacts ==
    ASSUME ClassFree, NEW s, OK(s), NEW v
    PROVE  Content(s, v) = IF v \in DOMAIN s.objs THEN s.objs[v] ELSE List(Om)
<1>1. Kind(s, v) # "object"
  <2>1. CASE v \in DOMAIN s.objs
    BY <2>1, NoObjects DEF Kind
  <2>2. CASE v \notin DOMAIN s.objs
    BY <2>2 DEF Kind
  <2>3. QED
    BY <2>1, <2>2
<1>2. QED
  BY <1>1 DEF Content

(* Om is no object. *)
LEMMA OmNoObject ==
    ASSUME NEW s, OK(s)
    PROVE  Om \notin DOMAIN s.objs /\ NoCell \notin DOMAIN s.cells
  BY DEF OK, Shape, ObjsOK, CellsOK, Slots, Om, NoCell

(* A slot and its value are kept. *)
LEMMA ContentKept ==
    ASSUME ClassFree, NEW s, OK(s), NEW t, OK(t), Keeps(s, t), NEW v, ValueOK(s, v)
    PROVE  Content(t, v) = Content(s, v) /\ ValueOK(t, v)
<1>1. /\ Content(s, v) = IF v \in DOMAIN s.objs THEN s.objs[v] ELSE List(Om)
      /\ Content(t, v) = IF v \in DOMAIN t.objs THEN t.objs[v] ELSE List(Om)
  BY ContentFacts
<1>2. CASE v = Om
  BY <1>1, <1>2, OmNoObject DEF ValueOK
<1>3. CASE v # Om
  <2>1. v \in DOMAIN s.objs /\ v \in DOMAIN t.objs /\ t.objs[v] = s.objs[v]
    BY <1>3 DEF ValueOK, Keeps
  <2>2. QED
    BY <1>1, <2>1 DEF ValueOK
<1>4. QED
  BY <1>2, <1>3

(* A copy u of value v, which s has, has the content of v. *)
LEMMA ContentCopied ==
    ASSUME ClassFree, NEW s, OK(s), NEW t, OK(t), NEW v, ValueOK(s, v), NEW u, ValueOK(t, u),
           v = Om => u = Om, v # Om => u # Om /\ t.objs[u] = s.objs[v]
    PROVE  Content(t, u) = Content(s, v)
<1>1. /\ Content(s, v) = IF v \in DOMAIN s.objs THEN s.objs[v] ELSE List(Om)
      /\ Content(t, u) = IF u \in DOMAIN t.objs THEN t.objs[u] ELSE List(Om)
  BY ContentFacts
<1>2. CASE v = Om
  BY <1>1, <1>2, OmNoObject
<1>3. CASE v # Om
  BY <1>1, <1>3 DEF ValueOK
<1>4. QED
  BY <1>2, <1>3

(* The last entry of a name above position b has a slot with content x. *)
Shown(s, b, n, x) ==
    \E c \in DOMAIN s.cells : LastNamed(s.frames, b, n, c) /\ Content(s, s.cells[c]) = x

(* What is shown when an entry is pushed. *)
LEMMA ShownPushed ==
    ASSUME ClassFree, NEW s, Sound(s), NEW t, Adds(s, t), NEW e \in Entry, e # Boundary,
           t.frames = Append(s.frames, e), NEW b \in Nat, b <= Len(s.frames)
    PROVE  /\ \A n, x : Shown(s, b, n, x) /\ n # e.name => Shown(t, b, n, x)
           /\ e.cell \in DOMAIN t.cells => Shown(t, b, e.name, Content(t, t.cells[e.cell]))
<1>1. FramesOK(s.frames) /\ OK(s) /\ OK(t) /\ Owned(s) /\ Keeps(s, t)
  BY DEF Adds, Sound, OK, Shape
<1>2. /\ LastNamed(t.frames, b, e.name, e.cell)
      /\ \A n, c : LastNamed(s.frames, b, n, c) /\ n # e.name => LastNamed(t.frames, b, n, c)
  BY <1>1, LastNamedPushed
<1>3. ASSUME NEW n, NEW x, Shown(s, b, n, x), n # e.name PROVE Shown(t, b, n, x)
  <2>1. PICK c \in DOMAIN s.cells : LastNamed(s.frames, b, n, c) /\ Content(s, s.cells[c]) = x
    BY <1>3 DEF Shown
  <2>2. c \in DOMAIN t.cells /\ t.cells[c] = s.cells[c]
    BY <1>1, <2>1 DEF Keeps
  <2>3. ValueOK(s, s.cells[c])
    BY <1>1, <2>1, HeldOK
  <2>4. Content(t, t.cells[c]) = x
    BY <1>1, <2>1, <2>2, <2>3, ContentKept
  <2>5. LastNamed(t.frames, b, n, c)
    BY <1>2, <1>3, <2>1
  <2>6. QED
    BY <2>2, <2>4, <2>5 DEF Shown
<1>4. QED
  BY <1>2, <1>3 DEF Shown

(* The last entry of a name in the current frame is what a lookup finds. *)
LEMMA LastNamedFound ==
    ASSUME NEW s, OK(s), NEW b \in Nat, NEW n, NEW c, LastNamed(s.frames, b, n, c)
    PROVE  Get(s, n) = c
<1> DEFINE f == s.frames
<1>1. FramesOK(f) /\ Len(f) \in Nat /\ Shape(s, Kinds)
  BY DEF OK, Shape, FramesOK
<1>2. PICK p \in (b + 1)..Len(f) :
         /\ f[p] # Boundary /\ f[p].name = n /\ f[p].cell = c
         /\ \A q \in (p + 1)..Len(f) : f[q] # Boundary /\ f[q].name # n
  BY DEF LastNamed
<1>3. /\ LastBoundary(f) \in 0..Len(f)
      /\ LastBoundary(f) # 0 => f[LastBoundary(f)] = Boundary
  BY <1>1, LastBoundaryFacts
<1>4. p \in 1..Len(f) /\ p # 0
  BY <1>1, <1>2
<1>5. LastBoundary(f) < p
  <2>1. LastBoundary(f) # p
    BY <1>2, <1>3, <1>4
  <2>2. LastBoundary(f) \notin (p + 1)..Len(f)
    BY <1>2, <1>3, <1>4
  <2> HIDE DEF f
  <2>3. QED
    BY <1>1, <1>3, <1>4, <2>1, <2>2
<1>6. Accessible(s, p)
  BY <1>5 DEF Accessible
<1>7. /\ GetPos(s, n) \in 0..Len(f) /\ p <= GetPos(s, n)
      /\ GetPos(s, n) # 0 => f[GetPos(s, n)] # Boundary /\ f[GetPos(s, n)].name = n
  BY <1>1, <1>2, <1>4, <1>6, GetPosFacts
<1>8. GetPos(s, n) = p
  <2>1. GetPos(s, n) \notin (p + 1)..Len(f)
    BY <1>2, <1>7
  <2> HIDE DEF f
  <2>2. QED
    BY <1>1, <1>4, <1>7, <2>1
<1>9. QED
  BY <1>2, <1>4, <1>8 DEF Get, CellOf

-----------------------------------------------------------------------------
(* Entering a procedure.  The frame of a closure.                          *)
RestoredAll(env, D, t) ==
    /\ Adds(env[1], t)
    /\ \A n \in D : Shown(t, Len(env[1].frames), n, Content(env[1], env[2][n]))

RestoreAll == INSTANCE Folding WITH Op <- RestoreStep, Pick <- Chosen, Good <- RestoredAll

(* One variable of the frame of a closure. *)
LEMMA RestoreOne ==
    ASSUME ClassFree, NEW s, Sound(s), NEW r, Adds(s, r), NEW n \in STRING, NEW v, ValueOK(s, v),
           NEW t, t = PushVariable(Boxed(Unshare(r, v)), n)[1]
    PROVE  /\ Adds(s, t) /\ Shown(t, Len(s.frames), n, Content(s, v))
           /\ \A m, x : Shown(r, Len(s.frames), m, x) /\ m # n => Shown(t, Len(s.frames), m, x)
<1> DEFINE val == Unshare(r, v)
           c == Boxed(val)[2]
           b == Len(s.frames)
<1>1. Sound(r) /\ OK(r) /\ Owned(r) /\ OK(s) /\ Keeps(s, r) /\ FramesOK(r.frames)
      /\ b \in Nat /\ b <= Len(r.frames)
  BY DEF Adds, Sound, OK, Shape, FramesOK, Begins
<1>2. ValueOK(r, v) /\ Content(r, v) = Content(s, v)
  BY <1>1, ContentKept
<1>3. /\ Copied(r, val[1], val[2]) /\ Procs(val[1]) \subseteq Procs(r)
      /\ v = Om => val[2] = Om
      /\ v # Om => val[2] # Om /\ val[1].objs[val[2]] = r.objs[v]
  BY <1>1, <1>2, UnshareCopied, UnshareProcs
<1>4. t = PushVariable(Boxed(val), n)[1] /\ c = Boxed(val)[2]
  OBVIOUS
<1> HIDE DEF val, c, b
<1>5. /\ Adds(r, t) /\ c \in Slots /\ DOMAIN t.cells = DOMAIN r.cells \union {c}
      /\ t.cells[c] = val[2] /\ t.objs = val[1].objs
      /\ t.frames = Append(r.frames, Variable(n, c))
  <2>1. Copied(r, val[1], val[2]) /\ Procs(val[1]) \subseteq Procs(r)
    BY <1>3
  <2>2. PICK w, x : w = val /\ x = c
    OBVIOUS
  <2>3. /\ Sound(r) /\ Copied(r, w[1], w[2]) /\ Procs(w[1]) \subseteq Procs(r)
        /\ x = Boxed(w)[2] /\ t = PushVariable(Boxed(w), n)[1]
    BY <1>1, <1>4, <2>1, <2>2
  <2>4. /\ Adds(r, t) /\ x \in Slots /\ DOMAIN t.cells = DOMAIN r.cells \union {x}
        /\ t.cells[x] = w[2] /\ t.objs = w[1].objs
        /\ t.frames = Append(r.frames, Variable(n, x))
    BY <2>3, VariableAdds
  <2>5. QED
    BY <2>2, <2>4
<1>6. Adds(s, t)
  BY <1>5, AddsFacts
<1>7. OK(t) /\ ValueOK(t, val[2])
  <2>1. OK(t)
    BY <1>5 DEF Adds, Sound
  <2>2. ValueOK(val[1], val[2])
    BY <1>3 DEF Copied, Loose
  <2>3. QED
    BY <1>5, <2>1, <2>2 DEF ValueOK
<1>8. Content(t, val[2]) = Content(s, v)
  <2>1. v # Om => val[2] # Om /\ t.objs[val[2]] = r.objs[v]
    BY <1>3, <1>5
  <2>2. Content(t, val[2]) = Content(r, v)
    BY <1>1, <1>2, <1>3, <1>7, <2>1, ContentCopied
  <2>3. QED
    BY <1>2, <2>2
<1> DEFINE e == Variable(n, c)
<1>9. e \in Entry /\ e # Boundary /\ e.name = n /\ e.cell = c
  BY <1>5, EntryFacts DEF Slots
<1>10. t.frames = Append(r.frames, e)
  BY <1>5
<1> HIDE DEF e
<1>11. /\ \A m, x : Shown(r, b, m, x) /\ m # n => Shown(t, b, m, x)
       /\ c \in DOMAIN t.cells => Shown(t, b, n, Content(t, t.cells[c]))
  BY <1>1, <1>5, <1>9, <1>10, ShownPushed
<1>12. Shown(t, b, n, Content(s, v))
  BY <1>5, <1>8, <1>11
<1>13. QED
  BY <1>6, <1>11, <1>12 DEF b

(* frame_restore: each variable has a copy of what the image holds. *)
LEMMA FrameRestoreAdds ==
    ASSUME ClassFree, NEW s, Sound(s), NEW image, NamesMap(image),
           \A n \in DOMAIN image : ValueOK(s, image[n])
    PROVE  /\ Adds(s, FrameRestore(s, image))
           /\ \A n \in DOMAIN image :
                 Shown(FrameRestore(s, image), Len(s.frames), n, Content(s, image[n]))
<1> DEFINE env == <<s, image>>
           S == DOMAIN image
<1>1. FrameRestore(s, image) = RestoreAll!Fold(env, s, S)
  BY DEF FrameRestore, FoldSet, MapThenFoldSet, RestoreStep, Chosen, RestoreAll!Fold, RestoreAll!Equation
<1>2. RestoreAll!IsFiniteSet(S)
  BY DEF NamesMap, IsFiniteSet, RestoreAll!IsFiniteSet
<1>3. \A D \in SUBSET S : D # {} => Chosen(env, D) \in D
  BY DEF Chosen
<1>4. RestoredAll(env, {}, s)
  BY AddsFacts DEF RestoredAll
<1>5. ASSUME NEW D \in SUBSET S, D # {}, NEW r, RestoredAll(env, D \ {Chosen(env, D)}, r)
      PROVE  RestoredAll(env, D, RestoreStep(env, Chosen(env, D), r))
  <2> DEFINE n == Chosen(env, D)
             t == RestoreStep(env, n, r)
             v == image[n]
  <2>1. n \in STRING /\ n \in S
    BY <1>3, <1>5 DEF NamesMap
  <2>2. Adds(s, r) /\ \A m \in D \ {n} : Shown(r, Len(s.frames), m, Content(s, image[m]))
    BY <1>5 DEF RestoredAll
  <2>3. ValueOK(s, v)
    BY <2>1
  <2>4. t = PushVariable(Boxed(Unshare(r, v)), n)[1]
    BY DEF RestoreStep
  <2>8. Adds(s, r) /\ n \in STRING
    BY <2>1, <2>2
  <2> HIDE DEF n, t, v, env, S
  <2>5. /\ Adds(s, t) /\ Shown(t, Len(s.frames), n, Content(s, v))
        /\ \A m, x : Shown(r, Len(s.frames), m, x) /\ m # n => Shown(t, Len(s.frames), m, x)
    BY <2>3, <2>4, <2>8, RestoreOne
  <2>6. \A m \in D : Shown(t, Len(s.frames), m, Content(s, image[m]))
    BY <2>2, <2>5 DEF v
  <2>7. QED
    BY <2>5, <2>6 DEF RestoredAll, t, n, env
<1> HIDE DEF env, S
<1>6. RestoredAll(env, S, RestoreAll!Fold(env, s, S))
  BY <1>2, <1>3, <1>4, <1>5, RestoreAll!FoldKeeps
<1>7. QED
  BY <1>1, <1>6 DEF RestoredAll, env, S

(* add keeps what names show: the new variable is a copy. *)
LEMMA AddShown ==
    ASSUME ClassFree, NEW s, Sound(s), NEW n \in STRING, NEW t, t = Add(s, n)[1],
           NEW b \in Nat, b <= Len(s.frames)
    PROVE  Adds(s, t) /\ \A m, x : Shown(s, b, m, x) => Shown(t, b, m, x)
<1> DEFINE c == Add(s, n)[2]
           e == Variable(n, c)
           old == s.cells[Get(s, n)]
<1>1. c = Add(s, n)[2]
  OBVIOUS
<1> HIDE DEF c, e
<1>2. /\ Adds(s, t) /\ c \in Slots
      /\ DOMAIN t.cells = DOMAIN s.cells \union {c} /\ t.frames = Append(s.frames, Variable(n, c))
      /\ Get(s, n) # NoCell /\ old = Om => t.cells[c] = Om
      /\ Get(s, n) # NoCell /\ old # Om =>
                 t.cells[c] # Om /\ t.objs[t.cells[c]] = s.objs[old]
  <2>1. /\ Adds(s, t) /\ c \in Slots
        /\ DOMAIN t.cells = DOMAIN s.cells \union {c} /\ t.frames = Append(s.frames, Variable(n, c))
    BY <1>1, AddAdds
  <2>2. /\ Get(s, n) # NoCell /\ s.cells[Get(s, n)] = Om => t.cells[c] = Om
        /\ Get(s, n) # NoCell /\ s.cells[Get(s, n)] # Om =>
                 t.cells[c] # Om /\ t.objs[t.cells[c]] = s.objs[s.cells[Get(s, n)]]
    BY <1>1, AddAdds
  <2>3. QED
    BY <2>1, <2>2
<1>3. OK(s) /\ Owned(s) /\ OK(t) /\ Owned(t) /\ Keeps(s, t)
  BY <1>2 DEF Adds, Sound
<1>4. e \in Entry /\ e # Boundary /\ e.name = n /\ e.cell = c /\ t.frames = Append(s.frames, e)
  BY <1>2, EntryFacts DEF Slots, e
<1>5. /\ \A m, x : Shown(s, b, m, x) /\ m # n => Shown(t, b, m, x)
      /\ c \in DOMAIN t.cells => Shown(t, b, n, Content(t, t.cells[c]))
  BY <1>2, <1>4, ShownPushed
<1>6. ASSUME NEW x, Shown(s, b, n, x) PROVE Shown(t, b, n, x)
  <2>1. PICK d \in DOMAIN s.cells : LastNamed(s.frames, b, n, d) /\ Content(s, s.cells[d]) = x
    BY <1>6 DEF Shown
  <2>2. Get(s, n) = d /\ d # NoCell
    BY <1>3, <2>1, LastNamedFound, OmNoObject
  <2>3. old = s.cells[d] /\ ValueOK(s, old)
    BY <1>3, <2>1, <2>2, HeldOK
  <2>4. ValueOK(t, t.cells[c])
    BY <1>2, <1>3, HeldOK
  <2> DEFINE v == old
             u == t.cells[c]
  <2>5. /\ v = Om => u = Om
        /\ v # Om => u # Om /\ t.objs[u] = s.objs[v]
    BY <1>2, <2>2
  <2>6. ValueOK(s, v) /\ ValueOK(t, u)
    BY <2>3, <2>4
  <2> HIDE DEF v, u
  <2>7. Content(t, u) = Content(s, v)
    BY <1>3, <2>5, <2>6, ContentCopied
  <2>8. QED
    BY <1>2, <1>5, <2>1, <2>3, <2>7 DEF u, v
<1>7. QED
  BY <1>2, <1>5, <1>6

LocalsAll(env, D, acc) ==
    /\ Adds(env[1], acc[1])
    /\ \A n, x : Shown(env[1], env[3], n, x) => Shown(acc[1], env[3], n, x)

LocalAll == INSTANCE Folding WITH Op <- LocalStep, Pick <- HighestOf, Good <- LocalsAll

(* The local variables of the procedure are pushed. *)
LEMMA AddLocalsAdds ==
    ASSUME ClassFree, NEW s, Sound(s), NEW defs, NEW seq \in Seq(STRING),
           NEW b \in Nat, b <= Len(s.frames), NEW t, t = AddLocals(<<s, defs>>, seq)[1]
    PROVE  Adds(s, t) /\ \A n, x : Shown(s, b, n, x) => Shown(t, b, n, x)
<1> DEFINE env == <<s, seq, b>>
           S == DOMAIN seq
           acc == <<s, defs>>
<1>1. AddLocals(acc, seq) = LocalAll!Fold(env, acc, S)
  BY DEF AddLocals, FoldLeft, MapThenFoldSet, LocalStep, HighestOf, LocalAll!Fold, LocalAll!Equation
<1>2. LocalAll!IsFiniteSet(S)
  BY LastFacts DEF IsFiniteSet, LocalAll!IsFiniteSet
<1>3. \A D \in SUBSET S : D # {} => HighestOf(env, D) \in D
  BY LastFacts DEF HighestOf, LastIn
<1>4. LocalsAll(env, {}, acc)
  BY AddsFacts DEF LocalsAll
<1>5. ASSUME NEW D \in SUBSET S, D # {}, NEW q, LocalsAll(env, D \ {HighestOf(env, D)}, q)
      PROVE  LocalsAll(env, D, LocalStep(env, HighestOf(env, D), q))
  <2> DEFINE n == seq[HighestOf(env, D)]
             r == q[1]
             u == Add(r, n)[1]
  <2>1. n \in STRING
    BY <1>3, <1>5, LastFacts
  <2>2. Adds(s, r) /\ \A m, x : Shown(s, b, m, x) => Shown(r, b, m, x)
    BY <1>5 DEF LocalsAll
  <2>3. LocalStep(env, HighestOf(env, D), q)[1] = u
    BY DEF LocalStep, AddLocal, Bind
  <2>4. Sound(r) /\ Len(s.frames) \in Nat /\ Len(s.frames) <= Len(r.frames) /\ Len(r.frames) \in Nat
    BY <2>2 DEF Adds, Begins, Sound, OK, Shape, FramesOK
  <2>5. b <= Len(r.frames) /\ u = Add(r, n)[1]
    BY <2>4
  <2> HIDE DEF n, r, u, env, S
  <2>6. Adds(r, u) /\ \A m, x : Shown(r, b, m, x) => Shown(u, b, m, x)
    BY <2>1, <2>4, <2>5, AddShown
  <2>7. Adds(s, u)
    BY <2>2, <2>6, AddsFacts
  <2>8. QED
    BY <2>2, <2>3, <2>6, <2>7 DEF LocalsAll, env
<1> HIDE DEF env, S, acc
<1>6. LocalsAll(env, S, LocalAll!Fold(env, acc, S))
  BY <1>2, <1>3, <1>4, <1>5, LocalAll!FoldKeeps
<1>7. QED
  BY <1>1, <1>6 DEF LocalsAll, env, acc

(* A store with other slots. *)
LEMMA OtherCells ==
    ASSUME NEW s, IsStore(s), NEW c, NEW t, t = [s EXCEPT !.cells = c]
    PROVE  Fields(t, s.frames, c, s.objs)
  BY Updates

(* Which entry is for which slot does not depend on what the slots hold.   *)
LEMMA LinkedAlike ==
    ASSUME NEW s, Linked(s), NEW t, t.frames = s.frames, DOMAIN t.cells = DOMAIN s.cells
    PROVE  Linked(t)
  BY DEF Linked

(* A parameter passed by value: a variable with a copy of the argument.    *)
LEMMA ByValueAdds ==
    ASSUME ClassFree, NEW s, Sound(s), NEW n \in STRING, NEW arg, Reached(s.frames, 0, arg),
           NEW b \in Nat, b <= Len(s.frames), NEW acc, acc[1] = s,
           NEW t, t = ByValue(acc, n, arg)[1]
    PROVE  Adds(s, t) /\ \A m, x : Shown(s, b, m, x) /\ m # n => Shown(t, b, m, x)
<1> DEFINE u == Add(s, n)[1]
           c == Add(s, n)[2]
           val == Unshare(u, u.cells[arg])
           w == val[1]
           e == Variable(n, c)
           cells == [w.cells EXCEPT ![c] = val[2]]
<1>1. t = [w EXCEPT !.cells = cells]
  BY DEF ByValue, Bind, CopyInto, Filled
<1>2. arg \in DOMAIN s.cells
  <2>1. PICK p \in 1..Len(s.frames) : s.frames[p] # Boundary /\ s.frames[p].cell = arg
    BY DEF Reached
  <2>2. QED
    BY <2>1, ReachedLive
<1>3. u = Add(s, n)[1] /\ c = Add(s, n)[2] /\ val = Unshare(u, u.cells[arg])
  OBVIOUS
<1> HIDE DEF u, c
<1>4. /\ Adds(s, u) /\ c \in Slots /\ c \notin CellsNamed(s)
      /\ DOMAIN u.cells = DOMAIN s.cells \union {c} /\ u.frames = Append(s.frames, Variable(n, c))
  BY <1>3, AddAdds
<1>5. OK(s) /\ OK(u) /\ Owned(u) /\ Linked(u) /\ Keeps(s, u) /\ Procs(u) \subseteq Procs(s)
      /\ Begins(s.frames, u.frames)
  BY <1>4 DEF Adds, Sound
<1>6. ValueOK(u, u.cells[arg])
  BY <1>2, <1>4, <1>5, HeldOK
<1>7. Copied(u, w, val[2]) /\ Procs(w) \subseteq Procs(u)
  BY <1>5, <1>6, UnshareCopied, UnshareProcs
<1> HIDE DEF val
<1>8. OK(w) /\ w.frames = u.frames /\ w.cells = u.cells /\ Owned(w) /\ Keeps(u, w) /\ Loose(w, val[2])
  BY <1>7 DEF Copied
<1> HIDE DEF w
<1>9. CellsOK(cells) /\ IsStore(w)
  BY <1>8, CellsSet DEF OK, Shape
<1>10. DOMAIN cells = DOMAIN w.cells /\ cells[c] = val[2]
       /\ \A d \in DOMAIN w.cells : d # c => cells[d] = w.cells[d]
  BY <1>4, <1>8
<1> HIDE DEF cells
<1>11. Fields(t, w.frames, cells, w.objs)
  BY <1>1, <1>9, OtherCells
<1>12. OK(t)
  BY <1>8, <1>9, <1>11 DEF OK, Shape, Fields
<1>13. Owned(t)
  <2>1. t.objs = w.objs /\ DOMAIN t.cells = DOMAIN w.cells /\ t.cells[c] = val[2]
        /\ c \in DOMAIN w.cells /\ \A d \in DOMAIN w.cells : d # c => t.cells[d] = w.cells[d]
    BY <1>4, <1>8, <1>10, <1>11 DEF Fields
  <2>2. QED
    BY <1>8, <2>1, FilledOwned
<1>14. t.frames = u.frames /\ DOMAIN t.cells = DOMAIN u.cells /\ t.objs = w.objs
  BY <1>8, <1>10, <1>11 DEF Fields
<1>15. Linked(t)
  BY <1>5, <1>14, LinkedAlike
<1>16. Keeps(s, t)
  <2>1. c \notin DOMAIN s.cells
    BY <1>4 DEF CellsNamed
  <2>2. \A d \in DOMAIN s.cells : d \in DOMAIN t.cells /\ t.cells[d] = s.cells[d]
    BY <1>4, <1>5, <1>8, <1>10, <1>11, <1>14, <2>1 DEF Keeps, Fields
  <2>3. \A r \in DOMAIN s.objs : r \in DOMAIN t.objs /\ t.objs[r] = s.objs[r]
    BY <1>5, <1>8, <1>14 DEF Keeps
  <2>4. QED
    BY <2>2, <2>3 DEF Keeps
<1>17. Procs(t) \subseteq Procs(s)
  BY <1>5, <1>7, <1>14 DEF Procs
<1>18. Adds(s, t)
  BY <1>5, <1>12, <1>13, <1>14, <1>15, <1>16, <1>17 DEF Adds, Sound
<1>19. e \in Entry /\ e # Boundary /\ e.name = n /\ t.frames = Append(s.frames, e)
  BY <1>4, <1>14, EntryFacts DEF Slots
<1> HIDE DEF e
<1>20. \A m, x : Shown(s, b, m, x) /\ m # n => Shown(t, b, m, x)
  BY <1>18, <1>19, ShownPushed
<1>21. QED
  BY <1>18, <1>20

(* A parameter passed by reference: an alias for the argument. *)
LEMMA ByReferenceAdds ==
    ASSUME ClassFree, NEW s, Sound(s), NEW n \in STRING, NEW arg, Reached(s.frames, 0, arg),
           NEW b \in Nat, b <= Len(s.frames), NEW acc, acc[1] = s,
           NEW t, t = ByReference(acc, n, arg)[1]
    PROVE  Adds(s, t) /\ \A m, x : Shown(s, b, m, x) /\ m # n => Shown(t, b, m, x)
<1>1. PICK cross \in BOOLEAN : t = Alias(s, n, arg, cross)
  BY DEF ByReference
<1>2. arg \in Nat
  <2>1. PICK p \in 1..Len(s.frames) : s.frames[p] # Boundary /\ s.frames[p].cell = arg
    BY DEF Reached
  <2>2. FramesOK(s.frames)
    BY DEF Sound, OK, Shape
  <2>3. QED
    BY <2>1, <2>2, EntryKinds
<1>3. Adds(s, t) /\ t.frames = Append(s.frames, AliasOf(n, arg, cross))
  BY <1>1, <1>2, AliasAdds
<1> DEFINE e == AliasOf(n, arg, cross)
<1>4. e \in Entry /\ e # Boundary /\ e.name = n /\ t.frames = Append(s.frames, e)
  BY <1>1, <1>2, <1>3, EntryFacts
<1> HIDE DEF e
<1>5. QED
  BY <1>3, <1>4, ShownPushed

(* The procedure has a parameter. *)
Takes(p) == Code[p].param # ""

(* The parameter of a procedure, if it has one. *)
LEMMA ParameterAdds ==
    ASSUME ClassFree, NEW s, Sound(s), NEW p \in DOMAIN Code, NEW arg,
           Takes(p) => Reached(s.frames, 0, arg),
           NEW b \in Nat, b <= Len(s.frames), NEW acc, acc[1] = s,
           NEW t, t = Parameter(acc, p, arg)[1]
    PROVE  Adds(s, t) /\ \A m, x : Shown(s, b, m, x) /\ m # Code[p].param => Shown(t, b, m, x)
<1> DEFINE n == Code[p].param
<1>1. n \in STRING /\ Code[p].rw \in BOOLEAN
  BY CodeAssumption DEF CodeAssumption
<1>2. CASE ~ Takes(p)
  <2>1. t = s
    BY <1>2 DEF Parameter, Takes
  <2>2. QED
    BY <2>1, AddsFacts
<1>3. CASE Takes(p) /\ Code[p].rw
  <2>1. t = ByReference(acc, n, arg)[1] /\ Reached(s.frames, 0, arg)
    BY <1>3 DEF Parameter, Takes
  <2> HIDE DEF n
  <2>2. Adds(s, t) /\ \A m, x : Shown(s, b, m, x) /\ m # n => Shown(t, b, m, x)
    BY <1>1, <2>1, ByReferenceAdds
  <2>3. QED
    BY <2>2 DEF n
<1>4. CASE Takes(p) /\ ~ Code[p].rw
  <2>1. t = ByValue(acc, n, arg)[1] /\ Reached(s.frames, 0, arg)
    BY <1>4 DEF Parameter, Takes
  <2> HIDE DEF n
  <2>2. Adds(s, t) /\ \A m, x : Shown(s, b, m, x) /\ m # n => Shown(t, b, m, x)
    BY <1>1, <2>1, ByValueAdds
  <2>3. QED
    BY <2>2 DEF n
<1>5. QED
  BY <1>1, <1>2, <1>3, <1>4

(* Without objects, the variables of a procedure are its locals. *)
LEMMA VariablesAdds ==
    ASSUME ClassFree, NEW s, Sound(s), NEW p \in DOMAIN Code, NEW b \in Nat, b <= Len(s.frames),
           NEW acc, acc = <<s, Empty>>, NEW t, t = Variables(acc, p)[1]
    PROVE  Adds(s, t) /\ \A n, x : Shown(s, b, n, x) => Shown(t, b, n, x)
<1>1. ~ IsKind(s, Get(s, "this"), "object")
  <2>1. OK(s)
    BY DEF Sound
  <2>2. \A v : Kind(s, v) # "object"
    BY <2>1, NoObjects DEF Kind
  <2>3. QED
    BY <2>2 DEF IsKind
<1>2. Variables(<<s, Empty>>, p) = AddLocals(<<s, Empty>>, Code[p].locals)
  BY <1>1 DEF Variables
<1>3. Code[p].locals \in Seq(STRING)
  BY CodeAssumption DEF CodeAssumption
<1>4. t = AddLocals(<<s, Empty>>, Code[p].locals)[1]
  BY <1>2
<1>5. QED
  BY <1>3, <1>4, AddLocalsAdds

(* The images of procedures that can be called hold values. *)
LEMMA FramedAdds ==
    ASSUME ClassFree, NEW s, Sound(s), NEW image, image # Om => Kind(s, image) = "image",
           NEW t, t = Framed(s, image)
    PROVE  /\ Adds(s, t) /\ Len(s.frames) + 1 <= Len(t.frames)
           /\ image # Om => \A n \in DOMAIN s.objs[image].vals :
                 Shown(t, Len(s.frames) + 1, n, Content(s, s.objs[image].vals[n]))
<1> DEFINE f == FramePush(s)
           vals == s.objs[image].vals
<1>1. Adds(s, f) /\ f.frames = Append(s.frames, Boundary) /\ f.objs = s.objs /\ Sound(f)
  BY FramePushAdds DEF Adds
<1>2. OK(s) /\ OK(f) /\ FramesOK(s.frames)
  BY <1>1 DEF Sound, OK, Shape
<1>3. Len(f.frames) = Len(s.frames) + 1
  BY <1>1, <1>2, Appended, EntryFacts
<1>4. CASE image = Om
  <2>1. t = f
    BY <1>4 DEF Framed
  <2>2. Len(s.frames) \in Nat
    BY <1>2 DEF FramesOK
  <2> HIDE DEF f
  <2>3. QED
    BY <1>1, <1>3, <1>4, <2>1, <2>2
<1>5. CASE image # Om
  <2>1. image \in DOMAIN s.objs /\ s.objs[image].kind = "image"
    BY <1>5 DEF Kind
  <2>2. NamesMap(vals)
    BY <1>2, <2>1 DEF OK, Shape, ObjsOK, ObjOK
  <2>3. \A n \in DOMAIN vals : ValueOK(s, vals[n])
    <3>1. \A n \in DOMAIN vals : Holder(s, image, n) /\ Holds(s, image, n) = vals[n]
      BY <1>5, <2>1 DEF Holder, Holds
    <3>2. QED
      BY <3>1 DEF Sound, Owned
  <2>4. \A v : ValueOK(s, v) => ValueOK(f, v) /\ Content(f, v) = Content(s, v)
    <3>1. Keeps(s, f)
      BY <1>1 DEF Adds
    <3>2. QED
      BY <1>2, <3>1, ContentKept
  <2>5. t = FrameRestore(f, vals)
    BY <1>5 DEF Framed
  <2> HIDE DEF f, vals
  <2>6. \A n \in DOMAIN vals : ValueOK(f, vals[n])
    BY <2>3, <2>4
  <2>7. /\ Adds(f, t)
        /\ \A n \in DOMAIN vals : Shown(t, Len(f.frames), n, Content(f, vals[n]))
    BY <1>1, <2>2, <2>5, <2>6, FrameRestoreAdds
  <2>8. Adds(s, t)
    BY <1>1, <2>7, AddsFacts
  <2>9. \A n \in DOMAIN vals : Shown(t, Len(s.frames) + 1, n, Content(s, vals[n]))
    BY <1>3, <2>3, <2>4, <2>7
  <2>10. Len(s.frames) + 1 <= Len(t.frames)
    BY <1>3, <2>7 DEF Adds, Begins
  <2>11. QED
    BY <2>8, <2>9, <2>10 DEF vals
<1>6. QED
  BY <1>4, <1>5

(* What is added keeps the order of entries and what is reached. *)
LEMMA AddsLonger ==
    ASSUME NEW s, Sound(s), NEW t, Adds(s, t)
    PROVE  /\ Sound(t) /\ Len(s.frames) \in Nat /\ Len(t.frames) \in Nat
           /\ Len(s.frames) <= Len(t.frames)
           /\ \A b \in Nat : \A c : Reached(s.frames, b, c) => Reached(t.frames, b, c)
<1>1. Sound(t) /\ FramesOK(s.frames) /\ FramesOK(t.frames) /\ Begins(s.frames, t.frames)
  BY DEF Adds, Sound, OK, Shape
<1>2. Len(s.frames) \in Nat /\ Len(t.frames) \in Nat /\ Len(s.frames) <= Len(t.frames)
  BY <1>1 DEF FramesOK, Begins
<1>3. \A b \in Nat : \A c : Reached(s.frames, b, c) => Reached(t.frames, b, c)
  BY <1>1, ReachedFacts
<1>4. QED
  BY <1>1, <1>2, <1>3

(* To add twice is to add. *)
LEMMA AddsTwice ==
    ASSUME NEW s, Sound(s), NEW t, Adds(s, t), NEW u, Adds(t, u)
    PROVE  Adds(s, u)
  BY AddsFacts

(* The parts of a procedure that is entered, one after the other. *)
LEMMA EnterParts ==
    ASSUME ClassFree, NEW s, Sound(s), NEW p \in DOMAIN Code, NEW arg,
           Takes(p) => Reached(s.frames, 0, arg),
           NEW b \in Nat, NEW f, Adds(s, f), b <= Len(f.frames),
           NEW start, start = <<f, Empty>>, NEW acc, acc = Variables(start, p),
           NEW t, t = Parameter(acc, p, arg)[1]
    PROVE  /\ Adds(s, t)
           /\ \A n, x : Shown(f, b, n, x) /\ n # Code[p].param => Shown(t, b, n, x)
<1>1. PICK u : u = acc[1]
  OBVIOUS
<1>2. Sound(f)
  BY AddsLonger
<1>3. Adds(f, u) /\ \A n, x : Shown(f, b, n, x) => Shown(u, b, n, x)
  BY <1>1, <1>2, VariablesAdds
<1>4. Adds(s, u)
  BY <1>3, AddsTwice
<1>5. Sound(u) /\ (Takes(p) => Reached(u.frames, 0, arg))
  BY <1>4, AddsLonger
<1>6. b <= Len(u.frames)
  <2>1. Len(f.frames) \in Nat /\ Len(u.frames) \in Nat /\ Len(f.frames) <= Len(u.frames)
    BY <1>2, <1>3, AddsLonger
  <2>2. QED
    BY <2>1
<1>7. Adds(u, t) /\ \A n, x : Shown(u, b, n, x) /\ n # Code[p].param => Shown(t, b, n, x)
  BY <1>1, <1>5, <1>6, ParameterAdds
<1>8. Adds(s, t)
  BY <1>4, <1>7, AddsTwice
<1>9. QED
  BY <1>3, <1>7, <1>8

(* A procedure that is entered: its frame has what its image held, but for *)
(* the parameter.                                                          *)
LEMMA EnterAdds ==
    ASSUME ClassFree, NEW s, Sound(s), NEW p \in DOMAIN Code, NEW image,
           image # Om => Kind(s, image) = "image", NEW arg,
           Takes(p) => Reached(s.frames, 0, arg),
           NEW t, t = Enter(s, p, image, arg)[1]
    PROVE  /\ Adds(s, t)
           /\ image # Om => \A n \in DOMAIN s.objs[image].vals \ {Code[p].param} :
                 Shown(t, Len(s.frames) + 1, n, Content(s, s.objs[image].vals[n]))
<1>1. PICK f : f = Framed(s, image)
  OBVIOUS
<1>2. PICK start : start = <<f, Empty>>
  OBVIOUS
<1>3. PICK acc : acc = Variables(start, p)
  OBVIOUS
<1>4. t = Parameter(acc, p, arg)[1]
  BY <1>1, <1>2, <1>3 DEF Enter
<1>5. /\ Adds(s, f) /\ Len(s.frames) + 1 <= Len(f.frames)
      /\ image # Om => \A n \in DOMAIN s.objs[image].vals :
            Shown(f, Len(s.frames) + 1, n, Content(s, s.objs[image].vals[n]))
  BY <1>1, FramedAdds
<1>6. Len(s.frames) + 1 \in Nat
  <2>1. Len(s.frames) \in Nat
    BY <1>5, AddsLonger
  <2>2. QED
    BY <2>1
<1>7. /\ Adds(s, t)
      /\ \A n, x : Shown(f, Len(s.frames) + 1, n, x) /\ n # Code[p].param
                     => Shown(t, Len(s.frames) + 1, n, x)
  BY <1>2, <1>3, <1>4, <1>5, <1>6, EnterParts
<1>8. QED
  BY <1>5, <1>7

-----------------------------------------------------------------------------
(* Statements: what an object that is made, and an assignment, do to the   *)
(* store.                                                                  *)
LEMMA AllocSound ==
    ASSUME NEW s, Sound(s), NEW obj, ObjOK(obj, Kinds), obj.kind \in {"list", "proc"},
           NEW t, t = Alloc(s, obj)[1], NEW r, r = Alloc(s, obj)[2]
    PROVE  /\ Sound(t) /\ Loose(t, r) /\ Keeps(s, t) /\ Procs(t) \subseteq Procs(s) \union {obj}
           /\ t.frames = s.frames /\ t.cells = s.cells /\ r \in Slots /\ t.objs[r] = obj
<1>1. OK(s) /\ Owned(s) /\ Linked(s)
  BY DEF Sound
<1>2. Copied(s, t, r) /\ r \in Slots /\ t.objs[r] = obj
  BY <1>1, AllocCopied
<1>3. Procs(t) \subseteq Procs(s) \union {obj}
  BY <1>1, AllocProcs
<1>4. /\ OK(t) /\ Owned(t) /\ Loose(t, r) /\ Keeps(s, t)
      /\ t.frames = s.frames /\ t.cells = s.cells
  BY <1>2 DEF Copied
<1>5. Linked(t)
  BY <1>1, <1>4, LinkedAlike
<1>6. QED
  BY <1>2, <1>3, <1>4, <1>5 DEF Sound

(* Objects that stay as they are bring no procedures. *)
LEMMA ProcsFewer ==
    ASSUME NEW s, NEW t, DOMAIN t.objs \subseteq DOMAIN s.objs,
           \A r \in DOMAIN t.objs : t.objs[r] = s.objs[r]
    PROVE  Procs(t) \subseteq Procs(s)
  BY DEF Procs

(* An assignment of a value nothing holds yet. *)
LEMMA PutSound ==
    ASSUME ClassFree, NEW s, Sound(s), NEW c \in DOMAIN s.cells, NEW v, Loose(s, v),
           NEW t, t = Put(s, c, v)
    PROVE  Sound(t) /\ Frozen(s, t) /\ Procs(t) \subseteq Procs(s) /\ t.frames = s.frames
<1>1. OK(s) /\ Owned(s) /\ Linked(s)
  BY DEF Sound
<1>2. /\ OK(t) /\ Owned(t) /\ Frozen(s, t) /\ t.frames = s.frames /\ DOMAIN t.cells = DOMAIN s.cells
      /\ DOMAIN t.objs = DOMAIN s.objs \ {s.cells[c]}
      /\ \A r \in DOMAIN s.objs \ {s.cells[c]} : t.objs[r] = s.objs[r]
  BY <1>1, PutOwned
<1>3. Linked(t)
  BY <1>1, <1>2, LinkedAlike
<1>4. DOMAIN t.objs \subseteq DOMAIN s.objs /\ \A r \in DOMAIN t.objs : t.objs[r] = s.objs[r]
  BY <1>2
<1>5. Procs(t) \subseteq Procs(s)
  BY <1>4, ProcsFewer
<1>6. QED
  BY <1>2, <1>3, <1>5 DEF Sound

-----------------------------------------------------------------------------
(* The invariant.  Only calls without registers of their own run; the slot *)
(* of a register is one of an entry above the frames of the caller.        *)
AllCalls(A) == \A i \in 1..Len(A) : A[i].how = "call" /\ A[i].temps = {}

HeldDefs(A, f) ==
    \A i \in 1..Len(A) : \A n \in DOMAIN A[i].defs :
        Reached(FramesOf(A, f, i), Len(A[i].base), A[i].defs[n])

(* The images of closures are recorded in m, and hold what m says.         *)
Captured(s, m) ==
    \A r \in DOMAIN m :
        /\ r \in DOMAIN s.objs /\ s.objs[r].kind = "image" /\ DOMAIN m[r] = DOMAIN s.objs[r].vals
        /\ \A n \in DOMAIN m[r] : Content(s, s.objs[r].vals[n]) = m[r][n]

Recorded(s, m) == \A o \in Procs(s) : o.image # Om => o.image \in DOMAIN m

OwnersInv ==
    /\ ScopeInv /\ Sound(store) /\ AllCalls(acts) /\ HeldDefs(acts, store.frames)
    /\ Captured(store, seen) /\ Recorded(store, seen)

(* What an image holds is a value. *)
LEMMA ImageValues ==
    ASSUME NEW s, Sound(s), NEW r \in DOMAIN s.objs, s.objs[r].kind = "image"
    PROVE  r # Om /\ \A n \in DOMAIN s.objs[r].vals : ValueOK(s, s.objs[r].vals[n])
<1>1. OK(s) /\ Owned(s)
  BY DEF Sound
<1>2. r # Om
  BY <1>1, OmNoObject
<1>3. \A n \in DOMAIN s.objs[r].vals : Holder(s, r, n) /\ Holds(s, r, n) = s.objs[r].vals[n]
  BY <1>2 DEF Holder, Holds
<1>4. QED
  BY <1>1, <1>2, <1>3 DEF Owned

(* Images that are kept hold what they held. *)
LEMMA CapturedKept ==
    ASSUME ClassFree, NEW s, Sound(s), NEW t, OK(t), Frozen(s, t), NEW m, Captured(s, m)
    PROVE  Captured(t, m)
<1>1. SUFFICES ASSUME NEW r \in DOMAIN m
      PROVE  /\ r \in DOMAIN t.objs /\ t.objs[r].kind = "image" /\ DOMAIN m[r] = DOMAIN t.objs[r].vals
             /\ \A n \in DOMAIN m[r] : Content(t, t.objs[r].vals[n]) = m[r][n]
  BY DEF Captured
<1> DEFINE vals == s.objs[r].vals
<1>2. /\ r \in DOMAIN s.objs /\ s.objs[r].kind = "image" /\ DOMAIN m[r] = DOMAIN vals
      /\ \A n \in DOMAIN m[r] : Content(s, vals[n]) = m[r][n]
  BY DEF Captured
<1>3. /\ r \in DOMAIN t.objs /\ t.objs[r] = s.objs[r]
      /\ \A n \in DOMAIN vals : vals[n] # Om =>
            vals[n] \in DOMAIN t.objs /\ t.objs[vals[n]] = s.objs[vals[n]]
  BY <1>2 DEF Frozen
<1>4. \A n \in DOMAIN vals : ValueOK(s, vals[n])
  BY <1>2, ImageValues
<1>5. OK(s)
  BY DEF Sound
<1>6. ASSUME NEW n \in DOMAIN vals PROVE Content(t, vals[n]) = Content(s, vals[n])
  <2>1. ValueOK(s, vals[n])
    BY <1>4
  <2> DEFINE v == vals[n]
  <2>2. v # Om => v \in DOMAIN t.objs /\ t.objs[v] = s.objs[v]
    BY <1>3
  <2> HIDE DEF v
  <2>3. ValueOK(s, v)
    BY <2>1 DEF v
  <2>4. ValueOK(t, v)
    BY <2>2, <2>3 DEF ValueOK
  <2>5. Content(t, v) = Content(s, v)
    BY <1>5, <2>2, <2>3, <2>4, ContentCopied
  <2>6. QED
    BY <2>5 DEF v
<1>7. QED
  BY <1>2, <1>3, <1>6

(* The frames of every running procedure are at the bottom of the stack. *)
LEMMA FramesOfBegins ==
    ASSUME NEW A, NEW f, NEW l, FramesInv(A, f, l), NEW i \in 1..Len(A)
    PROVE  /\ Begins(FramesOf(A, f, i), f) /\ FramesOK(FramesOf(A, f, i)) /\ FramesOK(f)
           /\ Len(A[i].base) \in Nat
<1> DEFINE n == Len(A)
<1>1. A \in Seq(Acts) /\ n \in Nat \ {0} /\ FramesOK(f) /\ Len(f) \in Nat
  BY DEF FramesInv, ActsOK, FramesOK
<1>2. FramesOK(FramesOf(A, f, i)) /\ Len(A[i].base) \in Nat
  BY <1>1, FramesOfOK, ActFacts
<1>3. CASE i = n
  BY <1>1, <1>2, <1>3 DEF FramesOf, Begins
<1>4. CASE i # n
  <2>1. i + 1 \in 1..n /\ n \in 1..n
    <3> HIDE DEF n
    <3>1. i \in 1..n
      BY DEF n
    <3>2. QED
      BY <1>1, <1>4, <3>1
  <2>2. QED
    BY <1>1, <1>2, <1>4, <2>1 DEF FramesInv, Nested, FramesOf
<1>5. QED
  BY <1>3, <1>4

(* The slots in registers are there. *)
LEMMA DefsLive ==
    ASSUME OwnersInv, NEW i \in 1..Len(acts), NEW n \in DOMAIN acts[i].defs
    PROVE  Reached(store.frames, 0, acts[i].defs[n]) /\ acts[i].defs[n] \in DOMAIN store.cells
<1> DEFINE f == store.frames
           g == FramesOf(acts, f, i)
           b == Len(acts[i].base)
           c == acts[i].defs[n]
<1>1. FramesInv(acts, f, left)
  BY DEF OwnersInv, ScopeInv
<1>2. Begins(g, f) /\ FramesOK(g) /\ FramesOK(f) /\ b \in Nat
  BY <1>1, FramesOfBegins
<1>3. Reached(g, b, c)
  BY DEF OwnersInv, HeldDefs
<1> HIDE DEF f, g, b, c
<1>4. Reached(f, b, c)
  BY <1>2, <1>3, ReachedFacts
<1>5. Reached(f, 0, c)
  BY <1>2, <1>4, ReachedFacts
<1>6. PICK p \in (0 + 1)..Len(f) : f[p] # Boundary /\ f[p].cell = c
  BY <1>5 DEF Reached
<1>7. p \in 1..Len(f)
  BY <1>6
<1>8. Sound(store)
  BY DEF OwnersInv
<1>9. c \in DOMAIN store.cells
  BY <1>6, <1>7, <1>8, ReachedLive DEF f
<1>10. QED
  BY <1>5, <1>9 DEF f, c

(* The running procedure is one of those that run. *)
LEMMA TopLive ==
    ASSUME OwnersInv
    PROVE  /\ Len(acts) \in 1..Len(acts) /\ Top.how = "call" /\ Top.temps = {}
           /\ \A n \in DOMAIN Top.defs :
                 Reached(store.frames, 0, Top.defs[n]) /\ Top.defs[n] \in DOMAIN store.cells
<1> DEFINE k == Len(acts)
<1>1. k \in Nat \ {0}
  BY ScopeFacts DEF OwnersInv
<1>2. k \in 1..k
  <2> HIDE DEF k
  <2>1. QED
    BY <1>1
<1>3. Top = acts[k]
  BY DEF Top
<1>4. \A n \in DOMAIN acts[k].defs :
         Reached(store.frames, 0, acts[k].defs[n]) /\ acts[k].defs[n] \in DOMAIN store.cells
  BY <1>2, DefsLive
<1>5. acts[k].how = "call" /\ acts[k].temps = {}
  BY <1>2 DEF OwnersInv, AllCalls
<1>6. QED
  BY <1>2, <1>3, <1>4, <1>5

(* Registers keep their slots when the stack grows. *)
LEMMA HeldLonger ==
    ASSUME NEW A, NEW f, NEW l, FramesInv(A, f, l), HeldDefs(A, f), NEW g, FramesOK(g), Begins(f, g)
    PROVE  HeldDefs(A, g)
<1>1. SUFFICES ASSUME NEW i \in 1..Len(A), NEW n \in DOMAIN A[i].defs
      PROVE  Reached(FramesOf(A, g, i), Len(A[i].base), A[i].defs[n])
  BY DEF HeldDefs
<1>2. /\ Reached(FramesOf(A, f, i), Len(A[i].base), A[i].defs[n])
      /\ FramesOK(f) /\ Len(A[i].base) \in Nat
  BY FramesOfBegins DEF HeldDefs
<1>3. CASE i = Len(A)
  <2>1. Reached(f, Len(A[i].base), A[i].defs[n])
    BY <1>2, <1>3 DEF FramesOf
  <2>2. Reached(g, Len(A[i].base), A[i].defs[n])
    BY <1>2, <2>1, ReachedFacts
  <2>3. QED
    BY <1>3, <2>2 DEF FramesOf
<1>4. CASE i # Len(A)
  BY <1>2, <1>4 DEF FramesOf
<1>5. QED
  BY <1>3, <1>4

(* A statement of the running procedure keeps what it owns in order. *)
LEMMA StatementOwned ==
    ASSUME ClassFree, OwnersInv, ScopeInv', acts' = acts, Sound(store'),
           Begins(store.frames, store'.frames), Captured(store', seen'), Recorded(store', seen')
    PROVE  OwnersInv'
<1>1. FramesInv(acts, store.frames, left) /\ HeldDefs(acts, store.frames) /\ AllCalls(acts)
  BY DEF OwnersInv, ScopeInv
<1>2. FramesOK(store'.frames)
  BY DEF Sound, OK, Shape
<1>3. HeldDefs(acts, store'.frames)
  BY <1>1, <1>2, HeldLonger
<1>4. AllCalls(acts') /\ HeldDefs(acts', store'.frames)
  BY <1>1, <1>3
<1>5. QED
  BY <1>4 DEF OwnersInv

(* Nothing new is recorded. *)
LEMMA StatementRecorded ==
    ASSUME ClassFree, OwnersInv, ScopeInv', acts' = acts, seen' = seen, Sound(store'),
           Begins(store.frames, store'.frames), Frozen(store, store'),
           Procs(store') \subseteq Procs(store)
    PROVE  OwnersInv'
<1>1. Sound(store) /\ Captured(store, seen) /\ Recorded(store, seen)
  BY DEF OwnersInv
<1>2. OK(store')
  BY DEF Sound
<1>3. Captured(store', seen)
  BY <1>1, <1>2, CapturedKept
<1>4. Recorded(store', seen)
  BY <1>1 DEF Recorded
<1>5. Captured(store', seen') /\ Recorded(store', seen')
  BY <1>3, <1>4
<1>6. QED
  BY <1>5, StatementOwned

(* What the statement adds to the stack first. *)
LEMMA ResolveTop ==
    ASSUME ClassFree, OwnersInv, NEW n \in STRING,
           NEW t, t = Resolve(store, n)[1], NEW c, c = Resolve(store, n)[2]
    PROVE  /\ Sound(t) /\ Begins(store.frames, t.frames) /\ Keeps(store, t) /\ Adds(store, t)
           /\ Frozen(store, t) /\ Procs(t) \subseteq Procs(store)
           /\ Reached(t.frames, 0, c) /\ c \in DOMAIN t.cells
<1>1. Sound(store) /\ OK(store) /\ Owned(store)
  BY DEF OwnersInv, Sound
<1>2. n \in DOMAIN Top.defs => Reached(store.frames, 0, Top.defs[n])
  BY TopLive
<1>3. Adds(store, t) /\ Reached(t.frames, 0, c) /\ c \in DOMAIN t.cells
  BY <1>1, <1>2, ResolveAdds
<1>4. Sound(t) /\ Begins(store.frames, t.frames) /\ Keeps(store, t) /\ Procs(t) \subseteq Procs(store)
  BY <1>3 DEF Adds
<1>5. Frozen(store, t)
  BY <1>1, <1>4, FrozenFacts
<1>6. QED
  BY <1>3, <1>4, <1>5

(* Assign keeps the invariant. *)
LEMMA AssignOwned ==
    ASSUME ClassFree, OwnersInv, NEW n \in Data, Assign(n)
    PROVE  OwnersInv'
<1>1. n \in STRING
  BY ProgramNames
<1>2. PICK t, c : t = Resolve(store, n)[1] /\ c = Resolve(store, n)[2]
  OBVIOUS
<1>3. PICK u, r : u = Alloc(t, NewList)[1] /\ r = Alloc(t, NewList)[2]
  OBVIOUS
<1>4. store' = Put(u, c, r) /\ acts' = acts /\ seen' = seen
  BY <1>2, <1>3 DEF Assign
<1>5. /\ Sound(t) /\ Begins(store.frames, t.frames) /\ Frozen(store, t)
      /\ Procs(t) \subseteq Procs(store) /\ c \in DOMAIN t.cells
  BY <1>1, <1>2, ResolveTop
<1>6. ObjOK(NewList, Kinds) /\ NewList.kind = "list"
  BY ListsOK DEF NewList, List
<1>7. /\ Sound(u) /\ Loose(u, r) /\ Keeps(t, u) /\ Procs(u) \subseteq Procs(t) \union {NewList}
      /\ u.frames = t.frames /\ u.cells = t.cells
  BY <1>3, <1>5, <1>6, AllocSound
<1>8. Procs(u) \subseteq Procs(t)
  BY <1>6, <1>7 DEF Procs
<1>9. Frozen(t, u)
  BY <1>5, <1>7, FrozenFacts DEF Sound
<1>10. /\ Sound(store') /\ Frozen(u, store') /\ Procs(store') \subseteq Procs(u)
       /\ store'.frames = u.frames
  BY <1>4, <1>5, <1>7, PutSound
<1>11. Frozen(store, store')
  <2>1. OK(store) /\ Owned(store)
    BY DEF OwnersInv, Sound
  <2>2. Frozen(store, u)
    BY <1>5, <1>9, <2>1, FrozenFacts
  <2>3. QED
    BY <1>10, <2>1, <2>2, FrozenFacts
<1>12. Procs(store') \subseteq Procs(store)
  BY <1>5, <1>8, <1>10
<1>13. Begins(store.frames, store'.frames)
  BY <1>5, <1>7, <1>10
<1>14. ScopeInv'
  BY AssignStep DEF OwnersInv
<1>15. QED
  BY <1>4, <1>10, <1>11, <1>12, <1>13, <1>14, StatementRecorded

(* A list that a slot holds changes in place. *)
LEMMA ChangedSound ==
    ASSUME NEW s, Sound(s), NEW c \in DOMAIN s.cells, s.cells[c] \in DOMAIN s.objs,
           s.objs[s.cells[c]].kind = "list", NEW v, NEW t, OK(t),
           t.frames = s.frames, t.cells = s.cells, DOMAIN t.objs = DOMAIN s.objs,
           t.objs[s.cells[c]] = List(v),
           \A x \in DOMAIN s.objs : x # s.cells[c] => t.objs[x] = s.objs[x]
    PROVE  Sound(t) /\ Frozen(s, t) /\ Procs(t) \subseteq Procs(s)
<1> DEFINE r == s.cells[c]
<1>1. OK(s) /\ Owned(s) /\ Linked(s)
  BY DEF Sound
<1>2. Holder(s, Om, c) /\ Holds(s, Om, c) = r /\ r # Om
  BY <1>1, OmNoObject DEF Holder, Holds
<1>3. t.objs[r].kind = "list"
  BY DEF List
<1>4. \A q, n : (Holder(t, q, n) <=> Holder(s, q, n))
                 /\ (Holder(s, q, n) => Holds(t, q, n) = Holds(s, q, n))
  <2>1. SUFFICES ASSUME NEW q, NEW n
                 PROVE  /\ Holder(t, q, n) <=> Holder(s, q, n)
                        /\ Holder(s, q, n) => Holds(t, q, n) = Holds(s, q, n)
    OBVIOUS
  <2>2. CASE q = Om
    BY <2>2 DEF Holder, Holds
  <2>3. CASE q = r
    BY <1>2, <1>3, <2>3 DEF Holder, Holds
  <2>4. CASE q # Om /\ q # r
    BY <2>4 DEF Holder, Holds
  <2>5. QED
    BY <2>2, <2>3, <2>4
<1>5. \A x : ValueOK(s, x) => ValueOK(t, x)
  <2>1. SUFFICES ASSUME NEW x, ValueOK(s, x) PROVE ValueOK(t, x)
    OBVIOUS
  <2>2. CASE x = r
    BY <1>3, <2>1, <2>2 DEF ValueOK
  <2>3. CASE x # r
    BY <2>1, <2>3 DEF ValueOK
  <2>4. QED
    BY <2>2, <2>3
<1>6. Owned(t)
  BY <1>1, <1>4, <1>5 DEF Owned
<1>7. Linked(t)
  BY <1>1, LinkedAlike
<1>8. Frozen(s, t)
  <2>1. SUFFICES ASSUME NEW q \in DOMAIN s.objs, s.objs[q].kind = "image"
        PROVE  /\ q \in DOMAIN t.objs /\ t.objs[q] = s.objs[q]
               /\ \A n \in DOMAIN s.objs[q].vals : s.objs[q].vals[n] # Om =>
                     /\ s.objs[q].vals[n] \in DOMAIN t.objs
                     /\ t.objs[s.objs[q].vals[n]] = s.objs[s.objs[q].vals[n]]
    BY DEF Frozen
  <2>2. q # Om /\ q # r
    BY <1>1, <2>1, OmNoObject
  <2>3. ASSUME NEW n \in DOMAIN s.objs[q].vals, s.objs[q].vals[n] # Om
        PROVE  /\ s.objs[q].vals[n] \in DOMAIN t.objs
               /\ t.objs[s.objs[q].vals[n]] = s.objs[s.objs[q].vals[n]]
    <3> DEFINE v2 == s.objs[q].vals[n]
    <3>1. Holder(s, q, n) /\ Holds(s, q, n) = v2
      BY <2>1, <2>2 DEF Holder, Holds
    <3>2. v2 # r
      <4> HIDE DEF r, v2
      <4>1. QED
        BY <1>1, <1>2, <2>2, <3>1 DEF Owned
    <3>3. ValueOK(s, v2)
      BY <1>1, <3>1 DEF Owned
    <3>4. v2 \in DOMAIN s.objs
      BY <2>3, <3>3 DEF ValueOK
    <3>5. QED
      BY <3>2, <3>4
  <2>4. QED
    BY <2>1, <2>2, <2>3
<1>9. Procs(t) \subseteq Procs(s)
  <2>1. SUFFICES ASSUME NEW x \in DOMAIN t.objs, t.objs[x].kind = "proc" PROVE t.objs[x] \in Procs(s)
    BY DEF Procs
  <2>2. x # r
    BY <1>3, <2>1
  <2>3. QED
    BY <2>1, <2>2 DEF Procs
<1>10. QED
  BY <1>6, <1>7, <1>8, <1>9 DEF Sound

(* Modify keeps the invariant. *)
LEMMA ModifyOwned ==
    ASSUME ClassFree, OwnersInv, NEW n \in Data, Modify(n)
    PROVE  OwnersInv'
<1>1. n \in STRING
  BY ProgramNames
<1>2. PICK t, c : t = Resolve(store, n)[1] /\ c = Resolve(store, n)[2]
  OBVIOUS
<1>3. PICK r : r = t.cells[c]
  OBVIOUS
<1>4. IsKind(t, c, "list") /\ acts' = acts /\ seen' = seen
  BY <1>2 DEF Modify
<1>5. PICK v : store' = [t EXCEPT !.objs[r] = List(v)]
  BY <1>2, <1>3 DEF Modify
<1>6. /\ Sound(t) /\ Begins(store.frames, t.frames) /\ Frozen(store, t)
      /\ Procs(t) \subseteq Procs(store) /\ c \in DOMAIN t.cells
  BY <1>1, <1>2, ResolveTop
<1>7. r \in DOMAIN t.objs /\ t.objs[r].kind = "list"
  BY <1>3, <1>4 DEF IsKind, Kind
<1>8. PICK objs : objs = [t.objs EXCEPT ![r] = List(v)]
  OBVIOUS
<1>9. /\ DOMAIN objs = DOMAIN t.objs /\ objs[r] = List(v)
      /\ \A x \in DOMAIN t.objs : x # r => objs[x] = t.objs[x]
  BY <1>7, <1>8
<1>10. store'.frames = t.frames /\ store'.cells = t.cells /\ store'.objs = objs
  <2>1. IsStore(t)
    BY <1>6 DEF Sound, OK, Shape
  <2>2. store' = [t EXCEPT !.objs = objs]
    BY <1>5, <1>8
  <2>3. Fields(store', t.frames, t.cells, objs)
    BY <2>1, <2>2, Updates
  <2>4. QED
    BY <2>3 DEF Fields
<1>11. ScopeInv'
  BY ModifyStep DEF OwnersInv
<1>12. OK(store')
  BY <1>11 DEF ScopeInv
<1>13. Sound(store') /\ Frozen(t, store') /\ Procs(store') \subseteq Procs(t)
  BY <1>3, <1>6, <1>7, <1>9, <1>10, <1>12, ChangedSound
<1>14. Frozen(store, store')
  <2>1. OK(store) /\ Owned(store)
    BY DEF OwnersInv, Sound
  <2>2. QED
    BY <1>6, <1>13, <2>1, FrozenFacts
<1>15. Procs(store') \subseteq Procs(store)
  BY <1>6, <1>13
<1>16. Begins(store.frames, store'.frames)
  BY <1>6, <1>10
<1>17. QED
  BY <1>4, <1>11, <1>13, <1>14, <1>15, <1>16, StatementRecorded

(* The names that are visible, and what an image takes for them. *)
LEMMA VisibleFacts ==
    ASSUME NEW s, Sound(s), NEW Q, \A i : i \in Q <=> i \in Entries(s) /\ Accessible(s, i)
    PROVE  /\ Visible(s) = {s.frames[i].name : i \in Q}
           /\ \A n \in Visible(s) :
                 /\ Get(s, n) \in DOMAIN s.cells /\ HeldBy(s, Q, n) = s.cells[Get(s, n)]
                 /\ ValueOK(s, HeldBy(s, Q, n))
<1>1. ASSUME NEW n
      PROVE  {i \in DOMAIN s.frames : s.frames[i] # Boundary /\ s.frames[i].name = n
                                        /\ Accessible(s, i)} = {i \in Q : s.frames[i].name = n}
  BY DEF Entries
<1>2. ASSUME NEW n
      PROVE  GetPos(s, n) = IF {i \in Q : s.frames[i].name = n} = {} THEN 0
                            ELSE HeldAt(s, Q, n)
  BY <1>1 DEF GetPos, Innermost, HeldAt
<1>3. ASSUME NEW i \in Q
      PROVE  LET n == s.frames[i].name
             IN  Get(s, n) # NoCell /\ HeldBy(s, Q, n) = s.cells[Get(s, n)] /\ ValueOK(s, HeldBy(s, Q, n))
  <2> DEFINE n == s.frames[i].name
             p == HeldAt(s, Q, n)
  <2>1. Q \subseteq Entries(s)
    OBVIOUS
  <2>2. /\ ValueOK(s, HeldBy(s, Q, n))
        /\ p \in Q /\ s.frames[p].name = n /\ s.frames[p].cell \in DOMAIN s.cells
        /\ HeldBy(s, Q, n) = s.cells[s.frames[p].cell]
    <3>1. n = s.frames[i].name
      OBVIOUS
    <3> HIDE DEF n
    <3>2. QED
      BY <2>1, <3>1, HeldByOK
  <2>3. GetPos(s, n) = p
    BY <1>2, <2>2
  <2>4. p # 0
    <3>1. DOMAIN s.frames = 1..Len(s.frames)
      BY DEF Sound, OK, Shape, FramesOK
    <3> HIDE DEF p
    <3>2. QED
      BY <2>2, <3>1 DEF Entries
  <2> HIDE DEF n, p
  <2>6. Get(s, n) = s.frames[p].cell
    BY <2>3, <2>4 DEF Get, CellOf
  <2>7. Get(s, n) # NoCell
    <3>1. NoCell \notin DOMAIN s.cells
      BY OmNoObject DEF Sound
    <3>2. QED
      BY <2>2, <2>6, <3>1
  <2>8. QED
    BY <2>2, <2>6, <2>7 DEF n
<1>4. \A n : Get(s, n) # NoCell => \E i \in Q : s.frames[i].name = n
  <2>1. SUFFICES ASSUME NEW n, Get(s, n) # NoCell PROVE {i \in Q : s.frames[i].name = n} # {}
    OBVIOUS
  <2>2. GetPos(s, n) # 0
    BY <2>1 DEF Get, CellOf
  <2>3. QED
    BY <1>2, <2>2
<1>5. Visible(s) = {s.frames[i].name : i \in Q}
  BY <1>3, <1>4 DEF Visible
<1>6. \A n : Get(s, n) # NoCell => Get(s, n) \in DOMAIN s.cells
  BY GetReached
<1>7. QED
  BY <1>3, <1>5, <1>6

(* What is recorded of a closure: what the names held where it is made. *)
Seen(s) == [m \in Visible(s) |-> Content(s, s.cells[Get(s, m)])]

(* The image of a closure goes to the heap, and what it holds is recorded. *)
LEMMA ImageCaptured ==
    ASSUME ClassFree, NEW s, Sound(s), NEW m, Captured(s, m), NEW acc, acc = CopyReachable(s),
           NEW t, t = Alloc(acc[1], Image(acc[2]))[1], NEW r, r = Alloc(acc[1], Image(acc[2]))[2]
    PROVE  /\ Adds(s, t) /\ t.frames = s.frames /\ t.cells = s.cells
           /\ r \in Slots /\ Captured(t, With(m, r, Seen(s)))
<1>1. PICK Q : Q = {i \in Entries(s) : Accessible(s, i)}
  OBVIOUS
<1>2. Q \subseteq Entries(s) /\ \A i : i \in Q <=> i \in Entries(s) /\ Accessible(s, i)
  BY <1>1
<1>3. acc = ImageOf(s, Q)
  BY <1>1 DEF CopyReachable
<1>4. PICK D : D = {s.frames[i].name : i \in Q}
  OBVIOUS
<1>5. CopiesOf(s, Q, D, acc)
  BY <1>2, <1>3, <1>4, ImageCopies
<1>6. /\ Adds(s, t) /\ t.frames = s.frames /\ t.cells = s.cells
      /\ r \in Slots /\ r \notin DOMAIN s.objs /\ r \in DOMAIN t.objs /\ t.objs[r] = Image(acc[2])
      /\ \A n \in D : /\ HeldBy(s, Q, n) = Om => acc[2][n] = Om
                      /\ HeldBy(s, Q, n) # Om =>
                            /\ acc[2][n] # Om /\ acc[2][n] \in DOMAIN t.objs
                            /\ t.objs[acc[2][n]] = s.objs[HeldBy(s, Q, n)]
  BY <1>5, ImageAdds
<1>7. /\ Visible(s) = D
      /\ \A n \in D : HeldBy(s, Q, n) = s.cells[Get(s, n)] /\ ValueOK(s, HeldBy(s, Q, n))
  <2>1. Visible(s) = {s.frames[i].name : i \in Q}
    BY <1>2, VisibleFacts
  <2>2. \A n \in Visible(s) : HeldBy(s, Q, n) = s.cells[Get(s, n)] /\ ValueOK(s, HeldBy(s, Q, n))
    BY <1>2, VisibleFacts
  <2>3. QED
    BY <1>4, <2>1, <2>2
<1>8. DOMAIN acc[2] = D
  BY <1>5 DEF CopiesOf
<1>9. t.objs[r].kind = "image" /\ t.objs[r].vals = acc[2]
  BY <1>6 DEF Image
<1>10. OK(s) /\ Owned(s) /\ Sound(t) /\ OK(t) /\ Keeps(s, t)
  BY <1>6 DEF Adds, Sound
<1>11. Captured(t, m)
  <2>1. Frozen(s, t)
    BY <1>10, FrozenFacts
  <2>2. QED
    BY <1>10, <2>1, CapturedKept
<1>12. \A n \in D : Content(t, acc[2][n]) = Seen(s)[n]
  <2>1. SUFFICES ASSUME NEW n \in D PROVE Content(t, acc[2][n]) = Content(s, s.cells[Get(s, n)])
    BY <1>7 DEF Seen
  <2>2. PICK h, v : h = HeldBy(s, Q, n) /\ v = acc[2][n]
    OBVIOUS
  <2>3. ValueOK(s, h) /\ h = s.cells[Get(s, n)]
    BY <1>7, <2>2
  <2>4. ValueOK(t, v)
    BY <1>6, <1>8, <1>9, <1>10, <2>2, ImageValues
  <2>5. (h = Om => v = Om) /\ (h # Om => v # Om /\ t.objs[v] = s.objs[h])
    BY <1>6, <2>2
  <2>6. Content(t, v) = Content(s, h)
    BY <1>10, <2>3, <2>4, <2>5, ContentCopied
  <2>7. QED
    BY <2>2, <2>3, <2>6
<1>13. DOMAIN Seen(s) = D
  BY <1>7 DEF Seen
<1>14. Captured(t, With(m, r, Seen(s)))
  <2>1. DOMAIN With(m, r, Seen(s)) = DOMAIN m \union {r}
    BY DEF With
  <2>2. With(m, r, Seen(s))[r] = Seen(s)
    BY DEF With
  <2>3. \A q \in DOMAIN m : q # r => With(m, r, Seen(s))[q] = m[q]
    BY DEF With
  <2>4. PICK k : k = With(m, r, Seen(s))
    OBVIOUS
  <2>5. SUFFICES ASSUME NEW q \in DOMAIN k
        PROVE  /\ q \in DOMAIN t.objs /\ t.objs[q].kind = "image" /\ DOMAIN k[q] = DOMAIN t.objs[q].vals
               /\ \A n \in DOMAIN k[q] : Content(t, t.objs[q].vals[n]) = k[q][n]
    BY <2>4 DEF Captured
  <2>6. CASE q = r
    <3>1. k[q] = Seen(s)
      BY <2>2, <2>4, <2>6
    <3>2. q \in DOMAIN t.objs /\ t.objs[q].kind = "image" /\ t.objs[q].vals = acc[2]
      BY <1>6, <1>9, <2>6
    <3>3. QED
      BY <1>8, <1>12, <1>13, <3>1, <3>2
  <2>7. CASE q # r
    <3>1. q \in DOMAIN m /\ k[q] = m[q]
      BY <2>1, <2>3, <2>4, <2>7
    <3>2. QED
      BY <1>11, <3>1 DEF Captured
  <2>8. QED
    BY <2>6, <2>7
<1>15. QED
  BY <1>6, <1>14

(* A procedure is made and assigned to a register: its image is recorded.  *)
LEMMA ProcedureOwned ==
    ASSUME ClassFree, OwnersInv, ScopeInv', acts' = acts, NEW c \in DOMAIN store.cells,
           NEW p \in DOMAIN Code, NEW r \in Nat, Plain => r = Om, NEW t,
           Adds(store, t), t.frames = store.frames, t.cells = store.cells,
           NEW u, u = Alloc(t, Procedure(p, r))[1], NEW v, v = Alloc(t, Procedure(p, r))[2],
           store' = Put(u, c, v), Captured(t, seen'), DOMAIN seen \subseteq DOMAIN seen',
           r # Om => r \in DOMAIN seen'
    PROVE  OwnersInv'
<1>1. PICK obj : obj = Procedure(p, r)
  OBVIOUS
<1>2. obj.kind = "proc" /\ obj.image = r /\ obj.proc = p
  BY <1>1 DEF Procedure
<1>3. ObjOK(obj, Kinds)
  <2>1. obj \in Kinds.procs
    BY <1>1 DEF Procedure, Kinds
  <2>2. QED
    BY <1>2, <2>1 DEF ObjOK
<1>4. Sound(t) /\ Procs(t) \subseteq Procs(store)
  BY DEF Adds
<1>5. /\ Sound(u) /\ Loose(u, v) /\ Keeps(t, u) /\ Procs(u) \subseteq Procs(t) \union {obj}
      /\ u.frames = t.frames /\ u.cells = t.cells
  BY <1>1, <1>2, <1>3, <1>4, AllocSound
<1>6. c \in DOMAIN u.cells
  BY <1>5
<1>7. /\ Sound(store') /\ Frozen(u, store') /\ Procs(store') \subseteq Procs(u)
      /\ store'.frames = u.frames
  BY <1>5, <1>6, PutSound
<1>8. Captured(u, seen')
  <2>1. Frozen(t, u) /\ OK(u)
    BY <1>4, <1>5, FrozenFacts DEF Sound
  <2>2. QED
    BY <1>4, <2>1, CapturedKept
<1>9. Captured(store', seen')
  <2>1. OK(store')
    BY <1>7 DEF Sound
  <2>2. QED
    BY <1>5, <1>7, <1>8, <2>1, CapturedKept
<1>10. Recorded(store', seen')
  <2>1. SUFFICES ASSUME NEW o \in Procs(store'), o.image # Om PROVE o.image \in DOMAIN seen'
    BY DEF Recorded
  <2>2. o \in Procs(store) \/ o = obj
    BY <1>4, <1>5, <1>7
  <2>3. CASE o \in Procs(store)
    BY <2>1, <2>3 DEF OwnersInv, Recorded
  <2>4. CASE o = obj
    BY <1>2, <2>1, <2>4
  <2>5. QED
    BY <2>2, <2>3, <2>4
<1>11. Begins(store.frames, store'.frames)
  <2>1. store'.frames = store.frames
    BY <1>5, <1>7
  <2>2. FramesOK(store.frames)
    BY DEF OwnersInv, Sound, OK, Shape
  <2>3. QED
    BY <2>1, <2>2 DEF Begins, FramesOK
<1>12. QED
  BY <1>7, <1>9, <1>10, <1>11, StatementOwned

(* Define keeps the invariant. *)
LEMMA DefineOwned ==
    ASSUME ClassFree, OwnersInv, NEW d \in Defs, Define(d[1], d[2])
    PROVE  OwnersInv'
<1>1. PICK p : p = d[2]
  OBVIOUS
<1>2. p \in DOMAIN Code
  BY <1>1, ProgramNames
<1>3. PICK acc : acc = CopyReachable(store)
  OBVIOUS
<1>4. PICK t, r : t = Alloc(acc[1], Image(acc[2]))[1] /\ r = Alloc(acc[1], Image(acc[2]))[2]
  OBVIOUS
<1>5. PICK c : c = Top.defs[d[1]]
  OBVIOUS
<1>6. d[1] \in DOMAIN Top.defs /\ acts' = acts
  BY DEF Define
<1>7. c \in DOMAIN store.cells
  BY <1>5, <1>6, TopLive
<1>8. ScopeInv'
  BY DefineStep DEF OwnersInv
<1>9. Sound(store) /\ Captured(store, seen)
  BY DEF OwnersInv
<1>10. CASE Code[p].closure
  <2>1. /\ Adds(store, t) /\ t.frames = store.frames /\ t.cells = store.cells
        /\ r \in Slots /\ Captured(t, With(seen, r, Seen(store)))
    BY <1>3, <1>4, <1>9, ImageCaptured
  <2>2. seen' = With(seen, r, Seen(store))
    BY <1>1, <1>3, <1>4, <1>10 DEF Define, Seen
  <2>3. DOMAIN seen \subseteq DOMAIN seen' /\ r \in DOMAIN seen'
    BY <2>2 DEF With
  <2>4. PICK u, v : u = Alloc(t, Procedure(p, r))[1] /\ v = Alloc(t, Procedure(p, r))[2]
    OBVIOUS
  <2>5. store' = Put(u, c, v)
    BY <1>1, <1>3, <1>4, <1>5, <1>10, <2>4 DEF Define
  <2>6. r \in Nat /\ (Plain => r = Om)
    BY <1>1, <1>10, <2>1 DEF Slots, Plain
  <2>7. Captured(t, seen')
    BY <2>1, <2>2
  <2>8. QED
    BY <1>2, <1>6, <1>7, <1>8, <2>1, <2>3, <2>4, <2>5, <2>6, <2>7, ProcedureOwned
<1>11. CASE ~ Code[p].closure
  <2>1. seen' = seen
    BY <1>1, <1>11 DEF Define
  <2>2. PICK u, v : u = Alloc(store, Procedure(p, Om))[1] /\ v = Alloc(store, Procedure(p, Om))[2]
    OBVIOUS
  <2>3. store' = Put(u, c, v)
    BY <1>1, <1>5, <1>11, <2>2 DEF Define
  <2>4. Adds(store, store) /\ Om \in Nat
    BY <1>9, AddsFacts DEF Om
  <2>5. Captured(store, seen') /\ DOMAIN seen \subseteq DOMAIN seen'
    BY <1>9, <2>1
  <2>6. QED
    BY <1>2, <1>6, <1>7, <1>8, <2>2, <2>3, <2>4, <2>5, ProcedureOwned
<1>12. QED
  BY <1>10, <1>11

-----------------------------------------------------------------------------
(* Calls.  The registers of the callee and those of the callers.           *)
LEMMA HeldCalled ==
    ASSUME NEW A, NEW f, NEW l, FramesInv(A, f, l), HeldDefs(A, f), NEW g, FramesOK(g), Begins(f, g),
           NEW a \in Acts, a.base = g, NEW h, \A n \in DOMAIN a.defs : Reached(h, Len(g), a.defs[n]),
           NEW B, B = Append(A, a)
    PROVE  HeldDefs(B, h)
<1> DEFINE n == Len(A)
<1>1. A \in Seq(Acts) /\ n \in Nat \ {0}
  BY DEF FramesInv, ActsOK
<1>2. HeldDefs(A, g)
  BY HeldLonger
<1>3. Len(B) = n + 1 /\ B[n + 1] = a /\ \A i \in 1..n : B[i] = A[i]
  BY <1>1, AppendProperties
<1>4. \A i \in 1..n : FramesOf(B, h, i) = FramesOf(A, g, i)
  <2>1. SUFFICES ASSUME NEW i \in 1..n PROVE FramesOf(B, h, i) = FramesOf(A, g, i)
    OBVIOUS
  <2>2. i # Len(B) /\ (i # n => i + 1 \in 1..n)
    <3>1. i \in 1..n
      OBVIOUS
    <3> HIDE DEF n
    <3>2. QED
      BY <1>1, <1>3, <3>1
  <2>3. CASE i = n
    BY <1>3, <2>2, <2>3 DEF FramesOf
  <2>4. CASE i # n
    BY <1>3, <2>2, <2>4 DEF FramesOf
  <2>5. QED
    BY <2>3, <2>4
<1>5. SUFFICES ASSUME NEW i \in 1..Len(B), NEW m \in DOMAIN B[i].defs
      PROVE  Reached(FramesOf(B, h, i), Len(B[i].base), B[i].defs[m])
  BY DEF HeldDefs
<1>6. CASE i = n + 1
  <2>1. FramesOf(B, h, i) = h /\ B[i] = a
    BY <1>3, <1>6 DEF FramesOf
  <2>2. QED
    BY <2>1
<1>7. CASE i # n + 1
  <2>1. i \in 1..n
    <3>1. i \in 1..(n + 1)
      BY <1>3
    <3> HIDE DEF n
    <3>2. QED
      BY <1>1, <1>7, <3>1
  <2>2. B[i] = A[i] /\ FramesOf(B, h, i) = FramesOf(A, g, i)
    BY <1>3, <1>4, <2>1
  <2>3. QED
    BY <1>2, <2>1, <2>2 DEF HeldDefs
<1>8. QED
  BY <1>6, <1>7

(* The slot of the argument. *)
LEMMA ArgumentAdds ==
    ASSUME ClassFree, OwnersInv, NEW p, NEW a \in Arguments,
           NEW t, t = Argument(p, store, a)[1], NEW c, c = Argument(p, store, a)[2]
    PROVE  Adds(store, t) /\ c \in Nat /\ (Takes(p) => Reached(t.frames, 0, c))
<1>1. a \in STRING /\ Sound(store) /\ c \in Nat
  BY ProgramNames, ArgumentMoved DEF OwnersInv
<1>2. CASE Takes(p)
  <2>1. t = Resolve(store, a)[1] /\ c = Resolve(store, a)[2]
    BY <1>2 DEF Argument, Takes
  <2>2. Adds(store, t) /\ Reached(t.frames, 0, c)
    BY <1>1, <2>1, ResolveTop
  <2>3. QED
    BY <1>1, <2>2
<1>3. CASE ~ Takes(p)
  <2>1. t = store
    BY <1>3 DEF Argument, Takes
  <2>2. QED
    BY <1>1, <1>3, <2>1, AddsFacts
<1>4. QED
  BY <1>2, <1>3

(* What a call does: the stack t it finds, with the slot of the argument,  *)
(* and the frame it adds.                                                  *)
CallMade(t, p, image, defs) ==
    /\ Adds(store, t) /\ Adds(t, store') /\ p \in DOMAIN Code /\ image \in Nat
    /\ acts' = Append(acts, Activation(p, "call", image, t.frames, defs)) /\ seen' = seen
    /\ DefsOK(defs)
    /\ \A n \in DOMAIN defs : LastNamed(store'.frames, Len(t.frames) + 1, n, defs[n])
    /\ image # Om =>
          /\ image \in DOMAIN seen
          /\ \A n \in DOMAIN t.objs[image].vals \ {Code[p].param} :
                Shown(store', Len(t.frames) + 1, n, Content(t, t.objs[image].vals[n]))

(* A call is made this way. *)
LEMMA CallFacts ==
    ASSUME ClassFree, OwnersInv, NEW d \in Defs, NEW a \in Arguments, Call(d[1], a)
    PROVE  \E t, p, image, defs : CallMade(t, p, image, defs)
<1>1. PICK head : head = Resolve(store, d[1])
  OBVIOUS
<1>2. PICK fn : fn = head[1].cells[head[2]]
  OBVIOUS
<1>3. PICK p, image : p = head[1].objs[fn].proc /\ image = head[1].objs[fn].image
  OBVIOUS
<1>4. PICK arg : arg = Argument(p, head[1], a)
  OBVIOUS
<1>5. PICK t, c : t = arg[1] /\ c = arg[2]
  OBVIOUS
<1>6. PICK entered : entered = Enter(t, p, image, c)
  OBVIOUS
<1>7. IsKind(head[1], head[2], "proc") /\ seen' = seen
  BY <1>1 DEF Call
<1>8. /\ Enterable(t, p, image) /\ store' = entered[1]
      /\ acts' = Append(acts, Activation(p, "call", image, t.frames, entered[2]))
  BY <1>1, <1>2, <1>3, <1>4, <1>5, <1>6 DEF Call
<1>9. ScopeInv /\ Sound(store) /\ OK(store) /\ Top \in Acts
  BY ScopeFacts DEF OwnersInv
<1>10. head[1] = store
  <2>1. d[1] \in STRING
    BY ProgramNames
  <2>2. QED
    BY <1>1, <1>7, <1>9, <2>1, ResolveMoved
<1>11. Kind(store, fn) = "proc"
  BY <1>2, <1>7, <1>10 DEF IsKind
<1>12. p \in DOMAIN Code /\ image \in Nat /\ (Plain => image = Om)
  BY <1>3, <1>9, <1>10, <1>11, ProcedureFacts
<1>13. image # Om => image \in DOMAIN seen
  <2>1. fn \in DOMAIN store.objs /\ store.objs[fn].kind = "proc"
    BY <1>11 DEF Kind
  <2>2. store.objs[fn] \in Procs(store) /\ store.objs[fn].image = image
    BY <1>3, <1>10, <2>1 DEF Procs
  <2>3. QED
    BY <2>2 DEF OwnersInv, Recorded
<1>14. Adds(store, t) /\ c \in Nat /\ (Takes(p) => Reached(t.frames, 0, c))
  BY <1>4, <1>5, <1>10, ArgumentAdds
<1>15. Sound(t) /\ OK(t)
  BY <1>14 DEF Adds, Sound
<1>16. image # Om => Kind(t, image) = "image"
  BY <1>8 DEF Enterable
<1>17. /\ Adds(t, store')
       /\ image # Om => \A n \in DOMAIN t.objs[image].vals \ {Code[p].param} :
             Shown(store', Len(t.frames) + 1, n, Content(t, t.objs[image].vals[n]))
  BY <1>6, <1>8, <1>12, <1>14, <1>15, <1>16, EnterAdds
<1>18. Entered(t, entered, Kinds)
  BY <1>6, <1>8, <1>12, <1>14, <1>15, ProcedureEntered
<1>19. /\ DefsOK(entered[2])
       /\ \A n \in DOMAIN entered[2] : LastNamed(store'.frames, Len(t.frames) + 1, n, entered[2][n])
  <2>1. FramesOK(t.frames)
    BY <1>15 DEF OK, Shape
  <2>2. Len(Append(t.frames, Boundary)) = Len(t.frames) + 1
    BY <2>1, Appended, EntryFacts
  <2>3. QED
    BY <1>8, <1>18, <2>2 DEF Entered
<1>20. CallMade(t, p, image, entered[2])
  BY <1>7, <1>8, <1>12, <1>13, <1>14, <1>17, <1>19 DEF CallMade
<1>21. QED
  BY <1>20

(* A register found by name above position b is one of an entry there. *)
LEMMA LastReached ==
    ASSUME NEW f, NEW b, NEW n, NEW c, LastNamed(f, b, n, c)
    PROVE  Reached(f, b, c)
  BY DEF LastNamed, Reached

(* Call keeps the invariant. *)
LEMMA CallOwned ==
    ASSUME ClassFree, OwnersInv, NEW d \in Defs, NEW a \in Arguments, Call(d[1], a)
    PROVE  OwnersInv'
<1>1. PICK t, p, image, defs : CallMade(t, p, image, defs)
  BY CallFacts
<1>2. PICK new : new = Activation(p, "call", image, t.frames, defs)
  OBVIOUS
<1>3. /\ Adds(store, t) /\ Adds(t, store') /\ acts' = Append(acts, new) /\ seen' = seen
      /\ \A n \in DOMAIN defs : LastNamed(store'.frames, Len(t.frames) + 1, n, defs[n])
  BY <1>1, <1>2 DEF CallMade
<1>4. new.how = "call" /\ new.temps = {} /\ new.base = t.frames /\ new.defs = defs
  BY <1>2 DEF Activation
<1>5. Sound(store) /\ Adds(store, store')
  <2>1. Sound(store)
    BY DEF OwnersInv
  <2>2. QED
    BY <1>3, <2>1, AddsTwice
<1>6. Sound(store') /\ Sound(t) /\ Keeps(store, store') /\ Procs(store') \subseteq Procs(store)
  BY <1>3, <1>5 DEF Adds
<1>7. new \in Acts
  <2>1. t.frames \in Seq(Entry) /\ "call" \in {"call", "new", "method"}
    BY <1>6 DEF Sound, OK, Shape, FramesOK
  <2>2. p \in DOMAIN Code /\ image \in Nat /\ DefsOK(defs)
    BY <1>1 DEF CallMade
  <2>3. QED
    BY <1>2, <2>1, <2>2, ActivationOK
<1>8. ScopeInv'
  BY CallProcedureStep DEF OwnersInv
<1>9. Captured(store', seen') /\ Recorded(store', seen')
  <2>1. OK(store) /\ Owned(store) /\ OK(store') /\ Captured(store, seen) /\ Recorded(store, seen)
    BY <1>6 DEF OwnersInv, Sound
  <2>2. Frozen(store, store')
    BY <1>6, <2>1, FrozenFacts
  <2>3. Captured(store', seen)
    BY <1>5, <2>1, <2>2, CapturedKept
  <2>4. QED
    BY <1>3, <1>6, <2>1, <2>3 DEF Recorded
<1>10. acts \in Seq(Acts) /\ Len(acts) \in Nat
  BY ScopeFacts DEF OwnersInv
<1>11. AllCalls(acts')
  <2>1. Len(acts') = Len(acts) + 1 /\ acts'[Len(acts) + 1] = new /\ \A i \in 1..Len(acts) : acts'[i] = acts[i]
    BY <1>3, <1>7, <1>10, AppendProperties
  <2>2. \A i \in 1..Len(acts') : i = Len(acts) + 1 \/ i \in 1..Len(acts)
    BY <1>10, <2>1
  <2>3. QED
    BY <1>4, <2>1, <2>2 DEF OwnersInv, AllCalls
<1>12. HeldDefs(acts', store'.frames)
  <2>1. FramesInv(acts, store.frames, left) /\ HeldDefs(acts, store.frames)
    BY DEF OwnersInv, ScopeInv
  <2>2. FramesOK(t.frames) /\ Begins(store.frames, t.frames) /\ FramesOK(store'.frames)
    BY <1>3, <1>6 DEF Adds, Sound, OK, Shape
  <2>3. \A n \in DOMAIN new.defs : Reached(store'.frames, Len(t.frames), new.defs[n])
    <3>1. Len(t.frames) \in Nat
      BY <2>2 DEF FramesOK
    <3>2. Len(t.frames) + 1 \in Nat /\ Len(t.frames) <= Len(t.frames) + 1
      BY <3>1
    <3>3. \A n \in DOMAIN defs : Reached(store'.frames, Len(t.frames) + 1, defs[n])
      BY <1>3, LastReached
    <3>4. \A n \in DOMAIN defs : Reached(store'.frames, Len(t.frames), defs[n])
      BY <2>2, <3>1, <3>2, <3>3, ReachedFacts
    <3>5. QED
      BY <1>4, <3>4
  <2>4. QED
    BY <1>3, <1>4, <1>7, <2>1, <2>2, <2>3, HeldCalled
<1>13. QED
  BY <1>6, <1>8, <1>9, <1>11, <1>12 DEF OwnersInv

(* A closure starts with what the names held where it was made. *)
LEMMA CallStarts ==
    ASSUME ClassFree, OwnersInv, NEW d \in Defs, NEW a \in Arguments, Call(d[1], a)
    PROVE  StartsAsCaptured
<1>1. PICK t, p, image, defs : CallMade(t, p, image, defs)
  BY CallFacts
<1>2. PICK new : new = Activation(p, "call", image, t.frames, defs)
  OBVIOUS
<1>3. Adds(store, t) /\ Adds(t, store') /\ acts' = Append(acts, new)
  BY <1>1, <1>2 DEF CallMade
<1>4. new.image = image /\ new.proc = p
  BY <1>2 DEF Activation
<1>5. acts \in Seq(Acts) /\ Len(acts) \in Nat
  BY ScopeFacts DEF OwnersInv
<1>6. Sound(store) /\ Sound(t) /\ OK(t) /\ OK(store')
  BY <1>3 DEF OwnersInv, Adds, Sound
<1>7. acts'[Len(acts')] = new
  <2>1. acts \in Seq(Acts \union {new}) /\ new \in Acts \union {new}
    BY <1>5
  <2>2. Len(acts') = Len(acts) + 1 /\ acts'[Len(acts) + 1] = new
    BY <1>3, <1>5, <2>1, AppendProperties
  <2>3. QED
    BY <2>2
<1>8. SUFFICES ASSUME image # Om, NEW n \in DOMAIN seen[image] \ {Code[p].param}
      PROVE  /\ Get(store', n) # NoCell
             /\ Content(store', store'.cells[Get(store', n)]) = seen[image][n]
  BY <1>4, <1>7 DEF StartsAsCaptured
<1>9. /\ image \in DOMAIN seen
      /\ \A m \in DOMAIN t.objs[image].vals \ {Code[p].param} :
            Shown(store', Len(t.frames) + 1, m, Content(t, t.objs[image].vals[m]))
  BY <1>1, <1>8 DEF CallMade
<1>10. Captured(t, seen)
  <2>1. Frozen(store, t) /\ Captured(store, seen)
    BY <1>3, FrozenFacts DEF OwnersInv, Adds, Sound
  <2>2. QED
    BY <1>6, <2>1, CapturedKept
<1>11. n \in DOMAIN t.objs[image].vals /\ Content(t, t.objs[image].vals[n]) = seen[image][n]
  BY <1>8, <1>9, <1>10 DEF Captured
<1>12. Shown(store', Len(t.frames) + 1, n, seen[image][n])
  BY <1>8, <1>9, <1>11
<1>13. PICK c \in DOMAIN store'.cells :
          /\ LastNamed(store'.frames, Len(t.frames) + 1, n, c)
          /\ Content(store', store'.cells[c]) = seen[image][n]
  BY <1>12 DEF Shown
<1>14. Get(store', n) = c
  <2>1. Len(t.frames) + 1 \in Nat
    <3>1. Len(t.frames) \in Nat
      BY <1>6 DEF OK, Shape, FramesOK
    <3>2. QED
      BY <3>1
  <2>2. QED
    BY <1>6, <1>13, <2>1, LastNamedFound
<1>15. c # NoCell
  BY <1>6, <1>13, OmNoObject
<1>16. QED
  BY <1>13, <1>14, <1>15

-----------------------------------------------------------------------------
(* Returns and exceptions.  The first k procedures are left.               *)
LEMMA CallsCut ==
    ASSUME NEW A, NEW f, NEW l, FramesInv(A, f, l), HeldDefs(A, f), AllCalls(A), NEW k \in 1..Len(A),
           NEW B, Len(B) = k,
           \A i \in 1..k : /\ B[i].base = A[i].base /\ B[i].defs = A[i].defs
                           /\ B[i].how = A[i].how /\ B[i].temps = A[i].temps,
           NEW g, FramesOK(g), Begins(FramesOf(A, f, k), g)
    PROVE  AllCalls(B) /\ HeldDefs(B, g)
<1> DEFINE n == Len(A)
<1>1. n \in Nat \ {0} /\ \A i \in 1..k : i \in 1..n
  <2>1. n \in Nat \ {0}
    BY DEF FramesInv, ActsOK
  <2>2. k \in 1..n
    OBVIOUS
  <2> HIDE DEF n
  <2>3. QED
    BY <2>1, <2>2
<1>2. AllCalls(B)
  BY <1>1 DEF AllCalls
<1>3. SUFFICES ASSUME NEW i \in 1..k, NEW m \in DOMAIN B[i].defs
      PROVE  Reached(FramesOf(B, g, i), Len(B[i].base), B[i].defs[m])
  BY <1>2 DEF HeldDefs
<1>4. i \in 1..Len(A) /\ m \in DOMAIN A[i].defs
  BY <1>1
<1>5. /\ Reached(FramesOf(A, f, i), Len(A[i].base), A[i].defs[m])
      /\ FramesOK(FramesOf(A, f, i)) /\ Len(A[i].base) \in Nat
  BY <1>4, FramesOfBegins DEF HeldDefs
<1>6. CASE i = k
  <2>1. FramesOf(B, g, i) = g /\ Begins(FramesOf(A, f, i), g)
    BY <1>6 DEF FramesOf
  <2>2. Reached(g, Len(A[i].base), A[i].defs[m])
    BY <1>5, <2>1, ReachedFacts
  <2>3. QED
    BY <2>1, <2>2
<1>7. CASE i # k
  <2>1. i + 1 \in 1..k /\ i # n
    <3>1. k \in 1..n
      OBVIOUS
    <3> HIDE DEF n
    <3>2. QED
      BY <1>1, <1>7, <3>1
  <2>2. FramesOf(B, g, i) = FramesOf(A, f, i)
    BY <1>7, <2>1 DEF FramesOf
  <2>3. QED
    BY <1>5, <2>2
<1>8. QED
  BY <1>6, <1>7

(* The same slots and objects under the same frames. *)
Alone(s, t) == Fields(t, s.frames, s.cells, s.objs)

(* What is sound for a store is for one that is alike. *)
LEMMA AloneSound ==
    ASSUME NEW s, Sound(s), NEW t, Alone(s, t)
    PROVE  Sound(t) /\ Frozen(s, t) /\ Procs(t) = Procs(s) /\ t.frames = s.frames
<1>1. /\ OK(s) /\ Owned(s) /\ Linked(s) /\ IsStore(t)
      /\ t.frames = s.frames /\ t.cells = s.cells /\ t.objs = s.objs
  BY DEF Sound, Alone, Fields
<1>2. OK(t)
  BY <1>1 DEF OK, Shape
<1>3. Owned(t) /\ Linked(t)
  BY <1>1, OwnedAlike, LinkedAlike
<1>4. Keeps(s, t)
  BY <1>1 DEF Keeps
<1>5. Frozen(s, t)
  BY <1>1, <1>4, FrozenFacts
<1>6. QED
  BY <1>1, <1>2, <1>3, <1>5 DEF Sound, Procs

(* No slot is dropped. *)
LEMMA DropNone ==
    ASSUME NEW s, IsStore(s), CellsOK(s.cells), NEW t, t = Drop(s, {})
    PROVE  Alone(s, t)
<1>1. Without(s.cells, {}) = s.cells
  BY DEF Without, CellsOK, IsMap
<1>2. t = [s EXCEPT !.cells = s.cells]
  BY <1>1 DEF Drop
<1>3. QED
  BY <1>2, OtherCells DEF Alone

(* Procedures leave their values where they are when an exception leaves   *)
(* them: nothing frees the frames.                                         *)
UnwoundAlone(env, D, t) == Alone(env.store, t)

AloneFold == INSTANCE Folding WITH Op <- UnwindStep, Pick <- LowestOf, Good <- UnwoundAlone

(* Calls that are left one after the other free nothing. *)
LEMMA UnwindAlone ==
    ASSUME NEW s, IsStore(s), CellsOK(s.cells), NEW calls \in Seq(Acts),
           \A i \in 1..Len(calls) : calls[i].how = "call" /\ calls[i].temps = {},
           NEW t, t = UnwindAll(calls, s)
    PROVE  Alone(s, t)
<1> DEFINE S == DOMAIN calls
           env == [store |-> s, calls |-> calls]
<1>1. S = 1..Len(calls) /\ Len(calls) \in Nat /\ env.store = s /\ env.calls = calls
  OBVIOUS
<1>2. t = AloneFold!Fold(env, s, S)
  BY DEF UnwindAll, FoldRight, MapThenFoldSet, UnwindStep, LowestOf, AloneFold!Fold, AloneFold!Equation
<1> HIDE DEF S, env
<1>3. AloneFold!IsFiniteSet(S)
  <2>1. IsFiniteSet(S)
    BY <1>1, FS_Interval
  <2>2. QED
    BY <2>1 DEF IsFiniteSet, AloneFold!IsFiniteSet
<1>4. \A D \in SUBSET S : D # {} => LowestOf(env, D) \in D
  <2>1. SUFFICES ASSUME NEW D \in SUBSET S, D # {} PROVE Min(D) \in D
    BY DEF LowestOf
  <2>2. D \subseteq Nat
    BY <1>1
  <2>3. QED
    BY <2>1, <2>2, FirstFacts
<1>5. UnwoundAlone(env, {}, s)
  BY <1>1 DEF UnwoundAlone, Alone, Fields
<1>6. ASSUME NEW D \in SUBSET S, D # {}, NEW r, UnwoundAlone(env, D \ {LowestOf(env, D)}, r)
      PROVE  UnwoundAlone(env, D, UnwindStep(env, LowestOf(env, D), r))
  <2>1. PICK j : j = LowestOf(env, D)
    OBVIOUS
  <2>2. j \in 1..Len(calls)
    BY <1>1, <1>4, <1>6, <2>1
  <2>3. Alone(s, r)
    BY <1>1, <1>6 DEF UnwoundAlone
  <2>4. UnwindStep(env, j, r) = Drop(r, {})
    BY <1>1, <2>2 DEF UnwindStep, Unwind
  <2>5. IsStore(r) /\ CellsOK(r.cells)
    BY <2>3 DEF Alone, Fields
  <2>6. Alone(r, Drop(r, {}))
    BY <2>5, DropNone
  <2>7. Alone(s, Drop(r, {}))
    BY <2>3, <2>6 DEF Alone, Fields
  <2>8. QED
    BY <1>1, <2>1, <2>4, <2>7 DEF UnwoundAlone
<1>7. UnwoundAlone(env, S, AloneFold!Fold(env, s, S))
  BY <1>3, <1>4, <1>5, <1>6, AloneFold!FoldKeeps
<1>8. QED
  BY <1>1, <1>2, <1>7 DEF UnwoundAlone

(* A step that leaves procedures, or none, and records nothing.            *)
LEMMA LeftOwned ==
    ASSUME ClassFree, OwnersInv, ScopeInv', Sound(store'), Frozen(store, store'),
           Procs(store') \subseteq Procs(store), seen' = seen,
           NEW k \in 1..Len(acts), Len(acts') = k,
           \A i \in 1..k : /\ acts'[i].base = acts[i].base /\ acts'[i].defs = acts[i].defs
                           /\ acts'[i].how = acts[i].how /\ acts'[i].temps = acts[i].temps,
           Begins(FramesOf(acts, store.frames, k), store'.frames)
    PROVE  OwnersInv'
<1>1. FramesInv(acts, store.frames, left) /\ HeldDefs(acts, store.frames) /\ AllCalls(acts)
  BY DEF OwnersInv, ScopeInv
<1>2. FramesOK(store'.frames) /\ OK(store')
  BY DEF Sound, OK, Shape
<1>3. AllCalls(acts') /\ HeldDefs(acts', store'.frames)
  BY <1>1, <1>2, CallsCut
<1>4. Sound(store) /\ Captured(store, seen) /\ Recorded(store, seen)
  BY DEF OwnersInv
<1>5. Captured(store', seen)
  BY <1>2, <1>4, CapturedKept
<1>6. Captured(store', seen') /\ Recorded(store', seen')
  BY <1>4, <1>5 DEF Recorded
<1>7. QED
  BY <1>3, <1>6 DEF OwnersInv

(* Return keeps the invariant. *)
LEMMA ReturnOwned ==
    ASSUME ClassFree, OwnersInv, Return
    PROVE  OwnersInv'
<1> DEFINE f == store.frames
           q == Len(Top.base) + 1
<1>1. PICK pop : pop = FramePop(store)
  OBVIOUS
<1>2. ScopeInv /\ Sound(store) /\ OK(store) /\ Top.temps = {}
  BY TopLive DEF OwnersInv, Sound
<1>3. /\ Top.how = "call" /\ Len(acts) > 1 /\ store' = Drop(pop, {}) /\ acts' = Rest /\ seen' = seen
  BY <1>1, <1>2 DEF Return
<1>4. Begins(Top.base, f) /\ FramesOK(Top.base) /\ Len(Top.base) \in Nat /\ q <= Len(f) /\ f[q] = Boundary
  BY <1>2, <1>3, TopFrames DEF Begun, BegunCall, BegunNew, BegunMethod
<1>5. Len(f) \in Nat
  BY <1>2, ScopeFacts
<1>6. Cut(f, pop.frames) /\ q <= LastBoundary(f)
  <2>1. q \in 1..Len(f)
    BY <1>4, <1>5
  <2>2. QED
    BY <1>1, <1>2, <1>4, <2>1, PopCut
<1>7. Begins(Top.base, pop.frames)
  <2>1. LastBoundary(f) \in 1..Len(f)
    BY <1>6, CutFacts
  <2>2. Len(Top.base) < LastBoundary(f)
    BY <1>4, <1>5, <1>6, <2>1
  <2>3. QED
    BY <1>4, <1>6, <2>2, CutFacts
<1>8. /\ Sound(pop) /\ Frozen(store, pop)
      /\ DOMAIN pop.objs = DOMAIN store.objs \ {store.cells[c] : c \in VarCells(f, LastFrame(store))}
      /\ \A r \in DOMAIN pop.objs : pop.objs[r] = store.objs[r]
  BY <1>1, <1>2, PopSound
<1>9. Procs(pop) \subseteq Procs(store)
  <2>1. DOMAIN pop.objs \subseteq DOMAIN store.objs
    BY <1>8
  <2>2. QED
    BY <1>8, <2>1, ProcsFewer
<1>10. Sound(store') /\ Frozen(pop, store') /\ Procs(store') = Procs(pop) /\ store'.frames = pop.frames
  <2>1. IsStore(pop) /\ CellsOK(pop.cells)
    BY <1>8 DEF Sound, OK, Shape
  <2>2. Alone(pop, store')
    BY <1>3, <2>1, DropNone
  <2>3. QED
    BY <1>8, <2>2, AloneSound
<1>11. Frozen(store, store') /\ Procs(store') \subseteq Procs(store)
  <2>1. Owned(store)
    BY <1>2 DEF Sound
  <2>2. QED
    BY <1>2, <1>8, <1>9, <1>10, <2>1, FrozenFacts
<1>12. PICK k : k = Len(acts) - 1
  OBVIOUS
<1>13. acts \in Seq(Acts) /\ Len(acts) \in Nat \ {0} /\ k \in 1..Len(acts) /\ k # Len(acts) /\ k + 1 = Len(acts)
  <2>1. acts \in Seq(Acts) /\ Len(acts) \in Nat \ {0}
    BY <1>2, ScopeFacts
  <2>2. QED
    BY <1>3, <1>12, <2>1
<1>14. Len(acts') = k /\ \A i \in 1..k : acts'[i] = acts[i]
  BY <1>2, <1>3, <1>12, RestFacts
<1>15. FramesOf(acts, f, k) = Top.base
  BY <1>13 DEF FramesOf, Top
<1>16. Begins(FramesOf(acts, f, k), store'.frames)
  BY <1>7, <1>10, <1>15
<1>17. ScopeInv'
  BY <1>2, ReturnFromCallStep
<1>18. QED
  BY <1>3, <1>10, <1>11, <1>13, <1>14, <1>16, <1>17, LeftOwned

(* A step that changes try sections only. *)
LEMMA SectionsOwned ==
    ASSUME ClassFree, OwnersInv, ScopeInv', Alone(store, store'), seen' = seen,
           NEW k \in 1..Len(acts), NEW A \in Seq(Acts), Len(A) = k, \A i \in 1..k : A[i] = acts[i],
           NEW x, acts' = [A EXCEPT ![k].sections = x]
    PROVE  OwnersInv'
<1>1. Sound(store) /\ FramesInv(acts, store.frames, left)
  BY DEF OwnersInv, ScopeInv
<1>2. Sound(store') /\ Frozen(store, store') /\ Procs(store') = Procs(store) /\ store'.frames = store.frames
  BY <1>1, AloneSound
<1>3. Begins(FramesOf(acts, store.frames, k), store'.frames)
  BY <1>1, <1>2, FramesOfBegins
<1>4. PICK a : a = [A[k] EXCEPT !.sections = x]
  OBVIOUS
<1>5. k \in 1..k /\ k \in Nat
  BY DEF OwnersInv
<1>6. A[k] \in Acts
  BY <1>5, ElementOfSeq
<1>7. a.base = A[k].base /\ a.defs = A[k].defs /\ a.how = A[k].how /\ a.temps = A[k].temps
  BY <1>4, <1>6 DEF Acts
<1>8. Len(acts') = k /\ \A i \in 1..k : acts'[i] = IF i = k THEN a ELSE A[i]
  <2>1. acts' = [A EXCEPT ![k] = a]
    BY <1>4
  <2>2. A \in Seq(Acts \union {a}) /\ a \in Acts \union {a}
    OBVIOUS
  <2>3. QED
    BY <1>5, <2>1, <2>2, ExceptSeq
<1>9. \A i \in 1..k : /\ acts'[i].base = acts[i].base /\ acts'[i].defs = acts[i].defs
                      /\ acts'[i].how = acts[i].how /\ acts'[i].temps = acts[i].temps
  BY <1>7, <1>8
<1>10. QED
  BY <1>2, <1>3, <1>8, <1>9, LeftOwned

(* OpenTry and CloseTry keep the invariant. *)
LEMMA TryOwned ==
    ASSUME ClassFree, OwnersInv, OpenTry \/ CloseTry
    PROVE  OwnersInv'
<1>1. store' = store /\ seen' = seen
  BY DEF OpenTry, CloseTry
<1>2. PICK k : k = Len(acts)
  OBVIOUS
<1>3. k \in 1..Len(acts) /\ acts \in Seq(Acts)
  BY <1>2, TopLive, ScopeFacts DEF OwnersInv
<1>4. ScopeInv'
  BY TryStep DEF OwnersInv
<1>5. Alone(store, store')
  BY <1>1 DEF OwnersInv, Sound, OK, Shape, Alone, Fields
<1>6. \E x : acts' = [acts EXCEPT ![k].sections = x]
  BY <1>2 DEF OpenTry, CloseTry
<1>7. QED
  BY <1>1, <1>2, <1>3, <1>4, <1>5, <1>6, SectionsOwned

(* Raise goes on in the innermost procedure that has a try section open.   *)
LEMMA RaiseTo ==
    ASSUME ScopeInv, Raise
    PROVE  \E k \in 1..Len(acts) : \E A \in Seq(Acts) :
              /\ store' = UnwindAll(SubSeq(acts, k + 1, Len(acts)), store)
              /\ Len(A) = k /\ (\A i \in 1..k : A[i] = acts[i])
              /\ \E x : acts' = [A EXCEPT ![k].sections = x]
<1> DEFINE n == Len(acts)
           to == CHOOSE i \in DOMAIN acts : acts[i].sections > 0
                         /\ \A j \in DOMAIN acts : acts[j].sections > 0 => j <= i
<1>1. acts \in Seq(Acts) /\ n \in Nat \ {0} /\ DOMAIN acts = 1..n
  BY ScopeFacts
<1>2. to \in 1..n
  <2> DEFINE T == {i \in DOMAIN acts : acts[i].sections > 0}
  <2>1. T # {} /\ T \subseteq 1..n
    BY <1>1 DEF Raise
  <2>2. Max(T) \in T /\ \A i \in T : i <= Max(T)
    BY <1>1, <2>1, Greatest
  <2>3. \E i \in DOMAIN acts : acts[i].sections > 0
           /\ \A j \in DOMAIN acts : acts[j].sections > 0 => j <= i
    BY <2>2
  <2>4. QED
    BY <1>1, <2>3
<1>3. /\ store' = UnwindAll(SubSeq(acts, to + 1, n), store)
      /\ acts' = [SubSeq(acts, 1, to) EXCEPT ![to].sections = @ - 1]
  BY DEF Raise
<1>4. PICK k : k = to
  OBVIOUS
<1>5. k \in 1..n /\ store' = UnwindAll(SubSeq(acts, k + 1, n), store)
  BY <1>2, <1>3, <1>4
<1>6. acts' = [SubSeq(acts, 1, k) EXCEPT ![k].sections = @ - 1]
  BY <1>3, <1>4
<1> HIDE DEF to
<1>7. PICK A : A = SubSeq(acts, 1, k)
  OBVIOUS
<1>8. A \in Seq(Acts) /\ Len(A) = k /\ \A i \in 1..k : A[i] = acts[i]
  <2>1. \A i \in 1..k : i \in 1..n
    <3> HIDE DEF n
    <3>1. QED
      BY <1>1, <1>5
  <2>2. \A i \in 1..k : acts[i] \in Acts
    BY <1>1, <2>1, ActFacts
  <2>3. 1 \in Int /\ k \in Int /\ 1 <= k /\ k - 1 + 1 = k
    <3> HIDE DEF n
    <3>1. QED
      BY <1>1, <1>5
  <2>4. \A i \in 1..k : 1 + i - 1 = i
    OBVIOUS
  <2>5. QED
    BY <1>7, <2>2, <2>3, <2>4, SubSeqProperties
<1>9. \E x : acts' = [A EXCEPT ![k].sections = x]
  BY <1>6, <1>7
<1>10. k \in 1..Len(acts) /\ store' = UnwindAll(SubSeq(acts, k + 1, Len(acts)), store)
  BY <1>5
<1> HIDE DEF n
<1>11. QED
  BY <1>8, <1>9, <1>10

(* The procedures an exception leaves. *)
LEMMA CallsLeft ==
    ASSUME OwnersInv, NEW k \in 1..Len(acts), NEW calls, calls = SubSeq(acts, k + 1, Len(acts))
    PROVE  calls \in Seq(Acts) /\ \A i \in 1..Len(calls) : calls[i].how = "call" /\ calls[i].temps = {}
<1> DEFINE n == Len(acts)
<1>1. acts \in Seq(Acts) /\ n \in Nat \ {0} /\ calls = SubSeq(acts, k + 1, n)
  BY ScopeFacts DEF OwnersInv
<1>2. k \in 1..n
  OBVIOUS
<1>3. k \in Nat /\ 1 <= k /\ k <= n
  BY <1>1, <1>2
<1>4. \A j \in (k + 1)..n : j \in 1..n
  <2> HIDE DEF n
  <2>1. QED
    BY <1>1, <1>3
<1>5. \A j \in (k + 1)..n : acts[j] \in Acts /\ acts[j].how = "call" /\ acts[j].temps = {}
  BY <1>1, <1>4, ActFacts DEF OwnersInv, AllCalls
<1>6. k + 1 \in Int /\ n \in Int
  BY <1>1, <1>3
<1>7. /\ calls \in Seq(Acts) /\ Len(calls) = (IF k + 1 <= n THEN n - (k + 1) + 1 ELSE 0)
      /\ \A i \in 1..(n - (k + 1) + 1) : calls[i] = acts[k + 1 + i - 1]
  <2> HIDE DEF n
  <2>1. QED
    BY <1>1, <1>5, <1>6, SubSeqProperties
<1>8. ASSUME NEW i \in 1..Len(calls)
      PROVE  i \in 1..(n - (k + 1) + 1) /\ k + 1 + i - 1 \in (k + 1)..n
  <2> HIDE DEF n
  <2>1. QED
    BY <1>1, <1>3, <1>6, <1>7
<1>9. QED
  BY <1>5, <1>7, <1>8

(* An exception frees nothing. *)
LEMMA RaiseAlone ==
    ASSUME ClassFree, OwnersInv, Raise
    PROVE  Alone(store, store')
<1>1. ScopeInv /\ acts \in Seq(Acts) /\ Len(acts) \in Nat /\ IsStore(store) /\ CellsOK(store.cells)
  BY ScopeFacts DEF OwnersInv, Sound, OK, Shape
<1>2. PICK k \in 1..Len(acts) : store' = UnwindAll(SubSeq(acts, k + 1, Len(acts)), store)
  BY <1>1, RaiseTo
<1>3. PICK calls : calls = SubSeq(acts, k + 1, Len(acts))
  OBVIOUS
<1>4. calls \in Seq(Acts) /\ \A i \in 1..Len(calls) : calls[i].how = "call" /\ calls[i].temps = {}
  BY <1>1, <1>3, CallsLeft
<1>5. QED
  BY <1>1, <1>2, <1>3, <1>4, UnwindAlone

(* Raise keeps the invariant. *)
LEMMA RaiseOwned ==
    ASSUME ClassFree, OwnersInv, Raise
    PROVE  OwnersInv'
<1>1. ScopeInv /\ acts \in Seq(Acts) /\ Len(acts) \in Nat \ {0}
  BY ScopeFacts DEF OwnersInv
<1>2. PICK k \in 1..Len(acts), A \in Seq(Acts) :
         /\ Len(A) = k /\ (\A i \in 1..k : A[i] = acts[i])
         /\ \E x : acts' = [A EXCEPT ![k].sections = x]
  BY <1>1, RaiseTo
<1>3. Alone(store, store')
  BY RaiseAlone
<1>4. ScopeInv'
  BY <1>1, RaiseStep
<1>5. seen' = seen
  BY DEF Raise
<1>6. QED
  BY <1>2, <1>3, <1>4, <1>5, SectionsOwned

(* The invariant holds when the program starts. *)
LEMMA OwnersStart ==
    ASSUME ClassFree, Init
    PROVE  OwnersInv
<1> DEFINE empty == [frames |-> <<>>, cells |-> Empty, objs |-> Empty]
<1>1. PICK s : s = empty
  OBVIOUS
<1>2. PICK entered : entered = Enter(s, Main, Om, NoCell)
  OBVIOUS
<1>3. PICK a : a = Activation(Main, "call", Om, <<>>, entered[2])
  OBVIOUS
<1>4. store = entered[1] /\ acts = <<a>> /\ seen = Empty
  BY <1>1, <1>2, <1>3 DEF Init
<1>5. s.frames = <<>> /\ s.cells = Empty /\ s.objs = Empty /\ DOMAIN s = {"frames", "cells", "objs"}
  BY <1>1
<1>6. DOMAIN Empty = {} /\ IsMap(Empty) /\ IsFiniteSet({})
  BY EmptyNames, FS_EmptySet DEF NamesMap
<1>7. OK(s)
  <2>1. CellsOK(Empty) /\ ObjsOK(Empty, Kinds)
    BY <1>6 DEF CellsOK, ObjsOK
  <2>2. Kinds.names \subseteq STRING
    BY ProgramNames
  <2>3. <<>> \in Seq(Entry)
    OBVIOUS
  <2>4. QED
    BY <1>5, <2>1, <2>2, <2>3 DEF OK, Shape, IsStore, FramesOK
<1>8. Sound(s)
  <2>1. \A r, n : ~ Holder(s, r, n)
    BY <1>5, <1>6 DEF Holder
  <2>2. Owned(s)
    BY <2>1 DEF Owned
  <2>3. Len(s.frames) = 0
    BY <1>5
  <2>4. 1..Len(s.frames) = {}
    BY <2>3
  <2>5. Linked(s)
    BY <2>4 DEF Linked
  <2>6. QED
    BY <1>7, <2>2, <2>5 DEF Sound
<1>9. Main \in DOMAIN Code /\ ~ Takes(Main)
  BY MainAssumption DEF MainAssumption, Takes
<1>10. Adds(s, store)
  BY <1>2, <1>4, <1>8, <1>9, EnterAdds
<1>11. Sound(store) /\ Procs(store) = {}
  <2>1. Procs(s) = {}
    BY <1>5, <1>6 DEF Procs
  <2>2. QED
    BY <1>10, <2>1 DEF Adds
<1>12. Captured(store, seen) /\ Recorded(store, seen)
  BY <1>4, <1>6, <1>11 DEF Captured, Recorded
<1>13. ScopeInv
  BY ScopeStarts
<1>14. a.how = "call" /\ a.temps = {} /\ a.base = <<>> /\ a.defs = entered[2]
  BY <1>3 DEF Activation
<1>15. Len(acts) = 1 /\ acts[1] = a /\ \A i \in 1..Len(acts) : i = 1
  BY <1>4
<1>16. AllCalls(acts)
  BY <1>14, <1>15 DEF AllCalls
<1>17. Entered(s, entered, Kinds)
  <2>1. NoCell \in Nat
    BY DEF NoCell
  <2>2. QED
    BY <1>2, <1>7, <1>9, <2>1, ProgramNames, EnterEntered DEF OK
<1>18. \A n \in DOMAIN a.defs : Reached(store.frames, 0, a.defs[n])
  <2>1. Len(Append(s.frames, Boundary)) = 1
    BY <1>5
  <2>2. \A n \in DOMAIN a.defs : LastNamed(store.frames, 1, n, a.defs[n])
    BY <1>4, <1>14, <1>17, <2>1 DEF Entered
  <2>3. \A n \in DOMAIN a.defs : Reached(store.frames, 1, a.defs[n])
    BY <2>2, LastReached
  <2>4. FramesOK(store.frames) /\ 0 \in Nat /\ 1 \in Nat /\ 0 <= 1
    BY <1>11 DEF Sound, OK, Shape
  <2>5. QED
    BY <2>3, <2>4, ReachedFacts
<1>19. HeldDefs(acts, store.frames)
  <2>1. FramesOf(acts, store.frames, 1) = store.frames /\ Len(a.base) = 0
    BY <1>14, <1>15 DEF FramesOf
  <2>2. QED
    BY <1>15, <1>18, <2>1 DEF HeldDefs
<1>20. QED
  BY <1>11, <1>12, <1>13, <1>16, <1>19 DEF OwnersInv

(* The steps of a program without classes. *)
LEMMA ClassFreeSteps ==
    ASSUME ClassFree, OwnersInv, [Next]_vars
    PROVE  \/ UNCHANGED vars
           \/ \E n \in Data : Assign(n)
           \/ \E n \in Data : Modify(n)
           \/ \E d \in Defs : Define(d[1], d[2])
           \/ \E d \in Defs, a \in Arguments : Call(d[1], a)
           \/ Return \/ OpenTry \/ CloseTry \/ Raise
<1>1. ObjectNames = {} /\ Instances = {}
  BY DEF ObjectNames, ClassFree
<1>2. ~ ReturnMethod
  BY TopLive DEF ReturnMethod
<1>3. ~ ReturnObject
  BY TopLive DEF ReturnObject
<1>4. QED
  BY <1>1, <1>2, <1>3 DEF Next

(* Every step keeps the invariant. *)
LEMMA OwnersStep ==
    ASSUME ClassFree, OwnersInv, [Next]_vars
    PROVE  OwnersInv'
<1>1. CASE UNCHANGED vars
  <2>1. acts' = acts /\ store' = store /\ seen' = seen /\ left' = left
    BY <1>1 DEF vars
  <2>2. ScopeInv'
    BY <1>1, ScopeStep DEF OwnersInv
  <2>3. QED
    BY <2>1, <2>2 DEF OwnersInv
<1>2. CASE \E n \in Data : Assign(n)
  BY <1>2, AssignOwned
<1>3. CASE \E n \in Data : Modify(n)
  BY <1>3, ModifyOwned
<1>4. CASE \E d \in Defs : Define(d[1], d[2])
  BY <1>4, DefineOwned
<1>5. CASE \E d \in Defs, a \in Arguments : Call(d[1], a)
  BY <1>5, CallOwned
<1>6. CASE Return
  BY <1>6, ReturnOwned
<1>7. CASE OpenTry \/ CloseTry
  BY <1>7, TryOwned
<1>8. CASE Raise
  BY <1>8, RaiseOwned
<1>9. QED
  BY <1>1, <1>2, <1>3, <1>4, <1>5, <1>6, <1>7, <1>8, ClassFreeSteps

(* In a program without classes every value has one owner, what names and  *)
(* registers point to exists, and images hold what was accessible where    *)
(* the closure was made, throughout.                                       *)
THEOREM OwnersInvariant ==
    ASSUME ClassFree
    PROVE  Spec => []OwnersInv
<1>1. Init => OwnersInv
  BY OwnersStart
<1>2. OwnersInv /\ [Next]_vars => OwnersInv'
  BY OwnersStep
<1>3. QED
  BY <1>1, <1>2, PTL DEF Spec

-----------------------------------------------------------------------------
(* A program without classes has no objects: only variables own values.    *)
LEMMA VariablesOwn ==
    ASSUME ClassFree, OwnersInv
    PROVE  /\ Objects(store) = {} /\ Owners(store) = VarCells(store.frames, 1)
           /\ \A c \in Owners(store) : c \in DOMAIN store.cells /\ Holder(store, Om, c)
                                         /\ Holds(store, Om, c) = store.cells[c]
<1>1. Sound(store) /\ OK(store) /\ Owned(store) /\ Linked(store)
  BY DEF OwnersInv, Sound
<1>2. \A r \in DOMAIN store.objs : store.objs[r].kind # "object"
  BY <1>1, NoObjects
<1>3. Objects(store) = {}
  BY <1>2 DEF Objects
<1>4. Members(store) = {}
  BY <1>3 DEF Members
<1>5. Owners(store) = VarCells(store.frames, 1)
  BY <1>4 DEF Owners
<1>6. \A c \in VarCells(store.frames, 1) : c \in DOMAIN store.cells
  BY <1>1 DEF VarCells, Linked
<1>7. QED
  BY <1>3, <1>5, <1>6 DEF Holder, Holds

(* An image holds values. *)
LEMMA ImagesHold ==
    ASSUME OwnersInv, NEW r \in Images(store), NEW n \in DOMAIN store.objs[r].vals
    PROVE  Holder(store, r, n) /\ Holds(store, r, n) = store.objs[r].vals[n]
<1>1. r \in DOMAIN store.objs /\ store.objs[r].kind = "image"
  BY DEF Images
<1>2. r # Om
  BY <1>1, ImageValues DEF OwnersInv
<1>3. QED
  BY <1>1, <1>2 DEF Holder, Holds

(* In a program without classes the entries of the stack are for slots     *)
(* that exist, slots hold references or om, and each running procedure is  *)
(* one of the program.                                                     *)
THEOREM TypeCorrect ==
    ASSUME ClassFree
    PROVE  Spec => []TypeOK
<1>1. ASSUME OwnersInv PROVE TypeOK
  <2>1. Sound(store) /\ OK(store) /\ Owned(store) /\ Linked(store) /\ ScopeInv /\ FramesOK(store.frames)
    BY <1>1 DEF OwnersInv, Sound, OK, Shape
  <2>2. ASSUME NEW i \in DOMAIN store.frames PROVE EntryOK(store.frames[i])
    <3>1. i \in 1..Len(store.frames)
      BY <2>1 DEF FramesOK
    <3>2. store.frames[i] \in Entry
      BY <2>1, <3>1, ElementOfSeq DEF FramesOK
    <3>3. store.frames[i].entry = "var" => store.frames[i].cell \in DOMAIN store.cells
      BY <2>1, <3>1 DEF Linked
    <3>4. QED
      BY <3>2, <3>3 DEF EntryOK, Entry
  <2>3. ASSUME NEW c \in DOMAIN store.cells PROVE store.cells[c] \in Nat
    <3>1. Holder(store, Om, c) /\ Holds(store, Om, c) = store.cells[c]
      BY DEF Holder, Holds
    <3>2. ValueOK(store, store.cells[c])
      BY <2>1, <3>1 DEF Owned
    <3>3. QED
      BY <2>1, <3>2 DEF ValueOK, OK, Shape, ObjsOK, Slots, Om
  <2>4. ASSUME NEW r \in DOMAIN store.objs
        PROVE  store.objs[r].kind \in {"list", "proc", "image", "object"}
    BY <2>1, NoObjects
  <2>5. ASSUME NEW i \in DOMAIN acts
        PROVE  acts[i].proc \in DOMAIN Code /\ acts[i].how \in {"call", "method", "new"}
    <3>1. acts \in Seq(Acts) /\ DOMAIN acts = 1..Len(acts)
      BY <2>1, ScopeFacts
    <3>2. acts[i] \in Acts
      BY <3>1, ElementOfSeq
    <3>3. QED
      BY <3>2 DEF Acts
  <2>6. left \in Nat
    BY <2>1, ScopeFacts
  <2>7. QED
    BY <2>2, <2>3, <2>4, <2>5, <2>6 DEF TypeOK
<1>2. QED
  BY <1>1, OwnersInvariant, PTL

(* In a program without classes no slot of a variable and no stack image   *)
(* holds what an assignment, a return or an exception has freed.           *)
THEOREM NoDanglingCorrect ==
    ASSUME ClassFree
    PROVE  Spec => []NoDangling
<1>1. ASSUME OwnersInv PROVE NoDangling
  <2>1. \A r, n : Holder(store, r, n) => ValueOK(store, Holds(store, r, n))
    BY <1>1 DEF OwnersInv, Sound, Owned
  <2>2. ASSUME NEW c \in Owners(store) PROVE Live(store.cells[c])
    BY <1>1, <2>1, VariablesOwn DEF Live, ValueOK
  <2>3. ASSUME NEW r \in Images(store), NEW n \in DOMAIN store.objs[r].vals
        PROVE  Live(store.objs[r].vals[n])
    BY <1>1, <2>1, ImagesHold DEF Live, ValueOK
  <2>4. QED
    BY <2>2, <2>3 DEF NoDangling
<1>2. QED
  BY <1>1, OwnersInvariant, PTL

(* In a program without classes no two slots of variables, no slot and     *)
(* stack image, and no two stack images hold the same value: frame_pop and *)
(* invalidation free it once.                                              *)
THEOREM OneOwnerCorrect ==
    ASSUME ClassFree
    PROVE  Spec => []OneOwner
<1>1. ASSUME OwnersInv PROVE OneOwner
  <2>1. ASSUME NEW r, NEW n, NEW q, NEW m, Holder(store, r, n), Holder(store, q, m),
               Holds(store, r, n) # Om, r # q \/ n # m
        PROVE  Holds(store, r, n) # Holds(store, q, m)
    BY <1>1, <2>1 DEF OwnersInv, Sound, Owned
  <2>2. ASSUME NEW c \in Owners(store), NEW d \in Owners(store), c # d, store.cells[c] # Om
        PROVE  store.cells[c] # store.cells[d]
    <3>1. /\ Holder(store, Om, c) /\ Holder(store, Om, d)
          /\ Holds(store, Om, c) = store.cells[c] /\ Holds(store, Om, d) = store.cells[d]
      BY <1>1, VariablesOwn
    <3>2. QED
      BY <2>1, <2>2, <3>1
  <2>3. Objects(store) = {}
    BY <1>1, VariablesOwn
  <2>4. ASSUME NEW r \in Images(store), NEW n \in DOMAIN store.objs[r].vals, store.objs[r].vals[n] # Om
        PROVE  /\ \A m \in DOMAIN store.objs[r].vals : n # m => store.objs[r].vals[n] # store.objs[r].vals[m]
               /\ \A c \in Owners(store) : store.objs[r].vals[n] # store.cells[c]
               /\ \A q \in Images(store) \ {r} : \A m \in DOMAIN store.objs[q].vals :
                     store.objs[r].vals[n] # store.objs[q].vals[m]
    <3>1. Holder(store, r, n) /\ Holds(store, r, n) = store.objs[r].vals[n]
      BY <1>1, ImagesHold
    <3>2. r # Om
      BY <1>1, ImageValues DEF OwnersInv, Images
    <3>3. ASSUME NEW m \in DOMAIN store.objs[r].vals, n # m
          PROVE  store.objs[r].vals[n] # store.objs[r].vals[m]
      <4>1. Holder(store, r, m) /\ Holds(store, r, m) = store.objs[r].vals[m]
        BY <1>1, ImagesHold
      <4>2. QED
        BY <2>1, <2>4, <3>1, <3>3, <4>1
    <3>4. ASSUME NEW c \in Owners(store)
          PROVE  store.objs[r].vals[n] # store.cells[c]
      <4>1. Holder(store, Om, c) /\ Holds(store, Om, c) = store.cells[c]
        BY <1>1, VariablesOwn
      <4>2. QED
        BY <2>1, <2>4, <3>1, <3>2, <4>1
    <3>5. ASSUME NEW q \in Images(store) \ {r}, NEW m \in DOMAIN store.objs[q].vals
          PROVE  store.objs[r].vals[n] # store.objs[q].vals[m]
      <4>1. Holder(store, q, m) /\ Holds(store, q, m) = store.objs[q].vals[m]
        BY <1>1, ImagesHold
      <4>2. QED
        BY <2>1, <2>4, <3>1, <3>5, <4>1
    <3>6. QED
      BY <3>3, <3>4, <3>5
  <2>5. QED
    BY <2>2, <2>3, <2>4 DEF OneOwner
<1>2. QED
  BY <1>1, OwnersInvariant, PTL

(* In a program without classes the slots that aliases and the registers   *)
(* of the running procedures point to exist, whatever returns free.        *)
THEOREM PointersLiveCorrect ==
    ASSUME ClassFree
    PROVE  Spec => []PointersLive
<1>1. ASSUME OwnersInv PROVE PointersLive
  <2>1. Sound(store) /\ FramesOK(store.frames) /\ ScopeInv
    BY <1>1 DEF OwnersInv, Sound, OK, Shape
  <2>2. DOMAIN acts = 1..Len(acts)
    BY <2>1, ScopeFacts
  <2>3. ASSUME NEW i \in DOMAIN acts, NEW n \in DOMAIN acts[i].defs
        PROVE  acts[i].defs[n] \in DOMAIN store.cells
    BY <1>1, <2>2, DefsLive
  <2>4. ASSUME NEW i \in Entries(store) PROVE store.frames[i].cell \in DOMAIN store.cells
    <3>1. i \in 1..Len(store.frames) /\ store.frames[i] # Boundary
      BY <2>1 DEF Entries, FramesOK
    <3>2. QED
      BY <2>1, <3>1, ReachedLive
  <2>5. QED
    BY <2>3, <2>4 DEF PointersLive
<1>2. QED
  BY <1>1, OwnersInvariant, PTL

(* In a program without classes a closure starts with what the names held  *)
(* where it was made, whatever has happened to them, or in earlier calls   *)
(* of it, since.                                                           *)
THEOREM CapturesKeptCorrect ==
    ASSUME ClassFree
    PROVE  Spec => CapturesKept
<1>1. ASSUME OwnersInv, [Next]_vars PROVE StartsAsCaptured
  <2>1. ScopeInv /\ acts \in Seq(Acts) /\ Len(acts) \in Nat \ {0}
    BY <1>1, ScopeFacts DEF OwnersInv
  <2>2. ASSUME Len(acts') # Len(acts) + 1 PROVE StartsAsCaptured
    BY <2>2 DEF StartsAsCaptured
  <2>3. Len(acts) # Len(acts) + 1
    BY <2>1
  <2>4. CASE acts' = acts
    BY <2>2, <2>3, <2>4
  <2>5. CASE \E d \in Defs, a \in Arguments : Call(d[1], a)
    BY <1>1, <2>5, CallStarts
  <2>6. CASE Return
    <3>1. acts' = Rest
      BY <2>6 DEF Return
    <3>2. Len(Rest) = Len(acts) - 1
      BY <2>1, <2>6, RestFacts DEF Return
    <3>3. QED
      BY <2>1, <2>2, <3>1, <3>2
  <2>7. CASE OpenTry \/ CloseTry
    <3>1. Len(acts') = Len(acts)
      BY <2>1, <2>7 DEF OpenTry, CloseTry
    <3>2. QED
      BY <2>2, <2>3, <3>1
  <2>8. CASE Raise
    <3>1. PICK k \in 1..Len(acts), A \in Seq(Acts) :
             Len(A) = k /\ \E x : acts' = [A EXCEPT ![k].sections = x]
      BY <2>1, <2>8, RaiseTo
    <3>2. Len(acts') = k
      BY <3>1
    <3>3. QED
      BY <2>1, <2>2, <3>1, <3>2
  <2>9. \/ acts' = acts \/ \E d \in Defs, a \in Arguments : Call(d[1], a)
        \/ Return \/ OpenTry \/ CloseTry \/ Raise
    <3>1. CASE UNCHANGED vars
      BY <3>1 DEF vars
    <3>2. CASE \E n \in Data : Assign(n)
      BY <3>2 DEF Assign
    <3>3. CASE \E n \in Data : Modify(n)
      BY <3>3 DEF Modify
    <3>4. CASE \E d \in Defs : Define(d[1], d[2])
      BY <3>4 DEF Define
    <3>5. QED
      BY <1>1, <3>1, <3>2, <3>3, <3>4, ClassFreeSteps
  <2>10. QED
    BY <2>4, <2>5, <2>6, <2>7, <2>8, <2>9
<1>2. QED
  BY <1>1, OwnersInvariant, PTL DEF Spec, CapturesKept
=============================================================================
