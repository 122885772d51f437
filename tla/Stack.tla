------------------------------ MODULE Stack ------------------------------
(***************************************************************************)
(* The interpreter's stack (src/src/interp/stack.rs) and the values its    *)
(* entries own (src/src/interp/heap.rs).  A store is a record              *)
(*   frames  the entries, innermost last: a boundary, a variable with its  *)
(*           slot, or an alias for a slot owned by someone else            *)
(*   cells   the slots, Box<InterpVal>: what each holds, Om or a reference *)
(*   objs    the heap objects references are to                            *)
(* An object is a list, a procedure (with the stack image of a closure, or *)
(* Om), a stack image, or a class object, which owns a slot per member.    *)
(* What a list holds is opaque, and members are no class objects           *)
(* themselves: a copy is at most two levels deep.                          *)
(***************************************************************************)
EXTENDS Integers, Sequences, FiniteSets, SequencesExt, FiniteSetsExt

Om == 0         \* InterpVal::Undefined
NoCell == 0

Boundary == [entry |-> "boundary"]
Variable(n, c) == [entry |-> "var", name |-> n, cell |-> c]
AliasOf(n, c, cross) == [entry |-> "alias", name |-> n, cell |-> c, cross |-> cross]

List(v) == [kind |-> "list", val |-> v]
Procedure(p, i) == [kind |-> "proc", proc |-> p, image |-> i]
Image(vals) == [kind |-> "image", vals |-> vals]
Object(members) == [kind |-> "object", members |-> members]

Empty == [n \in {} |-> Om]

With(f, x, v) == [y \in DOMAIN f \union {x} |-> IF y = x THEN v ELSE f[y]]

Without(f, S) == [x \in DOMAIN f \ S |-> f[x]]

(* Every position that refers to something no longer there keeps its name  *)
(* from being given to something new.                                      *)
Fresh(used) == CHOOSE i \in 1..(Cardinality(used) + 1) :
                  i \notin used /\ \A j \in 1..(i - 1) : j \in used

CellsNamed(s) ==
    DOMAIN s.cells \union {s.frames[i].cell : i \in {j \in DOMAIN s.frames :
                                                       s.frames[j].entry = "alias"}}

ObjsNamed(s) == DOMAIN s.objs \union ({s.cells[c] : c \in DOMAIN s.cells} \ {Om})

(* Operations that return something return <<store, result>>, and many     *)
(* below go on from such a pair.                                           *)
AllocAt(s, r, obj) == <<[s EXCEPT !.objs = With(@, r, obj)], r>>

Alloc(s, obj) == AllocAt(s, Fresh(ObjsNamed(s)), obj)

CellAt(s, c, v) == <<[s EXCEPT !.cells = With(@, c, v)], c>>

NewCell(s, v) == CellAt(s, Fresh(CellsNamed(s)), v)

Boxed(val) == NewCell(val[1], val[2])

(* The result is what f has for n. *)
Bind(n, res, f) == <<res[1], With(f, n, res[2])>>

-----------------------------------------------------------------------------
(* InterpVal::unshare: a copy that shares nothing with the original, but   *)
(* for the stack image of a procedure.  A copy of om is om, and a copy of  *)
(* what is gone is a reference to nothing.                                 *)
UnshareFlat(s, v) == IF v \in DOMAIN s.objs THEN Alloc(s, s.objs[v]) ELSE <<s, v>>

(* A slip: the members of the copy hold what those of the original do. *)
UnshareSlots(s, members) ==
    FoldSet(LAMBDA n, acc : Bind(n, NewCell(acc[1], s.cells[members[n]]), acc[2]),
            <<s, Empty>>, DOMAIN members)

UnshareMembers(s, members) ==
    FoldSet(LAMBDA n, acc : Bind(n, Boxed(UnshareFlat(acc[1], s.cells[members[n]])), acc[2]),
            <<s, Empty>>, DOMAIN members)

AllocObject(members) == Alloc(members[1], Object(members[2]))

Unshare(s, v) ==
    IF v \in DOMAIN s.objs /\ s.objs[v].kind = "object"
    THEN AllocObject(UnshareMembers(s, s.objs[v].members))
    ELSE UnshareFlat(s, v)

(* InterpObjRef::invalidate: a class object takes its members with it, a   *)
(* procedure or a stack image nothing.                                     *)
Boxes(s, v) ==
    IF s.objs[v].kind = "object"
    THEN {s.objs[v].members[n] : n \in DOMAIN s.objs[v].members} ELSE {}

InvalidateAll(s, values) ==
    LET gone == values \cap DOMAIN s.objs
        boxes == UNION {Boxes(s, v) : v \in gone}
    IN  [s EXCEPT !.objs = Without(@, gone \union {s.cells[c] : c \in boxes}),
                  !.cells = Without(@, boxes)]

Invalidate(s, v) == InvalidateAll(s, {v})

(* InterpVal::crosses_frames: procedures made by an expression all do.     *)
CrossesFrames(s, v) == v \in DOMAIN s.objs /\ s.objs[v].kind = "proc"

-----------------------------------------------------------------------------
FramePush(s) == [s EXCEPT !.frames = Append(@, Boundary)]

(* A slip: the search starts at the other end. *)
FirstBoundary(frames) ==
    LET B == {i \in DOMAIN frames : frames[i] = Boundary} IN IF B = {} THEN 0 ELSE Min(B)

Innermost(P) == IF P = {} THEN 0 ELSE Max(P)

LastBoundary(frames) == Innermost({i \in DOMAIN frames : frames[i] = Boundary})

(* Entries from position pos on are removed, with the slots of variables.  *)
VarCells(frames, pos) ==
    {frames[i].cell : i \in {j \in DOMAIN frames : j >= pos /\ frames[j].entry = "var"}}

(* Slips: one entry too few goes; the slots go but not the entries. *)
TruncateAfter(s, pos) ==
    [s EXCEPT !.frames = SubSeq(@, 1, pos), !.cells = Without(@, VarCells(s.frames, pos))]

TruncateSlots(s, pos) == [s EXCEPT !.cells = Without(@, VarCells(s.frames, pos))]

Truncate(s, pos) ==
    [s EXCEPT !.frames = SubSeq(@, 1, pos - 1), !.cells = Without(@, VarCells(s.frames, pos))]

LastFrame(s) == IF LastBoundary(s.frames) = 0 THEN 1 ELSE LastBoundary(s.frames)

(* A slip: what aliases refer to is invalidated as well. *)
FramePopAliased(s) ==
    LET slots == {s.frames[i].cell : i \in {j \in LastFrame(s)..Len(s.frames) :
                                              s.frames[j] # Boundary}}
    IN  Truncate(InvalidateAll(s, {s.cells[c] : c \in slots}), LastFrame(s))

(* frame_pop: without a boundary everything goes.  What the variables hold *)
(* is invalidated.                                                         *)
FramePop(s) ==
    LET freed == {s.cells[c] : c \in VarCells(s.frames, LastFrame(s))}
    IN  Truncate(InvalidateAll(s, freed), LastFrame(s))

(* A slip: the entry next to the boundary is not in the frame. *)
AccessibleWithin(s, i) ==
    LET e == s.frames[i]
    IN  \/ i > LastBoundary(s.frames) + 1
        \/ e.entry = "alias" /\ e.cross
        \/ e.cell \in DOMAIN s.cells /\ CrossesFrames(s, s.cells[e.cell])

(* get_pos, get: the innermost entry of that name which is in the current  *)
(* frame or crosses frames.                                                *)
Accessible(s, i) ==
    LET e == s.frames[i]
    IN  \/ i > LastBoundary(s.frames)
        \/ e.entry = "alias" /\ e.cross
        \/ e.cell \in DOMAIN s.cells /\ CrossesFrames(s, s.cells[e.cell])

GetPos(s, n) ==
    Innermost({i \in DOMAIN s.frames : s.frames[i] # Boundary /\ s.frames[i].name = n
                                          /\ Accessible(s, i)})

CellOf(s, i) == IF i = 0 THEN NoCell ELSE s.frames[i].cell

Get(s, n) == CellOf(s, GetPos(s, n))

(* The new variable starts as a copy of the accessible entry of its name.  *)
Inherited(s, c) == IF c = NoCell THEN <<s, Om>> ELSE Unshare(s, s.cells[c])

PushVariable(box, n) == <<[box[1] EXCEPT !.frames = Append(@, Variable(n, box[2]))], box[2]>>

Add(s, n) == PushVariable(Boxed(Inherited(s, Get(s, n))), n)

Alias(s, n, c, cross) == [s EXCEPT !.frames = Append(@, AliasOf(n, c, cross))]

(* pop removes an entry; the slot goes, what it held is not invalidated.   *)
DropEntry(s, i) ==
    [s EXCEPT !.frames = RemoveAt(@, i),
              !.cells = IF s.frames[i].entry = "var" THEN Without(@, {s.frames[i].cell}) ELSE @]

(* A slip: only variables are looked for. *)
PopVariable(s, n) ==
    IF GetPos(s, n) = 0 \/ s.frames[GetPos(s, n)].entry # "var" THEN s
    ELSE DropEntry(s, GetPos(s, n))

Pop(s, n) == DropEntry(s, GetPos(s, n))

(* BuiltinProc::StackGetOrNew; classes are not in the store. *)
GetOrNew(s, n) == IF Get(s, n) = NoCell THEN Add(s, n) ELSE <<s, Get(s, n)>>

-----------------------------------------------------------------------------
(* A stack image: copies of what the entries at positions P hold, for each *)
(* name the innermost.  (frame_save copies the hidden ones too, and drops   *)
(* the copies, which nothing frees; they are left out here.)               *)
HeldBy(s, P, n) == s.cells[s.frames[Max({i \in P : s.frames[i].name = n})].cell]

ImageOf(s, P) ==
    FoldSet(LAMBDA n, acc : Bind(n, Unshare(acc[1], HeldBy(s, P, n)), acc[2]),
            <<s, Empty>>, {s.frames[i].name : i \in P})

Entries(s) == {i \in DOMAIN s.frames : s.frames[i] # Boundary}

Frame(s) == {i \in Entries(s) : i > LastBoundary(s.frames)}

(* A slip: the frame is popped, its values were moved to the image. *)
FrameSaveMoved(s) ==
    <<FramePop(s), [n \in {s.frames[i].name : i \in Frame(s)} |-> HeldBy(s, Frame(s), n)]>>

(* frame_save: the frame becomes an image.  The entries go without         *)
(* invalidating what the slots hold.                                       *)
TornDown(image, b) == <<IF b = 0 THEN image[1] ELSE Truncate(image[1], b), image[2]>>

FrameSave(s) == TornDown(ImageOf(s, Frame(s)), LastBoundary(s.frames))

(* copy_reachable: whatever get can find. *)
CopyReachable(s) == ImageOf(s, {i \in Entries(s) : Accessible(s, i)})

(* A slip: the variables hold what the image does. *)
FrameRestoreShared(s, image) ==
    FoldSet(LAMBDA n, acc : PushVariable(NewCell(acc, image[n]), n)[1], s, DOMAIN image)

(* frame_restore: a variable for each entry of the image, with a copy.     *)
FrameRestore(s, image) ==
    FoldSet(LAMBDA n, acc : PushVariable(Boxed(Unshare(acc, image[n])), n)[1], s, DOMAIN image)

-----------------------------------------------------------------------------
(* Class objects.  object_add replaces a member that is there already.     *)
AddSlot(box, r, n, members) ==
    LET old == IF n \in DOMAIN members THEN {members[n]} ELSE {}
    IN  <<[box[1] EXCEPT !.objs[r] = Object(With(members, n, box[2])),
                         !.cells = Without(@, old)], box[2]>>

ObjectAdd(s, r, n) == AddSlot(NewCell(s, Om), r, n, s.objs[r].members)

(* object_add_image: the values of the image become members.               *)
SetCell(at, v) == [at[1] EXCEPT !.cells[at[2]] = v]

ObjectAddImage(s, r, image) ==
    FoldSet(LAMBDA n, acc : SetCell(ObjectAdd(acc, r, n), image[n]), s, DOMAIN image)
=========================================================================
