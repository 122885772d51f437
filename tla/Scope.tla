------------------------------ MODULE Scope ------------------------------
(***************************************************************************)
(* Calls and the interpreter's stack: what the code emitted for procedures *)
(* (src/src/ir/lower/proc.rs), closures, constructors (stmt/class.rs),     *)
(* method calls (expr/access_expr.rs) and assignments (assign.rs) does to  *)
(* the store.  The program is any program over a few names: in each state  *)
(* the running procedure executes some statement.                          *)
(*   store  the stack and the values it owns                               *)
(*   acts   the procedures that run, innermost last                        *)
(* and two history variables, which nothing reads:                         *)
(*   seen   what the names accessible where a closure was made held        *)
(*   left   how many procedures an exception has left                      *)
(***************************************************************************)
EXTENDS Stack

CONSTANTS
    Code,       \* Code[p]: how procedure p starts
    Main,
    Lists,      \* what a list may hold
    Data,       \* the names that lists are assigned to
    Defs,       \* pairs: a name, and a procedure expression assigned to it
    Instances,  \* pairs: a name, and a class constructed for it
    Arguments,  \* the names given to calls
    Copies,     \* pairs: members m and n of assignments o.m := o.n
    Raising,    \* whether statements may raise exceptions
    MaxCalls, MaxObjs, MaxEntries, MaxSections

(* How procedures start: whether it is a closure, its parameter ("" for    *)
(* none) and whether that is passed by reference, the members of this it   *)
(* assigns to, and its variables.                                          *)
ASSUME CodeAssumption ==
    \A p \in DOMAIN Code :
        /\ Code[p].closure \in BOOLEAN /\ Code[p].rw \in BOOLEAN
        /\ Code[p].param \in STRING
        /\ Code[p].own \in Seq(STRING) /\ Code[p].locals \in Seq(STRING)

ASSUME MainAssumption == Main \in DOMAIN Code /\ Code[Main].param = ""

(* Names are strings; that this is one, the provers have to be told.       *)
ASSUME NamesAssumption ==
    /\ "this" \in STRING
    /\ Data \subseteq STRING /\ Arguments \subseteq STRING
    /\ \A d \in Defs \union Instances : d[1] \in STRING /\ d[2] \in DOMAIN Code
    /\ \A c \in Copies : c[1] \in STRING /\ c[2] \in STRING

VARIABLES store, acts, seen, left

vars == <<store, acts, seen, left>>

Top == acts[Len(acts)]

(* A procedure that runs: how it was called, the registers that hold slots *)
(* of its variables (defs) or the values this refers to in the calls it    *)
(* makes (temps), its open try sections, and the frames before the call.   *)
Activation(p, how, image, base, defs) ==
    [proc |-> p, how |-> how, image |-> image, defs |-> defs, sections |-> 0,
     temps |-> {}, this |-> NoCell, to |-> "", base |-> base]

(* A name the lowering has seen defined is a register with the slot; any   *)
(* other is looked up when it is used.                                     *)
Resolve(s, n) == IF n \in DOMAIN Top.defs THEN <<s, Top.defs[n]>> ELSE GetOrNew(s, n)

(* assign_var: the new value is made before the old one is invalidated.    *)
Put(s, c, v) == [Invalidate(s, s.cells[c]) EXCEPT !.cells[c] = v]

Kind(s, v) ==
    IF v \in DOMAIN s.objs THEN s.objs[v].kind ELSE IF v = Om THEN "om" ELSE "gone"

(* Nothing is said of what follows the use of a slot that is gone. *)
IsKind(s, c, kind) == c \in DOMAIN s.cells /\ Kind(s, s.cells[c]) = kind

-----------------------------------------------------------------------------
(* What procedure_new emits before the body.  acc is <<store, defs>>.      *)
AddLocal(acc, n) == Bind(n, Add(acc[1], n), acc[2])

(* Members assigned as this.n in the body (proc_vars_push). *)
AliasMember(at, n) == <<Alias(at[1], n, at[2], TRUE), at[2]>>

AddOwn(acc, r, n) == Bind(n, AliasMember(ObjectAdd(acc[1], r, n), n), acc[2])

AddLocals(acc, names) == FoldLeft(AddLocal, acc, names)

AddOwns(acc, r, names) == FoldLeft(LAMBDA bound, n : AddOwn(bound, r, n), acc, names)

Variables(acc, p) ==
    LET this == Get(acc[1], "this")
        own == IF IsKind(acc[1], this, "object")
               THEN AddOwns(acc, acc[1].cells[this], Code[p].own) ELSE acc
    IN  AddLocals(own, Code[p].locals)

(* A parameter: an alias for the argument, or a variable with a copy.      *)
ByReference(acc, n, arg) ==
    <<Alias(acc[1], n, arg, FALSE), With(acc[2], n, arg)>>

Filled(val, c) == <<[val[1] EXCEPT !.cells[c] = val[2]], c>>

CopyInto(at, arg) == Filled(Unshare(at[1], at[1].cells[arg]), at[2])

(* A slip: the argument itself is stored. *)
ShareInto(at, arg) == Filled(<<at[1], at[1].cells[arg]>>, at[2])

ByValueShared(acc, n, arg) == Bind(n, ShareInto(Add(acc[1], n), arg), acc[2])

ByValue(acc, n, arg) == Bind(n, CopyInto(Add(acc[1], n), arg), acc[2])

Parameter(acc, p, arg) ==
    CASE Code[p].param = "" -> acc
      [] Code[p].param # "" /\ Code[p].rw -> ByReference(acc, Code[p].param, arg)
      [] Code[p].param # "" /\ ~Code[p].rw -> ByValue(acc, Code[p].param, arg)

Framed(s, image) ==
    IF image = Om THEN FramePush(s) ELSE FrameRestore(FramePush(s), s.objs[image].vals)

Enter(s, p, image, arg) == Parameter(Variables(<<Framed(s, image), Empty>>, p), p, arg)

(* Nothing is said of a call whose image is gone, or that adds members to  *)
(* what is no object (ObjectAdd raises an exception, or reads what is gone). *)
Enterable(s, p, image) ==
    /\ image # Om => Kind(s, image) = "image"
    /\ LET this == Get(Framed(s, image), "this")
       IN  Code[p].own = <<>> \/ this = NoCell \/ IsKind(Framed(s, image), this, "object")

-----------------------------------------------------------------------------
Init ==
    /\ LET entered == Enter([frames |-> <<>>, cells |-> Empty, objs |-> Empty], Main, Om, NoCell)
       IN  /\ store = entered[1]
           /\ acts = <<Activation(Main, "call", Om, <<>>, entered[2])>>
    /\ seen = Empty
    /\ left = 0

(* The bounds on what a step may lead to. *)
WithinBounds ==
    /\ Len(acts) <= MaxCalls
    /\ Cardinality(DOMAIN store.objs) <= MaxObjs
    /\ Len(store.frames) <= MaxEntries

(* n := a new list, or n += ...: the second form also for a name that is   *)
(* no variable of the procedure.  New lists are equal; Modify tells them   *)
(* apart.                                                                  *)
NewList == List(CHOOSE l \in Lists : TRUE)

(* The registers hold slots that exist (see PointersLive); nothing is said *)
(* of what a procedure does whose slots are gone.                          *)
Intact == \A n \in DOMAIN Top.defs : Top.defs[n] \in DOMAIN store.cells

Assign(n) ==
    /\ Intact
    /\ LET at == Resolve(store, n)
           new == Alloc(at[1], NewList)
       IN  store' = Put(new[1], at[2], new[2])
    /\ UNCHANGED <<acts, seen, left>>
    /\ WithinBounds'

(* n[i] := ...: the list n holds changes in place. *)
Modify(n) ==
    /\ Intact
    /\ LET at == Resolve(store, n)
           r == at[1].cells[at[2]]
       IN  /\ IsKind(at[1], at[2], "list")
           /\ \E l \in Lists \ {at[1].objs[r].val} : store' = [at[1] EXCEPT !.objs[r] = List(l)]
    /\ UNCHANGED <<acts, seen, left>>

(* o.n := a new list; the member is added when there is none. *)
Member(s, r, n) ==
    IF n \in DOMAIN s.objs[r].members THEN <<s, s.objs[r].members[n]>> ELSE ObjectAdd(s, r, n)

AssignMember(o, n) ==
    /\ Intact
    /\ LET head == Resolve(store, o)
           r == head[1].cells[head[2]]
       IN  /\ IsKind(head[1], head[2], "object")
           /\ LET new == Alloc(head[1], NewList)
                  at == Member(new[1], r, n)
              IN  store' = Put(at[1], at[2], new[2])
    /\ UNCHANGED <<acts, seen, left>>
    /\ WithinBounds'

(* o.m := o.n: what o.n holds is borrowed, and copied after the old value  *)
(* of o.m is invalidated (assign_accessible).                              *)
CopyMember(o, m, n) ==
    /\ Intact
    /\ LET head == Resolve(store, o)
           r == head[1].cells[head[2]]
       IN  /\ IsKind(head[1], head[2], "object")
           /\ LET from == Member(head[1], r, n)
                  to == Member(from[1], r, m)
                  freed == Invalidate(to[1], to[1].cells[to[2]])
                  copy == Unshare(freed, to[1].cells[from[2]])
              IN  store' = [copy[1] EXCEPT !.cells[to[2]] = copy[2]]
    /\ UNCHANGED <<acts, seen, left>>
    /\ WithinBounds'

(* What a value is made of, for the properties. *)
Content(s, v) ==
    LET Flat(u) == IF u \in DOMAIN s.objs THEN s.objs[u] ELSE List(Om)
    IN  IF Kind(s, v) # "object" THEN Flat(v)
        ELSE [m \in DOMAIN s.objs[v].members |-> Flat(s.cells[s.objs[v].members[m]])]

Visible(s) == {n \in {s.frames[i].name : i \in Entries(s)} : Get(s, n) # NoCell}

(* n := procedure or closure p.  A name assigned to this way is always a   *)
(* variable of the procedure.  A closure takes a copy of everything that   *)
(* is accessible here.                                                     *)
Define(n, p) ==
    /\ Intact
    /\ n \in DOMAIN Top.defs
    /\ LET copied == CopyReachable(store)
           image == Alloc(copied[1], Image(copied[2]))
           new == IF Code[p].closure THEN Alloc(image[1], Procedure(p, image[2]))
                  ELSE Alloc(store, Procedure(p, Om))
       IN  /\ store' = Put(new[1], Top.defs[n], new[2])
           /\ seen' = IF ~Code[p].closure THEN seen
                      ELSE With(seen, image[2], [m \in Visible(store) |->
                                                  Content(store, store.cells[Get(store, m)])])
    /\ UNCHANGED <<acts, left>>
    /\ WithinBounds'

(* f(a): a slot for the argument is looked up in the caller. *)
Argument(p, s, a) == IF Code[p].param = "" THEN <<s, NoCell>> ELSE Resolve(s, a)

Call(f, a) ==
    LET head == Resolve(store, f)
        fn == head[1].cells[head[2]]
    IN  /\ Intact
        /\ IsKind(head[1], head[2], "proc")
        /\ LET p == head[1].objs[fn].proc
               image == head[1].objs[fn].image
               arg == Argument(p, head[1], a)
               entered == Enter(arg[1], p, image, arg[2])
           IN  /\ Enterable(arg[1], p, image)
               /\ store' = entered[1]
               /\ acts' = Append(acts, Activation(p, "call", image, arg[1].frames, entered[2]))
        /\ UNCHANGED <<seen, left>>
        /\ WithinBounds'

(* n := k(...): the constructor holds the object in a register and names   *)
(* it this in the frame of its caller, before it adds its own.             *)
Construct(n, k, a) ==
    /\ Intact
    /\ n \in DOMAIN Top.defs
    /\ LET arg == Argument(k, store, a)
           obj == Alloc(arg[1], Object(Empty))
           reg == NewCell(obj[1], obj[2])
           named == Alias(reg[1], "this", reg[2], TRUE)
           entered == Enter(named, k, Om, arg[2])
       IN  /\ Enterable(named, k, Om)
           /\ store' = entered[1]
           /\ acts' = Append(acts, [Activation(k, "new", Om, arg[1].frames, entered[2])
                                      EXCEPT !.temps = {reg[2]}, !.this = reg[2], !.to = n])
    /\ UNCHANGED <<seen, left>>
    /\ WithinBounds'

(* o.m(a): a frame with aliases for the object, held in a register of the  *)
(* caller, and for its members (block_obj_call_impl_push).                 *)
MemberAliases(s, r) ==
    FoldSet(LAMBDA m, acc : Alias(acc, m, s.objs[r].members[m], TRUE), s,
            DOMAIN s.objs[r].members)

CallMethod(o, m, a) ==
    LET head == Resolve(store, o)
        r == head[1].cells[head[2]]
    IN  /\ Intact
        /\ IsKind(head[1], head[2], "object") /\ m \in DOMAIN head[1].objs[r].members
        /\ LET fn == head[1].cells[head[1].objs[r].members[m]]
           IN  /\ Kind(head[1], fn) = "proc"
               /\ LET p == head[1].objs[fn].proc
                      image == head[1].objs[fn].image
                      arg == Argument(p, head[1], a)
                      reg == NewCell(arg[1], r)
                      this == Alias(FramePush(reg[1]), "this", reg[2], TRUE)
                      named == MemberAliases(this, r)
                      entered == Enter(named, p, image, arg[2])
                  IN  /\ Enterable(named, p, image)
                      /\ store' = entered[1]
                      /\ acts' = Append([acts EXCEPT ![Len(acts)].temps = @ \union {reg[2]}],
                                        [Activation(p, "method", image, arg[1].frames, entered[2])
                                           EXCEPT !.this = reg[2]])
        /\ UNCHANGED <<seen, left>>
        /\ WithinBounds'

-----------------------------------------------------------------------------
Rest == SubSeq(acts, 1, Len(acts) - 1)

Drop(s, cells) == [s EXCEPT !.cells = Without(@, cells)]

(* The program itself goes on for ever. *)
Return ==
    /\ Top.how = "call" /\ Len(acts) > 1
    /\ store' = Drop(FramePop(store), Top.temps)
    /\ acts' = Rest
    /\ UNCHANGED <<seen, left>>

(* A slip: only the method's own frame goes. *)
ReturnMethodOnce ==
    /\ Top.how = "method"
    /\ store' = Drop(FramePop(store), Top.temps \union {Top.this})
    /\ acts' = [Rest EXCEPT ![Len(Rest)].temps = @ \ {Top.this}]
    /\ UNCHANGED <<seen, left>>

(* The method's own frame, then, in the caller, the one with the aliases.  *)
ReturnMethod ==
    /\ Top.how = "method"
    /\ store' = Drop(FramePop(FramePop(store)), Top.temps \union {Top.this})
    /\ acts' = [Rest EXCEPT ![Len(Rest)].temps = @ \ {Top.this}]
    /\ UNCHANGED <<seen, left>>

(* The frame of the constructor becomes the members of the object, which   *)
(* the caller then assigns.                                                *)
ReturnObject ==
    /\ Top.how = "new"
    /\ IsKind(store, Top.this, "object")
    /\ LET saved == FrameSave(store)
           r == store.cells[Top.this]
           object == ObjectAddImage(Pop(saved[1], "this"), r, saved[2])
       IN  store' = Put(Drop(object, Top.temps), acts[Len(acts) - 1].defs[Top.to], r)
    /\ acts' = Rest
    /\ UNCHANGED <<seen, left>>
    /\ WithinBounds'

OpenTry ==
    /\ Raising /\ Top.sections < MaxSections
    /\ acts' = [acts EXCEPT ![Len(acts)].sections = @ + 1]
    /\ UNCHANGED <<store, seen, left>>

CloseTry ==
    /\ Top.sections > 0
    /\ acts' = [acts EXCEPT ![Len(acts)].sections = @ - 1]
    /\ UNCHANGED <<store, seen, left>>

(* An exception leaves activation i: its registers go, with the object of  *)
(* a constructor; the caller of a method pops a frame and rethrows.        *)
Unwind(a, s) ==
    LET freed == Drop(IF a.how = "new" THEN Invalidate(s, s.cells[a.this]) ELSE s, a.temps)
    IN  IF a.how = "method" THEN FramePop(freed) ELSE freed

UnwindAll(calls, s) == FoldRight(Unwind, calls, s)

Raise ==
    /\ \E i \in DOMAIN acts : acts[i].sections > 0
    /\ LET to == CHOOSE i \in DOMAIN acts : acts[i].sections > 0
                                 /\ \A j \in DOMAIN acts : acts[j].sections > 0 => j <= i
       IN  /\ store' = UnwindAll(SubSeq(acts, to + 1, Len(acts)), store)
           /\ acts' = [SubSeq(acts, 1, to) EXCEPT ![to].sections = @ - 1]
           /\ left' = left + (Len(acts) - to)
    /\ UNCHANGED seen

-----------------------------------------------------------------------------
ObjectNames ==
    IF Instances = {} THEN {}
    ELSE {"this"} \union {d[1] : d \in Instances} \union ({Code[d[2]].param : d \in Defs} \ {""})

Next ==
    \/ \E n \in Data : Assign(n)
    \/ \E n \in Data : Modify(n)
    \/ \E o \in ObjectNames, n \in Data : AssignMember(o, n)
    \/ \E o \in ObjectNames, c \in Copies : CopyMember(o, c[1], c[2])
    \/ \E d \in Defs : Define(d[1], d[2])
    \/ \E d \in Defs, a \in Arguments : Call(d[1], a)
    \/ \E d \in Instances, a \in Arguments : Construct(d[1], d[2], a)
    \/ \E o \in ObjectNames, m \in Defs, a \in Arguments : CallMethod(o, m[1], a)
    \/ Return
    \/ ReturnMethod
    \/ ReturnObject
    \/ OpenTry
    \/ CloseTry
    \/ Raise

Spec == Init /\ [][Next]_vars

-----------------------------------------------------------------------------
(* Types: entries of the stack are well formed, a procedure runs for each  *)
(* activation, and there is a value or om in every slot.                   *)
EntryOK(e) ==
    \/ e = Boundary
    \/ e.entry = "var" /\ e.cell \in DOMAIN store.cells
    \/ e.entry = "alias" /\ e.cell \in Nat /\ e.cross \in BOOLEAN

TypeOK ==
    /\ \A i \in DOMAIN store.frames : EntryOK(store.frames[i])
    /\ \A c \in DOMAIN store.cells : store.cells[c] \in Nat
    /\ \A r \in DOMAIN store.objs : store.objs[r].kind \in {"list", "proc", "image", "object"}
    /\ \A i \in DOMAIN acts : acts[i].proc \in DOMAIN Code /\ acts[i].how \in {"call", "method", "new"}
    /\ left \in Nat

(* Slots that own what they hold: those of variables and members.  The     *)
(* registers methods and constructors name this borrow or own an object.   *)
Objects(s) == {r \in DOMAIN s.objs : s.objs[r].kind = "object"}

Members(s) == UNION {LET o == s.objs[r].members IN {o[n] : n \in DOMAIN o} : r \in Objects(s)}

Owners(s) == VarCells(s.frames, 1) \union Members(s)

Images(s) == {r \in DOMAIN s.objs : s.objs[r].kind = "image"}

(***************************************************************************)
(* A heap object has one owner: no two slots, and no slot and stack image, *)
(* hold the same reference, and no two objects the same slot.  frame_pop   *)
(* and assignments free what a slot holds without looking for another      *)
(* holder.                                                                 *)
(***************************************************************************)
OneOwner ==
    /\ \A c, d \in Owners(store) :
          c # d /\ store.cells[c] # Om => store.cells[c] # store.cells[d]
    /\ \A r \in Objects(store) :
          LET Slots(q) == {store.objs[q].members[n] : n \in DOMAIN store.objs[q].members}
          IN  /\ Cardinality(Slots(r)) = Cardinality(DOMAIN store.objs[r].members)
              /\ \A q \in Objects(store) \ {r} : Slots(r) \cap Slots(q) = {}
    /\ \A r \in Images(store) : LET vals == store.objs[r].vals IN
          /\ \A m, n \in DOMAIN vals : m # n /\ vals[m] # Om => vals[m] # vals[n]
          /\ \A m \in DOMAIN vals, c \in Owners(store) : vals[m] # Om => vals[m] # store.cells[c]
          /\ \A q \in Images(store) \ {r}, m \in DOMAIN vals :
                \A n \in DOMAIN store.objs[q].vals : vals[m] # Om => vals[m] # store.objs[q].vals[n]

(***************************************************************************)
(* Nothing that can still be used refers to what is gone: slots and images *)
(* hold live objects, and the slots that aliases and the registers of the  *)
(* running procedures point to exist.                                      *)
(***************************************************************************)
Live(v) == v = Om \/ v \in DOMAIN store.objs

NoDangling ==
    /\ \A c \in Owners(store) : Live(store.cells[c])
    /\ \A r \in Images(store) : \A n \in DOMAIN store.objs[r].vals : Live(store.objs[r].vals[n])

PointersLive ==
    /\ \A i \in DOMAIN acts : \A n \in DOMAIN acts[i].defs : acts[i].defs[n] \in DOMAIN store.cells
    /\ \A i \in Entries(store) : store.frames[i].cell \in DOMAIN store.cells

(***************************************************************************)
(* What the stack was when a procedure was called is still at its bottom   *)
(* while the procedure runs, whatever it calls and however that is left.   *)
(***************************************************************************)
CallerFramesKept ==
    \A i \in DOMAIN acts : IsPrefix(acts[i].base, store.frames)

(* Each procedure that runs has its frames on the stack, and each one an   *)
(* exception has left still has one.                                       *)
FramesCounted ==
    LET boundaries == Cardinality({i \in DOMAIN store.frames : store.frames[i] = Boundary})
        methods == Cardinality({i \in DOMAIN acts : acts[i].how = "method"})
    IN  boundaries = Len(acts) + methods + left

(***************************************************************************)
(* this names an object only while a method or the constructor runs for    *)
(* it: return takes away the aliases the call made.                        *)
(***************************************************************************)
ThisScoped ==
    \A i \in Entries(store) : store.frames[i].name = "this" =>
        \E j \in DOMAIN acts : acts[j].this = store.frames[i].cell /\ acts[j].this # NoCell

(***************************************************************************)
(* The two ways to find a variable agree: the slot in the register of the  *)
(* running procedure is the one a lookup by name finds, which is what a    *)
(* closure captures and a nested call sees; unless an exception has left   *)
(* a frame on top of it.                                                   *)
(***************************************************************************)
NamesAgree ==
    left = 0 => \A n \in DOMAIN Top.defs : Get(store, n) = Top.defs[n]

(***************************************************************************)
(* A closure starts with what the names held where it was made, whatever   *)
(* has happened to them, or in earlier calls of it, since.                 *)
(***************************************************************************)
StartsAsCaptured ==
    LET a == acts'[Len(acts')]
        captured == DOMAIN seen[a.image] \ {Code[a.proc].param}
    IN  Len(acts') = Len(acts) + 1 /\ a.image # Om =>
            \A n \in captured : Get(store', n) # NoCell
                                  /\ Content(store', store'.cells[Get(store', n)]) = seen[a.image][n]

CapturesKept == [][StartsAsCaptured]_vars

(***************************************************************************)
(* A call that returns leaves the stack of its caller as it was, unless an *)
(* exception has left a frame in it.                                       *)
(***************************************************************************)
Restored ==
    left' = 0 /\ Len(acts') = Len(acts) - 1 =>
        store'.frames = Top.base

ReturnRestores == [][Restored]_vars

(***************************************************************************)
(* A procedure changes no variable of one that waits for it, unless the    *)
(* variable was passed by reference, is an object whose method runs, or     *)
(* holds a procedure, which is accessible across frames.                   *)
(***************************************************************************)
Aliased(s) == {s.frames[i].cell : i \in {j \in Entries(s) : s.frames[j].entry = "alias"}}

Shared(s) ==
    Aliased(s) \union {c \in Owners(s) : s.cells[c] \in {s.cells[d] : d \in Aliased(s)}}

Private(s, a) ==
    {c \in {a.defs[n] : n \in DOMAIN a.defs} \ Shared(s) : Kind(s, s.cells[c]) # "proc"}

Untouched ==
    \A i \in DOMAIN acts : i < Len(acts) /\ i < Len(acts') =>
        \A c \in Private(store, acts[i]) :
            c \in DOMAIN store'.cells
              /\ Content(store', store'.cells[c]) = Content(store, store.cells[c])

CallersUntouched == [][Untouched]_vars

(***************************************************************************)
(* A method starts with the members of its object as they are: calling it  *)
(* gives it access to them by reference and changes none.                  *)
(***************************************************************************)
StartsWithMembers ==
    LET a == acts'[Len(acts')]
        r == store'.cells[a.this]
    IN  Len(acts') > Len(acts) /\ a.how = "method" => Content(store', r) = Content(store, r)

MembersKept == [][StartsWithMembers]_vars

(***************************************************************************)
(* When an exception leaves a method, the frame with this and the aliases  *)
(* is torn down before the exception goes on.                              *)
(***************************************************************************)
MethodTornDown ==
    left' = left + 1 /\ Top.how = "method" =>
        \A i \in Entries(store') :
            ~ (store'.frames[i].name = "this" /\ store'.frames[i].cell = Top.this)

RaiseTearsDown == [][MethodTornDown]_vars
=========================================================================
