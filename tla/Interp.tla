----------------------------- MODULE Interp -----------------------------
(***************************************************************************)
(* The interpreter running lowered programs: the control machine of Exec   *)
(* on blocks as Lower makes them, with the part of the interpreter's data  *)
(* that control depends on:                                                *)
(*   frames  InterpStack.frames: the names on it, Boundary between frames  *)
(*   kind    EXCEPTION_KIND                                                *)
(*   reg     the temporary a branch tests, the last one assigned           *)
(* and three history variables, which nothing reads:                       *)
(*   calls, sig  the state of Source: the part each active procedure ran   *)
(*               last, and how the latest one ended                        *)
(*   left        how many procedures an exception has left                 *)
(***************************************************************************)
EXTENDS ExecLabelled

CONSTANTS
    Text,       \* Text[g][p] is the body of procedure p of program g
    Flow,       \* what follows what in it (ProgramLinks of Links)
    Outcomes,   \* Outcomes[id]: the ways part id of a program may end
    MaxEntries  \* a loop goes round only while the stack is shorter

Boundary == "|"

StartMem == [frames |-> <<>>, kind |-> "lng", reg |-> "true",
             calls |-> <<Main>>, sig |-> "ok", left |-> 0]

(* Part id of the program ends with sig o. *)
Ran(m, id, o) ==
    [m EXCEPT !.calls[Len(m.calls)] = id, !.sig = o]

OkMem(m) == [out |-> "ok", mem |-> m]
PanicMem(m) == [out |-> "panic", mem |-> m]

-----------------------------------------------------------------------------
(* The interpreter's stack, by name (interp/stack.rs).  No value here      *)
(* crosses a frame boundary.                                               *)
Boundaries(frames) == {i \in DOMAIN frames : frames[i] = Boundary}

FrameStart(frames) ==
    LET B == Boundaries(frames)
    IN  IF B = {} THEN 0 ELSE CHOOSE i \in B : \A j \in B : j <= i

(* get_pos: the position of the innermost entry named x in the top frame. *)
GetPos(frames, x) ==
    LET P == {i \in DOMAIN frames : i > FrameStart(frames) /\ frames[i] = x}
    IN  IF P = {} THEN 0 ELSE CHOOSE i \in P : \A j \in P : j <= i

Without(frames, i) == SubSeq(frames, 1, i - 1) \o SubSeq(frames, i + 1, Len(frames))

(* A slip: the boundary stays. *)
FrameCleared(frames) == SubSeq(frames, 1, FrameStart(frames))

(* frame_pop drops everything from the last boundary, or everything. *)
FramePopped(frames) == SubSeq(frames, 1, FrameStart(frames) - 1)

-----------------------------------------------------------------------------
(* A plain Rust panic does not touch EXCEPTION_KIND; an exception the      *)
(* interpreter throws sets it.                                             *)
LeafResult(stmt, m, o) ==
    CASE o = "ok" -> OkMem(Ran(m, stmt.id, o))
      [] o \in {"true", "false"} -> OkMem([Ran(m, stmt.id, o) EXCEPT !.reg = o])
      [] o = "usr" -> PanicMem([Ran(m, stmt.id, o) EXCEPT !.kind = "usr"])
      [] o = "lng" -> PanicMem(Ran(m, stmt.id, o))

(* A leaf that ends "usr" may also be a condition that is no boolean: the  *)
(* branch on it throws.                                                    *)
IsCondition(id) == "true" \in Outcomes[id]

LeafResults(stmt, m) ==
    {LeafResult(stmt, m, o) : o \in {x \in Outcomes[stmt.id] :
                                        x = "true" => Len(m.frames) < MaxEntries}}
    \union {OkMem([Ran(m, stmt.id, "usr") EXCEPT !.reg = "nonbool"]) :
               x \in {y \in {"usr"} : y \in Outcomes[stmt.id] /\ IsCondition(stmt.id)}}

CallResults(stmt, m) ==
    {[out |-> "call", callee |-> stmt.f,
      mem |-> [Ran(m, stmt.id, "ok") EXCEPT !.calls = Append(@, stmt.f)]]}
    \union {LeafResult(stmt, m, o) : o \in Outcomes[stmt.id]}

Popped(stmt, m) ==
    LET i == GetPos(m.frames, stmt.var)
    IN  IF i = 0 THEN PanicMem(m)
        ELSE OkMem([m EXCEPT !.frames = Without(@, i)])

(* exec_op for the assignments of Lower. *)
EvalStmt(stmt, m) ==
    CASE stmt.do = "leaf"      -> LeafResults(stmt, m)
      [] stmt.do = "call"      -> CallResults(stmt, m)
      [] stmt.do = "exit"      -> {[out |-> "exit", mem |-> Ran(m, stmt.id, "exit")]}
      [] stmt.do = "backtrack" -> {PanicMem([Ran(m, stmt.id, "bt") EXCEPT !.kind = "bt"])}
      [] stmt.do = "frame_add" -> {OkMem([m EXCEPT !.frames = Append(@, Boundary)])}
      [] stmt.do = "frame_pop" -> {OkMem([m EXCEPT !.frames = FramePopped(@)])}
      [] stmt.do = "add"       -> {OkMem([m EXCEPT !.frames = Append(@, stmt.var)])}
      [] stmt.do = "pop"       -> {Popped(stmt, m)}
      [] stmt.do = "kind_is"   ->
            {OkMem([m EXCEPT !.reg = IF m.kind = stmt.kind THEN "true" ELSE "false"])}
      [] stmt.do = "reset"     -> {OkMem([m EXCEPT !.kind = "lng"])}
      [] stmt.do = "rethrow"   -> {PanicMem(m)}
      [] stmt.do = "true"      -> {OkMem([m EXCEPT !.reg = "true"])}

(* to_bool: a value that is no boolean throws a user exception. *)
CondStmt(stmt, m) ==
    CASE m.reg = "true"    -> {[out |-> "yes", mem |-> m]}
      [] m.reg = "false"   -> {[out |-> "no", mem |-> m]}
      [] m.reg = "nonbool" -> {[out |-> "panic", mem |-> [m EXCEPT !.kind = "usr"]]}

EnterActivation(kind, m) == m

(* An exception leaves exec_proc, or main returns: the frame it pushed is  *)
(* popped by the block before a return statement, and by nothing else.     *)
LeaveActivation(kind, m) ==
    IF kind = "try" THEN m
    ELSE [m EXCEPT !.calls = SubSeq(@, 1, Len(@) - 1), !.left = @ + 1]

ResultOf(ret, call, m) ==
    [m EXCEPT !.calls = SubSeq(@, 1, Len(@) - 1), !.sig = "ok"]

-----------------------------------------------------------------------------
(* What a program promises: the parts of it run in the order its           *)
(* statements say, whatever they do, and every exception goes to the       *)
(* clause that Flow sends its kind to, or on to the statement around.  In  *)
(* interp these are the clauses as catch.rs:303 reads them: a plain catch  *)
(* takes user exceptions, as is written; what the others come to is in     *)
(* ClausesInEffect, and that it is not what is written in catch_lng.       *)
Promise == INSTANCE Source WITH calls <- mem.calls, sig <- mem.sig

RunsAsWritten == Promise!Spec

AtDo(what) == At("assign") /\ Stmt.do \in what

AtPart == AtDo({"leaf", "call", "exit", "backtrack"})

(***************************************************************************)
(* EXCEPTION_KIND is Lng whenever a part of the program is about to run,   *)
(* so that a plain panic in it counts as a language exception: a catch     *)
(* body never starts with the kind of the exception it handles.            *)
(***************************************************************************)
KindFresh == AtPart => mem.kind = "lng"

(***************************************************************************)
(* The frames on the stack are those of the active procedures and of the   *)
(* ones an exception has left, which nothing pops.                         *)
(***************************************************************************)
FramesMatched ==
    AtPart => Cardinality(Boundaries(mem.frames)) = Len(mem.calls) + mem.left

(* stack_pop finds its variable, which it unwraps (stack.rs:299): on each  *)
(* way out of a loop or a catch body it is in the current frame.  This is  *)
(* so in programs that are well typed.  One that catches an exception that *)
(* left a procedure, and does so inside a catch body (or inside a loop it  *)
(* then returns from), is not: the frame of that procedure is in front of  *)
(* the variable.  Such programs are not in interp; catch_pop shows the pop *)
(* fail on one.                                                            *)
PopFinds == AtDo({"pop"}) => GetPos(mem.frames, Stmt.var) # 0

(* No block runs off its end, where the interpreter would run it again: on *)
(* every path the lowering ends the block it appended to.                  *)
BlocksEnd == mode = "run" => Top.pc \in DOMAIN Block

(* The interpreter does not spin in lowered code: again and again it runs  *)
(* a part of the program, until the program ends.                          *)
NoSilentLoop == []<>(AtPart \/ mode \in {"done", "exited", "aborted", "overflow"})
=========================================================================
