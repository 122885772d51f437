------------------------------- MODULE Exec -------------------------------
(***************************************************************************)
(* The control machine of the interpreter (src/src/interp/exec.rs).        *)
(*                                                                         *)
(* exec_proc runs a procedure block by block; a Try statement calls        *)
(* exec_try, which runs blocks of the same procedure under catch_unwind;   *)
(* a call assignment calls exec_proc again.  The native call stack of      *)
(* these two functions is ctxs, one record per activation:                 *)
(*   kind  "proc" for exec_proc, "try" for exec_try                        *)
(*   proc  the procedure whose blocks run                                  *)
(*   blk   block_idx                                                       *)
(*   pc    the position in the block; past its end the block is fetched    *)
(*         again, as the outer loop of both functions does                 *)
(*   fail  fail_idx of exec_try, NoBlock for exec_proc                     *)
(* A Rust panic is a state of its own (mode "unwind"): the activations are *)
(* torn down one by one until an exec_try catches it.                      *)
(*                                                                         *)
(* Data is opaque here: mem is all of it (variables, immediate heaps, the  *)
(* interpreter's stack, the exception), and the constant operators say     *)
(* what the statements do to it.                                           *)
(***************************************************************************)
EXTENDS Integers, Sequences, IR

CONSTANTS
    Programs,        \* the programs
    Code,            \* Code[g][p] is procedure p of program g
    Depth,           \* Depth[g][p] labels the blocks of that procedure
    Main,            \* the name of every program's main procedure
    NoBlock,         \* fail_idx of an exec_proc activation
    InitMem,         \* the data when exec starts
    MaxDepth,        \* activations the native stack holds before it overflows
    Eval(_, _),      \* Eval(stmt, m): the outcomes of an assignment
    Cond(_, _),      \* Cond(stmt, m): the outcomes of a branch condition
    Enter(_, _),     \* Enter(kind, m): m when an activation begins
    Leave(_, _),     \* Leave(kind, m): m when an activation is torn down
    Result(_, _, _)  \* Result(ret, call, m): m when a call has returned

ASSUME MaxDepthAssumption == MaxDepth \in Nat \ {0}

VARIABLES prog, ctxs, mode, payload, mem

vars == <<prog, ctxs, mode, payload, mem>>

(* The messages of the panics the two functions raise themselves. *)
InternalPanics == {"return statement in try section",
                   "encountered unmet try end statement",
                   "encountered unreachable guard"}

Payloads == InternalPanics \union {"none", "operation"}

Modes == {"run", "unwind", "done", "exited", "aborted", "overflow"}

Procs == DOMAIN Code[prog]

BlocksOf(p) == Code[prog][p].blocks

Top == ctxs[Len(ctxs)]

Block == BlocksOf(Top.proc)[Top.blk]

Stmt == Block[Top.pc]

(* The activation on top is about to run a statement with operation op. *)
At(op) == mode = "run" /\ Top.pc \in DOMAIN Block /\ Stmt.op = op

Below == SubSeq(ctxs, 1, Len(ctxs) - 1)

(* Activation c, about to run the n-th statement of block b. *)
MovedTo(c, b, n) ==
    [kind |-> c.kind, proc |-> c.proc, blk |-> b, pc |-> n, fail |-> c.fail]

(* s with its last activation continuing in block b. *)
Jump(s, b) == [s EXCEPT ![Len(s)] = MovedTo(s[Len(s)], b, 1)]

(* s with its last activation continuing after its current statement. *)
Advance(s) ==
    [s EXCEPT ![Len(s)] = MovedTo(s[Len(s)], s[Len(s)].blk, s[Len(s)].pc + 1)]

Activation(p) ==
    [kind |-> "proc", proc |-> p, blk |-> Code[prog][p].start, pc |-> 1, fail |-> NoBlock]

TryActivation(p, attempt, catch) ==
    [kind |-> "try", proc |-> p, blk |-> attempt, pc |-> 1, fail |-> catch]

Init ==
    /\ prog \in Programs
    /\ ctxs = <<Activation(Main)>>
    /\ mode = "run"
    /\ payload = "none"
    /\ mem = Enter("proc", InitMem)

Panic(msg) ==
    /\ mode' = "unwind"
    /\ payload' = msg

(* The native stack has no room for another activation. *)
Overflow ==
    /\ Len(ctxs) >= MaxDepth
    /\ mode' = "overflow"
    /\ UNCHANGED <<prog, ctxs, payload, mem>>

-----------------------------------------------------------------------------
(* for stmt in block ran to the end without a break: fetch the block again *)
Refetch ==
    /\ mode = "run"
    /\ Top.pc \notin DOMAIN Block
    /\ ctxs' = Jump(ctxs, Top.blk)
    /\ UNCHANGED <<prog, mode, payload, mem>>

AssignOk ==
    /\ At("assign")
    /\ \E r \in Eval(Stmt, mem) : r.out = "ok" /\ mem' = r.mem
    /\ ctxs' = Advance(ctxs)
    /\ UNCHANGED <<prog, mode, payload>>

AssignPanic ==
    /\ At("assign")
    /\ \E r \in Eval(Stmt, mem) : r.out = "panic" /\ mem' = r.mem
    /\ Panic("operation")
    /\ UNCHANGED <<prog, ctxs>>

(* The native exit(0): the process ends where it is. *)
AssignExit ==
    /\ At("assign")
    /\ \E r \in Eval(Stmt, mem) : r.out = "exit" /\ mem' = r.mem
    /\ mode' = "exited"
    /\ UNCHANGED <<prog, ctxs, payload>>

(* A slip: the caller moves on before the callee runs. *)
CallAdvances ==
    /\ At("assign")
    /\ \E r \in Eval(Stmt, mem) :
          /\ r.out = "call"
          /\ r.callee \in Procs
          /\ Len(ctxs) < MaxDepth
          /\ ctxs' = Append(Advance(ctxs), Activation(r.callee))
          /\ mem' = Enter("proc", r.mem)
    /\ UNCHANGED <<prog, mode, payload>>

Call ==
    /\ At("assign")
    /\ \E r \in Eval(Stmt, mem) :
          /\ r.out = "call"
          /\ r.callee \in Procs
          /\ \/ Overflow
             \/ /\ Len(ctxs) < MaxDepth
                /\ ctxs' = Append(ctxs, Activation(r.callee))
                /\ mem' = Enter("proc", r.mem)
                /\ UNCHANGED <<prog, mode, payload>>

Branch ==
    /\ At("branch")
    /\ \E r \in Cond(Stmt, mem) :
          /\ r.out \in {"yes", "no"}
          /\ ctxs' = Jump(ctxs, IF r.out = "yes" THEN Stmt.yes ELSE Stmt.no)
    /\ UNCHANGED <<prog, mode, payload, mem>>

(* The condition is not a boolean: to_bool throws. *)
BranchPanic ==
    /\ At("branch")
    /\ \E r \in Cond(Stmt, mem) : r.out = "panic" /\ mem' = r.mem
    /\ Panic("operation")
    /\ UNCHANGED <<prog, ctxs>>

Goto ==
    /\ At("goto")
    /\ ctxs' = Jump(ctxs, Stmt.to)
    /\ UNCHANGED <<prog, mode, payload, mem>>

Try ==
    /\ At("try")
    /\ \/ Overflow
       \/ /\ Len(ctxs) < MaxDepth
          /\ ctxs' = Append(ctxs, TryActivation(Top.proc, Stmt.attempt, Stmt.catch))
          /\ mem' = Enter("try", mem)
          /\ UNCHANGED <<prog, mode, payload>>

(* A slip: exec_try goes on at next_idx itself. *)
TryEndInPlace ==
    /\ At("tryend")
    /\ Top.kind = "try"
    /\ ctxs' = Jump(ctxs, Stmt.to)
    /\ UNCHANGED <<prog, mode, payload, mem>>

(* exec_try returns next_idx, its caller continues there. *)
TryEnd ==
    /\ At("tryend")
    /\ Top.kind = "try"
    /\ ctxs' = Jump(Below, Stmt.to)
    /\ mem' = Leave("try", mem)
    /\ UNCHANGED <<prog, mode, payload>>

TryEndUnmet ==
    /\ At("tryend")
    /\ Top.kind = "proc"
    /\ Panic("encountered unmet try end statement")
    /\ UNCHANGED <<prog, ctxs, mem>>

(* exec_proc returns: to the call assignment that is being executed in the *)
(* activation below, which completes, or from main to exec.                *)
Return ==
    /\ At("return")
    /\ Top.kind = "proc"
    /\ IF Len(ctxs) = 1
       THEN /\ mode' = "done"
            /\ mem' = Leave("proc", mem)
            /\ UNCHANGED ctxs
       ELSE LET caller == ctxs[Len(ctxs) - 1]
            IN /\ mem' = Result(Stmt, BlocksOf(caller.proc)[caller.blk][caller.pc], mem)
               /\ ctxs' = Advance(Below)
               /\ UNCHANGED mode
    /\ UNCHANGED <<prog, payload>>

ReturnInTry ==
    /\ At("return")
    /\ Top.kind = "try"
    /\ Panic("return statement in try section")
    /\ UNCHANGED <<prog, ctxs, mem>>

Unreachable ==
    /\ At("unreachable")
    /\ Panic("encountered unreachable guard")
    /\ UNCHANGED <<prog, ctxs, mem>>

-----------------------------------------------------------------------------
(* Two slips: the last activation is torn down too, or never. *)
UnwindDropsMain ==
    /\ mode = "unwind"
    /\ Top.kind = "proc"
    /\ mem' = Leave("proc", mem)
    /\ ctxs' = Below
    /\ mode' = IF Len(ctxs) = 1 THEN "aborted" ELSE mode
    /\ UNCHANGED <<prog, payload>>

UnwindKeepsMain ==
    /\ mode = "unwind"
    /\ Top.kind = "proc"
    /\ Len(ctxs) > 1
    /\ mem' = Leave("proc", mem)
    /\ ctxs' = Below
    /\ UNCHANGED <<prog, mode, payload>>

(* A panic leaves exec_proc: its immediate heap is dropped on the way.     *)
UnwindProc ==
    /\ mode = "unwind"
    /\ Top.kind = "proc"
    /\ mem' = Leave("proc", mem)
    /\ IF Len(ctxs) = 1
       THEN mode' = "aborted" /\ UNCHANGED ctxs
       ELSE ctxs' = Below /\ UNCHANGED mode
    /\ UNCHANGED <<prog, payload>>

(* Slips: exec_try itself goes on at fail_idx; its immediate heap stays;   *)
(* its caller goes on where the panic was.                                 *)
CatchInPlace ==
    /\ mode = "unwind"
    /\ Top.kind = "try"
    /\ ctxs' = Jump(ctxs, Top.fail)
    /\ mode' = "run"
    /\ payload' = "none"
    /\ UNCHANGED <<prog, mem>>

CatchKeepsHeap ==
    /\ mode = "unwind"
    /\ Top.kind = "try"
    /\ ctxs' = Jump(Below, Top.fail)
    /\ mode' = "run"
    /\ payload' = "none"
    /\ UNCHANGED <<prog, mem>>

CatchResumes ==
    /\ mode = "unwind"
    /\ Top.kind = "try"
    /\ mem' = Leave("try", mem)
    /\ ctxs' = Jump(Below, Top.blk)
    /\ mode' = "run"
    /\ payload' = "none"
    /\ UNCHANGED prog

(* catch_unwind in exec_try returns Err: the caller goes on at fail_idx.   *)
CatchUnwind ==
    /\ mode = "unwind"
    /\ Top.kind = "try"
    /\ mem' = Leave("try", mem)
    /\ ctxs' = Jump(Below, Top.fail)
    /\ mode' = "run"
    /\ payload' = "none"
    /\ UNCHANGED prog

(* The program has ended; nothing happens any more. *)
Terminated ==
    /\ mode \in {"done", "exited", "aborted", "overflow"}
    /\ UNCHANGED vars

Step ==
    \/ Refetch \/ AssignOk \/ AssignPanic \/ AssignExit \/ Call
    \/ Branch \/ BranchPanic \/ Goto \/ Return \/ ReturnInTry \/ Unreachable
    \/ Try \/ TryEnd \/ TryEndUnmet
    \/ UnwindProc \/ CatchUnwind

Next == Step \/ Terminated

Spec == Init /\ [][Next]_vars

(* The interpreter is one thread that never waits: it keeps stepping. *)
FairSpec == Spec /\ WF_vars(Step)

-----------------------------------------------------------------------------
(* The statement activation c is executing. *)
StmtOf(c) == BlocksOf(c.proc)[c.blk][c.pc]

(* The label of the block activation c is in. *)
DepthOf(c) == Depth[prog][c.proc][c.blk]

AllBlocks == UNION {DOMAIN BlocksOf(p) : p \in Procs}

(* Type invariant: activations run blocks that exist; the top one is there. *)
TypeOK ==
    /\ mode \in Modes
    /\ payload \in Payloads
    /\ ctxs \in Seq([kind : {"proc", "try"}, proc : Procs, blk : AllBlocks,
                     pc : Nat \ {0}, fail : AllBlocks \union {NoBlock}])
    /\ Len(ctxs) \in 1..MaxDepth

(***************************************************************************)
(* An activation that is not on top waits at the statement that made the   *)
(* one above it: exec_try above a Try of the same procedure, to whose      *)
(* catch block it will fail over, exec_proc above an assignment.           *)
(***************************************************************************)
OnTopOf(upper, lower) ==
    /\ lower.pc \in DOMAIN BlocksOf(lower.proc)[lower.blk]
    /\ \/ /\ upper.kind = "try"
          /\ upper.proc = lower.proc
          /\ StmtOf(lower).op = "try"
          /\ StmtOf(lower).catch = upper.fail
       \/ /\ upper.kind = "proc"
          /\ StmtOf(lower).op = "assign"

WellNested(s) ==
    /\ s[1].kind = "proc"
    /\ \A i \in 1..(Len(s) - 1) : OnTopOf(s[i + 1], s[i])

Nested == WellNested(ctxs)

(* Program g is well labelled, as the lowering makes programs; one that is *)
(* not runs into the panics the control machine raises itself.             *)
Labelled(g) ==
    /\ DOMAIN Depth[g] = DOMAIN Code[g]
    /\ Main \in DOMAIN Code[g]
    /\ \A p \in DOMAIN Code[g] : ProcLabelled(Code[g][p], Depth[g][p])

TryMismatches ==
    {"return statement in try section", "encountered unmet try end statement"}

(***************************************************************************)
(* In a well-labelled program the two functions never raise the panics     *)
(* "return statement in try section" and "encountered unmet try end        *)
(* statement": every way out of a try section closes it, whatever the      *)
(* statements in it do.                                                    *)
(***************************************************************************)
NoTryMismatch == Labelled(prog) => payload \notin TryMismatches

(* Activation k is exec_proc, and those above it up to i are its exec_try's. *)
InCall(s, k, i) ==
    /\ s[k].kind = "proc"
    /\ \A j \in (k + 1)..i : s[j].kind = "try"

MatchesDepth(s) ==
    \A i \in 1..Len(s) : \A k \in 1..i :
        InCall(s, k, i) => DepthOf(s[i]) = i - k

(***************************************************************************)
(* The exec_try activations that are open in a call are those the block    *)
(* it runs is labelled with: no path through a procedure of a well-labelled*)
(* program, normal or exceptional, loses or gains a try section.           *)
(***************************************************************************)
TryDepth == Labelled(prog) => MatchesDepth(ctxs)

(* In a well-labelled program each activation is in a labelled block, and   *)
(* each exec_try will resume its caller, should it fail, at the depth the   *)
(* caller is at.                                                            *)
KeepsLabels(s) ==
    \A i \in 1..Len(s) :
        /\ s[i].blk \in DOMAIN Depth[prog][s[i].proc]
        /\ s[i].kind = "proc" => DepthOf(s[i]) = 0 /\ s[i].fail = NoBlock
        /\ s[i].kind = "try" =>
              /\ i > 1
              /\ s[i].proc = s[i - 1].proc
              /\ DepthOf(s[i]) = DepthOf(s[i - 1]) + 1
              /\ s[i].fail \in DOMAIN Depth[prog][s[i].proc]
              /\ Depth[prog][s[i].proc][s[i].fail] = DepthOf(s[i - 1])

AtDepth == Labelled(prog) => KeepsLabels(ctxs)

(* The inductive invariant of the control machine. *)
IInv ==
    /\ prog \in Programs
    /\ TypeOK
    /\ Nested
    /\ AtDepth
    /\ TryDepth
    /\ NoTryMismatch

(* Activation h is the innermost exec_try; 0 when there is none. *)
IsInnermost(s, h) ==
    /\ h > 0 => s[h].kind = "try"
    /\ \A j \in (h + 1)..Len(s) : s[j].kind # "try"

(***************************************************************************)
(* Unwinding reaches the innermost exec_try and no other: until it gets    *)
(* there the activations up to it are untouched, it goes on at that try's  *)
(* catch block, and exec's own catch_unwind sees a panic only when no try  *)
(* section is open.                                                        *)
(***************************************************************************)
Delivers(h) ==
    /\ mode' = "unwind" =>
         IsInnermost(ctxs', h) /\ SubSeq(ctxs', 1, h) = SubSeq(ctxs, 1, h)
    /\ mode' = "run" => h > 0 /\ ctxs' = Jump(SubSeq(ctxs, 1, h - 1), ctxs[h].fail)
    /\ mode' = "aborted" => h = 0
    /\ mode' \in {"unwind", "run", "aborted"}

CaughtByInnermost ==
    [][mode = "unwind" =>
         \A h \in 0..Len(ctxs) : IsInnermost(ctxs, h) => Delivers(h)]_vars

(* A panic that was raised is delivered: it ends in a catch block or in    *)
(* exec, never in an unwinding that goes on.                               *)
PanicDelivered == mode = "unwind" ~> mode \in {"run", "aborted"}

(* Every activation has an immediate heap of its own, created by the       *)
(* function that runs it and dropped when that function is left, whether   *)
(* by a return, a closed try section or a panic.  This reads mem as the    *)
(* stack of these heaps, each known by the function it is for.             *)
HeapPerActivation ==
    IF mode \in {"done", "aborted"} THEN mem = <<>>
    ELSE mem = [i \in 1..Len(ctxs) |-> ctxs[i].kind]
=============================================================================
