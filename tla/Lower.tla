----------------------------- MODULE Lower ------------------------------
(***************************************************************************)
(* The lowering of a procedure to blocks (src/src/ir/lower): the control   *)
(* flow block_populate and the functions it calls emit for the statements  *)
(* of module Source.  The code appends to a current block and asks whether *)
(* it was terminated; here Populate gives the blocks that result when      *)
(* block blk already holds pre and env.end is what ends it otherwise.      *)
(*                                                                         *)
(* A block is named by the position of the statement it is made for and    *)
(* its role there.  Assignments that only move or free values are left     *)
(* out; the others are "assign" statements, and do says what they do:      *)
(*   "leaf" id, "exit" id, "backtrack" id, "call" id f   parts of Source   *)
(*   "frame_add", "frame_pop", "add" var, "pop" var      the stack         *)
(*   "kind_is" kind, "reset", "rethrow"                  the exception     *)
(*   "true"                                              t_equal_all       *)
(***************************************************************************)
EXTENDS Integers, Sequences, TLC

Do(what) == [op |-> "assign", do |-> what]
DoLeaf(what, id) == [op |-> "assign", do |-> what, id |-> id]
DoVar(what, x) == [op |-> "assign", do |-> what, var |-> x]
DoCall(id, f) == [op |-> "assign", do |-> "call", id |-> id, f |-> f]
KindIs(kind) == [op |-> "assign", do |-> "kind_is", kind |-> kind]
IRGoto(b) == [op |-> "goto", to |-> b]
IRTryEnd(b) == [op |-> "tryend", to |-> b]
IRBranch(yes, no) == [op |-> "branch", yes |-> yes, no |-> no]
IRTry(attempt, catch) == [op |-> "try", attempt |-> attempt, catch |-> catch]
IRUnreachable == [op |-> "unreachable"]
IRReturn == [op |-> "return"]

NoTarget == <<>>

NoName == ""

(* The clause catch_usr and catch_lng resolve to, 0 when there is none. *)
FirstClause(clauses, kinds) ==
    LET H == {i \in DOMAIN clauses : clauses[i].kind \in kinds}
    IN  IF H = {} THEN 0 ELSE CHOOSE i \in H : \A j \in H : i <= j

(* env: the targets of continue, break and return, and the terminator.  A  *)
(* try section closes itself on each of them.                              *)
Loop(env, again, follow) == [env EXCEPT !.cont = again, !.brk = follow, !.end = IRGoto(again)]

(* Blocks that run stmt and go on to a target of env, for each target. *)
Exits(here, env, stmts(_)) ==
    (<<here, "ret">> :> stmts(env.ret))
    @@ (IF env.cont = NoTarget THEN <<>> ELSE <<here, "cont">> :> stmts(env.cont))
    @@ (IF env.brk = NoTarget THEN <<>> ELSE <<here, "brk">> :> stmts(env.brk))

ExitEnv(here, env, end) ==
    [ret  |-> <<here, "ret">>,
     cont |-> IF env.cont = NoTarget THEN NoTarget ELSE <<here, "cont">>,
     brk  |-> IF env.brk = NoTarget THEN NoTarget ELSE <<here, "brk">>,
     end  |-> end]

RECURSIVE Populate(_, _, _, _, _, _)

(* block_if_push *)
IfBlocks(s, here, follow, env) ==
    LET inside == [env EXCEPT !.end = IRGoto(follow)]
        n == Len(s.branches)
        cond(i) == <<Append(here, i), "cond">>
        body(i) == <<Append(here, i), "body">>
        else == IF s.else = <<>> THEN follow ELSE <<Append(here, 0), "body">>
        RECURSIVE branch(_)
        branch(i) ==
            IF i > n THEN <<>>
            ELSE (cond(i) :> <<DoLeaf("leaf", s.branches[i].id),
                               IRBranch(body(i), IF i < n THEN cond(i + 1) ELSE else)>>)
                 @@ Populate(s.branches[i].body, 1, Append(here, i), body(i), <<>>, inside)
                 @@ branch(i + 1)
    IN  branch(1) @@ (IF s.else = <<>> THEN <<>>
                      ELSE Populate(s.else, 1, Append(here, 0), else, <<>>, inside))

(* block_while_push, block_do_while_push *)
LoopBlocks(s, here, follow, env) ==
    LET cond == <<here, "cond">>
        body == <<here, "body">>
    IN  (cond :> <<DoLeaf("leaf", s.id), IRBranch(body, follow)>>)
        @@ Populate(s.body, 1, Append(here, 1), body, <<>>, Loop(env, cond, follow))

(* block_iterator_push, with the body of block_for_push.  A return pops    *)
(* the loop variables; a break or the end of an iteration leaves them.     *)
ForBlocks(s, here, follow, env) ==
    LET n == Len(s.params)
        init(i) == <<Append(here, i), "init">>
        iter(i) == <<Append(here, i), "iter">>
        next(i) == <<Append(here, i), "next">>
        pops == [i \in 1..n |-> DoVar("pop", s.params[i].var)]
        test == IF s.filter = NoName THEN <<Do("true")>> ELSE <<DoLeaf("leaf", s.filter)>>
        RECURSIVE param(_)
        param(i) ==
            IF i > n THEN <<>>
            ELSE (init(i) :> <<DoLeaf("leaf", s.params[i].init), IRGoto(iter(i))>>)
                 @@ (iter(i) :> <<DoLeaf("leaf", s.params[i].iter),
                                  IRBranch(next(i), IF i = 1 THEN follow ELSE iter(i - 1))>>)
                 @@ (next(i) :> <<DoVar("add", s.params[i].var)>>
                                \o (IF i < n THEN <<IRGoto(init(i + 1))>>
                                    ELSE test \o <<IRBranch(<<here, "body">>, iter(n))>>))
                 @@ param(i + 1)
    IN  param(1)
        @@ (<<here, "retpop">> :> pops \o <<IRGoto(env.ret)>>)
        @@ Populate(s.body, 1, Append(here, 0), <<here, "body">>, <<>>,
                    [Loop(env, iter(n), follow) EXCEPT !.ret = <<here, "retpop">>])

(* A slip: the exception is not reset before the catch body runs. *)
BindOnly(x, here) ==
    (IF x = NoName THEN <<>> ELSE <<DoVar("add", x)>>) \o <<IRGoto(<<here, "body">>)>>

(* A slip: the exception is not bound, but unbound later. *)
ResetOnly(x, here) == <<Do("reset"), IRGoto(<<here, "body">>)>>

(* The start of a catch block. *)
Bind(x, here) ==
    (IF x = NoName THEN <<>> ELSE <<DoVar("add", x)>>)
    \o <<Do("reset"), IRGoto(<<here, "body">>)>>

(* catch_block_new: test the kind, bind the exception, run the body, and   *)
(* unbind it on every way out.  A check statement has no variable: NoName. *)
CatchBlocks(kind, x, body, here, follow, rethrow, env) ==
    LET bound == x # NoName
        leave(b) == <<DoVar("pop", x), IRGoto(b)>>
        inside == IF bound THEN ExitEnv(here, env, IRGoto(<<here, "leave">>))
                  ELSE [env EXCEPT !.end = IRGoto(follow)]
    IN  (<<here, "test">> :> <<KindIs(kind), IRBranch(<<here, "bind">>, rethrow)>>)
        @@ (<<here, "bind">> :> Bind(x, here))
        @@ (IF bound THEN Exits(here, env, leave) @@ (<<here, "leave">> :> leave(follow))
            ELSE <<>>)
        @@ Populate(body, 1, here, <<here, "body">>, <<>>, inside)

(* block_try_push and block_check_push share the try section. *)
SectionBlocks(body, here, follow, env) ==
    LET close(b) == <<IRTryEnd(b)>>
    IN  Exits(here, env, close)
        @@ (<<here, "rethrow">> :> <<Do("rethrow"), IRUnreachable>>)
        @@ Populate(body, 1, Append(here, 0), <<here, "main">>, <<>>,
                    ExitEnv(here, env, IRTryEnd(follow)))

(* A slip: the clause is for user exceptions whatever the others are. *)
CatchKindUsr(clauses) == "usr"

(* The clause chosen for user exceptions is compiled for those when it is  *)
(* also the one for the others, and for language exceptions when it is not *)
(* (then it is compiled twice, and nothing leads to the other copy).       *)
CatchKind(clauses) ==
    IF FirstClause(clauses, {"usr", "final"}) = FirstClause(clauses, {"lng", "final"})
    THEN "usr" ELSE "lng"

CatchOf(s, here) ==
    IF s.k = "try" /\ FirstClause(s.clauses, {"usr", "final"}) = 0
    THEN <<here, "rethrow">>
    ELSE <<Append(here, 1), "test">>

TryBlocks(s, here, follow, env) ==
    LET u == FirstClause(s.clauses, {"usr", "final"})
    IN  SectionBlocks(s.body, here, follow, env)
        @@ (IF u = 0 THEN <<>>
            ELSE CatchBlocks(CatchKind(s.clauses), s.clauses[u].var, s.clauses[u].body,
                             Append(here, 1), follow, <<here, "rethrow">>, env))

CheckBlocks(s, here, follow, env) ==
    SectionBlocks(s.body, here, follow, env)
    @@ CatchBlocks("bt", NoName, s.after, Append(here, 1), follow, <<here, "rethrow">>, env)

(* A slip: the try section around the call is not closed. *)
CallUnclosed(s, here, follow) ==
    (<<here, "call">> :> <<DoCall(s.id, s.f)>>)
    @@ (<<here, "pad">> :> <<Do("rethrow"), IRUnreachable>>)

(* block_call_push: the call runs in a try section of its own, whose catch *)
(* block frees the parameters and throws again.                            *)
CallBlocks(s, here, follow) ==
    (<<here, "call">> :> <<DoCall(s.id, s.f), IRTryEnd(follow)>>)
    @@ (<<here, "pad">> :> <<Do("rethrow"), IRUnreachable>>)

(* block_populate, from statement i on *)
Populate(stmts, i, path, blk, pre, env) ==
    IF i > Len(stmts) THEN blk :> pre \o <<env.end>>
    ELSE LET s == stmts[i]
             here == Append(path, i)
             follow == <<here, "follow">>
             ends(last) == blk :> pre \o last
             rest == Populate(stmts, i + 1, path, follow, <<>>, env)
         IN  CASE s.k = "do" ->
                    Populate(stmts, i + 1, path, blk, pre \o <<DoLeaf("leaf", s.id)>>, env)
               [] s.k = "exit" -> ends(<<DoLeaf("exit", s.id), IRUnreachable>>)
               [] s.k = "backtrack" -> ends(<<DoLeaf("backtrack", s.id), IRUnreachable>>)
               [] s.k = "return" -> ends(<<IRGoto(env.ret)>>)
               [] s.k = "continue" -> ends(<<IRGoto(env.cont)>>)
               [] s.k = "break" -> ends(<<IRGoto(env.brk)>>)
               [] s.k = "call" ->
                    ends(<<IRTry(<<here, "call">>, <<here, "pad">>)>>)
                    @@ CallBlocks(s, here, follow) @@ rest
               [] s.k = "if" ->
                    ends(<<IRGoto(<<Append(here, 1), "cond">>)>>)
                    @@ IfBlocks(s, here, follow, env) @@ rest
               [] s.k = "while" ->
                    ends(<<IRGoto(<<here, "cond">>)>>) @@ LoopBlocks(s, here, follow, env) @@ rest
               [] s.k = "dowhile" ->  \* the statements after it are not compiled
                    ends(<<IRGoto(<<here, "body">>)>>) @@ LoopBlocks(s, here, follow, env)
                    @@ (follow :> <<env.end>>)
               [] s.k = "for" ->
                    ends(<<IRGoto(<<Append(here, 1), "init">>)>>)
                    @@ ForBlocks(s, here, follow, env) @@ rest
               [] s.k = "try" ->
                    ends(<<IRTry(<<here, "main">>, CatchOf(s, here))>>)
                    @@ TryBlocks(s, here, follow, env) @@ rest
               [] s.k = "check" ->
                    ends(<<IRTry(<<here, "main">>, CatchOf(s, here))>>)
                    @@ CheckBlocks(s, here, follow, env) @@ rest

(* procedure_new *)
Entry == <<<<>>, "entry">>
Body == <<<<>>, "body">>
Ret == <<<<>>, "ret">>

(* A slip: the block that pops the frame goes round. *)
RetBlockLoops == <<Do("frame_pop"), IRGoto(Ret)>>

RetBlock == <<Do("frame_pop"), IRReturn>>

ProcedureNew(body) ==
    [start  |-> Entry,
     blocks |-> (Entry :> <<Do("frame_add"), IRGoto(Body)>>)
                @@ (Ret :> RetBlock)
                @@ Populate(body, 1, <<>>, Body, <<>>,
                            [cont |-> NoTarget, brk |-> NoTarget, ret |-> Ret, end |-> IRGoto(Ret)])]

(* The procedures of a program lowered. *)
LoweredProgram(text) == [p \in DOMAIN text |-> ProcedureNew(text[p])] @@ <<>>
=========================================================================
