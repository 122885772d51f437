------------------------------ MODULE StmtCode ------------------------------
(***************************************************************************)
(* Statements and procedures as the blocks they are lowered to: assignment *)
(* to patterns and to members, if, for, match and return                   *)
(* (ir/lower/stmt/, ir/lower/assign.rs), and what a procedure does before  *)
(* and after its body (ir/lower/proc.rs), but for the frame around it.     *)
(* A list of statements starts at p and goes on to k; c says where         *)
(* continue, break and return lead.                                        *)
(***************************************************************************)
EXTENDS ExprCode
LOCAL INSTANCE Code
LOCAL INSTANCE TLC
LOCAL INSTANCE Sequences
LOCAL INSTANCE SequencesExt
LOCAL INSTANCE Integers

Assign(targets, e) == [is |-> "assign", targets |-> targets, expr |-> e]
AssignMod(op, target, e) == [is |-> "mod", op |-> op, target |-> target, expr |-> e]
Evaluate(e) == [is |-> "expr", expr |-> e]
ReturnOf(e) == [is |-> "return", expr |-> e]
Break == [is |-> "break"]
Continue == [is |-> "continue"]
IfElse(branches, alt) == [is |-> "if", branches |-> branches, alt |-> alt]
Branch(cond, block) == [cond |-> cond, block |-> block]
For(params, cond, block) == [is |-> "for", params |-> params, cond |-> cond, block |-> block]
Match(e, cases, default) == [is |-> "match", expr |-> e, cases |-> cases, default |-> default]
Case(pats, cond, block) == [is |-> "case", pats |-> pats, cond |-> cond, block |-> block]
RegexCase(pattern, out, cond, block) ==
    [is |-> "regex", pattern |-> pattern, out |-> out, cond |-> cond, block |-> block]
Procedure(params, cached, body) == [params |-> params, cached |-> cached, body |-> body]
Value(n) == [name |-> n, rw |-> FALSE, default |-> Nothing]
Shared(n) == [name |-> n, rw |-> TRUE, default |-> Nothing]
Default(n, e) == [name |-> n, rw |-> FALSE, default |-> e]

\* What statements consist of, lowered by one operator: expressions, patterns
\* and statements, in a procedure.
RECURSIVE Fragment(_)
Expr(p, k, e, defs) == Fragment([of |-> "expr", p |-> p, k |-> k, e |-> e, defs |-> defs])
Pattern(p, k, x, c, defs, pat) ==
    Fragment([of |-> "pattern", p |-> p, k |-> k, x |-> x, c |-> c, defs |-> defs, pat |-> pat])
Block(p, k, stmts, c, defs) ==
    Fragment([of |-> "stmts", p |-> p, k |-> k, stmts |-> stmts, c |-> c, defs |-> defs])

----------------------------------------------------------------------------
(* Assignment                                                              *)

\* assign_arr_access: the place a key stands for in what n points to.  A set of
\* pairs gets one for a key it lacks, a list is filled up to the position.
set_place(p, k, e, n) ==
    LET key == p \o ".key"
    IN (p \o ".set" :> Do(p \o ".o", "SetGetTag", <<p \o ".val", key>>)
                       \o Do(p \o ".o_om", "equal", <<p \o ".o", "om">>)
                       \o Do(p \o ".key_om", "equal", <<key, "om">>) \o Do(p \o ".key_nom", "not", <<p \o ".key_om">>)
                       \o When("and", <<p \o ".o_om", p \o ".key_nom">>, p \o ".set_insert", p \o ".inval"))
       @@ (p \o ".set_insert" :> Do(p \o ".pair", "ListNew", <<>>) \o CopyUnless(Owned(e), key)
                                 \o Do("_", "ListPush", <<p \o ".pair", key>>)
                                 \o Do("_", "ListPush", <<p \o ".pair", "om">>)
                                 \o Do(p \o ".o", "SetInsert", <<p \o ".val", p \o ".pair">>)
                                 \o Do(p \o ".o", "at", <<p \o ".o", "1">>) \o Goto(k))
       @@ (p \o ".inval" :> FreeIf(Owned(e), key) \o Goto(k))
arr_place(p, k, e, n) ==
    LET key == p \o ".key"
    IN (p \o ".arr" :> CopyUnless(Owned(e), key) \o Goto(p \o ".index"))
       @@ block_arr_access_push(p \o ".index", p \o ".amount", key, n, FALSE)
       @@ (p \o ".amount" :> Do(p \o ".len", "Amount", <<p \o ".val">>)
                             \o When("less", <<key, p \o ".len">>, p \o ".arr_assign", p \o ".fill"))
       @@ (p \o ".fill" :> Do(p \o ".gap", "minus", <<key, p \o ".len">>) \o Do(p \o ".diff", "plus", <<p \o ".gap", "1">>)
                           \o IfKind(p \o ".val", {"list"}, p \o ".push_loop", p \o ".fill_str_check"))
       @@ (p \o ".push_loop" :> Let(p \o ".i", "0") \o Goto(p \o ".push_cond"))
       @@ (p \o ".push_cond" :> When("less", <<p \o ".i", p \o ".diff">>, p \o ".push", p \o ".inv_i"))
       @@ (p \o ".push" :> Do("_", "ListPush", <<p \o ".val", "om">>) \o Up(p \o ".i") \o Goto(p \o ".push_cond"))
       @@ (p \o ".inv_i" :> Free(p \o ".i") \o Goto(p \o ".arr_assign"))
       @@ (p \o ".fill_str_check" :> IfKind(p \o ".val", {"string"}, p \o ".fill_str", p \o ".throw"))
       @@ (p \o ".fill_str" :> Do(p \o ".extend", "mult", <<"", p \o ".diff">>)
                               \o Do(p \o ".filled", "plus", <<p \o ".val", p \o ".extend">>) \o Store(n, p \o ".filled")
                               \o Free(p \o ".extend") \o Goto(p \o ".arr_assign"))
       @@ (p \o ".throw" :> Do("_", "Throw", <<"1", "access array not defined for type">>) \o Unreachable)
       @@ (p \o ".arr_assign" :> Do(p \o ".o", "at", <<n, key>>) \o FreeIf(Owned(e), key) \o Goto(k))
assign_arr_access(p, k, e, n, defs) ==
    Expr(p \o ".key", p \o ".place", e, defs)
    @@ (p \o ".place" :> Deref(p \o ".val", n) \o IfKind(p \o ".val", {"set"}, p \o ".set", p \o ".arr"))
    @@ set_place(p, k, e, n) @@ arr_place(p, k, e, n)

\* Several keys stand for their list.
assign_tag(p, k, es, n, defs) ==
    (p \o ".key" :> Do(p \o ".list", "ListNew", <<>>) \o Goto(Sub(p, 1)))
    @@ Expr(p, p \o ".place", Several(es, Collect(p, es, "ListPush", p \o ".list")), defs)
    @@ (p \o ".place" :> Deref(p \o ".val", n) \o Do(p \o ".o", "SetGetTag", <<p \o ".val", p \o ".list">>)
                         \o When("equal", <<p \o ".o", "om">>, p \o ".insert", p \o ".inval"))
    @@ (p \o ".insert" :> Do(p \o ".pair", "ListNew", <<>>) \o Do("_", "ListPush", <<p \o ".pair", p \o ".list">>)
                          \o Do("_", "ListPush", <<p \o ".pair", "om">>)
                          \o Do(p \o ".o", "SetInsert", <<p \o ".val", p \o ".pair">>)
                          \o Do(p \o ".o", "at", <<p \o ".o", "1">>) \o Goto(k))
    @@ (p \o ".inval" :> Free(p \o ".list") \o Goto(k))

\* assign_accessible: the old value of the place goes before the new one comes.
assign_accessible(p, k, x, owned, a, defs) ==
    LET v == a.head.name
        n(i) == IF i > 0 THEN Sub(p, i) \o ".o" ELSE IF v \in DOMAIN defs THEN defs[v] ELSE p \o ".ptr"
        next(i) == IF i > Len(a.body) THEN p \o ".store" ELSE Sub(p, i) \o ".key"
        step(i, b) == IF b.by = "index" THEN assign_arr_access(Sub(p, i), next(i + 1), b.key, n(i - 1), defs)
                      ELSE assign_tag(Sub(p, i), next(i + 1), b.keys, n(i - 1), defs)
    IN (p :> (IF v \in DOMAIN defs THEN <<>> ELSE Do(p \o ".ptr", "StackGetOrNew", <<v>>)) \o Goto(next(1)))
       @@ Merge([i \in DOMAIN a.body |-> step(i, a.body[i])])
       @@ (p \o ".store" :> Deref(p \o ".old", n(Len(a.body))) \o Free(p \o ".old")
                            \o (IF owned THEN Store(n(Len(a.body)), x)
                                ELSE Do(p \o ".copy", "Copy", <<x>>) \o Store(n(Len(a.body)), p \o ".copy"))
                            \o Goto(k))

AssignTo(p, k, x, owned, target, defs) ==
    IF target.is = "access" THEN assign_accessible(p, k, x, owned, target, defs)
    ELSE Pattern(p, k, x, [owned |-> owned, ts |-> ""], defs, target)

\* block_assign_push: the targets from the last to the first; the last one
\* takes the value, the others copy it.
block_assign_push(p, k, s, defs) ==
    LET n == Len(s.targets)
    IN (p :> Goto(p \o ".tmp"))
       @@ Expr(p \o ".tmp", Sub(p, n), s.expr, defs)
       @@ Merge([i \in 1 .. n |-> AssignTo(Sub(p, i), IF i = 1 THEN k ELSE Sub(p, i - 1), p \o ".tmp",
                                           Owned(s.expr) /\ i = n, s.targets[i], defs)])

\* block_assign_mod_push: the target is read as an expression and assigned to.
block_assign_mod_push(p, k, s, defs) ==
    LET old == p \o ".assign"
    IN (p :> Goto(p \o ".expr"))
       @@ Expr(p \o ".expr", old, s.expr, defs) @@ Expr(old, p \o ".op", s.target, defs)
       @@ (p \o ".op" :> Do(p \o ".out", s.op, <<old, p \o ".expr">>) \o Goto(p \o ".to"))
       @@ AssignTo(p \o ".to", p \o ".free", p \o ".out", TRUE, s.target, defs)
       @@ (p \o ".free" :> FreeIf(Owned(s.expr), p \o ".expr") \o FreeIf(Owned(s.target), old) \o Goto(k))

----------------------------------------------------------------------------
(* if and for                                                              *)

block_if_push(p, k, s, c, defs) ==
    LET next(i) == IF i > Len(s.branches) THEN p \o ".else" ELSE Sub(p, i)
        block(i) == Sub(p, i) \o ".block"
    IN (p :> Goto(next(1)))
       @@ Merge([i \in DOMAIN s.branches |->
             Expr(Sub(p, i), Sub(p, i) \o ".test", s.branches[i].cond, defs)
             @@ (Sub(p, i) \o ".test" :> If(Sub(p, i), block(i), next(i + 1)))
             @@ Block(block(i), k, s.branches[i].block, c, defs)])
       @@ Block(p \o ".else", k, s.alt, c, defs)

\* A break leaves the variables of this round, and all before it, on the stack.
block_for_push(p, k, s, c, defs) ==
    LET n == Len(s.params)
    IN Expr(p, k, Iterator(s.params, s.cond, c.ret), defs)
       @@ Block(p \o ".expr", Back(p, k, n), s.block,
                         [cont |-> Back(p, k, n), brk |-> k, ret |-> p \o ".ret"], Inside(p, s.params, n, defs))

----------------------------------------------------------------------------
(* match                                                                   *)

Pops(names) == FlattenSeq([i \in DOMAIN names |-> Do("_", "StackPop", <<names[i]>>)])

\* pop_block_new: every way out of a case passes through a block that first does
\* what the case has to undo.
WaysOut(p, c) == {p \o "." \o w : w \in {"follow", "end", "ret"} \cup (IF c.brk = "" THEN {} ELSE {"cont", "brk"})}
Onward(p, q, end, next, c) ==
    CASE q = p \o ".follow" -> next [] q = p \o ".end" -> end [] q = p \o ".ret" -> c.ret
      [] q = p \o ".cont" -> c.cont [] q = p \o ".brk" -> c.brk
ExitsUnpopped(p, undo, end, next, c) ==
    [q \in WaysOut(p, c) |-> (IF q = p \o ".ret" THEN <<>> ELSE undo) \o Goto(Onward(p, q, end, next, c))]
Exits(p, undo, end, next, c) == [q \in WaysOut(p, c) |-> undo \o Goto(Onward(p, q, end, next, c))]
Way(p, c) == [cont |-> p \o ".cont", brk |-> IF c.brk = "" THEN "" ELSE p \o ".brk", ret |-> p \o ".ret"]

\* The condition and the statements of a case.
case_body(p, s, c, defs) ==
    (IF Present(s.cond)
     THEN Expr(p \o ".cond", p \o ".test", s.cond, defs)
          @@ (p \o ".test" :> If(p \o ".cond", p \o ".block", p \o ".follow"))
     ELSE p \o ".cond" :> Goto(p \o ".block"))
    @@ Block(p \o ".block", p \o ".end", s.block, Way(p, c), defs)

\* block_stack_copied_add_push: a variable that begins with what its name
\* stands for, or with om.
block_stack_copied_add_push(q, k, v, defs) ==
    (q :> When("StackInScope", <<v>>, q \o ".assign", q \o ".tmp_om"))
    @@ block_var_push(q \o ".assign", q \o ".set", Var(v), defs)
    @@ (q \o ".set" :> Let(q \o ".tmp", q \o ".assign") \o Goto(q \o ".follow"))
    @@ (q \o ".tmp_om" :> Let(q \o ".tmp", "om") \o Goto(q \o ".follow"))
    @@ (q \o ".follow" :> Do(q \o ".ptr", "StackAdd", <<v>>) \o Do(q \o ".copy", "Copy", <<q \o ".tmp">>)
                          \o Store(q \o ".ptr", q \o ".copy") \o Goto(k))

\* block_case_equiv_push: vars are the variables of the patterns before it.  A case
\* that is none of these patterns (match_stmt.rs:177: its tree is compared with the
\* value as code) is left out.
NewVars(vars, pat) ==
    SelectSeq(IF pat.is = "call" THEN AllVars(pat.params, Append(VarsOf(pat), pat.name)) ELSE VarsOf(pat),
              LAMBDA v : ~Contains(vars, v))
AddAll(p, k, new, pat, defs) ==
    IF pat.is \in {"list", "set"}
    THEN p \o ".add" :> FlattenSeq([i \in DOMAIN new |-> Do(Sub(p, i) \o ".ptr", "StackAdd", <<new[i]>>)]) \o Goto(k)
    ELSE (p \o ".add" :> Goto(IF new = <<>> THEN k ELSE Sub(p, 1)))
         @@ Merge([i \in DOMAIN new |->
              block_stack_copied_add_push(Sub(p, i), IF i = Len(new) THEN k ELSE Sub(p, i + 1), new[i], defs)])
Bound(p, new, defs) == [v \in ToSet(new) |-> Sub(p, LastAt(new, v)) \o ".ptr"] @@ defs
block_case_equiv_push(p, k, x, ts, new, pat, defs) ==
    IF pat.is = "lit" THEN p \o ".add" :> Let(p \o ".e", pat.lit) \o Do(ts, "equal", <<x, p \o ".e">>)
                                          \o FreeIf(Owned(pat), p \o ".e") \o Goto(k)
    ELSE AddAll(p, p \o ".pat", new, pat, defs)
         @@ Pattern(p \o ".pat", k, x, [owned |-> FALSE, ts |-> ts], Bound(p, new, defs), pat)

Adding(acc, p, pat, new) ==
    [vars |-> acc.vars \o new, new |-> Append(acc.new, new), before |-> Append(acc.before, acc.defs),
     defs |-> Bound(p, new, acc.defs), pops |-> (IF pat.is \in {"list", "set"} THEN acc.vars \o new ELSE new) \o acc.pops]

\* The variables each pattern of a case adds, the pointers known behind it, and
\* the pops the ways out pass through: after a collection all, else the new ones.
Added(p, pats, defs) ==
    LET with[i \in 0 .. Len(pats)] ==
          IF i = 0 THEN [vars |-> <<>>, new |-> <<>>, before |-> <<>>, defs |-> defs, pops |-> <<>>]
          ELSE Adding(with[i - 1], Sub(p, i), pats[i], NewVars(with[i - 1].vars, pats[i]))
    IN with[Len(pats)]

\* block_match_case_push, with block_match_case_matches_push.
block_match_case_push(p, x, s, end, next, c, defs) ==
    LET a == Added(p, s.pats, defs)
        n == Len(s.pats)
        matched == p \o ".matched"
        tried(i) == Sub(p, i) \o ".tried"
    IN (p :> Goto(Sub(p, 1) \o ".add"))
       @@ Merge([i \in 1 .. n |->
             block_case_equiv_push(Sub(p, i), tried(i), x, matched, a.new[i], s.pats[i], a.before[i])
             @@ (tried(i) :> IF i = n THEN Goto(p \o ".branch")
                              ELSE If(matched, p \o ".branch", Sub(p, i + 1) \o ".add"))])
       @@ (p \o ".branch" :> If(matched, p \o ".cond", p \o ".follow"))
       @@ case_body(p, s, c, a.defs)
       @@ Exits(p, Pops(a.pops), end, next, c)

\* block_match_regex_push: a pattern that is compiled; the groups are assigned to
\* a list or a variable.
block_match_regex_push(p, x, s, end, next, c, defs) ==
    LET out == Present(s.out)
        vars == IF out THEN VarsOf(s.out) ELSE <<>>
        inside == [v \in ToSet(vars) |-> p \o ".var." \o v] @@ defs
        undo == FreeIf(Owned(s.pattern), p \o ".pattern") \o Free(p \o ".regex")
    IN (p :> Goto(p \o ".pattern"))
       @@ Expr(p \o ".pattern", p \o ".compile", s.pattern, defs)
       @@ (p \o ".compile" :> Do(p \o ".regex", "RegexCompile", <<p \o ".pattern", "1">>)
             \o (IF out THEN Let(p \o ".matched", "false") \o AddrOf(p \o ".matched")
                             \o Do(p \o ".groups", "RegexMatchGroups", <<x, p \o ".regex", p \o ".matched_addr">>)
                             \o If(p \o ".matched", p \o ".assign", p \o ".unmatched")
                 ELSE Do(p \o ".matched", "RegexMatch", <<x, p \o ".regex">>)
                      \o If(p \o ".matched", p \o ".cond", p \o ".unmatched")))
       @@ (p \o ".unmatched" :> undo \o Goto(next))
       @@ (IF out THEN (p \o ".assign" :>
                           FlattenSeq([i \in DOMAIN vars |-> Do(p \o ".var." \o vars[i], "StackAdd", <<vars[i]>>)])
                           \o Let(p \o ".success", "false") \o Goto(p \o ".parse"))
                       @@ Pattern(p \o ".parse", p \o ".parsed", p \o ".groups",
                                       [owned |-> TRUE, ts |-> p \o ".success"], inside, s.out)
                       @@ (p \o ".parsed" :> If(p \o ".success", p \o ".cond", p \o ".follow"))
           ELSE <<>>)
       @@ case_body(p, s, c, inside)
       @@ Exits(p, Pops(vars) \o undo, end, next, c)

\* block_match_push: the cases in order, the default at the end.
block_match_push(p, k, s, c, defs) ==
    LET x == p \o ".expr"
        next(i) == IF i > Len(s.cases) THEN p \o ".default" ELSE Sub(p, i)
        case(i, b) == IF b.is = "case" THEN block_match_case_push(Sub(p, i), x, b, p \o ".end", next(i + 1), c, defs)
                      ELSE block_match_regex_push(Sub(p, i), x, b, p \o ".end", next(i + 1), c, defs)
    IN (p :> Goto(x))
       @@ Expr(x, next(1), s.expr, defs)
       @@ Merge([i \in DOMAIN s.cases |-> case(i, s.cases[i])])
       @@ Block(p \o ".default", p \o ".end", s.default, c, defs)
       @@ (p \o ".end" :> FreeIf(Owned(s.expr), x) \o Goto(k))

----------------------------------------------------------------------------
(* Statements                                                              *)

return_push(p, s, c, defs) ==
    IF Present(s.expr)
    THEN (p :> Goto(p \o ".val")) @@ Expr(p \o ".val", p \o ".keep", s.expr, defs)
         @@ (p \o ".keep" :> Let("ret", p \o ".val") \o CopyUnless(Owned(s.expr), "ret")
                             \o Do("_", "MarkPersist", <<"ret">>) \o Goto(c.ret))
    ELSE p :> Let("ret", "om") \o Goto(c.ret)

Ends == {"return", "break", "continue"}
statement_push(p, k, s, c, defs) ==
    CASE s.is = "assign" -> block_assign_push(p, k, s, defs)
      [] s.is = "mod" -> block_assign_mod_push(p, k, s, defs)
      [] s.is = "if" -> block_if_push(p, k, s, c, defs)
      [] s.is = "for" -> block_for_push(p, k, s, c, defs)
      [] s.is = "match" -> block_match_push(p, k, s, c, defs)
      [] s.is = "return" -> return_push(p, s, c, defs)
      [] s.is = "break" -> p :> Goto(c.brk)
      [] s.is = "continue" -> p :> Goto(c.cont)
      [] s.is = "expr" -> (p :> Goto(p \o ".v")) @@ Expr(p \o ".v", p \o ".done", s.expr, defs)
                          @@ (p \o ".done" :> FreeIf(Owned(s.expr), p \o ".v") \o Goto(k))

\* block_populate: nothing follows a statement that leaves the list.
block_populate(p, k, stmts, c, defs) ==
    LET ends == {i \in DOMAIN stmts : stmts[i].is \in Ends}
        n == IF ends = {} THEN Len(stmts) ELSE CHOOSE i \in ends : \A j \in ends : i <= j
    IN (p :> Goto(IF n = 0 THEN k ELSE Sub(p, 1)))
       @@ Merge([i \in 1 .. n |->
                   statement_push(Sub(p, i), IF i = n THEN k ELSE Sub(p, i + 1), stmts[i], c, defs)])

----------------------------------------------------------------------------
(* Procedures                                                              *)

\* procedure_vars_aggregate: what the statements assign to.
RECURSIVE procedure_vars_aggregate(_)
InBlocks(bs) == FlattenSeq([i \in DOMAIN bs |-> procedure_vars_aggregate(bs[i].block)])
procedure_vars_aggregate(stmts) ==
    LET inner(s) == CASE s.is = "if" -> InBlocks(s.branches) \o procedure_vars_aggregate(s.alt)
                      [] s.is = "for" -> procedure_vars_aggregate(s.block)
                      [] s.is = "match" -> InBlocks(s.cases) \o procedure_vars_aggregate(s.default)
                      [] OTHER -> <<>>
        upto[i \in 0 .. Len(stmts)] ==
          IF i = 0 THEN <<>>
          ELSE IF stmts[i].is = "assign" THEN AllVars(stmts[i].targets, upto[i - 1])
          ELSE upto[i - 1] \o inner(stmts[i])
    IN upto[Len(stmts)]

VarsDefs(vars) == [v \in ToSet(vars) |-> "var." \o ToString(LastAt(vars, v))]
ParamsDefs(params, n, defs) ==
    LET names == [i \in 1 .. n |-> params[i].name]
    IN [v \in ToSet(names) |-> "param." \o ToString(LastAt(names, v))] @@ defs

proc_vars_push(vars) ==
    FlattenSeq([i \in DOMAIN vars |-> Do("var." \o ToString(i), "StackAdd", <<vars[i]>>)])

\* proc_params_push: an rw parameter is the variable it is called with, any
\* other is a copy of it.
proc_param_push(i, k, param, defs) ==
    LET tmp == "param." \o ToString(i)
        q == tmp \o ".init"
    IN (q :> (IF param.rw THEN Param(tmp, ToString(i - 1)) \o Do("_", "StackAlias", <<param.name, tmp>>)
              ELSE Param(q \o ".ptr", ToString(i - 1)) \o Do(tmp, "StackAdd", <<param.name>>)
                   \o Deref(q \o ".val", q \o ".ptr") \o Do(q \o ".copy", "Copy", <<q \o ".val">>)
                   \o Store(tmp, q \o ".copy"))
             \o (IF Present(param.default)
                 THEN Deref(q \o ".old", tmp) \o When("equal", <<q \o ".old", "om">>, q \o ".set", k)
                 ELSE Goto(k)))
       @@ (IF Present(param.default)
           THEN Expr(q \o ".set", q \o ".follow", param.default, defs)
                @@ (q \o ".follow" :> Store(tmp, q \o ".set") \o Goto(k))
           ELSE <<>>)
ParamLabel(params, i) == IF i > Len(params) THEN "body" ELSE "param." \o ToString(i) \o ".init"
proc_params_push(params, defs) ==
    Merge([i \in DOMAIN params |->
             proc_param_push(i, ParamLabel(params, i + 1), params[i], ParamsDefs(params, i, defs))])

\* params_to_cache_key_push: copies of the parameters, before the body sees them.
params_to_cache_key_push ==
    [main |-> Do("iter", "IterNew", <<"params">>) \o Do("key", "ListNew", <<>>) \o Goto("main.iter")]
    @@ ("main.iter" :> ForNext("i", "iter", "main.push", "vars"))
    @@ ("main.push" :> Deref("val", "i") \o Do("val_insert", "Copy", <<"val">>)
                       \o Do("_", "ListPush", <<"key", "val_insert">>) \o Goto("main.iter"))

\* procedure_new, but for the frame.
procedure_new(f) ==
    LET vars == procedure_vars_aggregate(f.body)
        defs == ParamsDefs(f.params, Len(f.params), VarsDefs(vars))
        end == IF f.cached THEN "end" ELSE "ret"
    IN (IF f.cached
        THEN [init |-> AddrOf("ret") \o Do("lookup_res", "CacheLookup", <<"ret_addr">>) \o If("lookup_res", "ret", "main"),
              end |-> Do("t_ret", "Copy", <<"ret">>) \o Do("_", "CacheAdd", <<"key", "t_ret">>) \o Goto("ret")]
             @@ params_to_cache_key_push
        ELSE [init |-> Goto("main"), main |-> Goto("vars")])
       @@ [vars |-> proc_vars_push(vars) \o Goto(ParamLabel(f.params, 1))]
       @@ proc_params_push(f.params, VarsDefs(vars))
       @@ Block("body", "next", f.body, [cont |-> "", brk |-> "", ret |-> end], defs)
       @@ [next |-> Let("ret", "om") \o Goto(end), ret |-> Return("ret")]

Fragment(f) ==
    CASE f.of = "expr" -> block_expr_push(f.p, f.k, f.e, f.defs)
      [] f.of = "pattern" -> assign_parse(f.p, f.k, f.x, f.c, f.defs, f.pat)
      [] f.of = "stmts" -> block_populate(f.p, f.k, f.stmts, f.c, f.defs)
      [] f.of = "procedure" -> procedure_new(f.proc)
=============================================================================
