------------------------------ MODULE Patterns ------------------------------
(***************************************************************************)
(* Assignment to a pattern (ir/lower/assign.rs), as the blocks it is       *)
(* lowered to.  A pattern is a record of the syntax tree, told apart by    *)
(* its field "is".  The code of a fragment starts at the label p and ends  *)
(* with a jump to k; its registers carry p in their names.  x holds the    *)
(* value, c says whether the pattern owns it (owned), and which register   *)
(* is set to whether it fits (ts), "" if a value that does not fit throws. *)
(* defs gives the register with the pointer to a variable known by its     *)
(* name.                                                                   *)
(***************************************************************************)
LOCAL INSTANCE Code
LOCAL INSTANCE TLC
LOCAL INSTANCE Sequences
LOCAL INSTANCE SequencesExt
LOCAL INSTANCE Integers
LOCAL INSTANCE FiniteSetsExt

Var(n) == [is |-> "var", name |-> n]
Lit(l) == [is |-> "lit", lit |-> l]
Ignore == [is |-> "ignore"]
Coll(kind, elems, rest) == [is |-> kind, elems |-> elems, rest |-> rest]
TermOf(kind, tag, params) == [is |-> "term", kind |-> kind, tag |-> tag, params |-> params]
Op(op, left, right) == [is |-> "op", op |-> op, left |-> left, right |-> right]
UnaryOp(op, expr) == [is |-> "unary", op |-> op, expr |-> expr]
CallOf(name, params) == [is |-> "call", name |-> name, params |-> params]
NoRest == [is |-> "none"]

Sub(p, i) == p \o "." \o ToString(i)
Merge(fs) == LET upto[i \in 0 .. Len(fs)] == IF i = 0 THEN <<>> ELSE upto[i - 1] @@ fs[i] IN upto[Len(fs)]
LastAt(s, x) == Max({i \in DOMAIN s : s[i] = x})
FreeIf(owned, x) == IF owned THEN Free(x) ELSE <<>>

\* expr_vars_push: the variables of a pattern, behind those met before.  The name
\* in a call is put there again whenever it is met.
RECURSIVE expr_vars_push(_, _)
AllVars(es, out) ==
    LET upto[i \in 0 .. Len(es)] == IF i = 0 THEN out ELSE expr_vars_push(es[i], upto[i - 1])
    IN upto[Len(es)]
expr_vars_push(e, out) ==
    CASE e.is = "var" -> IF Contains(out, e.name) THEN out ELSE Append(out, e.name)
      [] e.is \in {"list", "set"} -> AllVars(Append(e.elems, e.rest), out)
      [] e.is = "term" -> AllVars(e.params, out)
      [] e.is = "op" -> AllVars(<<e.left, e.right>>, out)
      [] e.is = "unary" -> expr_vars_push(e.expr, out)
      [] e.is = "call" -> AllVars(e.params, Append(out, e.name))
      [] OTHER -> out
VarsOf(e) == expr_vars_push(e, <<>>)

Succeed(c) == IF c.ts = "" THEN <<>> ELSE Let(c.ts, "true")
Mismatch(c, k, message) ==
    IF c.ts = "" THEN Do("_", "ExceptionThrow", <<"assign", message>>) \o Unreachable
    ELSE Let(c.ts, "false") \o Goto(k)
Borrowed(c) == [c EXCEPT !.owned = FALSE]

RECURSIVE assign_parse(_, _, _, _, _, _)

\* One member: it is borrowed, and the next one is looked at only if it fits.
Member(q, c, defs, get, e, next, follow) ==
    (q :> get \o Goto(q \o ".in"))
    @@ assign_parse(q \o ".in", q \o ".done", q, Borrowed(c), defs, e)
    @@ (q \o ".done" :> IF c.ts = "" THEN Goto(next) ELSE If(c.ts, next, follow))
Items(p, x, first, es) == [i \in DOMAIN es |-> Do(Sub(p, i), "at", <<x, ToString(first + i - 1)>>)]
Parts(p, c, defs, get, es, next, follow) ==
    Merge([i \in DOMAIN es |->
             Member(Sub(p, i), c, defs, get[i], es[i],
                    IF i = Len(es) THEN next ELSE Sub(p, i + 1), follow)])
Start(p, es, next) == IF es = <<>> THEN next ELSE Sub(p, 1)

\* A list or a text: the members are borrowed from it, the rest is a slice.
\* A value that does not fit is left to the immediate heap.
assign_list(p, k, x, c, defs, s) ==
    (p :> IfKind(x, {"list", "string"}, p \o ".assign", p \o ".except"))
    @@ (p \o ".assign" :> Succeed(c) \o Goto(Start(p, s.elems, p \o ".rest")))
    @@ Parts(p, c, defs, Items(p, x, 0, s.elems), s.elems, p \o ".rest", k)
    @@ (IF s.rest = NoRest THEN p \o ".rest" :> Goto(p \o ".free")
        ELSE (p \o ".rest" :> Do(p \o ".len", "Amount", <<x>>)
                              \o Do(p \o ".slice", "Slice", <<x, ToString(Len(s.elems)), p \o ".len">>)
                              \o Goto(p \o ".assign_rest"))
             @@ assign_parse(p \o ".assign_rest", p \o ".free", p \o ".slice", Borrowed(c), defs, s.rest))
    @@ (p \o ".free" :> FreeIf(c.owned, x) \o Goto(k))
    @@ (p \o ".except" :> Mismatch(c, k, "unassignable amount of collection members"))

\* A set: the members are taken out of it, or out of a copy, which the rest is then.
assign_set(p, k, x, c, defs, s) ==
    (p :> IfKind(x, {"set"}, p \o ".assign", p \o ".except"))
    @@ (p \o ".assign" :> Succeed(c) \o (IF c.owned THEN <<>> ELSE Do(x, "Copy", <<x>>))
                          \o Goto(Start(p, s.elems, p \o ".rest")))
    @@ Parts(p, c, defs, [i \in DOMAIN s.elems |-> Do(Sub(p, i), "SetTake", <<x, "true">>)], s.elems, p \o ".rest", k)
    @@ (IF s.rest = NoRest THEN p \o ".rest" :> Free(x) \o Goto(k)
        ELSE assign_parse(p \o ".rest", k, x, [c EXCEPT !.owned = TRUE], defs, s.rest))
    @@ (p \o ".except" :> Mismatch(c, k, "unassignable amount of collection members"))

assign_collection(p, k, x, c, defs, s) ==
    LET n == ToString(Len(s.elems))
    IN (p :> Do(p \o ".amount", "Amount", <<x>>) \o Do(p \o ".cond", "equal", <<n, p \o ".amount">>)
             \o (IF s.rest = NoRest THEN <<>>
                 ELSE Do(p \o ".more", "less", <<n, p \o ".amount">>)
                      \o Do(p \o ".cond", "or", <<p \o ".more", p \o ".cond">>))
             \o Free(p \o ".amount") \o If(p \o ".cond", p \o ".coll", p \o ".fail"))
       @@ (IF s.is = "set" THEN assign_set(p \o ".coll", k, x, c, defs, s)
           ELSE assign_list(p \o ".coll", k, x, c, defs, s))
       @@ (p \o ".fail" :> Mismatch(c, k, "unassignable amount of collection members"))

\* A variable: it takes the value it is given, or a copy of one it borrows, and
\* what it held before goes.
assign_var(p, k, x, c, defs, v) ==
    LET known == v.name \in DOMAIN defs
        ptr == IF known THEN defs[v.name] ELSE p \o ".ptr"
    IN p :> (IF known THEN <<>> ELSE Do(ptr, "StackGetOrNew", <<v.name>>))
            \o (IF c.owned THEN Let(p \o ".insert", x) ELSE Do(p \o ".insert", "Copy", <<x>>))
            \o Deref(p \o ".old", ptr) \o Free(p \o ".old")
            \o Store(ptr, p \o ".insert") \o Do("_", "MarkPersist", <<p \o ".insert">>)
            \o Succeed(c) \o Goto(k)

\* tterm_ast_tag_get: terms that stand for an operator are nodes of the syntax tree.
tterm_ast_tag_get == [sum |-> <<2, "plus">>, difference |-> <<2, "minus">>, not |-> <<1, "not">>]
IsAst(t) == t.kind = "tterm" /\ t.tag \in DOMAIN tterm_ast_tag_get /\ tterm_ast_tag_get[t.tag][1] = Len(t.params)
KindOfTerm(t) == IF IsAst(t) THEN "ast" ELSE t.kind
TagOfTerm(t) == IF IsAst(t) THEN tterm_ast_tag_get[t.tag][2] ELSE t.tag

assign_term(p, k, x, c, defs, t) ==
    (p :> IfKind(x, {"ast", "term", "tterm"}, p \o ".tagged", p \o ".fail"))
    @@ (p \o ".tagged" :> Do(p \o ".tag", "at", <<x, "0">>)
                          \o TypeIn(p \o ".type_eq", x, {KindOfTerm(t)})
                          \o Do(p \o ".tag_eq", "equal", <<p \o ".tag", TagOfTerm(t)>>)
                          \o Do(p \o ".len", "Amount", <<x>>)
                          \o Do(p \o ".len_eq", "equal", <<p \o ".len", ToString(Len(t.params))>>)
                          \o Do(p \o ".cond", "and", <<p \o ".type_eq", p \o ".tag_eq">>)
                          \o Do(p \o ".cond", "and", <<p \o ".cond", p \o ".len_eq">>)
                          \o If(p \o ".cond", p \o ".check_mem", p \o ".fail"))
    @@ (p \o ".check_mem" :> Succeed(c) \o Goto(Start(p, t.params, p \o ".follow")))
    @@ Parts(p, c, defs, Items(p, x, 1, t.params), t.params, p \o ".follow", p \o ".follow")
    @@ (p \o ".fail" :> Mismatch(c, p \o ".follow", "cannot assign to different kind of terms"))
    @@ (p \o ".follow" :> FreeIf(c.owned, x) \o Goto(k))

\* A node of the syntax tree with this tag.
ast_kind_str_eq_push(p, k, x, tag, out) ==
    (p :> IfKind(x, {"ast"}, p \o ".node", p \o ".other"))
    @@ (p \o ".node" :> Do(p \o ".tag", "at", <<x, "0">>) \o Do(out, "equal", <<p \o ".tag", tag>>) \o Goto(k))
    @@ (p \o ".other" :> Let(out, "false") \o Goto(k))

\* Patterns of operators, literals and calls only occur where a flag tells
\* whether they fit.
Node(p, k, x, c, tag, first) ==
    ast_kind_str_eq_push(p, p \o ".kind", x, tag, p \o ".fits")
    @@ (p \o ".kind" :> If(p \o ".fits", first, p \o ".fail"))
    @@ (p \o ".fail" :> Let(c.ts, "false") \o Goto(p \o ".follow"))
    @@ (p \o ".follow" :> FreeIf(c.owned, x) \o Goto(k))

assign_op(p, k, x, c, defs, o) ==
    Node(p, k, x, c, o.op, Sub(p, 1))
    @@ Parts(p, c, defs, Items(p, x, 1, <<o.left, o.right>>), <<o.left, o.right>>,
               p \o ".follow", p \o ".follow")

assign_unary_op(p, k, x, c, defs, o) ==
    Node(p, k, x, c, o.op, Sub(p, 1))
    @@ Parts(p, c, defs, Items(p, x, 1, <<o.expr>>), <<o.expr>>, p \o ".follow", p \o ".follow")

assign_literal(p, k, x, c, l) ==
    p :> Let(p \o ".e", l.lit) \o Do(c.ts, "equal", <<x, p \o ".e">>) \o Free(p \o ".e")
         \o FreeIf(c.owned, x) \o Goto(k)

\* A call: the variable that stands for the procedure takes the name as it is
\* written in the pattern.
assign_call(p, k, x, c, defs, f) ==
    LET known == f.name \in DOMAIN defs
        ptr == IF known THEN defs[f.name] ELSE p \o ".ptr"
    IN Node(p, k, x, c, "call", p \o ".check")
       @@ (p \o ".check" :> Do(p \o ".params", "at", <<x, "2">>) \o Do(p \o ".len", "Amount", <<p \o ".params">>)
                            \o When("equal", <<p \o ".len", ToString(Len(f.params))>>, p \o ".ast", p \o ".fail"))
       @@ (p \o ".ast" :> (IF known THEN <<>> ELSE Do(ptr, "StackGetOrNew", <<f.name>>))
                          \o Let(p \o ".name", f.name) \o Store(ptr, p \o ".name")
                          \o Goto(Start(p, f.params, p \o ".follow")))
       @@ Parts(p, c, defs, Items(p, p \o ".params", 0, f.params), f.params,
                  p \o ".follow", p \o ".follow")

assign_parse(p, k, x, c, defs, pat) ==
    CASE pat.is \in {"list", "set"} -> assign_collection(p, k, x, c, defs, pat)
      [] pat.is = "var" -> assign_var(p, k, x, c, defs, pat)
      [] pat.is = "term" -> assign_term(p, k, x, c, defs, pat)
      [] pat.is = "op" -> assign_op(p, k, x, c, defs, pat)
      [] pat.is = "unary" -> assign_unary_op(p, k, x, c, defs, pat)
      [] pat.is = "lit" -> assign_literal(p, k, x, c, pat)
      [] pat.is = "call" -> assign_call(p, k, x, c, defs, pat)
      [] pat.is = "ignore" -> p :> FreeIf(c.owned, x) \o Goto(k)
=============================================================================
