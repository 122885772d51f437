------------------------------ MODULE ExprCode ------------------------------
(***************************************************************************)
(* Expressions as the blocks they are lowered to: variables, literals,     *)
(* operators, collections, comprehensions, quantifiers and the iterators   *)
(* under them, terms, and access to members of collections                 *)
(* (ir/lower/iter.rs, ir/lower/expr/).  As in Patterns, a fragment starts  *)
(* at the label p and goes on to k; the value is left in the register p.   *)
(***************************************************************************)
EXTENDS Patterns
LOCAL INSTANCE Code
LOCAL INSTANCE Operators
LOCAL INSTANCE Members
LOCAL INSTANCE TLC
LOCAL INSTANCE Sequences
LOCAL INSTANCE SequencesExt
LOCAL INSTANCE FiniteSetsExt

Span(kind, left, right) == [is |-> kind, left |-> left, right |-> right]
Compr(kind, expr, params, cond) == [is |-> "compr", kind |-> kind, expr |-> expr, params |-> params, cond |-> cond]
Quant(kind, params, cond) == [is |-> "quant", kind |-> kind, params |-> params, cond |-> cond]
IterParam(pat, coll) == [pat |-> pat, coll |-> coll]
AccessTo(head, body) == [is |-> "access", head |-> head, body |-> body]
ByIndex(e) == [by |-> "index", key |-> e]
ByTag(es) == [by |-> "tag", keys |-> es]
AllBy(e) == [by |-> "all", key |-> e]
Between(left, right) == [by |-> "range", left |-> left, right |-> right]
Nothing == [is |-> "none"]
Present(e) == e # Nothing

\* Which register owns what an access goes through, "" if nothing does; and
\* whether an expression makes its value, so that the one who asked owns it.
RECURSIVE Owned(_)
OwnerAfter(p, a, i) ==
    LET own == {j \in 1 .. i : a.body[j].by = "all"}
    IN IF own # {} THEN Sub(p, Max(own)) \o ".all" ELSE IF Owned(a.head) THEN p \o ".var" ELSE ""
Owned(e) ==
    CASE e.is = "var" -> FALSE
      [] e.is = "lit" -> e.lit \notin {"true", "false", "REAL"}
      [] e.is = "access" -> OwnerAfter("", e, Len(e.body)) # ""
      [] OTHER -> TRUE
CopyUnless(owned, x) == IF owned THEN <<>> ELSE Do(x, "Copy", <<x>>)

\* Expressions one after the other, each followed by what is done with it, and
\* iterators are lowered by the same operator as the expressions they consist of.
RECURSIVE block_expr_push(_, _, _, _)
Several(es, then) == [is |-> "several", es |-> es, then |-> then]
Iterator(params, cond, ret) == [is |-> "iterator", params |-> params, cond |-> cond, ret |-> ret]

\* block_var_push: a variable of the procedure by its pointer, any other by its name.
block_var_push(p, k, e, defs) ==
    p :> (IF e.name \in DOMAIN defs THEN Deref(p, defs[e.name])
          ELSE Do(p \o ".ptr", "StackGetOrNew", <<e.name>>) \o Deref(p, p \o ".ptr"))
         \o Goto(k)

Only(es) == [i \in DOMAIN es |-> <<>>]
Collect(p, es, push, into) ==
    [i \in DOMAIN es |-> CopyUnless(Owned(es[i]), Sub(p, i)) \o Do("_", push, <<into, Sub(p, i)>>)]
InTurn(p, k, s, defs) ==
    Merge([i \in DOMAIN s.es |->
             block_expr_push(Sub(p, i), Sub(p, i) \o ".done", s.es[i], defs)
             @@ (Sub(p, i) \o ".done" :>
                   s.then[i] \o Goto(IF i = Len(s.es) THEN k ELSE Sub(p, i + 1)))])

----------------------------------------------------------------------------
(* Operators                                                               *)

\* The blocks of an operator as part of a procedure: its labels carry q, its
\* operands are in left and right.
Moved(q, code) ==
    [i \in DOMAIN code |->
       [f \in DOMAIN code[i] |-> IF f \in {"yes", "no", "catch"} THEN q \o code[i][f] ELSE code[i][f]]]
Embedded(q, blocks) ==
    LET inner == DOMAIN blocks \ {"init", "end"}
    IN [l \in {q \o b : b \in inner} |-> Moved(q, blocks[CHOOSE b \in inner : l = q \o b])]

block_binary_push(p, k, e, defs) ==
    LET l == Sub(p, 1)
        r == Sub(p, 2)
        freed(x, y) == IF e.op \in {"setEq", "setNeq"} THEN <<>> ELSE FreeIf(Owned(x), "left") \o FreeIf(Owned(y), "right")
    IN block_expr_push(p, p \o ".op", Several(<<e.left, e.right>>, Only(<<e.left, e.right>>)), defs)
       @@ (p \o ".op" :> Let("left", l) \o Let("right", r) \o Goto(p \o ".op.start"))
       @@ Embedded(p \o ".op.", Body(e.op, Owned(e.left), Owned(e.right)))
       @@ (p \o ".op.end" :> freed(e.left, e.right) \o Let(p, "out") \o Goto(k))

block_single_push(p, k, e, defs) ==
    block_expr_push(Sub(p, 1), p \o ".op", e.expr, defs)
    @@ (p \o ".op" :> Let("left", Sub(p, 1)) \o Goto(p \o ".op." \o (IF e.op \in MemberOps THEN "start" ELSE "overload")))
    @@ Embedded(p \o ".op.", IF e.op \in MemberOps THEN block_mem_push(e.op, Owned(e.expr))
                             ELSE block_unary_op_push(e.op, Owned(e.expr)))
    @@ (p \o ".op.end" :> FreeIf(Owned(e.expr), "left") \o Let(p, "out") \o Goto(k))

----------------------------------------------------------------------------
(* Iterators                                                               *)

\* The pointers to the variables of the first n patterns.
Inside(p, params, n, defs) ==
    LET vars == [i \in 1 .. n |-> ToSet(VarsOf(params[i].pat))]
    IN [v \in UNION {vars[i] : i \in 1 .. n} |-> Sub(p, Max({i \in 1 .. n : v \in vars[i]})) \o ".var." \o v] @@ defs
Back(p, k, i) == IF i = 0 THEN k ELSE Sub(p, i) \o ".iter"

\* One pattern and its collection: every round adds the variables of the
\* pattern anew; at the end the collection goes, and the one before goes on.
iter_param(p, k, params, i, defs, next) ==
    LET q == Sub(p, i)
        vs == VarsOf(params[i].pat)
        out == IF Owned(params[i].coll) THEN q \o ".drop" ELSE Back(p, k, i - 1)
    IN block_expr_push(q, q \o ".new", params[i].coll, Inside(p, params, i - 1, defs))
       @@ (q \o ".new" :> Do(q \o ".it", "IterNew", <<q>>) \o Goto(q \o ".iter"))
       @@ (q \o ".iter" :> ForNext(q \o ".i", q \o ".it", q \o ".next", out))
       @@ (q \o ".drop" :> Free(q) \o Goto(Back(p, k, i - 1)))
       @@ (q \o ".next" :> FlattenSeq([j \in DOMAIN vs |-> Do(q \o ".var." \o vs[j], "StackAdd", <<vs[j]>>)])
                           \o Goto(q \o ".assign"))
       @@ assign_parse(q \o ".assign", next, q \o ".i", [owned |-> FALSE, ts |-> ""],
                       Inside(p, params, i, defs), params[i].pat)

\* A variable that occurs in several patterns must have been given equal values.
equal_all(p, params) ==
    LET homes == [i \in DOMAIN params |-> ToSet(VarsOf(params[i].pat))]
        vars == AllVars([i \in DOMAIN params |-> params[i].pat], <<>>)
        first(v) == Min({i \in DOMAIN params : v \in homes[i]})
        ptr(v, i) == Sub(p, i) \o ".var." \o v
        test(v, i) == Deref(p \o ".val", ptr(v, i)) \o Do(p \o ".equal", "equal", <<p \o ".first", p \o ".val">>)
                      \o Do(p \o ".equal_all", "and", <<p \o ".equal_all", p \o ".equal">>)
    IN Let(p \o ".equal_all", "true")
       \o FlattenSeq([j \in DOMAIN vars |-> Deref(p \o ".first", ptr(vars[j], first(vars[j])))
            \o FlattenSeq([i \in DOMAIN params |-> IF vars[j] \in homes[i] /\ i # first(vars[j]) THEN test(vars[j], i) ELSE <<>>])])

\* The way out of the body by a return: the collections and one round's variables go.
ret_pop(p, params, ret) ==
    FlattenSeq([i \in DOMAIN params |->
      LET vs == VarsOf(params[i].pat)
      IN FreeIf(Owned(params[i].coll), Sub(p, i)) \o FlattenSeq([j \in DOMAIN vs |-> Do("_", "StackPop", <<vs[j]>>)])])
    \o Goto(ret)

\* block_iterator_push: the body starts at p.expr, and goes back to Back(p, k, n).
block_iterator_push(p, k, it, defs) ==
    LET params == it.params
        n == Len(params)
        inside == Inside(p, params, n, defs)
        decide == If(p \o ".equal_all", p \o ".expr", Back(p, k, n))
    IN (p :> Goto(Sub(p, 1)))
       @@ Merge([i \in DOMAIN params |->
                   iter_param(p, k, params, i, defs, IF i = n THEN p \o ".all" ELSE Sub(p, i + 1))])
       @@ (IF Present(it.cond)
           THEN (p \o ".all" :> equal_all(p, params) \o Goto(p \o ".cond"))
                @@ block_expr_push(p \o ".cond", p \o ".test", it.cond, inside)
                @@ (p \o ".test" :> Do(p \o ".equal_all", "and", <<p \o ".equal_all", p \o ".cond">>) \o decide)
           ELSE p \o ".all" :> equal_all(p, params) \o decide)
       @@ (IF it.ret = "" THEN <<>> ELSE p \o ".ret" :> ret_pop(p, params, it.ret))

\* block_quant_push: the value is the default until a round decides.
block_quant_push(p, k, e, defs) ==
    LET n == Len(e.params)
        it == p \o ".it"
        exists == e.kind = "exists"
        decided == it \o ".decided"
    IN (p :> Let(p, IF exists THEN "false" ELSE "true") \o Goto(it))
       @@ block_expr_push(it, k, Iterator(e.params, Nothing, ""), defs)
       @@ block_expr_push(it \o ".expr", it \o ".branch", e.cond, Inside(it, e.params, n, defs))
       @@ (it \o ".branch" :> IF exists THEN If(it \o ".expr", decided, Back(it, k, n))
                              ELSE If(it \o ".expr", Back(it, k, n), decided))
       @@ (decided :> Let(p, IF exists THEN "true" ELSE "false") \o Goto(k))

----------------------------------------------------------------------------
(* Collections                                                             *)

\* block_list_truncate_push: om at the end of a list is left out.
block_list_truncate_push(p, k, l) ==
    LET i == p \o ".i"
    IN (p :> Do(i, "Amount", <<l>>) \o Goto(p \o ".cond"))
       @@ (p \o ".cond" :> When("equal", <<i, "0">>, p \o ".inv_list", p \o ".om"))
       @@ (p \o ".inv_list" :> Free(l) \o Do(l, "ListNew", <<>>) \o Goto(k))
       @@ (p \o ".om" :> Renew(i, "minus", <<i, "1">>) \o Do(p \o ".entry", "at", <<l, i>>)
                         \o When("equal", <<p \o ".entry", "om">>, p \o ".cond", p \o ".resize"))
       @@ (p \o ".resize" :> Renew(i, "plus", <<i, "1">>) \o Do("_", "ListResize", <<l, i>>) \o Free(i) \o Goto(k))

NewOf == [list |-> "ListNew", set |-> "SetNew"]
PushOf == [list |-> "ListPush", set |-> "SetInsert"]
RangeOp == [listrange |-> "ListRange", setrange |-> "SetRange"]
Trimmed(kind, p, k) == IF kind = "set" THEN p \o ".trim" :> Goto(k) ELSE block_list_truncate_push(p \o ".trim", k, p)

range_push(p, k, e, defs) ==
    block_expr_push(p, p \o ".range", Several(<<e.left, e.right>>, Only(<<e.left, e.right>>)), defs)
    @@ (p \o ".range" :> Do(p, RangeOp[e.is], <<Sub(p, 1), Sub(p, 2)>>)
                         \o FreeIf(Owned(e.left), Sub(p, 1)) \o FreeIf(Owned(e.right), Sub(p, 2))
                         \o Goto(p \o ".trim"))
    @@ Trimmed(IF e.is = "setrange" THEN "set" ELSE "list", p, k)

\* The elements one by one, and copies of those of the rest.
elements_push(p, k, e, defs) ==
    (p :> Do(p, NewOf[e.is], <<>>) \o Goto(Start(p, e.elems, p \o ".rest")))
    @@ block_expr_push(p, p \o ".rest", Several(e.elems, Collect(p, e.elems, PushOf[e.is], p)), defs)
rest_push(p, k, e, defs) ==
    LET n == p \o ".rest"
    IN block_expr_push(n, n \o ".new", e.rest, defs)
       @@ (n \o ".new" :> CopyUnless(Owned(e.rest), n) \o Do(n \o ".iter", "IterNew", <<n>>) \o Goto(n \o ".iter"))
       @@ (n \o ".iter" :> ForNext(n \o ".i", n \o ".iter", n \o ".insert", n \o ".follow"))
       @@ (n \o ".insert" :> Do(n \o ".copy", "Copy", <<n \o ".i">>) \o Do("_", PushOf[e.is], <<p, n \o ".copy">>)
                             \o Goto(n \o ".iter"))
       @@ (n \o ".follow" :> Free(n) \o Goto(k))
set_push(p, k, e, defs) ==
    elements_push(p, k, e, defs)
    @@ (IF e.rest = NoRest THEN p \o ".rest" :> Goto(p \o ".trim") ELSE rest_push(p, p \o ".trim", e, defs))
    @@ Trimmed(e.is, p, k)

comprehension_push(p, k, e, defs) ==
    LET n == Len(e.params)
        it == p \o ".it"
        x == it \o ".expr"
    IN (p :> Do(p, NewOf[e.kind], <<>>) \o Goto(it))
       @@ block_expr_push(it, p \o ".trim", Iterator(e.params, e.cond, ""), defs)
       @@ block_expr_push(x, x \o ".push", e.expr, Inside(it, e.params, n, defs))
       @@ (x \o ".push" :> CopyUnless(Owned(e.expr), x) \o Do("_", PushOf[e.kind], <<p, x>>)
                           \o Goto(Back(it, p \o ".trim", n)))
       @@ Trimmed(e.kind, p, k)

\* block_term_push: the members are stored into the places of a new term.
block_term_push(p, k, t, defs) ==
    (p :> (IF IsAst(t) THEN Do(p \o ".term", "AstNodeNewSized", <<TagOfTerm(t), ToString(Len(t.params))>>)
           ELSE Do(p \o ".term", "TermNew", <<t.tag, ToString(Len(t.params)), IF t.kind = "tterm" THEN "true" ELSE "false">>))
          \o AddrOf(p \o ".term") \o Goto(Start(p, t.params, p \o ".assign")))
    @@ block_expr_push(p, p \o ".assign",
         Several(t.params, [i \in DOMAIN t.params |->
                    LET q == Sub(p, i)
                    IN CopyUnless(Owned(t.params[i]), q)
                       \o Do(q \o ".place", "at", <<p \o ".term_addr", ToString(i)>>) \o Store(q \o ".place", q)]), defs)
    @@ (p \o ".assign" :> Let(p, p \o ".term") \o Goto(k))

----------------------------------------------------------------------------
(* Access                                                                  *)

\* block_arr_access_push: the position t in x, counted from one or from the
\* end, becomes one counted from zero; what lies before the start is the start.
block_arr_access_push(p, k, t, x, allow_zero) ==
    (p :> IF allow_zero THEN Goto(p \o ".assign") ELSE When("equal", <<t, "0">>, p \o ".throw", p \o ".assign"))
    @@ (p \o ".throw" :> Do("_", "Throw", <<"1", "index '0' is invalid">>) \o Unreachable)
    @@ (p \o ".assign" :> When("less", <<t, "0">>, p \o ".amount", p \o ".decr"))
    @@ (p \o ".amount" :> Do(p \o ".len", "Amount", <<x>>) \o Do(p \o ".new", "plus", <<p \o ".len", t>>)
                          \o Free(p \o ".len") \o Free(t) \o Let(t, p \o ".new")
                          \o When("less", <<t, "0">>, p \o ".set_zero", k))
    @@ (p \o ".set_zero" :> Free(t) \o Let(t, "0") \o Goto(k))
    @@ (p \o ".decr" :> Renew(t, "minus", <<t, "1">>) \o Goto(k))

Absent(q, head) == Let(q \o ".val", "om") \o AddrOf(q \o ".val") \o Let(head, q \o ".val_addr")

\* [i]: the member of a list, a text or a term by its position, that of a set of
\* pairs by the first of the pair.
access_one(q, k, e, head, defs) ==
    block_expr_push(q, q \o ".type", e, defs)
    @@ (q \o ".type" :> TypeIn(q \o ".num", q, {"number", "double"}) \o Deref(q \o ".val", head)
                        \o TypeIn(q \o ".set", q \o ".val", {"set"}) \o Do(q \o ".nset", "not", <<q \o ".set">>)
                        \o When("and", <<q \o ".num", q \o ".nset">>, q \o ".access_check", q \o ".tag"))
    @@ (q \o ".access_check" :> Do(q \o ".new", "minus", <<q, "1">>) \o Do(q \o ".len", "Amount", <<q \o ".val">>)
                                \o Do(q \o ".fits", "less", <<q \o ".new", q \o ".len">>) \o Free(q \o ".len")
                                \o If(q \o ".fits", q \o ".access", q \o ".past"))
    @@ (q \o ".access" :> Do(head, "at", <<head, q \o ".new">>) \o Free(q \o ".new") \o Goto(q \o ".follow"))
    @@ (q \o ".past" :> Free(q \o ".new") \o Goto(q \o ".dfl"))
    @@ (q \o ".dfl" :> Absent(q, head) \o Goto(q \o ".follow"))
    @@ (q \o ".tag" :> Do(q \o ".entry", "SetGetTag", <<q \o ".val", q>>)
                       \o When("equal", <<q \o ".entry", "om">>, q \o ".dfl", q \o ".assign_entry"))
    @@ (q \o ".assign_entry" :> Let(head, q \o ".entry") \o Goto(q \o ".follow"))
    @@ (q \o ".follow" :> FreeIf(Owned(e), q) \o Goto(k))

\* [i, j]: the member of a set of pairs whose first is the list of the keys.
access_tag(q, k, es, head, defs) ==
    (q :> Do(q, "ListNew", <<>>) \o Goto(Sub(q, 1)))
    @@ block_expr_push(q, q \o ".get", Several(es, Collect(q, es, "ListPush", q)), defs)
    @@ (q \o ".get" :> Deref(q \o ".val", head) \o Do(q \o ".entry", "SetGetTag", <<q \o ".val", q>>)
                       \o When("equal", <<q \o ".entry", "om">>, q \o ".dfl", q \o ".assign"))
    @@ (q \o ".dfl" :> Absent(q, head) \o Goto(q \o ".follow"))
    @@ (q \o ".assign" :> Let(head, q \o ".entry") \o Goto(q \o ".follow"))
    @@ (q \o ".follow" :> Free(q) \o Goto(k))

\* {k}: all second members of pairs whose first is k, as a set of its own.
access_all(q, k, e, head, defs) ==
    block_expr_push(q, q \o ".get", e, defs)
    @@ (q \o ".get" :> Deref(q \o ".val", head) \o Do(q \o ".all", "SetGetTagAll", <<q \o ".val", q>>)
                       \o AddrOf(q \o ".all") \o Let(head, q \o ".all_addr") \o FreeIf(Owned(e), q) \o Goto(k))

\* [i .. j]: a slice, from the start or to the end where a side is missing.
Side(q, e, dfl, next, defs) ==
    IF Present(e) THEN block_expr_push(q, q \o ".copy", e, defs)
                       @@ (q \o ".copy" :> CopyUnless(Owned(e), q) \o Goto(next))
    ELSE q :> Let(q, dfl) \o Goto(next)
access_range(q, k, b, head, defs) ==
    LET left == Sub(q, 1)
        right == Sub(q, 2)
    IN (q :> Goto(left))
       @@ Side(left, b.left, "1", right, defs) @@ Side(right, b.right, "-1", q \o ".val", defs)
       @@ (q \o ".val" :> Deref(q \o ".val", head) \o Goto(q \o ".left"))
       @@ block_arr_access_push(q \o ".left", q \o ".right", left, q \o ".val", FALSE)
       @@ block_arr_access_push(q \o ".right", q \o ".slice", right, q \o ".val", TRUE)
       @@ (q \o ".slice" :> Do(q \o ".right_new", "plus", <<right, "1">>) \o Free(right)
                            \o Do(q \o ".out", "Slice", <<q \o ".val", left, q \o ".right_new">>)
                            \o Free(q \o ".right_new") \o Free(left)
                            \o AddrOf(q \o ".out") \o Let(head, q \o ".out_addr") \o Goto(k))

access_step(q, k, b, head, defs) ==
    CASE b.by = "index" -> access_one(q, k, b.key, head, defs)
      [] b.by = "tag" -> access_tag(q, k, b.keys, head, defs)
      [] b.by = "all" -> access_all(q, k, b.key, head, defs)
      [] b.by = "range" -> access_range(q, k, b, head, defs)

\* block_access_ref_push: step by step; what owned the value before a step that
\* makes one of its own goes.
block_access_ref_push(p, k, a, defs) ==
    LET head == p \o ".head"
        owner(i) == OwnerAfter(p, a, i)
    IN block_expr_push(p \o ".var", p \o ".begin", a.head, defs)
       @@ (p \o ".begin" :> AddrOf(p \o ".var") \o Let(head, p \o ".var_addr") \o Goto(Sub(p, 1)))
       @@ Merge([i \in DOMAIN a.body |->
             access_step(Sub(p, i), Sub(p, i) \o ".own", a.body[i], head, defs)
             @@ (Sub(p, i) \o ".own" :>
                   FreeIf(owner(i - 1) \notin {"", owner(i)}, owner(i - 1))
                   \o Goto(IF i = Len(a.body) THEN k ELSE Sub(p, i + 1)))])

\* block_access_push: the member itself, or a copy when the owner goes.
block_access_push(p, k, a, defs) ==
    LET owner == OwnerAfter(p, a, Len(a.body))
    IN (p :> Goto(p \o ".var"))
       @@ block_access_ref_push(p, p \o ".out", a, defs)
       @@ (p \o ".out" :> (IF owner = "" THEN Deref(p, p \o ".head")
                           ELSE Deref(p \o ".member", p \o ".head") \o Do(p, "Copy", <<p \o ".member">>) \o Free(owner))
                          \o Goto(k))

block_expr_push(p, k, e, defs) ==
    CASE e.is = "var" -> block_var_push(p, k, e, defs)
      [] e.is = "lit" -> p :> Let(p, e.lit) \o Goto(k)
      [] e.is = "ignore" -> p :> Let(p, "om") \o Goto(k)
      [] e.is = "op" -> (p :> Goto(Sub(p, 1))) @@ block_binary_push(p, k, e, defs)
      [] e.is = "unary" -> (p :> Goto(Sub(p, 1))) @@ block_single_push(p, k, e, defs)
      [] e.is \in {"list", "set"} -> set_push(p, k, e, defs)
      [] e.is \in DOMAIN RangeOp -> (p :> Goto(Sub(p, 1))) @@ range_push(p, k, e, defs)
      [] e.is = "compr" -> comprehension_push(p, k, e, defs)
      [] e.is = "quant" -> block_quant_push(p, k, e, defs)
      [] e.is = "term" -> block_term_push(p, k, e, defs)
      [] e.is = "access" -> block_access_push(p, k, e, defs)
      [] e.is = "several" -> InTurn(p, k, e, defs)
      [] e.is = "iterator" -> block_iterator_push(p, k, e, defs)
=============================================================================
