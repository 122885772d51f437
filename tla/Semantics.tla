------------------------------ MODULE Semantics ------------------------------
(***************************************************************************)
(* What procedures of the language mean, as an evaluator of the syntax     *)
(* tree over an environment of variables: no blocks, no registers, no      *)
(* heap.  A value is a tree; an expression that throws has the value Raise *)
(* and one that stops the program the value Panic.                         *)
(***************************************************************************)
EXTENDS Values
LOCAL INSTANCE Integers
LOCAL INSTANCE Sequences
LOCAL INSTANCE SequencesExt
LOCAL INSTANCE FiniteSets
LOCAL INSTANCE FiniteSetsExt
LOCAL INSTANCE TLC

Fails(v) == v \in Failures
FirstFailure(vs) == SelectSeq(vs, Fails)
Literal(l) == IF l \in DOMAIN Literals THEN Literals[l] ELSE Text(<<l>>)

\* Variables nobody has given a value are undefined.
Get(env, n) == IF n \in DOMAIN env THEN env[n] ELSE Om
Restored(env, names, old) == [n \in names |-> Get(old, n)] @@ env

\* What collections hold, and the list without om at its end.
CharsOf(s) == [i \in DOMAIN s |-> Char(s[i])]
ItemsOf(v) == CASE v.kind \in {"list", "set"} -> v.elems [] v.kind = "string" -> CharsOf(v.text)
Iterable(v) == v.kind \in {"list", "set", "string"}
Trim(s) == SubSeq(s, 1, Max({0} \cup {i \in DOMAIN s : s[i] # Om}))
Collected(kind, s) == IF kind = "list" THEN List(Trim(s)) ELSE SetObj(SetOf(SelectSeq(s, LAMBDA v : v # Om)))

----------------------------------------------------------------------------
(* Operators                                                               *)

Computed == [plus |-> "plus", minus |-> "minus", mult |-> "mult", div |-> "quot", mod |-> "mod", intDiv |-> "intDiv",
             cartesian |-> "Cartesian", less |-> "less", eq |-> "equal"]
Negated(b) == IF b.kind = "bool" THEN Bool(~b.is) ELSE Raise
Either(a, b) == IF Fails(a) THEN a ELSE Bool(a.is \/ b.is)
RECURSIVE Applied(_, _, _)
Applied(op, x, y) ==
    CASE op \in {"minus", "mult", "mod", "div"} /\ {x.kind, y.kind} \cap Terms # {} -> Tagged("ast", <<op>>, <<x, y>>)
      [] op \in DOMAIN Computed -> Arithmetic(Computed[op], x, y)
      [] op = "neq" -> Bool(~Same(x, y))
      [] op = "greater" -> LessOf(y, x)
      [] op = "leq" -> Either(LessOf(x, y), Bool(Same(x, y)))
      [] op = "geq" -> Applied("leq", y, x)
      [] op = "in" -> ContainsOf(y, x)
      [] op = "notIn" -> Negated(ContainsOf(y, x))
AppliedTo(op, x) ==
    CASE op # "sumMem" /\ x.kind \in Terms -> Tagged("ast", <<op>>, <<x>>)
      [] op = "unaryMinus" -> MinusOf(Number(0), x)
      [] op = "card" -> AmountOf(x)
      [] op = "not" -> Negated(x)
      [] op = "sumMem" -> IF ~Iterable(x) THEN Raise ELSE IF ItemsOf(x) = <<>> THEN Om
                          ELSE FoldLeft(LAMBDA s, v : IF Fails(s) THEN s ELSE PlusOf(s, v), Head(ItemsOf(x)), Tail(ItemsOf(x)))

----------------------------------------------------------------------------
(* Members                                                                 *)

\* A position counted from one, or from the end if it is negative.
FromEnd(n, i) == IF i < 0 THEN n + 1 + i ELSE i
Member1(v, i) ==
    LET at == FromEnd(Len(ItemsOf(v)), i)
    IN IF at > Len(ItemsOf(v)) THEN Om ELSE IF at < 1 THEN Panic ELSE ItemsOf(v)[at]

\* Pairs of a set with this first member.
SecondsOf(s, key) ==
    LET pairs == SelectSeq(s.elems, LAMBDA p : p.kind = "list" /\ Len(p.elems) > 1 /\ Same(p.elems[1], key))
    IN [i \in DOMAIN pairs |-> pairs[i].elems[2]]
Looked(v, key) ==
    CASE v.kind = "set" -> Head(Append(SecondsOf(v, key), Om))
      [] IsNum(key) /\ v.kind \in {"list", "string"} -> Member1(v, WholeOf(key))
      [] OTHER -> Raise

\* A part of a list or a text; nothing before the start or behind the end.
Part(v, i, j) ==
    LET n == Len(ItemsOf(v))
        from == Max({1, FromEnd(n, i)})
        to == Min({n, FromEnd(n, j)})
    IN IF v.kind = "string" THEN Text(SubSeq(v.text, from, to)) ELSE List(SubSeq(v.elems, from, to))

\* The value with its member at these keys replaced.
RECURSIVE Changed(_, _, _)
Changed(v, keys, new) ==
    LET key == Head(keys)
        inner(old) == IF Tail(keys) = <<>> THEN new ELSE Changed(old, Tail(keys), new)
        at == {i \in DOMAIN v.elems : Same(v.elems[i].elems[1], key)}
        pos == Max({1, FromEnd(Len(ItemsOf(v)), WholeOf(key))})
        long == v.elems \o [i \in 1 .. Max({0, pos - Len(v.elems)}) |-> Om]
        pair == inner(v.elems[Min(at)].elems[2])
        elem == inner(long[pos])
    IN CASE v.kind = "set" -> IF Fails(pair) THEN pair ELSE [v EXCEPT !.elems[Min(at)].elems[2] = pair]
         [] v.kind = "list" /\ IsNum(key) ->
               IF Quarters(key) = 0 THEN Raise ELSE IF Fails(elem) THEN elem ELSE List([long EXCEPT ![pos] = elem])
         [] v.kind = "string" /\ IsNum(key) ->
               IF Quarters(key) = 0 THEN Raise
               ELSE Text(SubSeq(v.text, 1, pos - 1) \o Serialize(new) \o SubSeq(v.text, pos + 1, Len(v.text)))
         [] OTHER -> Raise

----------------------------------------------------------------------------
(* Patterns                                                                *)

\* Whether a value has the shape of a pattern ("fits", "differs", or a failure)
\* and the variables with what they stand for then.  The shape of a value that
\* is no collection cannot be asked for the number of its members.
Fitting(env) == [how |-> "fits", env |-> env]
Differs(env) == [how |-> "differs", env |-> env]
RECURSIVE Fit(_, _, _)
FitAll(pats, vs, env) ==
    FoldLeft(LAMBDA acc, i : IF acc.how = "fits" THEN Fit(pats[i], vs[i], acc.env) ELSE acc,
             Fitting(env), [i \in DOMAIN pats |-> i])
FitColl(pat, v, env) ==
    LET n == Len(pat.elems)
        all == FitAll(pat.elems, ItemsOf(v), env)
        rest == IF v.kind = "string" THEN Text(SubSeq(v.text, n + 1, Len(v.text)))
                ELSE [v EXCEPT !.elems = SubSeq(@, n + 1, Len(@))]
    IN CASE Fails(AmountOf(v)) -> [how |-> "raise", env |-> env]
         [] ~Iterable(v) \/ (v.kind = "set") # (pat.is = "set") -> Differs(env)
         [] n > Len(ItemsOf(v)) \/ (pat.rest.is = "none" /\ n < Len(ItemsOf(v))) -> Differs(env)
         [] pat.rest.is = "none" \/ all.how # "fits" -> all
         [] OTHER -> Fit(pat.rest, rest, all.env)
Fit(pat, v, env) ==
    LET node(tag) == v.kind = "ast" /\ v.tag = <<tag>>
        as(kind, tag) == v.kind = kind /\ v.tag = <<tag>> /\ Len(v.elems) = Len(pat.params)
        operator == IF pat.kind = "tterm" THEN AstTag(<<pat.tag>>, Len(pat.params)) ELSE Om
    IN CASE pat.is = "ignore" -> Fitting(env)
         [] pat.is = "var" -> Fitting((pat.name :> v) @@ env)
         [] pat.is = "lit" -> IF Same(v, Literal(pat.lit)) THEN Fitting(env) ELSE Differs(env)
         [] pat.is \in {"list", "set"} -> FitColl(pat, v, env)
         [] pat.is = "term" ->
               IF (operator = Om /\ as(pat.kind, pat.tag)) \/ (operator # Om /\ as("ast", operator.text[1]))
               THEN FitAll(pat.params, v.elems, env) ELSE Differs(env)
         [] pat.is = "op" -> IF node(pat.op) THEN FitAll(<<pat.left, pat.right>>, v.elems, env) ELSE Differs(env)
         [] pat.is = "unary" -> IF node(pat.op) THEN Fit(pat.expr, v.elems[1], env) ELSE Differs(env)
         [] pat.is = "call" -> IF node("call") /\ Len(v.elems[2].elems) = Len(pat.params)
                               THEN FitAll(pat.params, v.elems[2].elems, (pat.name :> Text(<<pat.name>>)) @@ env)
                               ELSE Differs(env)

\* The variables a pattern gives a value.
RECURSIVE NamesIn(_)
NamesOf(ps) == UNION {NamesIn(ps[i]) : i \in DOMAIN ps}
NamesIn(p) ==
    CASE p.is = "var" -> {p.name}
      [] p.is \in {"list", "set"} -> NamesOf(Append(p.elems, p.rest))
      [] p.is = "term" -> NamesOf(p.params)
      [] p.is = "op" -> NamesOf(<<p.left, p.right>>)
      [] p.is = "unary" -> NamesIn(p.expr)
      [] p.is = "call" -> {p.name} \cup NamesOf(p.params)
      [] OTHER -> {}

----------------------------------------------------------------------------
(* Expressions.  A state st says how the statements so far went on ("next", *)
(* "break", "continue", "return", or a failure), with the variables, the    *)
(* value returned, and what a comprehension has collected.                  *)

State(env) == [how |-> "next", env |-> env, val |-> Om, acc |-> <<>>]
Failing(st, v) == [st EXCEPT !.how = v.kind]

\* The value of an expression, the state behind the rounds of an iterator from
\* the i-th pattern on, the state behind statements, and what a call leaves.
RECURSIVE Meant(_)
Eval(e, env) == Meant([of |-> "expr", e |-> e, env |-> env])
Each(q, i, st, bound) == Meant([of |-> "rounds", q |-> q, i |-> i, st |-> st, bound |-> bound])
Exec(stmts, st) == Meant([of |-> "stmts", stmts |-> stmts, st |-> st])
EvalAll(es, env) == [i \in DOMAIN es |-> Eval(es[i], env)]

\* The value computed from these, unless one of them fails.
With(vs, F(_)) == IF FirstFailure(vs) # <<>> THEN Head(FirstFailure(vs)) ELSE F(vs)

Step(v, b, env) ==
    CASE b.by = "index" -> With(<<Eval(b.key, env)>>, LAMBDA k : Looked(v, k[1]))
      [] b.by = "tag" -> With(EvalAll(b.keys, env), LAMBDA ks : IF v.kind = "set" THEN Looked(v, List(ks)) ELSE Raise)
      [] b.by = "all" -> With(<<Eval(b.key, env)>>,
                              LAMBDA k : IF v.kind = "set" THEN SetObj(SetOf(SecondsOf(v, k[1]))) ELSE Raise)
      [] b.by = "range" ->
            LET side(e, dfl) == IF e.is = "none" THEN Number(dfl) ELSE Eval(e, env)
            IN With(<<side(b.left, 1), side(b.right, -1)>>,
                    LAMBDA s : IF v.kind \notin {"list", "string"} \/ ~IsNum(s[1]) \/ ~IsNum(s[2]) \/ Quarters(s[1]) = 0 THEN Raise
                               ELSE Part(v, WholeOf(s[1]), WholeOf(s[2])))

\* The rounds of an iterator from the i-th pattern on: every choice of members
\* that fits the patterns, gives a variable that occurs twice equal values, and
\* for which the condition holds.
Doing(st, todo) ==
    CASE todo.is = "block" -> Exec(todo.block, st)
      [] todo.is = "collect" -> LET v == Eval(todo.expr, st.env)
                                IN IF Fails(v) THEN Failing(st, v) ELSE [st EXCEPT !.acc = Append(@, v)]
      [] todo.is = "decide" -> LET v == Eval(todo.expr, st.env)
                               IN IF Fails(v) THEN Failing(st, v)
                                  ELSE IF v.kind # "bool" THEN Failing(st, Raise)
                                  ELSE IF v.is = todo.by THEN [st EXCEPT !.how = "break", !.val = v] ELSE st
Innermost(q, st, bound) ==
    LET equal == \A i, j \in DOMAIN bound : \A n \in DOMAIN bound[i] \cap DOMAIN bound[j] : Same(bound[i][n], bound[j][n])
        c == IF q.cond.is = "none" THEN Bool(TRUE) ELSE Eval(q.cond, st.env)
        done == Doing(st, q.todo)
    IN IF Fails(c) \/ c.kind # "bool" THEN Failing(st, IF Fails(c) THEN c ELSE Raise)
       ELSE IF ~equal \/ ~c.is THEN st
       ELSE IF done.how = "continue" THEN [done EXCEPT !.how = "next"] ELSE done
RoundsFrom(q, i, st, bound) ==
    IF i > Len(q.params) THEN Innermost(q, st, bound)
    ELSE LET p == q.params[i]
             c == Eval(p.coll, st.env)
             names == NamesIn(p.pat)
             round(s, v) ==
                LET f == Fit(p.pat, v, s.env)
                    in == Each(q, i + 1, [s EXCEPT !.env = f.env], Append(bound, [n \in names |-> f.env[n]]))
                IN IF s.how # "next" THEN s
                   ELSE IF f.how # "fits" THEN Failing(s, Raise)
                   ELSE [in EXCEPT !.env = Restored(@, names, s.env)]
         IN IF Fails(c) THEN Failing(st, c)
            ELSE IF ~Iterable(c) THEN Failing(st, Raise)
            ELSE FoldLeft(round, st, ItemsOf(c))
Rounds(params, cond, todo, st) == Each([params |-> params, cond |-> cond, todo |-> todo], 1, st, <<>>)

Quantified(e, env) ==
    LET exists == e.kind = "exists"
        st == Rounds(e.params, [is |-> "none"], [is |-> "decide", expr |-> e.cond, by |-> exists], State(env))
    IN CASE st.how = "next" -> Bool(~exists)
         [] st.how = "break" -> Bool(exists)
         [] OTHER -> [kind |-> st.how]
Comprehended(e, env) ==
    LET st == Rounds(e.params, e.cond, [is |-> "collect", expr |-> e.expr], State(env))
    IN IF st.how = "next" THEN Collected(e.kind, st.acc) ELSE [kind |-> st.how]

ValueOf(e, env) ==
    CASE e.is = "var" -> Get(env, e.name)
      [] e.is = "lit" -> Literal(e.lit)
      [] e.is = "ignore" -> Om
      [] e.is = "op" -> With(EvalAll(<<e.left, e.right>>, env), LAMBDA vs : Applied(e.op, vs[1], vs[2]))
      [] e.is = "unary" -> With(EvalAll(<<e.expr>>, env), LAMBDA vs : AppliedTo(e.op, vs[1]))
      [] e.is \in {"list", "set"} ->
            With(EvalAll(e.elems \o (IF e.rest.is = "none" THEN <<>> ELSE <<e.rest>>), env),
                 LAMBDA vs : IF e.rest.is = "none" THEN Collected(e.is, vs)
                             ELSE IF ~Iterable(Last(vs)) THEN Raise
                             ELSE Collected(e.is, Front(vs) \o ItemsOf(Last(vs))))
      [] e.is \in {"listrange", "setrange"} ->
            With(EvalAll(<<e.left, e.right>>, env),
                 LAMBDA vs : LET r == RangeOf(vs[1], vs[2])
                             IN IF Fails(r) THEN r ELSE IF e.is = "listrange" THEN r ELSE SetObj(r.elems))
      [] e.is = "compr" -> Comprehended(e, env)
      [] e.is = "quant" -> Quantified(e, env)
      [] e.is = "term" ->
            With(EvalAll(e.params, env),
                 LAMBDA vs : LET op == IF e.kind = "tterm" THEN AstTag(<<e.tag>>, Len(vs)) ELSE Om
                             IN IF op = Om THEN Tagged(e.kind, <<e.tag>>, vs) ELSE Tagged("ast", op.text, vs))
      [] e.is = "access" ->
            FoldLeft(LAMBDA v, b : IF Fails(v) THEN v ELSE Step(v, b, env), Eval(e.head, env), e.body)

----------------------------------------------------------------------------
(* Statements                                                              *)

Keys(a, env) == [i \in DOMAIN a.body |-> IF a.body[i].by = "index" THEN Eval(a.body[i].key, env)
                                         ELSE With(EvalAll(a.body[i].keys, env), List)]
Binding(f, st) == IF f.how = "fits" THEN [st EXCEPT !.env = f.env] ELSE Failing(st, Raise)
Storing(new, n, st) == IF Fails(new) THEN Failing(st, new) ELSE [st EXCEPT !.env = (n :> new) @@ @]
AssignedTo(target, v, st) ==
    CASE st.how # "next" -> st
      [] target.is # "access" -> Binding(Fit(target, v, st.env), st)
      [] OTHER -> Storing(With(Keys(target, st.env), LAMBDA ks : Changed(Get(st.env, target.head.name), ks, v)),
                          target.head.name, st)
Assigned(targets, v, st) ==
    IF Fails(v) THEN Failing(st, v) ELSE FoldLeft(LAMBDA s, t : AssignedTo(t, v, s), st, Reverse(targets))

\* The first branch whose condition holds.
RECURSIVE Chosen(_, _, _)
Chosen(branches, alt, st) ==
    LET c == Eval(Head(branches).cond, st.env)
    IN IF branches = <<>> THEN Exec(alt, st)
       ELSE IF Fails(c) \/ c.kind # "bool" THEN Failing(st, IF Fails(c) THEN c ELSE Raise)
       ELSE IF c.is THEN Exec(Head(branches).block, st) ELSE Chosen(Tail(branches), alt, st)

\* The first case that fits and whose condition holds; its variables are its own.
FitCase(s, v, env) ==
    LET r == Eval(s.pattern, env)
        re == IF IsText(r) THEN Compiled(r, Number(1)) ELSE Raise
    IN IF s.is = "case"
       THEN FoldLeft(LAMBDA acc, p : IF acc.how = "differs" THEN Fit(p, v, acc.env) ELSE acc, Differs(env), s.pats)
       ELSE IF Fails(re) \/ ~IsText(v) THEN [how |-> "raise", env |-> env]
       ELSE IF ~Matches(v, re) THEN Differs(env)
       ELSE IF s.out.is = "none" THEN Fitting(env) ELSE Fit(s.out, GroupsOf(v, re), env)
CaseNames(s) == IF s.is = "case" THEN NamesOf(s.pats) ELSE NamesIn(s.out)
Entering(s, f, st, otherwise) ==
    LET c == IF s.cond.is = "none" THEN Bool(TRUE) ELSE Eval(s.cond, f.env)
        in == Exec(s.block, [st EXCEPT !.env = f.env])
    IN IF f.how \notin {"fits", "differs"} THEN [st EXCEPT !.how = f.how]
       ELSE IF f.how = "differs" THEN otherwise
       ELSE IF Fails(c) \/ c.kind # "bool" THEN Failing(st, IF Fails(c) THEN c ELSE Raise)
       ELSE IF c.is THEN [in EXCEPT !.env = Restored(@, CaseNames(s), st.env)]
       ELSE otherwise
RECURSIVE Matched(_, _, _, _)
Matched(cases, default, v, st) ==
    IF cases = <<>> THEN Exec(default, st)
    ELSE Entering(Head(cases), FitCase(Head(cases), v, st.env), st, Matched(Tail(cases), default, v, st))

Executed(s, st) ==
    LET v == Eval(s.expr, st.env)
        old == Eval(s.target, st.env)
        looped == Rounds(s.params, s.cond, [is |-> "block", block |-> s.block], st)
    IN CASE s.is = "assign" -> Assigned(s.targets, v, st)
         [] s.is = "mod" -> Assigned(<<s.target>>, With(<<v, old>>, LAMBDA vs : Arithmetic(s.op, old, v)), st)
         [] s.is = "expr" -> IF Fails(v) THEN Failing(st, v) ELSE st
         [] s.is = "return" -> IF s.expr.is = "none" THEN [st EXCEPT !.how = "return"]
                               ELSE IF Fails(v) THEN Failing(st, v) ELSE [st EXCEPT !.how = "return", !.val = v]
         [] s.is \in {"break", "continue"} -> [st EXCEPT !.how = s.is]
         [] s.is = "if" -> Chosen(s.branches, s.alt, st)
         [] s.is = "for" -> IF looped.how = "break" THEN [looped EXCEPT !.how = "next"] ELSE looped
         [] s.is = "match" -> IF Fails(v) THEN Failing(st, v) ELSE Matched(s.cases, s.default, v, st)
AllExecuted(stmts, st) == FoldLeft(LAMBDA s, stmt : IF s.how = "next" THEN Executed(stmt, s) ELSE s, st, stmts)

\* A procedure called with these parameters: how it ends, what it returns, and
\* the values its parameters have then.
Entered(params, vs) ==
    FoldLeft(LAMBDA env, i : LET p == params[i]
                                 given == vs[i] # Om \/ p.default.is = "none"
                             IN (p.name :> IF given THEN vs[i] ELSE Eval(p.default, env)) @@ env,
             <<>>, [i \in DOMAIN params |-> i])
Ending == ("next" :> "returned") @@ ("return" :> "returned") @@ ("raise" :> "raised") @@ ("panic" :> "panicked")
Left(params, st) ==
    [how |-> Ending[st.how], val |-> st.val, params |-> [i \in DOMAIN params |-> Get(st.env, params[i].name)]]
Run(f, vs) == Meant([of |-> "call", f |-> f, vs |-> vs])

Meant(t) ==
    CASE t.of = "expr" -> ValueOf(t.e, t.env)
      [] t.of = "rounds" -> RoundsFrom(t.q, t.i, t.st, t.bound)
      [] t.of = "stmts" -> AllExecuted(t.stmts, t.st)
      [] t.of = "call" -> Left(t.f.params, Exec(t.f.body, State(Entered(t.f.params, t.vs))))
=============================================================================
