----------------------------- MODULE Operators -----------------------------
(***************************************************************************)
(* Binary and unary operators as the statements they are lowered to        *)
(* (ir/lower/expr/op_expr.rs, unary_op_expr.rs, term_expr.rs): an object   *)
(* overloads them, a term makes a node of the syntax tree, and the rest is *)
(* computed.  An operand is a variable, whose value the operator borrows,  *)
(* or an expression that makes its value, which the operator owns and      *)
(* frees.  The result is the caller's.                                     *)
(***************************************************************************)
LOCAL INSTANCE Code
LOCAL INSTANCE Overload
LOCAL INSTANCE TLC
LOCAL INSTANCE Sequences

TermKinds == {"term", "tterm", "ast"}

Operand(x, i, owned) == Arg(x, i) \o (IF owned THEN Do(x, "Copy", <<x>>) ELSE <<>>)
FinallyAll(owned, x) == Free(x)
Finally(owned, x) == IF owned THEN Free(x) ELSE <<>>
Copied(owned, x) == IF owned THEN <<>> ELSE Do(x, "Copy", <<x>>)

\* block_term_type_check_push.
IsTerm(t, x) == TypeIn(t, x, TermKinds)
EitherTerm(t, x, y) == IsTerm(t, x) \o IsTerm("rhs_t", y) \o Do(t, "or", <<t, "rhs_t">>)

\* block_term_op_push and block_term_unary_op_push: a node holds copies of the operands.
block_term_op_push(p, op, dfl, follow, out, x, y) ==
    Labelled(p,
      [dfl_term |-> EitherTerm("lhs_t", x, y) \o If("lhs_t", p \o "build_term", dfl),
       build_term |-> Copied(FALSE, x) \o Copied(FALSE, y) \o Do(out, "AstNodeNew", <<op, x, y>>) \o Goto(follow)])
block_term_unary_op_push(op, dfl, follow) ==
    [dfl_term |-> IsTerm("lhs_t", "left") \o If("lhs_t", "build_term", dfl),
     build_term |-> Copied(FALSE, "left") \o Do("out", "AstNodeNew", <<op, "left">>) \o Goto(follow)]

op_obj_overload_sym ==
    [unaryMinus |-> "minus", minus |-> "difference", mult |-> "product", mod |-> "modulo",
     cartesian |-> "cartesianProduct", or |-> "disjunction", and |-> "conjunction", imply |-> "implication",
     power |-> "power", not |-> "not", card |-> "cardinality", factor |-> "factorial", div |-> "quotient"]

\* minus, mult, div, mod, cartesian and power.
SymFn == [minus |-> "minus", mult |-> "mult", div |-> "quot", mod |-> "mod", cartesian |-> "Cartesian",
          power |-> "Pow"]
block_op_sym_push(op) ==
    [start |-> Goto("overload"), assign |-> Do("out", SymFn[op], <<"left", "right">>) \o Goto("end")]
    @@ block_obj_overload_push("", "dfl_term", "end", FALSE, "out", "left", Rhs("right"), op_obj_overload_sym[op])
    @@ block_term_op_push("", op, "assign", "end", "out", "left", "right")

\* plus: an object without the member is added as it is.
block_op_plus_push(p, follow, out, x, y) ==
    Labelled(p,
      [start |-> IfKind(x, {"object"}, p \o "overload", p \o "dfl_term"),
       assign |-> Do(out, "plus", <<x, y>>) \o Goto(follow)])
    @@ block_obj_overload_push(p, p \o "assign", follow, TRUE, out, x, Rhs(y), "sum")
    @@ block_term_op_push(p, "plus", p \o "assign", follow, out, x, y)

\* Comparisons with one member: less, greater with the sides exchanged, and
\* equality, for which an object needs no member.
Compared(f, x, y, sym, dfl_on_nomem) ==
    [start |-> Goto("overload"), dfl |-> Do("out", f, <<x, y>>) \o Goto("end")]
    @@ block_obj_overload_push("", "dfl", "end", dfl_on_nomem, "out", x, Rhs(y), sym)

\* leq and geq are less, with the sides exchanged for geq, or equal.
LessJoined(connective, x, y) ==
    [start |-> Goto("l_overload"),
     dfl_less |-> Do("tmp_1", "less", <<x, y>>) \o Goto("e_overload"),
     dfl_eq |-> Do("tmp_2", "equal", <<"left", "right">>) \o Goto("either"),
     either |-> Do("out", connective, <<"tmp_1", "tmp_2">>) \o Goto("end")]
    @@ block_obj_overload_push("l_", "dfl_less", "e_overload", FALSE, "tmp_1", x, Rhs(y), "lessThan")
    @@ block_obj_overload_push("e_", "dfl_eq", "either", TRUE, "tmp_2", "left", Rhs("right"), "equals")
LessAndEqual(x, y) == LessJoined("and", x, y)
LessOrEqual(x, y) == LessJoined("or", x, y)

\* neq: not of equal, where what equals returns may have a not of its own.
NotEqual ==
    [start |-> Goto("e_overload"),
     dfl_equal |-> Do("tmp", "equal", <<"left", "right">>) \o Goto("n_overload"),
     dfl_not |-> Do("out", "not", <<"tmp">>) \o Goto("end")]
    @@ block_obj_overload_push("e_", "dfl_equal", "n_overload", TRUE, "tmp", "left", Rhs("right"), "equals")
    @@ block_obj_overload_push("n_", "dfl_not", "end", FALSE, "out", "tmp", NoRhs, "not")

\* set_eq_push: <==> and <!=>, which free their operands, but leave those of a
\* term to the end of the procedure.
set_eq_push(op, lo, ro) ==
    LET out == IF op = "setEq" THEN "out" ELSE "tmp"
        freed == IF op = "setEq" THEN "free" ELSE "n_overload"
    IN [start |-> EitherTerm("lhs_t", "left", "right") \o If("lhs_t", "build", "e_overload"),
        build |-> Copied(lo, "left") \o Copied(ro, "right") \o Do("out", "AstNodeNew", <<op, "left", "right">>)
                  \o Goto("end"),
        dfl_eq |-> Do(out, "equal", <<"left", "right">>) \o Goto(freed),
        free |-> Finally(lo, "left") \o Finally(ro, "right") \o Goto("end")]
       @@ block_obj_overload_push("e_", "dfl_eq", freed, TRUE, out, "left", Rhs("right"), "equals")
       @@ (IF op = "setEq" THEN <<>>
           ELSE [dfl_not |-> Do("out", "not", <<"tmp">>) \o Goto("free")]
                @@ block_obj_overload_push("n_", "dfl_not", "free", FALSE, "out", "tmp", NoRhs, "not"))

\* block_op_rhs_deferred_push: and, or and imply evaluate their right side only
\* if the left one does not decide.
Decide == [imply |-> Do("decided", "not", <<"left">>), or |-> Let("decided", "left"), and |-> Let("decided", "left")]
Decisive == [imply |-> TRUE, or |-> TRUE, and |-> FALSE]
Combine == [imply |-> Do("not", "not", <<"left">>) \o Do("out", "or", <<"not", "right">>),
            or |-> Do("out", "or", <<"left", "right">>), and |-> Do("out", "and", <<"left", "right">>)]
DeferredBy(op, lo, ro, decisive) ==
    [start |-> Goto("overload"),
     dfl_impl |-> IsTerm("lhs_t", "left") \o If("lhs_t", "rhs", "lhs_check"),
     lhs_check |-> IfKind("left", {"bool"}, "decide", "fail"),
     fail |-> Do("_", "ExceptionThrow", <<"op", "undefined for type">>) \o Unreachable,
     decide |-> Decide[op] \o (IF decisive THEN If("decided", "fallthrough", "rhs") ELSE If("decided", "rhs", "fallthrough")),
     fallthrough |-> Let("out", IF decisive THEN "true" ELSE "false") \o Finally(lo, "left") \o Goto("end"),
     rhs |-> Operand("right", "1", ro) \o EitherTerm("lhs_t", "left", "right")
             \o If("lhs_t", "build", "assign"),
     build |-> Copied(lo, "left") \o Copied(ro, "right") \o Do("out", "AstNodeNew", <<op, "left", "right">>)
               \o Goto("end"),
     assign |-> Combine[op] \o Finally(lo, "left") \o Finally(ro, "right") \o Goto("end")]
    @@ block_obj_overload_push("", "dfl_impl", "end", FALSE, "out", "left",
                               [code |-> Operand("overload_rhs", "1", ro), reg |-> "overload_rhs", owned |-> ro],
                               op_obj_overload_sym[op])
block_op_rhs_inverted(op, lo, ro) == DeferredBy(op, lo, ro, ~Decisive[op])
block_op_rhs_deferred_push(op, lo, ro) == DeferredBy(op, lo, ro, Decisive[op])

In(member) == [start |-> Do("out", "Contains", <<"right", "left">>)
                         \o (IF member THEN <<>> ELSE Do("out", "not", <<"out">>)) \o Goto("end")]

Body(op, lo, ro) ==
    CASE op \in DOMAIN SymFn -> block_op_sym_push(op)
      [] op = "plus" -> block_op_plus_push("", "end", "out", "left", "right")
      [] op = "eq" -> Compared("equal", "left", "right", "equals", TRUE)
      [] op = "neq" -> NotEqual
      [] op = "less" -> Compared("less", "left", "right", "lessThan", FALSE)
      [] op = "greater" -> Compared("less", "right", "left", "lessThan", FALSE)
      [] op = "leq" -> LessOrEqual("left", "right")
      [] op = "geq" -> LessOrEqual("right", "left")
      [] op = "intDiv" -> Compared("intDiv", "left", "right", "integerDivision", FALSE)
      [] op \in {"setEq", "setNeq"} -> set_eq_push(op, lo, ro)
      [] op \in {"in", "notIn"} -> In(op = "in")
      [] op \in DOMAIN Decisive -> block_op_rhs_deferred_push(op, lo, ro)

\* block_op_push: the operators free the operands they own, but for those that
\* have done it already.
Deferred == DOMAIN Decisive
Evaluate(op, lo, ro, done) ==
    LET freed(owned, x) == IF op \in done THEN <<>> ELSE Finally(owned, x)
    IN [init |-> Operand("left", "0", lo)
                 \o (IF op \in Deferred THEN <<>> ELSE Operand("right", "1", ro)) \o Goto("start"),
        end |-> freed(lo, "left") \o freed(ro, "right") \o Return("out")]
       @@ Body(op, lo, ro)
block_op_push_unordered(op, lo, ro) == Evaluate(op, lo, ro, {})
block_op_push(op, lo, ro) == Evaluate(op, lo, ro, {"setEq", "setNeq"} \cup Deferred)

BinaryOps == DOMAIN SymFn \cup Deferred
             \cup {"plus", "eq", "neq", "less", "greater", "leq", "geq", "intDiv", "setEq", "setNeq", "in", "notIn"}

----------------------------------------------------------------------------
(* Unary operators                                                         *)

\* factor: a product that counts down from the number.
Factorial ==
    [assign |-> IfKind("left", {"number"}, "factor", "assert"),
     assert |-> Do("_", "Throw", <<"1", "factor is undefined for type">>) \o Unreachable,
     factor |-> When("less", <<"left", "0">>, "assert", "factor_iter"),
     factor_iter |-> Do("i", "Copy", <<"left">>) \o Let("target", "1") \o Goto("loop_check"),
     loop_check |-> When("less", <<"0", "i">>, "loop", "loop_end"),
     loop |-> Do("target_new", "mult", <<"target", "i">>) \o Do("i_new", "minus", <<"i", "1">>)
              \o Free("target") \o Free("i") \o Let("target", "target_new") \o Let("i", "i_new") \o Goto("loop_check"),
     loop_end |-> Free("i") \o Let("out", "target") \o Goto("end")]

UnaryFn == [unaryMinus |-> Do("out", "minus", <<"0", "left">>), card |-> Do("out", "Amount", <<"left">>),
            not |-> Do("out", "not", <<"left">>)]
block_unary_op_push(op, owned) ==
    [init |-> Operand("left", "0", owned) \o Goto("overload"),
     end |-> Finally(owned, "left") \o Return("out")]
    @@ (IF op = "factor" THEN Factorial ELSE [assign |-> UnaryFn[op] \o Goto("end")])
    @@ block_obj_overload_push("", "dfl_term", "end", FALSE, "out", "left", NoRhs, op_obj_overload_sym[op])
    @@ block_term_unary_op_push(op, "assign", "end")
UnaryOps == DOMAIN UnaryFn \cup {"factor"}
=============================================================================
