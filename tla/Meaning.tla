------------------------------ MODULE Meaning ------------------------------
(***************************************************************************)
(* What expressions and procedures of the language mean, for the programs  *)
(* that evaluate one operator, and for those lowered from a syntax tree.   *)
(***************************************************************************)
EXTENDS Promises, Semantics

CONSTANT Source   \* what each program was lowered from: name -> record

Expressions == Source @@ <<>>
Expression == Expressions[prog]
Kind(k) == Expression.kind = k
X == input[1]
Y == input[2]

----------------------------------------------------------------------------
(* Operators                                                               *)

Elems(v) == ToSet(v.elems)
BothSets(x, y) == x.kind = "set" /\ y.kind = "set"
BothNums(x, y) == IsNum(x) /\ IsNum(y)
Equal(x, y) == IF BothNums(x, y) THEN Quarters(x) = Quarters(y) ELSE x = y
Sees(b) == Result = Bool(b)

\* The comparisons of numbers, and of sets by inclusion.
Ordered(op, x, y) ==
    CASE op = "less" -> Quarters(x) < Quarters(y)
      [] op = "leq" -> Quarters(x) <= Quarters(y)
      [] op = "greater" -> Quarters(x) > Quarters(y)
      [] op = "geq" -> Quarters(x) >= Quarters(y)
Included(op, x, y) ==
    CASE op \in {"less", "leq"} -> Elems(x) \subseteq Elems(y)
      [] op \in {"greater", "geq"} -> Elems(y) \subseteq Elems(x)

Joint(op, x, y) ==
    CASE op = "plus" -> Elems(x) \cup Elems(y)
      [] op = "minus" -> Elems(x) \ Elems(y)
      [] op = "mult" -> Elems(x) \cap Elems(y)
      [] op = "mod" -> (Elems(x) \cup Elems(y)) \ (Elems(x) \cap Elems(y))
      [] op = "cartesian" -> {List(<<a, b>>) : a \in Elems(x), b \in Elems(y)}

Truth(op, x, y) ==
    CASE op = "and" -> x.is /\ y.is
      [] op = "or" -> x.is \/ y.is
      [] op = "imply" -> x.is => y.is

Bilateral == {"plus", "minus", "mult", "div", "mod", "power", "cartesian", "setEq", "setNeq", "and", "or", "imply"}
HasTerm(x, y) == {x.kind, y.kind} \cap Terms # {}

BinaryMeans(op, x, y) ==
    CASE op \in Bilateral /\ HasTerm(x, y) -> Result = Tagged("ast", <<op>>, <<x, y>>)
      [] op \in {"eq", "setEq"} -> Sees(Equal(x, y))
      [] op \in {"neq", "setNeq"} -> Sees(~Equal(x, y))
      [] op \in {"in", "notIn"} /\ y.kind \in {"set", "list"} -> Sees((x \in Elems(y)) <=> op = "in")
      [] op \in {"less", "leq", "greater", "geq"} /\ BothNums(x, y) -> Sees(Ordered(op, x, y))
      [] op \in {"less", "leq", "greater", "geq"} /\ BothSets(x, y) -> Sees(Included(op, x, y))
      [] op \in {"and", "or", "imply"} -> Sees(Truth(op, x, y))
      [] op = "power" /\ x.kind = "set" -> IsSetOf(Result, Joint("cartesian", x, x))
      [] op = "power" /\ y.kind = "set" -> {Elems(v) : v \in Elems(Result)} = SUBSET Elems(y)
      [] BothSets(x, y) -> IsSetOf(Result, Joint(op, x, y))
      [] op = "minus" /\ BothNums(x, y) -> Quarters(Result) + Quarters(y) = Quarters(x)
      [] op = "plus" /\ BothNums(x, y) -> Quarters(Result) - Quarters(y) = Quarters(x)
      [] op = "plus" /\ x.kind = "list" -> Result.elems = x.elems \o y.elems
      [] op = "cartesian" -> \A i \in DOMAIN Result.elems : Result.elems[i] = List(<<x.elems[i], y.elems[i]>>)
      [] OTHER -> TRUE

\* The left side decides: the right one is not even evaluated.
Decided(op, x) == x.kind = "bool" /\ op \in {"and", "or", "imply"} /\ x.is = (op = "or")
UnaryMeans(op, x) ==
    CASE x.kind \in Terms -> Result = Tagged("ast", <<op>>, <<x>>)
      [] op = "unaryMinus" -> Quarters(Result) = -Quarters(x)
      [] op = "card" /\ x.kind \in {"set", "list"} -> Result = Number(Len(x.elems))
      [] op = "not" -> Sees(~x.is)
      [] op = "factor" -> Result.num = FoldLeft(LAMBDA p, k : p * k, 1, [k \in 1 .. x.num |-> k])
      [] OTHER -> TRUE

\* The object an operator asks for its member: the left operand, but for the
\* comparisons that exchange their sides.
Asked == IF Kind("binary") /\ Expression.op \in {"greater", "geq"} THEN Y ELSE X

OperatorMeans ==
    CASE Asked.kind = "object" \/ X.kind = "object" -> TRUE
      [] Kind("unary") -> UnaryMeans(Expression.op, X)
      [] Decided(Expression.op, X) -> Result = (IF Expression.op = "and" THEN X ELSE Bool(TRUE))
      [] OTHER -> BinaryMeans(Expression.op, X, Y)

----------------------------------------------------------------------------
(* Members                                                                 *)

AllOf(c, T(_)) == \A i \in DOMAIN c : T(c[i])
MemberMeans(op, default, c) ==
    LET e == Elements(c)
    IN CASE e = <<>> -> Result = default
         [] c.kind = "string" -> Len(e) > 1 => Result = c
         [] AllOf(e, LAMBDA v : v.kind = "set") ->
               IsSetOf(Result, IF op = "sumMem" THEN UNION {Elems(v) : v \in ToSet(e)}
                               ELSE {v \in Elems(e[1]) : \A i \in DOMAIN e : v \in Elems(e[i])})
         [] op = "sumMem" /\ AllOf(e, IsNum) ->
               Quarters(Result) = FoldLeft(LAMBDA s, v : s + Quarters(v), 0, e)
         [] op = "prodMem" /\ AllOf(e, LAMBDA v : v.kind = "number") ->
               Result = Number(FoldLeft(LAMBDA q, v : q * v.num, 1, e))
         [] op = "sumMem" /\ AllOf(e, LAMBDA v : v.kind = "list") ->
               Result.elems = FlattenSeq([i \in DOMAIN e |-> e[i].elems])
         [] OTHER -> TRUE

----------------------------------------------------------------------------

\* A procedure ends the way its text says, with the value and the rw parameters
\* its text says; one with a cache keeps what a later call may then return.
ProcedureMeans ==
    \E f \in {Expression.proc} : \E run \in {Run(f, input)} :
       /\ run.how = status
       /\ status = "returned" =>
            /\ Result = run.val
            /\ \A i \in DOMAIN input : f.params[i].rw => Now(i) = run.params[i]
            /\ \A i \in DOMAIN mem.cache : mem.cache[i].result = Run(f, mem.cache[i].key.elems).val

\* An expression that has a value has the one it stands for: a comparison, a
\* combination of sets or numbers, a node of the syntax tree for a term.  A
\* procedure does what its statements say.
MeansWhatItSays ==
    IF Kind("procedure") THEN status \in Ended => ProcedureMeans
    ELSE status = "returned" =>
        CASE Kind("members") -> MemberMeans(Expression.op, Om, X)
          [] Kind("default") -> MemberMeans(Expression.op, X, Y)
          [] OTHER -> OperatorMeans

\* The stack of variables: a case takes the variables of its patterns off it
\* whichever way it is left, so that what a procedure that ran (no cache
\* answered for it) leaves there besides its own variables, and those nobody
\* declared, are the variables of its loops: every round adds them, only a
\* return takes one set off.  Cases of several patterns with variables are not
\* among the programs: match_stmt.rs:108-164 takes off what it did not add.
NamesScoped ==
    Kind("procedure") /\ status \in Ended =>
        LET names == [i \in DOMAIN mem.stack |-> mem.stack[i].name]
            own == Expression.own
            more == SubSeq(names, Len(own) + 1, Len(names))
        IN status = "returned" /\ mem.stack # <<>> =>
             /\ SubSeq(names, 1, Len(own)) = own
             /\ ToSet(more) \subseteq Expression.leftover

\* and, or and imply do not evaluate their right side once the left one decides,
\* so that what it would throw is not thrown.
RightUnread ==
    Kind("binary") /\ Decided(Expression.op, X) => status # "raised" /\ mem.regs["right"] = Om
=============================================================================
