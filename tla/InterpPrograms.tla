-------------------------- MODULE InterpPrograms --------------------------
(***************************************************************************)
(* Small programs for model checking Interp: an innermost statement list   *)
(* wrapped in statements of every kind, each followed by one more part.    *)
(* The parts of the statement at nesting level l have names ending in l.   *)
(***************************************************************************)
EXTENDS Integers, Sequences, TLC

Name(name, l) == name \o ToString(l)

(* How a part may end, by the first word of its name. *)
MCOutcomes ==
    [id \in {"init0", "init1", "init2", "throw"} |-> {"ok", "usr"}]
    @@ [id \in {"iter0", "iter1", "iter2", "more0", "more1", "more2"} |-> {"true", "false"}]
    @@ [id \in {"if0", "if1", "if2", "while0", "while1", "while2"} |-> {"true", "false", "usr"}]
    @@ [id \in {"filter0", "filter1", "filter2"} |-> {"true", "false", "lng"}]
    @@ [id \in {"risk0", "risk1", "risk2"} |-> {"ok", "usr", "lng"}]
    @@ [id \in {"last0", "last1", "last2", "work"} |-> {"ok"}]
    @@ [call |-> {}, exit |-> {"exit"}, back |-> {"bt"}]

Part(id) == [k |-> "do", id |-> id]
Word(k) == [k |-> k]

Backtrack == [k |-> "backtrack", id |-> "back"]
CallOf(f) == [k |-> "call", id |-> "call", f |-> f]

(* What the innermost list does; lists 7 and 8 need a loop around them, the *)
(* procedure r may raise a user exception and f may not.                   *)
Innermost ==
    << <<Part("risk0")>>,
       <<Part("risk0"), Word("return")>>,
       <<Backtrack>>,
       <<[k |-> "exit", id |-> "exit"]>>,
       <<CallOf("f")>>,
       <<CallOf("f"), Word("return")>>,
       <<Part("risk0"), Word("break")>>,
       <<Part("risk0"), Word("continue")>>,
       <<CallOf("r"), Part("risk0")>>,
       <<CallOf("r"), Part("last0")>> >>

Param(l, iter, x) == [init |-> Name("init", l), iter |-> Name(iter, l), var |-> x]

Clause(kind, x, s) == [kind |-> kind, var |-> x, body |-> s]

TryIn(s, clauses) == [k |-> "try", body |-> s, clauses |-> clauses]

Risk(l) == <<Part(Name("risk", l))>>

(* A try statement with catchUsr and catchLng clauses, as it is written.    *)
NamedClauses(n, l) ==
    CASE n = 11 -> <<Clause("lng", "e", Risk(l))>>
      [] n = 12 -> <<Clause("usr", "e", Risk(l))>>
      [] n = 13 -> <<Clause("lng", "e", Risk(l)), Clause("final", "g", <<>>)>>
      [] n = 14 -> <<Clause("usr", "e", Risk(l)), Clause("final", "g", <<>>)>>
      [] n = 15 -> <<Clause("usr", "e", Risk(l)), Clause("lng", "g", <<>>)>>

(* What the same clauses come to: block_try_push (catch.rs:303) compiles    *)
(* one clause, the first catchUsr or catch, and for language exceptions;   *)
(* without one the statement catches nothing.  A statement with a catchUsr  *)
(* or catchLng never does what is written (run catch_lng).                 *)
ClausesInEffect(n, l) ==
    CASE n = 11 -> <<>>
      [] n = 13 -> <<Clause("lng", "g", <<>>)>>
      [] OTHER  -> <<Clause("lng", "e", Risk(l))>>

(* The n-th kind of statement around the list s; 1 to 4 are loops, 5 to 10 *)
(* branches and sections with a plain catch or a check, 11 to 15 try       *)
(* statements with clauses for named kinds, read as named says.            *)
Statement(n, l, s, named(_, _)) ==
    CASE n = 1 -> [k |-> "while", id |-> Name("while", l), body |-> s]
      [] n = 2 -> [k |-> "for", params |-> <<Param(l, "iter", "x")>>, filter |-> "", body |-> s]
      [] n = 3 -> [k |-> "for", params |-> <<Param(l, "iter", "x"), Param(l, "more", "y")>>,
                   filter |-> Name("filter", l), body |-> s]
      [] n = 4 -> [k |-> "dowhile", id |-> Name("while", l), body |-> s]
      [] n = 5 -> [k |-> "if", branches |-> <<[id |-> Name("if", l), body |-> s]>>, else |-> <<>>]
      [] n = 6 -> [k |-> "if", branches |-> <<[id |-> Name("if", l), body |-> <<>>],
                                              [id |-> Name("while", l), body |-> Risk(l)]>>,
                   else |-> s]
      [] n = 7 -> TryIn(s, <<Clause("final", "e", Risk(l))>>)
      [] n = 8 -> TryIn(Risk(l), <<Clause("final", "e", s)>>)
      [] n = 9 -> [k |-> "check", body |-> s, after |-> Risk(l)]
      [] n = 10 -> [k |-> "check", body |-> Risk(l) \o <<Backtrack>>, after |-> s]
      [] n \in 11..15 -> TryIn(s, named(n, l))

IsLoop(n) == n \in 1..4
IsNamed(n) == n > 10

(* Nothing follows a do-while loop in its block. *)
Around(n, l, s, named(_, _)) ==
    <<Statement(n, l, s, named)>> \o (IF n = 4 THEN <<>> ELSE <<Part(Name("last", l))>>)

(* The program with this main. *)
WithMain(main) == [main |-> main, f |-> <<Part("work")>>, r |-> <<Part("throw")>>]

(* A program <<outer, inner, last>>: two statements around the last list.  *)
Program(g, named(_, _)) ==
    WithMain(Around(g[1], 2, Around(g[2], 1, Innermost[g[3]], named), named))

TextOf(g) == Program(g, NamedClauses)
EffectOf(g) == Program(g, ClausesInEffect)

HasLoop(g) == IsLoop(g[1]) \/ IsLoop(g[2])
HasNamed(g) == IsNamed(g[1]) \/ IsNamed(g[2])

(* Clauses for named kinds stand around some of the lists that may raise.   *)
Nestings ==
    {g \in (1..15) \X (1..15) \X DOMAIN Innermost :
        /\ g[3] \in {7, 8} => HasLoop(g)
        /\ g[3] \in IF HasNamed(g) THEN {2, 7, 10} ELSE 1..9}
===========================================================================
