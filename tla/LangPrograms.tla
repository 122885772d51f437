---------------------------- MODULE LangPrograms ----------------------------
(***************************************************************************)
(* Procedures of the language, as syntax trees and as the blocks they are  *)
(* lowered to: every kind of statement, expression, pattern and way out of *)
(* a loop or a case.                                                       *)
(***************************************************************************)
EXTENDS StmtCode
LOCAL INSTANCE Sequences
LOCAL INSTANCE TLC
LOCAL INSTANCE FiniteSets

a == Var("a")
b == Var("b")
i == Var("i")
j == Var("j")
k == Var("k")
r == Var("r")
s == Var("s")
v == Var("v")
x == Var("x")
y == Var("y")
z == Var("z")
Zero == Lit("0")
One == Lit("1")
Two == Lit("2")
Three == Lit("3")
ListOf(es) == Coll("list", es, NoRest)
SetWith(es) == Coll("set", es, NoRest)
Give(e) == <<ReturnOf(e)>>
Set(n, e) == Assign(<<n>>, e)
At(e, key) == AccessTo(e, <<ByIndex(key)>>)
Proc(params, body) == Procedure(params, FALSE, body)
Of(n) == [m \in DOMAIN n |-> Value(n[m])]
AB == Of(<<"a", "b">>)

Assignments ==
    [swap |-> Proc(Of(<<"a", "b">>), <<Set(ListOf(<<a, b>>), ListOf(<<b, a>>))>> \o Give(ListOf(<<a, b>>))),
     nested |-> Proc(Of(<<"a">>), <<Set(Coll("list", <<x, ListOf(<<y, Ignore>>)>>, r), a)>> \o Give(ListOf(<<x, y, r>>))),
     takeset |-> Proc(Of(<<"a">>), <<Set(Coll("set", <<x>>, r), a)>> \o Give(ListOf(<<a, x, r>>))),
     newset |-> Proc(AB, <<Set(SetWith(<<x, y>>), SetWith(<<a, b>>))>> \o Give(ListOf(<<x, y>>))),
     interm |-> Proc(Of(<<"a">>), <<Set(TermOf("term", "F", <<x, ListOf(<<y>>)>>), a)>> \o Give(ListOf(<<y, x>>))),
     chain |-> Proc(AB, <<Assign(<<x, y>>, ListOf(<<a, b>>)), Assign(<<x, z>>, y),
                          Set(At(x, One), b)>> \o Give(ListOf(<<x, y, z>>))),
     member |-> Proc(Of(<<"a", "i", "b">>), <<Set(x, a), Set(At(x, i), b), Set(At(x, Lit("-1")), Three)>>
                                            \o Give(ListOf(<<x, a>>))),
     deep |-> Proc(Of(<<"a", "b">>), <<Set(x, ListOf(<<a, ListOf(<<Three>>)>>)),
                                      Set(AccessTo(x, <<ByIndex(One), ByIndex(Two)>>), b)>> \o Give(x)),
     pairs |-> Proc(AB, <<Set(x, SetWith(<<ListOf(<<One, a>>), ListOf(<<ListOf(<<One, Two>>), b>>)>>)),
                         Set(At(x, One), b), Set(AccessTo(x, <<ByTag(<<One, Two>>)>>), ListOf(<<a>>)),
                         AssignMod("plus", AccessTo(x, <<ByTag(<<One, Two>>), ByIndex(One)>>), One)>> \o Give(x)),
     modify |-> Proc(AB, <<AssignMod("plus", a, b), AssignMod("minus", At(a, One), One), Evaluate(Op("plus", a, a))>>
                         \o Give(a))]

Expressions ==
    [index |-> Proc(Of(<<"a", "i">>), <<Set(x, At(a, i))>> \o Give(ListOf(<<x, At(a, One), a>>))),
     within |-> Proc(Of(<<"a", "i">>), Give(AccessTo(ListOf(<<One, a>>), <<ByIndex(Two), ByIndex(i)>>))),
     range |-> Proc(Of(<<"a", "i", "j">>),
                    Give(ListOf(<<AccessTo(a, <<Between(i, j)>>), AccessTo(a, <<Between(Nothing, j)>>),
                                  AccessTo(a, <<Between(Two, Nothing)>>)>>))),
     relation |-> Proc(Of(<<"a", "k">>),
                       Give(ListOf(<<At(a, k), AccessTo(a, <<AllBy(k)>>), AccessTo(a, <<ByTag(<<One, k>>)>>),
                                     AccessTo(a, <<AllBy(k), ByIndex(One)>>)>>))),
     collect |-> Proc(AB, Give(ListOf(<<Span("listrange", One, a), Span("setrange", a, Three), Coll("list", <<b>>, b),
                                        Coll("set", <<a, Lit("om")>>, b), ListOf(<<a, Lit("om")>>)>>))),
     terms |-> Proc(AB, Give(TermOf("term", "F", <<TermOf("tterm", "sum", <<a, Op("minus", b, One)>>),
                                                    TermOf("tterm", "g", <<>>)>>))),
     operators |-> Proc(AB, Give(Op("plus", Op("mult", a, Op("minus", b, One)), UnaryOp("unaryMinus", Op("mod", a, b))))),
     compr |-> Proc(AB, Give(ListOf(<<Compr("set", Op("plus", x, y), <<IterParam(x, a), IterParam(y, b)>>, Op("less", x, y)),
                                      Compr("list", ListOf(<<x, y>>), <<IterParam(x, a), IterParam(y, ListOf(<<x, b>>))>>, Nothing)>>))),
     joined |-> Proc(AB, Give(Compr("set", ListOf(<<x, z>>), <<IterParam(ListOf(<<x, y>>), a), IterParam(ListOf(<<y, z>>), b)>>, Nothing))),
     quants |-> Proc(AB, Give(ListOf(<<Quant("exists", <<IterParam(x, a)>>, Op("eq", x, b)),
                                       Quant("forall", <<IterParam(x, a), IterParam(y, a)>>, Op("leq", x, y))>>))),
     summed |-> Proc(Of(<<"a">>), Give(UnaryOp("sumMem", Compr("list", Op("plus", x, One), <<IterParam(x, a)>>, Nothing))))]

\* A loop that is left early, goes on early, and one inside another.
Loops ==
    [loop |-> Proc(AB, <<Set(s, Zero),
                         For(<<IterParam(x, a)>>, Nothing,
                             <<IfElse(<<Branch(Op("eq", x, b), <<Break>>), Branch(Op("eq", x, Two), <<Continue>>)>>,
                                      <<AssignMod("plus", s, x)>>)>>)>> \o Give(s)),
     search |-> Proc(AB, <<For(<<IterParam(ListOf(<<k, v>>), a), IterParam(y, v)>>, Op("less", Zero, y),
                               <<IfElse(<<Branch(Op("eq", k, b), Give(ListOf(<<y, v>>)))>>, <<>>)>>)>> \o Give(Zero)),
     twice |-> Proc(AB, <<Set(s, ListOf(<<>>)),
                          For(<<IterParam(x, a)>>, Op("neq", x, b),
                              <<For(<<IterParam(y, Coll("list", <<x>>, a))>>, Nothing,
                                    <<IfElse(<<Branch(Op("eq", y, Three), <<Break>>)>>, <<>>), AssignMod("plus", s, ListOf(<<y>>))>>),
                                IfElse(<<Branch(Op("eq", x, Two), <<ReturnOf(s)>>)>>, <<>>)>>)>> \o Give(UnaryOp("card", s)))]

\* Cases that bind, fail midway, or have a condition that does not hold, and are
\* left in every way.
Matches ==
    [lists |-> Proc(AB, <<Match(a, <<Case(<<One, Two>>, Nothing, Give(Zero)), Case(<<ListOf(<<>>)>>, Nothing, Give(a)),
                                     Case(<<ListOf(<<x, Two>>)>>, Nothing, Give(x)),
                                     Case(<<Coll("list", <<x, y>>, r)>>, Op("eq", x, b), <<Set(a, r)>>),
                                     Case(<<x>>, Op("eq", x, b), <<>>)>>, <<Set(b, Three)>>)>> \o Give(ListOf(<<a, b>>))),
     sets |-> Proc(Of(<<"a">>), <<Match(a, <<Case(<<SetWith(<<>>)>>, Nothing, Give(Zero)),
                                             Case(<<Coll("set", <<x>>, r)>>, Nothing, Give(ListOf(<<x, r>>)))>>, <<>>)>>
                                \o Give(a)),
     shapes |-> Proc(Of(<<"a">>),
                     <<Match(a, <<Case(<<TermOf("term", "F", <<x, TermOf("tterm", "g", <<>>)>>)>>, Nothing, Give(x)),
                                  Case(<<TermOf("tterm", "sum", <<x, One>>)>>, Nothing, Give(ListOf(<<x>>))),
                                  Case(<<Op("plus", x, y)>>, Op("neq", x, y), Give(ListOf(<<y, x>>))),
                                  Case(<<UnaryOp("not", x)>>, Nothing, Give(SetWith(<<x>>))),
                                  Case(<<CallOf("f", <<x>>)>>, Nothing, Give(ListOf(<<x, Var("f")>>)))>>, <<>>)>> \o Give(Zero)),
     owned |-> Proc(AB, <<Match(ListOf(<<a, b>>), <<Case(<<ListOf(<<One, x>>)>>, Nothing, Give(x)),
                                                   Case(<<ListOf(<<x, y>>)>>, Op("eq", x, y), <<Set(a, y)>>)>>, Give(Zero))>>
                        \o Give(a)),
     shadow |-> Proc(AB, <<Set(x, a), Match(b, <<Case(<<ListOf(<<x, y>>)>>, Nothing, <<AssignMod("plus", x, One), Set(y, x)>>)>>,
                                            <<>>)>> \o Give(ListOf(<<x, y>>))),
     outof |-> Proc(AB, <<Set(s, Zero),
                          For(<<IterParam(i, a)>>, Nothing,
                              <<Match(i, <<Case(<<One>>, Nothing, <<Continue>>),
                                           Case(<<TermOf("term", "F", <<y>>)>>, Nothing,
                                                <<IfElse(<<Branch(Op("eq", y, b), <<Break>>)>>, <<AssignMod("plus", s, y)>>)>>),
                                           Case(<<y>>, Op("eq", y, b), Give(ListOf(<<y, s>>))),
                                           Case(<<z>>, Op("eq", z, Two), <<Continue>>)>>, <<AssignMod("plus", s, One)>>)>>)>>
                        \o Give(s)),
     regex |-> Proc(AB, <<Match(a, <<RegexCase(Lit("b"), ListOf(<<x>>), Op("neq", x, b), Give(ListOf(<<x>>))),
                                     RegexCase(b, Nothing, Nothing, <<Set(a, One)>>),
                                     RegexCase(Op("plus", b, Lit("b")), y, Nothing, Give(y))>>, <<Set(b, Zero)>>)>>
                        \o Give(ListOf(<<a, b>>)))]

Calls ==
    [change |-> Proc(<<Shared("a"), Value("b")>>, <<Set(a, ListOf(<<a, b>>)), Set(At(b, One), a)>> \o Give(ListOf(<<b>>))),
     defaults |-> Proc(<<Value("a"), Default("b", ListOf(<<a, One>>))>>, Give(ListOf(<<a, b>>))),
     kept |-> Procedure(Of(<<"a", "b">>), TRUE, <<Set(At(a, One), b)>> \o Give(a)),
     keptrw |-> Procedure(<<Shared("a")>>, TRUE, <<AssignMod("plus", a, ListOf(<<One>>))>> \o Give(UnaryOp("card", a))),
     unbound |-> Proc(Of(<<"a">>), <<AssignMod("plus", y, a)>> \o Give(y)),
     nothing |-> Proc(Of(<<"a">>), <<IfElse(<<Branch(Op("eq", y, a), <<ReturnOf(Nothing)>>)>>, <<>>)>>)]

Listing == Assignments @@ Expressions @@ Loops @@ Matches @@ Calls
Lowered == [n \in DOMAIN Listing |-> Fragment([of |-> "procedure", proc |-> Listing[n]])]

\* The variables of a procedure's own, and the others it may leave on the stack:
\* those of its iterators and the ones it uses and does not assign.
OwnNames(f) == procedure_vars_aggregate(f.body) \o [n \in DOMAIN f.params |-> f.params[n].name]
Leftover ==
    [compr |-> {"x", "y"}, joined |-> {"x", "y", "z"}, quants |-> {"x", "y"}, summed |-> {"x"}, loop |-> {"x"},
     search |-> {"k", "v", "y"}, twice |-> {"x", "y"}, outof |-> {"i"}, unbound |-> {"y"}, nothing |-> {"y"}]
    @@ [n \in DOMAIN Listing |-> {}]
Trees == [n \in DOMAIN Listing |->
            [kind |-> "procedure", proc |-> Listing[n], own |-> OwnNames(Listing[n]), leftover |-> Leftover[n]]]
=============================================================================
