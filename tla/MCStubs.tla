------------------------------- MODULE MCStubs -------------------------------
(***************************************************************************)
(* The predefined procedures on small parameters, and what they promise.   *)
(***************************************************************************)
EXTENDS Promises, Stubs

a == Text(<<"a">>)
ab == Text(<<"a", "b">>)
aba == Text(<<"a", "b", "a">>)
accented == Text(<<"e-acute", "a">>)
None == Text(<<>>)
Pair(x, y) == List(<<Number(x), y>>)

Terms3 == {Tagged("term", <<"f">>, <<Number(1), Om>>), Tagged("tterm", <<"g">>, <<>>),
           Tagged("ast", <<"plus">>, <<Number(1), a>>), Tagged("ast", <<"var">>, <<Text(<<"x">>)>>)}
Collections ==
    {List(<<>>), List(<<Number(1)>>), List(<<Number(2), List(<<a>>), Number(1)>>),
     SetObj(<<>>), SetObj(<<Number(1), Number(2)>>), SetObj(<<Pair(1, a), Pair(2, a), Number(3)>>)}
Texts == {None, a, ab, accented, Text(<<"1">>), Text(<<"2/4">>), Text(<<"pi">>), Text(<<"Infinity">>)}
Numbers == {Number(-1), Number(0), Number(2), Double(-6), Double(2), Infinity}
Objects ==
    {[kind |-> "object", names |-> n, elems |-> e] :
       <<n, e>> \in {<<<<>>, <<>>>>, <<<<<<"f_exp">>, <<"val">>>>, <<[kind |-> "procedure"], Number(1)>>>>,
                     <<<<<<"f_log">>>>, <<Number(1)>>>>}}
All == Terms3 \cup Collections \cup Texts \cup Numbers \cup Objects
       \cup {Om, Bool(TRUE), Bool(FALSE), Char("a"), [kind |-> "procedure"]}

Lists == {c \in Collections : c.kind = "list"}
Several ==
    [ask |-> {<<t, l>> : t \in {a}, l \in Lists},
     assert |-> {<<b, m>> : b \in {Bool(TRUE), Bool(FALSE), Om}, m \in {a, Number(1)}},
     compare |-> {<<x, y>> : x \in All, y \in All},
     get |-> {<<>>, <<a>>}, read |-> {<<>>, <<a>>}, logo |-> {<<>>}, now |-> {<<>>}, resetRandom |-> {<<>>},
     getOsID |-> {<<>>},
     join |-> {<<c, s>> : c \in Collections \cup {ab}, s \in {None, Text(<<",">>), Number(1)}},
     makeTerm |-> {<<f, l>> : f \in {Text(<<"@", "@", "@", "sum">>), Text(<<"@", "@", "@", "g">>),
                                    Text(<<"@", "f">>), Text(<<"f">>)}, l \in Lists \cup {Pair(1, a)}},
     matches |-> {<<t, p>> : t \in Texts, p \in {a, Text(<<"(">>)}}
                 \cup {<<t, a, g>> : t \in Texts, g \in {Bool(TRUE), Bool(FALSE)}},
     nPrint |-> {<<>>, <<a, Number(1)>>}, print |-> {<<>>, <<List(<<a>>), Om>>},
     replace |-> {<<t, p, r>> : t \in {aba, accented}, p \in {a, Text(<<"b">>), ab}, r \in {None, a}},
     replaceFirst |-> {<<t, p, r>> : t \in {aba, accented}, p \in {a, Text(<<"b">>), ab}, r \in {None, a}},
     split |-> {<<t, p>> : t \in {None, aba, accented}, p \in {a, Text(<<"b">>), ab}},
     rnd |-> {<<v>> : v \in All} \cup {<<x, y>> : x \in {Number(2), a}, y \in Numbers},
     writeFile |-> {<<a, c>> : c \in Collections \cup {ab}}]
MCInputs == Several @@ [n \in DOMAIN stubs_init |-> {<<v>> : v \in All}]
\* The procedures with a loop.
Looping == {"join", "args", "makeTerm", "max", "min", "domain", "range", "reverse", "replace", "replaceFirst",
            "split", "ask", "logo", "nPrint", "abort", "writeFile", "exp"}
\* The interpreter is one thread that never waits; the other procedures have no
\* loop to stay in, and nothing is assumed of them.
FairSpec == Spec /\ WF_vars(prog \in Looping /\ Next)

\* Every call comes to an end, whatever the user types: the loops over
\* parameters, matches and wrong answers do not go on for ever.
Terminates == <>(status # "running" \/ prog \notin Looping)

MCChanges == [n \in {"from", "fromB", "fromE"} |-> {1}] @@ [n \in DOMAIN stubs_init |-> {}]
\* Nothing has been kept from earlier calls.
MCCaches == [n \in DOMAIN stubs_init |-> {<<>>}]
MCLines == {None, Text(<<"1">>), Text(<<"2/4">>), Text(<<"Penny">>), Text(<<"Dime">>)}
MCEvaluated == {Number(1), List(<<a>>), Om}
MCRandoms == {0, 2, 4}
=============================================================================
