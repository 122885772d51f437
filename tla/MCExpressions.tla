--------------------------- MODULE MCExpressions ---------------------------
(***************************************************************************)
(* Operators of each form on small operands, and procedures of the         *)
(* language on parameters that reach every branch of theirs.               *)
(***************************************************************************)
EXTENDS Meaning, Operators, Members
P == INSTANCE LangPrograms

a == Text(<<"a">>)
ab == Text(<<"a", "b">>)
aba == Text(<<"a", "b", "a">>)
S12 == SetObj(<<Number(1), Number(2)>>)
L12 == List(<<Number(1), Number(2)>>)
Object(names, elems) == [kind |-> "object", names |-> names, elems |-> elems]
Method == [kind |-> "procedure"]

Term == Tagged("term", <<"f">>, <<Number(1), a>>)
Numbers == {Number(-7), Number(0), Number(2), Double(-6), Double(8)}
Sets == {S12, SetObj(<<Number(2), a>>), SetObj(<<>>)}
Bools == {Bool(TRUE), Bool(FALSE)}
Plain == {Number(-7), Number(3), Double(2), a, Char("a"), Om, Bool(TRUE), S12, L12, Term}
Pairs == (Numbers \X Numbers) \cup (Sets \X Sets) \cup (Bools \X Bools)
         \cup ({L12, List(<<a>>)} \X {L12, S12, List(<<a>>)})
         \cup ({Number(2), a, ab, Bool(TRUE), Term} \X {a, ab, S12, L12, Term, Om, Number(1)})

\* Objects with the member an operator asks for, with another, with one that
\* is no procedure.
Bare == Object(<<>>, <<>>)
Objects(ms) ==
    {Bare, Object([i \in DOMAIN ms |-> <<ms[i]>>], [i \in DOMAIN ms |-> Method]),
     Object([i \in DOMAIN ms |-> <<ms[i]>>], [i \in DOMAIN ms |-> Number(1)])}

SymOf(op) ==
    CASE op \in {"eq", "setEq"} -> <<"equals">>
      [] op \in {"neq", "setNeq"} -> <<"equals", "not">>
      [] op \in {"less", "greater"} -> <<"lessThan">>
      [] op \in {"leq", "geq"} -> <<"lessThan", "equals">>
      [] op = "intDiv" -> <<"integerDivision">>
      [] op = "plus" -> <<"sum">>
      [] op \in {"in", "notIn"} -> <<>>
      [] OTHER -> <<op_obj_overload_sym[op]>>

\* Programs are named for their operator and the operands it owns.
Own(owned) == IF owned THEN "_own" ELSE "_var"
TitleOf(s) == s[1] \o Own(s[2]) \o (IF Len(s) = 3 THEN Own(s[3]) ELSE "")
ByName(S) == [n \in {TitleOf(s) : s \in S} |-> CHOOSE s \in S : TitleOf(s) = n]
Binary == ByName(BinaryOps \X BOOLEAN \X BOOLEAN)
Unary == ByName(UnaryOps \X BOOLEAN)
OverMember == ByName(MemberOps \X BOOLEAN)
Default == ByName(MemberOps \X BOOLEAN \X BOOLEAN)

MCPrograms == [n \in DOMAIN Binary |-> block_op_push(Binary[n][1], Binary[n][2], Binary[n][3])]
              @@ [n \in DOMAIN Unary |-> block_unary_op_push(Unary[n][1], Unary[n][2])]
              @@ [n \in DOMAIN OverMember |-> block_mem_push(OverMember[n][1], OverMember[n][2])]
              @@ [n \in DOMAIN Default |-> block_set_mem_op_dfl_push(Default[n][1], Default[n][2], Default[n][3])]
              @@ P!Lowered
MCSource == [n \in DOMAIN Binary |-> [kind |-> "binary", op |-> Binary[n][1]]]
            @@ [n \in DOMAIN Unary |-> [kind |-> "unary", op |-> Unary[n][1]]]
            @@ [n \in DOMAIN OverMember |-> [kind |-> "members", op |-> OverMember[n][1]]]
            @@ [n \in DOMAIN Default |-> [kind |-> "default", op |-> Default[n][1]]]
            @@ P!Trees

\* An object without a procedure for it is not added to a term.
Operands(op) ==
    Pairs
    \cup {<<x, y>> \in (Objects(SymOf(op)) \X {Number(2), a, Term}) : ~(op = "plus" /\ y = Term /\ Method \notin ToSet(x.elems))}
    \cup {<<x, y>> : x \in {Number(2), a, Term}, y \in Objects(SymOf(op))}
    \cup (IF op = "power" THEN {S12, SetObj(<<>>), SetObj(<<L12>>)} \X {Number(2), Double(8), Double(6)} ELSE {})

\* Collections of numbers, sets, lists, texts, terms and objects, and mixed ones.
Collections ==
    {List(e) : e \in {<<>>, <<Number(2)>>, <<Number(2), Double(-6), Number(3)>>, <<S12, SetObj(<<Number(2), a>>), S12>>,
                     <<S12, Number(1)>>, <<L12, List(<<a>>)>>, <<a, Number(1)>>, <<Number(1), Term, a>>,
                     <<Om, Om>>} \cup {<<x, Number(2), a>> : x \in Objects(<<"sum">>)}}
    \cup {SetObj(e) : e \in {<<>>, <<Number(2), Number(3)>>, <<SetObj(<<>>), S12>>, <<S12, SetObj(<<Number(2), a>>)>>,
                            <<Number(1), S12>>}}
    \cup {Text(<<>>), a, ab, Number(2), Term, Om}

\* Parameters of the procedures.
N(n) == Number(n)
Li(e) == List(e)
Se(e) == SetObj(e)
F(e) == Tagged("term", <<"F">>, e)
Ast(tag, e) == Tagged("ast", <<tag>>, e)
G == Tagged("tterm", <<"g">>, <<>>)
L123 == Li(<<N(1), N(2), N(3)>>)
Relation1 == Se(<<Li(<<N(1), a>>), Li(<<N(1), ab>>), Li(<<N(2), N(7)>>), Li(<<L12, a>>)>>)
Small == {N(2), a, L12, S12, Om}
Some == {L12, L123, Li(<<>>), S12, ab, Li(<<N(3), N(2), N(1)>>), N(1)}
Nested == {Li(<<N(1), Li(<<a, N(2)>>), N(3)>>), Li(<<N(1), Li(<<a, N(2)>>)>>), Li(<<N(1), N(2)>>), Li(<<N(1)>>),
           Li(<<a, ab, L12>>), N(3), Om, S12, aba}
LangInputs ==
    [swap |-> Small \X Small,
     nested |-> {<<t>> : t \in Nested},
     takeset |-> {<<t>> : t \in {S12, Se(<<a>>), Se(<<>>), L12, Se(<<L12, S12>>), N(1)}},
     newset |-> (Small \ {Om}) \X (Small \ {Om}),
     interm |-> {<<t>> : t \in {F(<<N(1), Li(<<a>>)>>), F(<<N(1), L12>>), F(<<N(1)>>), G, N(1),
                               Tagged("term", <<"H">>, <<N(1), Li(<<a>>)>>)}},
     chain |-> Small \X Small,
     member |-> ({L12, L123, N(1), Om} \X {N(1), N(2), N(4), N(-2), N(-4), N(0), a} \X {a, L12})
                \cup ({aba} \X {N(1), N(3), N(-2), N(-4), N(0), a} \X {a, ab, Li(<<>>)}),
     deep |-> {L12, aba} \X Small,
     pairs |-> (Small \ {Om}) \X (Small \ {Om}),
     modify |-> {L12, S12, N(1), a} \X {L12, S12, N(2)},
     index |-> {L123, S12, Relation1, aba, N(1), Om} \X {N(1), N(2), N(3), N(-1), N(-2), N(-3), a},
     within |-> {L12, Relation1, Li(<<L12, a>>)} \X {N(1), N(2), N(0), N(5), N(-1), a},
     range |-> {L123, aba, Li(<<>>), S12} \X {N(1), N(2), N(-2), N(4), N(0)} \X {N(2), N(-1), N(1), N(-3), N(7)},
     relation |-> {Relation1, S12, L12} \X {N(1), N(2), N(3), a},
     collect |-> {N(0), N(2), N(5), a} \X {L12, S12, ab, Li(<<Om>>), N(1)},
     terms |-> {N(2), L12, F(<<a>>)} \X {N(3), F(<<N(1)>>), a},
     operators |-> {N(2), N(-7), S12, F(<<a>>)} \X {N(3), N(0), S12, Double(2)},
     compr |-> Some \X Some,
     joined |-> {Se(<<L12, Li(<<N(2), a>>)>>), Li(<<L12, Li(<<N(1), N(3)>>)>>), L12, Li(<<>>)}
                \X {Se(<<L12, Li(<<N(2), a>>)>>), Li(<<Li(<<N(3), a>>), L12>>), N(1)},
     quants |-> Some \X {N(2), N(3), a},
     summed |-> {<<t>> : t \in Some \cup {Li(<<L12, a>>)}},
     loop |-> (Some \cup {Relation1}) \X {N(1), N(3)},
     search |-> {Se(<<Li(<<N(1), L12>>), Li(<<N(2), S12>>)>>), Li(<<Li(<<N(2), L123>>), L12>>), Li(<<>>), L12} \X {N(1), N(2)},
     twice |-> (Some \ {ab}) \X {N(1), N(3)},
     lists |-> {N(1), N(2), Li(<<>>), L12, L123, ab, S12, a, N(3), Text(<<>>)} \X {N(1), a, S12},
     sets |-> {<<t>> : t \in {Se(<<>>), S12, Se(<<L12, a>>), L12, Li(<<>>), a}},
     shapes |-> {<<t>> : t \in {F(<<a, G>>), F(<<a, N(1)>>), F(<<a>>), Ast("plus", <<L12, N(1)>>), Ast("plus", <<a, ab>>),
                               Ast("plus", <<a, a>>), Ast("not", <<a>>), N(1), Om,
                               Ast("call", <<Ast("var", <<Text(<<"f">>)>>), Li(<<L12>>)>>),
                               Ast("call", <<Ast("var", <<Text(<<"f">>)>>), L12>>)}},
     owned |-> {N(1), L12, N(2)} \X Small,
     shadow |-> {L12, N(1), Om} \X {L12, Li(<<a, ab>>), N(3), L123},
     outof |-> {Li(e) : e \in {<<N(1), N(3), F(<<N(2)>>), N(2), N(5)>>, <<F(<<N(5)>>), F(<<N(3)>>)>>, <<N(3), N(2), N(4), N(7)>>,
                              <<F(<<a>>), F(<<a>>), N(1)>>}} \X {N(3), N(4), N(9)},
     regex |-> {a, Text(<<"b">>), Text(<<"b", "b">>), ab, N(1)} \X {Text(<<"b">>), a, Text(<<"(">>), N(1)},
     change |-> {L12, N(1), a} \X {L12, N(2), Se(<<L12>>)},
     defaults |-> {L12, N(1), Om} \X {Om, a, L12},
     kept |-> {L12, N(1)} \X {N(3), a, L12},
     keptrw |-> {<<t>> : t \in {L12, Li(<<>>), S12, N(1)}},
     unbound |-> {<<t>> : t \in {N(1), Om, a}},
     nothing |-> {<<Om>>, <<N(1)>>}]

\* Without members the variable on the left side would be shared by the result.
MCInputs == LangInputs @@ [n \in DOMAIN Binary |-> Operands(Binary[n][1])]
            @@ [n \in DOMAIN Unary |-> {<<x>> : x \in Plain \cup Objects(SymOf(Unary[n][1]))}]
            @@ [n \in DOMAIN OverMember |-> {<<x>> : x \in Collections}]
            @@ [n \in DOMAIN Default |-> {<<x, y>> \in {Number(2), S12, Double(2)} \X Collections :
                                             Default[n][2] \/ x = Double(2) \/ (Collection(y) => Elements(y) # <<>>)}]

\* What earlier calls of the procedure with a cache may have kept: nothing, or
\* what they returned.
Kept(t) == [key |-> Li(t), result |-> Run(P!Listing["kept"], t).val]
MCCaches == [kept |-> {<<>>, <<Kept(<<L12, a>>)>>, <<Kept(<<Li(<<Double(4), N(2)>>), N(3)>>), Kept(<<L12, L12>>)>>}]
            @@ [n \in DOMAIN MCPrograms |-> {<<>>}]
MCChanges == [n \in {"change", "keptrw"} |-> {1}] @@ [n \in DOMAIN MCPrograms |-> {}]
MCLines == {<<>>}
MCEvaluated == {Number(1), Bool(TRUE), Om, Object(<<<<"not">>>>, <<Method>>)}
MCRandoms == {0}
=============================================================================
