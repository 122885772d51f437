------------------------------ MODULE MCScope ------------------------------
(* The procedures and the vocabularies of Scope's model-checking runs. *)
EXTENDS Scope

MCProc(closure, param, rw, own, locals) ==
    [closure |-> closure, param |-> param, rw |-> rw, own |-> own, locals |-> locals]

Plain(locals) == MCProc(FALSE, "", FALSE, <<>>, locals)

MCCode ==
    [calls    |-> Plain(<<"x", "f">>),
     methods  |-> Plain(<<"o">>),
     closures |-> Plain(<<"o", "f">>),
     byRef    |-> MCProc(FALSE, "y", TRUE, <<>>, <<>>),
     byVal    |-> MCProc(FALSE, "y", FALSE, <<>>, <<"x">>),
     closure  |-> MCProc(TRUE, "y", FALSE, <<>>, <<>>),
     record   |-> Plain(<<"x">>),
     class    |-> Plain(<<"x", "m">>),
     method   |-> Plain(<<>>),
     setter   |-> MCProc(FALSE, "", FALSE, <<"x">>, <<>>)]

None == {}

Procedures == {<<"f", "byRef">>, <<"f", "byVal">>}
Closures == {<<"f", "closure">>}
Methods == {<<"m", "method">>}
Setters == {<<"m", "setter">>}

Records == {<<"o", "record">>}
Classes == {<<"o", "class">>}

MethodToData == {<<"x", "m">>}
=============================================================================
