---------------------------- MODULE StubsNumbers ----------------------------
(***************************************************************************)
(* The predefined procedures on numbers, and those that check the type of  *)
(* their parameter before one operation (builtin/stubs.rs), as statements. *)
(***************************************************************************)
LOCAL INSTANCE Code
LOCAL INSTANCE TLC
LOCAL INSTANCE Sequences

Numeric == {"number", "double"}

\* The parameter must have one of these types, or the call fails.
Checked(kinds, calc, message) ==
    [init |-> Arg("p1", "0") \o IfKind("p1", kinds, "calc", "fail"),
     calc |-> calc,
     fail |-> Fail(message)]
Applied(f) == Do("ret", f, <<"p1">>) \o Return("ret")

log10_stub ==
    Checked(Numeric, Do("ln", "Ln", <<"p1">>) \o Do("ln_t", "Ln", <<"10">>) \o Do("ret", "quot", <<"ln", "ln_t">>)
                     \o Free("ln") \o Free("ln_t") \o Return("ret"), "expected number or float")
log1p_stub ==
    Checked(Numeric, Do("p1_n", "plus", <<"p1", "1">>) \o Do("ret", "Ln", <<"p1_n">>) \o Free("p1_n")
                     \o Return("ret"), "expected number or float")
sqrt_stub == Checked(Numeric, Applied("Sqrt"), "expected number, float, or object")
num_op_stub(op) == Checked(Numeric, Applied(op), "unsupported for type")
run_stub == Checked({"string"}, Applied("Cmd"), "run unsupported for type")
random_stub ==
    Checked(Numeric, Do("rng", "RndFloat", <<>>) \o Do("ret", "mult", <<"p1", "rng">>) \o Return("ret"),
            "random unsupported for type")

float_op_stub(op) ==
    Checked(Numeric, IfKind("p1", {"number"}, "int", "float"), "round unsupported for type")
    @@ [int |-> Do("ret", "Copy", <<"p1">>) \o Goto("ret"),
        float |-> Do("ret", op, <<"p1">>) \o Goto("ret"),
        ret |-> Return("ret")]

sleep_stub ==
    Checked({"number"}, When("less", <<"p1", "1">>, "fail", "sleep"), "sleep is not a positive integer")
    @@ [sleep |-> Do("_", "Sleep", <<"p1">>) \o Return("om")]

\* char: the upper end of the range is checked here, the lower one by ToChar.
char_stub ==
    Checked({"number"}, When("less", <<"p1", "256">>, "cast", "fail"), "char only supports integers from 0 to 255")
    @@ [cast |-> Applied("ToChar")]

\* abs: of a text of one character its code.
AbsString ==
    [check_str |-> IfKind("p1", {"string"}, "check_str_len", "fail"),
     check_str_len |-> Do("p1_len", "Amount", <<"p1">>) \o Do("check", "equal", <<"p1_len", "1">>)
                       \o Free("p1_len") \o If("check", "abs_str", "fail"),
     abs_str |-> Do("ret", "StrVal", <<"p1">>) \o Goto("ret"),
     ret |-> Return("ret"),
     fail |-> Fail("abs unsupported for type")]
abs_stub ==
    [init |-> Arg("p1", "0") \o IfKind("p1", Numeric, "neg_check", "check_str"),
     neg_check |-> When("less", <<"p1", "0">>, "inv", "int"),
     inv |-> Do("ret", "minus", <<"0", "p1">>) \o Goto("ret"),
     int |-> Do("ret", "Copy", <<"p1">>) \o Goto("ret")] @@ AbsString

is_infinite_stub ==
    [init |-> Arg("p1", "0") \o IfKind("p1", {"double"}, "is_infinite", "false_idx"),
     is_infinite |-> Do("ret", "equal", <<"p1", "INFINITY">>) \o Goto("ret"),
     false_idx |-> Let("ret", "false") \o Goto("ret"),
     ret |-> Return("ret")]

SignumCases ==
    [check_z |-> When("equal", <<"p1", "0">>, "ret_z", "ret_p"),
     ret_z |-> Let("ret", "0") \o Goto("ret"),
     ret_p |-> Let("ret", "1") \o Goto("ret"),
     ret |-> Return("ret")]
signum_stub ==
    Checked(Numeric, When("less", <<"p1", "0">>, "ret_neg", "check_z"), "signum only supports numbers")
    @@ [ret_neg |-> Let("ret", "-1") \o Goto("ret")] @@ SignumCases

MathConstCases ==
    [check_e |-> When("equal", <<"e", "p1">>, "real", "check_inf"),
     check_inf |-> Do("low", "equal", <<"infinity", "p1">>) \o Do("cap", "equal", <<"Infinity", "p1">>)
                   \o When("or", <<"low", "cap">>, "inf", "fail"),
     inf |-> Let("ret", "INFINITY") \o Goto("ret")]
math_const_stub ==
    Checked({"string"}, When("equal", <<"pi", "p1">>, "real", "check_e"), "unknown math constant")
    @@ [real |-> Let("ret", "REAL") \o Goto("ret"), ret |-> Return("ret")] @@ MathConstCases
=============================================================================
