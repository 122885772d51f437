--------------------------- MODULE StubsCollections ---------------------------
(***************************************************************************)
(* The predefined procedures on lists, sets and terms, and the tests of a  *)
(* value's type (builtin/stubs.rs), as the statements they are built from. *)
(***************************************************************************)
LOCAL INSTANCE Code
LOCAL INSTANCE TLC
LOCAL INSTANCE Sequences

\* first and arb; last: the element is copied, the collection keeps its own.
first_stub ==
    [init |-> Arg("p1", "0") \o IfKind("p1", {"set"}, "arb", "arr"),
     arb |-> Do("out", "SetBorrow", <<"p1", "true">>) \o Do("_", "MarkPersist", <<"out">>)
             \o Do("out", "Copy", <<"out">>) \o Goto("ret"),
     arr |-> Do("amount", "Amount", <<"p1">>) \o Do("check", "equal", <<"amount", "0">>)
             \o Free("amount") \o If("check", "out_om", "arr_acc"),
     out_om |-> Let("out", "om") \o Goto("ret"),
     arr_acc |-> Do("out", "at", <<"p1", "0">>) \o Do("out", "Copy", <<"out">>) \o Goto("ret"),
     ret |-> Return("out")]

last_stub ==
    [init |-> Arg("p1", "0") \o IfKind("p1", {"set"}, "arb", "arr"),
     arb |-> Do("out", "SetBorrow", <<"p1", "false">>) \o Do("_", "MarkPersist", <<"out">>)
             \o Do("out", "Copy", <<"out">>) \o Goto("ret"),
     arr |-> Do("amount", "Amount", <<"p1">>) \o When("equal", <<"amount", "0">>, "out_om", "arr_acc"),
     out_om |-> Free("amount") \o Let("out", "om") \o Goto("ret"),
     arr_acc |-> Do("last", "minus", <<"amount", "1">>) \o Free("amount")
                 \o Do("out", "at", <<"p1", "last">>) \o Free("last")
                 \o Do("out", "Copy", <<"out">>) \o Goto("ret"),
     ret |-> Return("out")]

\* fromB takes the first element out, from and fromE the last; of a list fromB
\* makes a new one for the caller's variable and frees the old one.
fromb_stub_uncopied ==
    [init |-> Arg("p1", "0") \o IfKind("p1", {"set"}, "set", "list"),
     set |-> Do("out", "SetTake", <<"p1", "true">>) \o Goto("ret"),
     list |-> Do("len", "Amount", <<"p1">>) \o Do("slice", "Slice", <<"p1", "1", "len">>) \o Free("len")
              \o Do("new", "Copy", <<"slice">>) \o Do("out", "at", <<"p1", "0">>)
              \o Free("p1") \o Store("p1_addr", "new") \o Goto("ret"),
     ret |-> Return("out")]
fromb_stub ==
    [init |-> Arg("p1", "0") \o IfKind("p1", {"set"}, "set", "list"),
     set |-> Do("out", "SetTake", <<"p1", "true">>) \o Goto("ret"),
     list |-> Do("len", "Amount", <<"p1">>) \o Do("slice", "Slice", <<"p1", "1", "len">>) \o Free("len")
              \o Do("new", "Copy", <<"slice">>) \o Do("out", "at", <<"p1", "0">>)
              \o Do("out", "Copy", <<"out">>) \o Free("p1") \o Store("p1_addr", "new") \o Goto("ret"),
     ret |-> Return("out")]

from_stub == [init |-> Arg("in", "0") \o Do("out", "Pop", <<"in">>) \o Return("out")]

pow_stub ==
    [init |-> Arg("p1", "0") \o IfKind("p1", {"set"}, "ret", "throw"),
     throw |-> Do("_", "Throw", <<"1", "pow undefined for type">>) \o Unreachable,
     ret |-> Do("ret", "Pow", <<"2", "p1">>) \o Return("ret")]

\* join: the serialised separator comes between the elements.
JoinLoop ==
    [cond |-> ForNext("i", "iter", "add", "ret"),
     add |-> If("init_iter", "add_init", "add_clue"),
     add_init |-> Let("init_iter", "false") \o Goto("add_i"),
     add_i |-> Do("ret", "plus", <<"ret", "i">>) \o Goto("cond"),
     add_clue |-> Do("ret", "plus", <<"ret", "clue">>) \o Goto("add_i"),
     ret |-> Return("ret")]
join_stub ==
    [init |-> Arg("p1", "0") \o Arg("clue_raw", "1") \o Do("clue", "Serialize", <<"clue_raw">>)
              \o Do("iter", "IterNew", <<"p1">>) \o Let("ret", "") \o Let("init_iter", "true")
              \o Goto("cond")] @@ JoinLoop

\* args: the arguments of a term or a syntax tree, "nil" for a missing one.
ArgsLoop ==
    [cond |-> When("less", <<"i", "len">>, "loop", "ret"),
     loop |-> Up("i") \o Do("n", "at", <<"p1", "i">>) \o When("equal", <<"n", "om">>, "n_nil", "n_copy"),
     n_nil |-> Let("n", "nil") \o Goto("push"),
     n_copy |-> Do("n", "Copy", <<"n">>) \o Goto("push"),
     push |-> Do("_", "ListPush", <<"ret", "n">>) \o Goto("cond"),
     ret |-> Free("len") \o Free("i") \o Return("ret")]
args_stub ==
    [init |-> Arg("p1", "0") \o IfKind("p1", {"ast", "term", "tterm"}, "prep", "throw"),
     throw |-> Do("_", "Throw", <<"1", "parameter is not a term">>) \o Unreachable,
     prep |-> Do("len", "Amount", <<"p1">>) \o Do("ret", "ListNew", <<>>) \o Let("i", "0")
              \o Goto("cond")] @@ ArgsLoop

\* fct: the functor, after three @ if it is one of the language's own.
FctOfTerm ==
    [check |-> TypeIn("p1_term", "p1", {"term"}) \o When("or", <<"p1_tterm", "p1_term">>, "term", "throw"),
     term |-> Do("tag", "at", <<"p1", "0">>) \o Do("copy", "Copy", <<"tag">>)
              \o Do("ret_new", "plus", <<"ret", "copy">>) \o Free("copy") \o Free("ret")
              \o Let("ret", "ret_new") \o Goto("ret"),
     ret |-> Return("ret"),
     throw |-> Do("_", "Throw", <<"1", "Operand is not a term">>) \o Unreachable]
fct_stub ==
    [init |-> Arg("p1", "0") \o IfKind("p1", {"ast"}, "ast", "term_dispatch"),
     ast |-> Do("ast_tag", "at", <<"p1", "0">>) \o Do("tag", "AstTTermTagGet", <<"ast_tag">>)
             \o Do("ret", "plus", <<"@@@", "tag">>) \o Free("tag") \o Goto("ret"),
     term_dispatch |-> TypeIn("p1_tterm", "p1", {"tterm"}) \o If("p1_tterm", "ret_tt_init", "ret_t_init"),
     ret_tt_init |-> Let("ret", "@@@") \o Goto("check"),
     ret_t_init |-> Let("ret", "") \o Goto("check")] @@ FctOfTerm

\* makeTerm counts the @ the functor starts with, makes a term or a syntax
\* tree of the right size, and fills in copies of the arguments.
MakeTermCount ==
    [cond |-> Do("cond_amount", "less", <<"i", "fct_amount">>) \o Do("cond_four", "less", <<"i", "4">>)
              \o When("and", <<"cond_amount", "cond_four">>, "args_check", "assign"),
     args_check |-> Do("entry_addr", "at", <<"fct_addr", "i">>) \o Deref("entry", "entry_addr")
                    \o When("equal", <<"entry", "@">>, "incr", "assign"),
     incr |-> Up("i") \o Goto("cond"),
     assign |-> Do("at_count_zero", "equal", <<"i", "0">>) \o Do("at_count_three", "equal", <<"i", "3">>)
                \o Free("i") \o If("at_count_three", "ast_check", "term_check")]
MakeTermHead ==
    [ast_check |-> Do("slice", "Slice", <<"fct", "3", "fct_amount">>)
                   \o Do("tag", "AstTagGet", <<"slice", "amount">>)
                   \o When("equal", <<"tag", "om">>, "tterm_new", "ast_new"),
     tterm_new |-> Do("ret", "TermNew", <<"slice", "amount", "true">>) \o Goto("params_loop"),
     ast_new |-> Do("ret", "AstNodeNewSized", <<"tag", "amount">>) \o Free("tag") \o Goto("params_loop"),
     term_check |-> If("at_count_zero", "term_zero", "term_new"),
     term_zero |-> Do("ret", "TermNew", <<"fct", "amount", "false">>) \o Goto("params_loop"),
     term_new |-> Do("slice", "Slice", <<"fct", "1", "fct_amount">>)
                  \o Do("ret", "TermNew", <<"slice", "amount", "false">>) \o Goto("params_loop")]
MakeTermParams ==
    [params_loop |-> Let("i", "0") \o AddrOf("ret") \o Goto("params_cond"),
     params_cond |-> When("less", <<"i", "amount">>, "param_assign", "follow"),
     param_assign |-> Do("i_new", "plus", <<"i", "1">>) \o Do("entry_addr", "at", <<"ret_addr", "i_new">>)
                      \o Do("arg", "at", <<"args", "i">>) \o Do("insert", "Copy", <<"arg">>)
                      \o Store("entry_addr", "insert") \o Free("i") \o Let("i", "i_new") \o Goto("params_cond"),
     follow |-> Free("fct_amount") \o Free("amount") \o Free("i") \o Return("ret")]
make_term_stub ==
    [init |-> Arg("fct", "0") \o Arg("args", "1") \o Do("fct_amount", "Amount", <<"fct">>)
              \o Do("amount", "Amount", <<"args">>) \o Let("i", "0") \o Goto("cond")]
    @@ MakeTermCount @@ MakeTermHead @@ MakeTermParams

\* max and min: the best so far is a copy.
MaxLoopBorrowed(less) ==
    [loop |-> When("equal", <<"out", "om">>, "assign", "check"),
     assign |-> Free("out") \o Let("out", "i") \o Goto("cond"),
     check |-> When("less", less, "assign", "cond")]
MaxLoopStuck(less) ==
    [loop |-> When("equal", <<"out", "om">>, "assign", "check"),
     assign |-> Free("out") \o Do("out", "Copy", <<"i">>) \o Goto("cond"),
     check |-> When("less", less, "assign", "check")]
MaxLoop(less) ==
    [loop |-> When("equal", <<"out", "om">>, "assign", "check"),
     assign |-> Free("out") \o Do("out", "Copy", <<"i">>) \o Goto("cond"),
     check |-> When("less", less, "assign", "cond")]
max_stub(less) ==
    [init |-> Arg("p1", "0") \o Let("out", "om") \o Do("iter", "IterNew", <<"p1">>) \o Goto("cond"),
     cond |-> ForNext("i", "iter", "loop", "ret"),
     ret |-> Return("out")] @@ MaxLoop(less)

\* domain and range: the first or the second components of the pairs of a set.
DomainRangeLoop(index) ==
    [cond |-> ForNext("i", "iter", "check_list", "ret"),
     check_list |-> IfKind("i", {"list"}, "check_len", "cond"),
     check_len |-> Do("i_len", "Amount", <<"i">>) \o Do("check", "equal", <<"i_len", "2">>)
                   \o Free("i_len") \o If("check", "set_insert", "cond"),
     set_insert |-> Do("j", "at", <<"i", index>>) \o Do("insert", "Copy", <<"j">>)
                    \o Do("_", "SetInsert", <<"set", "insert">>) \o Goto("cond"),
     ret |-> Return("set"),
     fail |-> Fail("operand is not a set")]
domain_range_stub(index) ==
    [init |-> Arg("p1", "0") \o IfKind("p1", {"set"}, "iter", "fail"),
     iter |-> Do("set", "SetNew", <<>>) \o Do("iter", "IterNew", <<"p1">>) \o Goto("cond")]
    @@ DomainRangeLoop(index)

\* reverse, from the last element or character to the first.
ReverseList ==
    [list_new |-> Do("ret", "ListNew", <<>>) \o Do("len", "Amount", <<"p1">>) \o Let("i", "len")
                  \o Goto("list_cond"),
     list_cond |-> When("less", <<"0", "i">>, "list_loop", "inv"),
     list_loop |-> Renew("i", "minus", <<"i", "1">>) \o Do("obj", "at", <<"p1", "i">>)
                   \o Do("obj", "Copy", <<"obj">>) \o Do("_", "ListPush", <<"ret", "obj">>)
                   \o Goto("list_cond")]
ReverseString ==
    [str_check |-> IfKind("p1", {"string"}, "str_new", "fail"),
     str_new |-> Let("ret", "") \o Do("len", "Amount", <<"p1">>) \o Let("i", "len") \o Goto("str_cond"),
     str_cond |-> When("less", <<"0", "i">>, "str_loop", "inv"),
     str_loop |-> Renew("i", "minus", <<"i", "1">>) \o Do("obj", "at", <<"p1", "i">>)
                  \o Renew("ret", "plus", <<"ret", "obj">>) \o Goto("str_cond"),
     fail |-> Fail("reverse only supports strings or lists")]
reverse_stub ==
    [init |-> Arg("p1", "0") \o IfKind("p1", {"list"}, "list_new", "str_check"),
     inv |-> Free("i") \o Goto("ret"),
     ret |-> Return("ret")] @@ ReverseList @@ ReverseString

\* rnd: a random element, or a number up to the parameter.
RndQuot ==
    [rnd_quot |-> Arg("p2", "1") \o TypeIn("p1_num", "p1", {"number", "double"})
                  \o TypeIn("p2_int", "p2", {"number"}) \o When("and", <<"p1_num", "p2_int">>, "geq", "fail"),
     geq |-> When("less", <<"1", "p2">>, "quot_calc", "fail"),
     quot_calc |-> Do("rnd", "RndFloat", <<>>) \o Do("state", "mult", <<"p1", "rnd">>)
                   \o Do("rnd", "RndFloat", <<>>) \o Do("rhs", "quot", <<"state", "rnd">>)
                   \o Do("ret", "mult", <<"p2", "rhs">>) \o Goto("ret")]
RndAccess ==
    [check_acc |-> IfKind("p1", {"set", "list", "string"}, "acc", "fail"),
     acc |-> Do("rnd", "RndFloat", <<>>) \o Do("len", "Amount", <<"p1">>)
             \o Do("len_f", "mult", <<"rnd", "len">>) \o Free("len") \o Do("idx", "Floor", <<"len_f">>)
             \o Do("ret", "at", <<"p1", "idx">>) \o Free("idx") \o Do("ret", "Copy", <<"ret">>) \o Goto("ret"),
     fail |-> Fail("unsupported input for rnd"),
     ret |-> Return("ret")]
rnd_stub ==
    [init |-> Do("p_len", "Amount", <<"params">>) \o Arg("p1", "0")
              \o When("equal", <<"p_len", "2">>, "rnd_quot", "rnd"),
     rnd |-> IfKind("p1", {"number", "double"}, "rnd_calc", "check_acc"),
     rnd_calc |-> Do("rnd", "RndFloat", <<>>) \o Do("ret", "mult", <<"p1", "rnd">>) \o Goto("ret")]
    @@ RndQuot @@ RndAccess

\* The tests of a type: isTerm, isNumber, and those of one type.
is_term_stub == [init |-> Arg("p1", "0") \o TypeIn("ret", "p1", {"ast", "term", "tterm"}) \o Return("ret")]
is_number_stub == [init |-> Arg("p1", "0") \o TypeIn("ret", "p1", {"number", "double"}) \o Return("ret")]
is_type_stub(t) == [init |-> Arg("p1", "0") \o TypeIn("ret", "p1", {t}) \o Return("ret")]
is_variable_stub ==
    [init |-> Arg("p1", "0") \o Let("ret", "false") \o IfKind("p1", {"ast"}, "ast", "ret"),
     ast |-> Do("tag", "at", <<"p1", "0">>) \o Do("ret", "equal", <<"tag", "var">>) \o Goto("ret"),
     ret |-> Return("ret")]
=============================================================================
