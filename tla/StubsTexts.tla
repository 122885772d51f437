----------------------------- MODULE StubsTexts -----------------------------
(***************************************************************************)
(* The predefined procedures on texts, that print, read, or run code       *)
(* (builtin/stubs.rs), as the statements they are built from.              *)
(***************************************************************************)
LOCAL INSTANCE Code
LOCAL INSTANCE TLC
LOCAL INSTANCE Sequences

\* print_params_push: the parameters, written out one after the other.
print_params_push(follow) ==
    [init |-> Let("out", "") \o Let("i", "0") \o Do("len", "Amount", <<"params">>) \o Goto("check"),
     check |-> When("less", <<"i", "len">>, "loop", "follow"),
     loop |-> Param("pp", "i") \o Deref("p", "pp") \o Do("s", "Serialize", <<"p">>)
              \o Do("out_new", "plus", <<"out", "s">>) \o Free("out") \o Free("s") \o Let("out", "out_new")
              \o Up("i") \o Goto("check"),
     follow |-> Free("i") \o Free("len") \o follow]

n_print_stub(to) == print_params_push(Do("_", to, <<"out">>) \o Free("out") \o Return("om"))
print_stub ==
    print_params_push(Do("out_new", "plus", <<"out", "nl">>) \o Free("out")
                      \o Do("_", "PrintStdout", <<"out_new">>) \o Free("out_new") \o Return("om"))
abort_stub ==
    print_params_push(Do("out_new", "plus", <<"abort: ", "out">>) \o Free("out")
                      \o Do("_", "Throw", <<"3", "out_new">>) \o Unreachable)

\* assert ends the program when the condition is false.
assert_stub ==
    [init |-> Arg("p1", "0") \o If("p1", "end", "throw_prep"),
     end |-> Return("om"),
     throw_prep |-> Arg("p2", "1") \o IfKind("p2", {"string"}, "str", "literal"),
     str |-> Do("msg", "plus", <<"Assertion failed: ", "p2">>) \o Renew("msg", "plus", <<"msg", "quote">>)
             \o Goto("throw"),
     literal |-> Do("msg", "plus", <<"Assertion failed: ", "p2">>) \o Goto("throw"),
     throw |-> Do("_", "Throw", <<"3", "msg">>) \o Unreachable]

throw_stub_shared == [init |-> Arg("p1", "0") \o Do("_", "Throw", <<"1", "p1">>) \o Unreachable]
throw_stub ==
    [init |-> Arg("p1", "0") \o Do("owned", "Copy", <<"p1">>) \o Do("_", "Throw", <<"1", "owned">>)
              \o Unreachable]

\* get and read: a line from the user; read makes a number of it if it can.
ReadLine ==
    [init |-> Do("p_len", "Amount", <<"params">>) \o When("equal", <<"p_len", "1">>, "arg", "narg"),
     arg |-> Arg("p1", "0") \o Do("ret", "ReadLineStdin", <<"p1">>) \o Goto("ret"),
     narg |-> Let("p1", "") \o Do("ret", "ReadLineStdin", <<"p1">>) \o Free("p1") \o Goto("ret")]
get_stub == [ret |-> Return("ret")] @@ ReadLine
read_stub ==
    [ret |-> Do("ret_new", "ParseInt", <<"ret">>) \o When("equal", <<"ret_new", "om">>, "double", "ret_assign"),
     double |-> Do("ret_new", "ParseFloat", <<"ret">>)
                \o When("equal", <<"ret_new", "om">>, "ret_fin", "ret_assign"),
     ret_assign |-> Free("ret") \o Let("ret", "ret_new") \o Goto("ret_fin"),
     ret_fin |-> Return("ret")] @@ ReadLine

\* Procedures that apply one operation to their parameter.
Apply(f) == [init |-> Arg("p1", "0") \o Do("ret", f, <<"p1">>) \o Return("ret")]
eval_stub == Apply("Eval")
execute_stub == Apply("Execute")
parse_stub == Apply("ParseAst")
parse_statements_stub == Apply("ParseAstBlock")
str_stub == Apply("Serialize")
is_prime_stub == Apply("IsPrime")
is_probable_prime_stub == Apply("IsProbablePrime")
clear_cache_stub == [init |-> Arg("p1", "0") \o Do("_", "CacheClear", <<"p1">>) \o Return("om")]
delete_file_stub == [init |-> Arg("file", "0") \o Do("_", "Delete", <<"file">>) \o Return("om")]
compare_stub == [init |-> Arg("p1", "0") \o Arg("p2", "1") \o Do("ret", "Cmp", <<"p1", "p2">>) \o Return("ret")]
reset_random_stub == [init |-> Return("om")]
get_os_id_stub == [init |-> Return("Linux")]
now_stub == [init |-> Do("ret", "UnixEpoch", <<>>) \o Return("ret")]

eval_term_stub ==
    [init |-> Arg("p1", "0") \o IfKind("p1", {"ast"}, "eval", "clone"),
     eval |-> Do("ret", "EvalTerm", <<"p1">>) \o Goto("ret"),
     clone |-> Do("ret", "Copy", <<"p1">>) \o Goto("ret"),
     ret |-> Return("ret")]

\* int and double: by way of the text of the value.
Parsed(f) ==
    [init |-> Arg("p1", "0") \o Do("s", "Serialize", <<"p1">>) \o Do("ret", f, <<"s">>) \o Free("s")
              \o Return("ret")]
int_stub == Parsed("ParseInt")
double_stub == Parsed("ParseFloat")

\* load, loadLibrary: a file is read whole and executed.
LoadFrom(path, name, freed) ==
    Do("file", "OpenAt", <<path, name, "1">>) \o freed \o Do("str", "ReadAll", <<"file">>) \o Free("file")
    \o Do("_", "Execute", <<"str">>) \o Free("str") \o Return("true")
load_library_stub ==
    [init |-> Arg("p1", "0") \o Do("name", "plus", <<"p1", ".stlx">>)
              \o LoadFrom("library_path", "name", Free("name"))]
load_stub == [init |-> Arg("p1", "0") \o LoadFrom(".", "p1", <<>>)]

matches_stub ==
    [init |-> Arg("regex", "1") \o Arg("input", "0") \o Do("reg", "RegexCompile", <<"regex", "0">>)
              \o Do("params_len", "Amount", <<"params">>)
              \o When("equal", <<"params_len", "3">>, "groups_check", "matched"),
     groups_check |-> Arg("group_check", "2") \o If("group_check", "groups", "matched"),
     groups |-> Let("matched", "false") \o AddrOf("matched")
                \o Do("ret", "RegexMatchGroups", <<"input", "reg", "matched_addr">>) \o Goto("ret"),
     matched |-> Do("ret", "RegexMatch", <<"input", "reg">>) \o Goto("ret"),
     ret |-> Return("ret")]

\* replace, replaceFirst, split: what is left of the input is a slice of it,
\* cut behind each match of the pattern.
Rest(next) ==
    Do("pos", "plus", <<"offset", "len">>) \o Do("input_slice", "Slice", <<"input_slice", "pos", "input_len">>)
    \o Free("pos") \o Free("offset") \o Free("len") \o Goto(next)
Sliced(out) ==
    Do("reg", "RegexCompile", <<"regex", "0">>) \o out \o Do("input_len", "Amount", <<"input">>)
    \o Do("input_slice", "Slice", <<"input", "0", "input_len">>) \o Goto("loop")
MatchNext ==
    Let("offset", "om") \o AddrOf("offset") \o Let("len", "om") \o AddrOf("len")
    \o When("RegexMatchLen", <<"input_slice", "reg", "len_addr", "offset_addr">>, "append", "end")
AppendSwapped(next) ==
    [loop |-> MatchNext,
     append |-> Do("pre_slice", "Slice", <<"input_slice", "0", "offset">>)
                \o Do("out_new", "plus", <<"out", "replace">>) \o Free("out")
                \o Do("out", "plus", <<"out_new", "pre_slice">>) \o Free("out_new") \o Rest(next),
     end |-> Do("pre_slice", "Slice", <<"input_slice", "0", "input_len">>)
             \o Do("out_new", "plus", <<"out", "pre_slice">>) \o Free("out") \o Return("out_new")]
AppendReplaced(next) ==
    [loop |-> MatchNext,
     append |-> Do("pre_slice", "Slice", <<"input_slice", "0", "offset">>)
                \o Do("out_new", "plus", <<"out", "pre_slice">>) \o Free("out")
                \o Do("out", "plus", <<"out_new", "replace">>) \o Free("out_new") \o Rest(next),
     end |-> Do("pre_slice", "Slice", <<"input_slice", "0", "input_len">>)
             \o Do("out_new", "plus", <<"out", "pre_slice">>) \o Free("out") \o Return("out_new")]
ReplaceArgs == [init |-> Arg("input", "0") \o Arg("regex", "1") \o Arg("replace", "2") \o Sliced(Let("out", ""))]
replace_stub == ReplaceArgs @@ AppendReplaced("loop")
replace_first_stub == ReplaceArgs @@ AppendReplaced("end")

SplitLoop ==
    [loop |-> MatchNext,
     append |-> Do("pre_slice", "Slice", <<"input_slice", "0", "offset">>)
                \o Do("insert", "Copy", <<"pre_slice">>) \o Do("_", "ListPush", <<"out", "insert">>)
                \o Rest("loop"),
     end |-> Do("pre_slice", "Slice", <<"input_slice", "0", "input_len">>)
             \o Do("insert", "Copy", <<"pre_slice">>) \o Do("_", "ListPush", <<"out", "insert">>)
             \o Return("out")]
split_stub == [init |-> Arg("input", "0") \o Arg("regex", "1") \o Sliced(Do("out", "ListNew", <<"0">>))] @@ SplitLoop

\* ask: the options are listed, and the user chooses one by its number; a
\* single one is only confirmed.
AskOptions ==
    [list_check |-> Do("p1_nl", "plus", <<"p1", "nl">>) \o Do("_", "PrintStdout", <<"p1_nl">>) \o Free("p1_nl")
                    \o Do("len", "Amount", <<"p2">>) \o When("equal", <<"len", "0">>, "fail", "opts_init"),
     opts_init |-> Let("i", "0") \o Goto("opts"),
     opts |-> When("less", <<"i", "len">>, "opts_loop", "check_one"),
     opts_loop |-> Do("j", "at", <<"p2", "i">>) \o Do("j_s", "Serialize", <<"j">>) \o Up("i")
                   \o Do("i_s", "Serialize", <<"i">>) \o Do("s", "plus", <<"i_s", ") ">>)
                   \o Do("s_new", "plus", <<"s", "j_s">>) \o Free("s") \o Do("s", "plus", <<"s_new", "nl">>)
                   \o Do("_", "PrintStdout", <<"s">>) \o Free("i_s") \o Free("j_s") \o Free("s")
                   \o Goto("opts")]
AskOne ==
    [check_one |-> Free("i") \o When("equal", <<"len", "1">>, "one", "selection"),
     one |-> Do("j", "at", <<"p2", "0">>) \o Do("j_s", "Serialize", <<"j">>)
             \o Do("stdin", "plus", <<"[Enter] to confirm ", "j_s">>) \o Do("ret", "ReadLineStdin", <<"stdin">>)
             \o Free("ret") \o Let("ret", "j_s") \o Goto("ret"),
     ret |-> Free("len") \o Return("ret")]
AskSelection ==
    [selection |-> Do("len_s", "Serialize", <<"len">>) \o Do("stdin", "plus", <<"Please enter a number", "len_s">>)
                   \o Do("stdin_new", "plus", <<"stdin", ":">>) \o Do("out", "ReadLineStdin", <<"stdin_new">>)
                   \o Free("len_s") \o Free("stdin") \o Free("stdin_new") \o Do("num", "ParseInt", <<"out">>)
                   \o When("equal", <<"num", "om">>, "selection", "check_num"),
     check_num |-> Do("num_pos", "less", <<"0", "num">>) \o Do("len_exc", "less", <<"len", "num">>)
                   \o Do("len_nexc", "not", <<"len_exc">>)
                   \o When("and", <<"num_pos", "len_nexc">>, "ser", "inv_sel"),
     ser |-> Do("num_m", "minus", <<"num", "1">>) \o Do("j", "at", <<"p2", "num_m">>) \o Free("num_m")
             \o Free("num") \o Do("ret", "Serialize", <<"j">>) \o Goto("ret"),
     inv_sel |-> Free("num") \o Goto("selection")]
ask_stub ==
    [init |-> Arg("p1", "0") \o Arg("p2", "1") \o TypeIn("p1_str", "p1", {"string"})
              \o TypeIn("p2_list", "p2", {"list"}) \o When("and", <<"p1_str", "p2_list">>, "list_check", "fail"),
     fail |-> Fail("invalid parameters")] @@ AskOptions @@ AskOne @@ AskSelection

\* logo: three coins may be tried, and the picture is printed slowly.
LogoCoins ==
    [loop |-> Do("out", "ReadLineStdin", <<"Insert USD-Coin: ">>)
              \o When("equal", <<"out", "Penny">>, "print_penny", "check_nickel"),
     print_penny |-> Do("_", "PrintStdout", <<"cheap">>) \o Let("ret", "8") \o Goto("print_small"),
     check_nickel |-> When("equal", <<"out", "Nickel">>, "nickel", "check_dime"),
     nickel |-> Let("ret", "5") \o Do("_", "PrintStdout", <<"well">>) \o Goto("print_small"),
     check_dime |-> When("equal", <<"out", "Dime">>, "dime", "check_quarter")]
LogoBigCoins ==
    [dime |-> Let("ret", "9") \o Do("_", "PrintStdout", <<"better">>) \o Goto("print_big"),
     check_quarter |-> When("equal", <<"out", "Quarter">>, "quarter", "cnt_check"),
     quarter |-> Let("ret", "7") \o Do("_", "PrintStdout", <<"Thank you!">>) \o Goto("print_big"),
     print_small |-> Let("str", "logo_small") \o Do("iter", "IterNew", <<"str">>) \o Goto("print_iter"),
     print_big |-> Let("str", "logo_big") \o Do("iter", "IterNew", <<"str">>) \o Goto("print_iter")]
LogoPrint ==
    [print_iter |-> ForNext("i", "iter", "print", "inv_str"),
     print |-> Do("_", "PrintStdout", <<"i">>) \o Do("_", "Sleep", <<"10">>) \o Goto("print_iter"),
     inv_str |-> Do("_", "PrintStdout", <<"Please come again.">>) \o Free("str") \o Goto("ret"),
     cnt_check |-> When("less", <<"cnt", "2">>, "inc", "fail"),
     inc |-> Up("cnt") \o Goto("loop"),
     fail |-> Do("_", "PrintStdout", <<"Too bad">>) \o Let("ret", "0") \o Goto("ret"),
     ret |-> Free("cnt") \o Return("ret")]
logo_stub == [init |-> Let("cnt", "0") \o Goto("loop")] @@ LogoCoins @@ LogoBigCoins @@ LogoPrint

\* The files: writeFile joins what it is given line by line and opens the file
\* for writing without cutting off what it held.
read_file_stub ==
    [init |-> Arg("file", "0") \o Do("fd", "OpenAt", <<".", "file", "1">>) \o Do("ret", "ReadAllList", <<"fd">>)
              \o Free("fd") \o Return("ret")]
WriteJoin ==
    [init_iter |-> Do("iter", "IterNew", <<"content">>) \o Let("final", "") \o Goto("iter"),
     iter |-> AddrOf("i") \o When("IterNext", <<"iter", "i_addr">>, "concat", "write"),
     concat |-> Do("final_new", "plus", <<"final", "i">>) \o Free("final")
                \o Do("final", "plus", <<"final_new", "nl">>) \o Free("final_new") \o Goto("iter")]
write_file_stub ==
    [init |-> Arg("file", "0") \o Arg("content", "1") \o IfKind("content", {"string"}, "copy", "init_iter"),
     copy |-> Do("final", "Copy", <<"content">>) \o Goto("write"),
     write |-> Do("fd", "OpenAt", <<".", "file", "10">>) \o Do("_", "Write", <<"fd", "final">>) \o Free("fd")
               \o Free("final") \o Return("om")] @@ WriteJoin
=============================================================================
