-------------------------------- MODULE Stubs --------------------------------
(***************************************************************************)
(* stubs_init: the variables every program starts with, and the predefined *)
(* procedures they hold.                                                   *)
(***************************************************************************)
EXTENDS StubsCollections, StubsTexts, StubsNumbers, Overload
LOCAL INSTANCE TLC

StubsAtoF ==
    [abort |-> abort_stub, abs |-> abs_stub, arb |-> first_stub, args |-> args_stub, ask |-> ask_stub,
     assert |-> assert_stub, ceil |-> float_op_stub("Ceil"), char |-> char_stub,
     clearCache |-> clear_cache_stub, compare |-> compare_stub, cos |-> num_op_stub("Cos"),
     cosh |-> num_op_stub("CosH"), deleteFile |-> delete_file_stub, domain |-> domain_range_stub("0"),
     double |-> double_stub, eval |-> eval_stub, evalTerm |-> eval_term_stub, execute |-> execute_stub,
     exp |-> ln_exp_stub("Exp", "f_exp"), fct |-> fct_stub, first |-> first_stub,
     floor |-> float_op_stub("Floor"), from |-> from_stub, fromB |-> fromb_stub, fromE |-> from_stub]
StubsGtoM ==
    [get |-> get_stub, getOsID |-> get_os_id_stub, int |-> int_stub, isBoolean |-> is_type_stub("bool"),
     isDouble |-> is_type_stub("double"), isInfinite |-> is_infinite_stub,
     isInteger |-> is_type_stub("number"), isNumber |-> is_number_stub, isList |-> is_type_stub("list"),
     isObject |-> is_type_stub("object"), isPrime |-> is_prime_stub,
     isProbablePrime |-> is_probable_prime_stub, isSet |-> is_type_stub("set"),
     isString |-> is_type_stub("string"), isTerm |-> is_term_stub, isVariable |-> is_variable_stub,
     join |-> join_stub, last |-> last_stub, load |-> load_stub, loadLibrary |-> load_library_stub,
     log |-> ln_exp_stub("Ln", "f_log"), log10 |-> log10_stub, log1p |-> log1p_stub, logo |-> logo_stub,
     makeTerm |-> make_term_stub, matches |-> matches_stub, mathConst |-> math_const_stub,
     max |-> max_stub(<<"out", "i">>), min |-> max_stub(<<"i", "out">>)]
StubsNtoZ ==
    [nPrint |-> n_print_stub("PrintStdout"), nPrintErr |-> n_print_stub("PrintStderr"), now |-> now_stub,
     parse |-> parse_stub, parseStatements |-> parse_statements_stub, pow |-> pow_stub,
     print |-> print_stub, printErr |-> print_stub, raise |-> throw_stub, random |-> random_stub,
     range |-> domain_range_stub("1"), read |-> read_stub, readFile |-> read_file_stub,
     replace |-> replace_stub, replaceFirst |-> replace_first_stub, resetRandom |-> reset_random_stub,
     reverse |-> reverse_stub, rnd |-> rnd_stub, round |-> float_op_stub("Round"), run |-> run_stub,
     signum |-> signum_stub, sin |-> num_op_stub("Sin"), sinh |-> num_op_stub("SinH"),
     sleep |-> sleep_stub, split |-> split_stub, sqrt |-> sqrt_stub, str |-> str_stub,
     tan |-> num_op_stub("Tan"), tanh |-> num_op_stub("TanH"), throw |-> throw_stub,
     ulp |-> num_op_stub("Ulp"), writeFile |-> write_file_stub]
stubs_init == StubsAtoF @@ StubsGtoM @@ StubsNtoZ
=============================================================================
