------------------------------ MODULE Members ------------------------------
(***************************************************************************)
(* +/ and */ over the members of a collection                              *)
(* (ir/lower/expr/set_mem_ops.rs): a collection of sets is united or       *)
(* intersected member by member, any other is folded with + or *.  The     *)
(* members are borrowed; what is made on the way is replaced and freed.    *)
(***************************************************************************)
LOCAL INSTANCE Code
LOCAL INSTANCE Operators
LOCAL INSTANCE TLC
LOCAL INSTANCE Sequences

\* What +/ and */ have in common: the first member, and an iterator behind it.
FirstOf(x) ==
    [start |-> Do("amount", "Amount", <<x>>) \o Do("amount_zero", "equal", <<"amount", "0">>) \o Free("amount")
               \o If("amount_zero", "out_om", "set_check"),
     out_om |-> Let("acc", "om") \o Goto("follow"),
     set_check |-> IfKind(x, {"set"}, "set_get_zero", "arr_get_zero"),
     set_get_zero |-> Do("zero", "SetBorrow", <<x, "true">>) \o Do("_", "MarkPersist", <<"zero">>) \o Goto("set_set"),
     arr_get_zero |-> Do("zero", "at", <<x, "0">>) \o Goto("set_set"),
     set_set |-> TypeIn("zero_set", "zero", {"set"}) \o Do("set_iter", "IterNew", <<x>>)
                 \o Let("i", "om") \o AddrOf("i") \o Do("_", "IterNext", <<"set_iter", "i_addr">>)
                 \o If("zero_set", "set_first", "fold"),
     set_first |-> Do("acc", "Copy", <<"zero">>) \o Goto("set_iter"),
     fold |-> Do("acc", "Copy", <<"zero">>) \o Goto("fold_loop"),
     fold_loop |-> When("IterNext", <<"set_iter", "i_addr">>, "fold_start", "follow"),
     fold_next |-> Free("acc") \o Let("acc", "acc_new") \o Goto("fold_loop"),
     follow |-> Let("out", "acc") \o Goto("end")]

\* block_sum_mem_push: the union, by inserting copies of each member's elements.
block_sum_mem_push(x) ==
    [set_iter |-> When("IterNext", <<"set_iter", "i_addr">>, "set_iter_loop", "follow"),
     set_iter_loop |-> Do("i_iter", "IterNew", <<"i">>) \o Goto("set_iter_loop_iter"),
     set_iter_loop_iter |-> ForNext("j", "i_iter", "set_iter_loop_loop", "set_iter"),
     set_iter_loop_loop |-> Do("j_copy", "Copy", <<"j">>) \o Do("_", "SetInsert", <<"acc", "j_copy">>)
                            \o Goto("set_iter_loop_iter")]
    @@ block_op_plus_push("fold_", "fold_next", "acc_new", "acc", "i")
    @@ FirstOf(x)

\* block_prod_mem_push: the intersection, by copying into a new set what the
\* next member contains of the last one.
block_prod_mem_push(x) ==
    [set_iter |-> When("IterNext", <<"set_iter", "i_addr">>, "set_iter_loop", "follow"),
     set_iter_loop |-> Do("out_iter", "IterNew", <<"acc">>) \o Do("acc_new", "SetNew", <<>>)
                       \o Goto("set_iter_loop_iter"),
     set_iter_loop_iter |-> ForNext("j", "out_iter", "set_iter_loop_loop", "set_iter_assign"),
     set_iter_loop_loop |-> When("Contains", <<"i", "j">>, "set_iter_loop_insert", "set_iter_loop_iter"),
     set_iter_loop_insert |-> Do("j_copy", "Copy", <<"j">>) \o Do("_", "SetInsert", <<"acc_new", "j_copy">>)
                              \o Goto("set_iter_loop_iter"),
     set_iter_assign |-> Free("acc") \o Let("acc", "acc_new") \o Goto("set_iter"),
     fold_start |-> Do("acc_new", "mult", <<"acc", "i">>) \o Goto("fold_next")]
    @@ FirstOf(x)

MemberOps == {"sumMem", "prodMem"}
OverMembers(op, x) == IF op = "sumMem" THEN block_sum_mem_push(x) ELSE block_prod_mem_push(x)

block_mem_push(op, owned) ==
    [init |-> Operand("left", "0", owned) \o Goto("start"),
     end |-> Finally(owned, "left") \o Return("out")]
    @@ OverMembers(op, "left")

\* block_set_mem_op_dfl_push: the left operand is the result for no members,
\* and goes otherwise.
block_set_mem_op_dfl_push(op, lo, ro) ==
    [init |-> Operand("left", "0", lo) \o Operand("right", "1", ro)
              \o Do("len", "Amount", <<"right">>) \o When("equal", <<"len", "0">>, "assign_left", "mem"),
     assign_left |-> Let("out", "left") \o Goto("end"),
     mem |-> Finally(lo, "left") \o Goto("start"),
     end |-> Finally(ro, "right") \o Return("out")]
    @@ OverMembers(op, "right")
=============================================================================
