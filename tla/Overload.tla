------------------------------ MODULE Overload ------------------------------
(***************************************************************************)
(* Operators and predefined procedures on objects: a member of the object  *)
(* named for the operator is called with the members in scope              *)
(* (ir/lower/expr/op_expr.rs, ir/lower/expr/access_expr.rs).  The labels   *)
(* of one use of these blocks start with p.                                *)
(***************************************************************************)
LOCAL INSTANCE Code
LOCAL INSTANCE TLC
LOCAL INSTANCE Sequences

Labelled(p, blocks) ==
    [b \in {p \o n : n \in DOMAIN blocks} |-> blocks[CHOOSE n \in DOMAIN blocks : p \o n = b]]

\* block_obj_call_impl_push: this and the members are names of a frame of
\* their own, which goes whether the method returns or throws.
block_obj_call_frame(p, addr, held, target, rethrow) ==
    [call_frame |-> Do("_", "StackFrameAdd", <<>>) \o Try(p \o "stack_iter_new", p \o "rethrow"),
     stack_iter_new |-> Do("_", "StackAlias", <<"this", addr>>) \o Deref("obj", addr)
                        \o Do("obj_iter", "ObjectIterNew", <<"obj">>) \o Goto(p \o "stack_iter"),
     stack_iter |-> Let("key", "om") \o AddrOf("key") \o Let("val_ptr", "om") \o AddrOf("val_ptr")
                    \o When("ObjectIterNext", <<"obj_iter", "key_addr", "val_ptr_addr">>,
                            p \o "stack_add", p \o "call"),
     stack_add |-> Do("_", "StackAlias", <<"key", "val_ptr">>) \o Goto(p \o "stack_iter"),
     call |-> Do("call_out", "Call", <<"proc", "call_params">>) \o Do("_", "MarkPersist", <<"call_out">>)
              \o TryEnd(p \o "target"),
     target |-> Do("_", "StackFramePop", <<>>) \o held \o target,
     rethrow |-> rethrow \o Do("_", "Rethrow", <<>>) \o Unreachable]
Held == Do("_", "MarkImmed", <<"call_out">>)
FramePop == Do("_", "StackFramePop", <<>>)
block_obj_call_unpopped(p, addr, target) == block_obj_call_frame(p, addr, Held, target, <<>>)
block_obj_call_unheld(p, addr, target) == block_obj_call_frame(p, addr, <<>>, target, FramePop)
block_obj_call_impl_push(p, addr, target) == block_obj_call_frame(p, addr, Held, target, FramePop)

\* block_obj_overload_push: what is no object goes to the block dfl; an object
\* without the member, or with one that is no procedure, fails, or goes there
\* too if it may.  The right operand, if there is one, is evaluated first and
\* given by its address, and goes after the call if the operator owns it.
NoRhs == [code |-> <<>>, reg |-> "", owned |-> FALSE]
Rhs(reg) == [code |-> <<>>, reg |-> reg, owned |-> FALSE]
block_obj_overload_push(p, dfl, follow, dfl_on_nomem, out, lhs, rhs, op) ==
    LET given == IF rhs = NoRhs THEN <<>>
                 ELSE AddrOf(rhs.reg) \o Do("_", "ListPush", <<"call_params", rhs.reg \o "_addr">>)
        after == IF rhs.owned THEN Free(rhs.reg) ELSE <<>>
    IN Labelled(p,
         [overload |-> IfKind(lhs, {"object"}, p \o "obj_check", dfl),
          obj_check |-> Do("p", "ObjectGet", <<lhs, op>>)
                        \o When("equal", <<"p", "om">>, p \o "obj_fail", p \o "obj_check_type"),
          obj_fail |-> IF dfl_on_nomem THEN Goto(dfl)
                       ELSE Do("_", "ExceptionThrow", <<"operator overloading", op>>) \o Unreachable,
          obj_check_type |-> Deref("proc", "p") \o IfKind("proc", {"procedure"}, p \o "obj_call", p \o "obj_fail"),
          obj_call |-> rhs.code \o AddrOf(lhs) \o Do("call_params", "ListNew", <<>>) \o given
                       \o Goto(p \o "call_frame")]
         @@ block_obj_call_impl_push(p, lhs \o "_addr", Let(out, "call_out") \o after \o Goto(follow)))

\* log and exp of a number, or of an object that has its own.
ln_exp_stub(f, op) ==
    [init |-> Arg("lhs", "0") \o Goto("overload"),
     dfl |-> IfKind("lhs", {"number", "double"}, "assign", "fail"),
     assign |-> Do("ret", f, <<"lhs">>) \o Goto("ret"),
     fail |-> Fail("expected number, float, or object"),
     ret |-> Return("ret")]
    @@ block_obj_overload_push("", "dfl", "ret", FALSE, "ret", "lhs", NoRhs, op)
=============================================================================
