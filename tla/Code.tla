-------------------------------- MODULE Code --------------------------------
(***************************************************************************)
(* Procedures of the intermediate representation, written out: a procedure *)
(* is a function from the names of its blocks to sequences of statements,  *)
(* and starts at the block "init".  Registers keep their names without the *)
(* t_; x_addr holds the address of x, and check a condition that only the  *)
(* branch after it reads.                                                  *)
(***************************************************************************)
EXTENDS Sequences

Do(x, f, a) == <<[is |-> "do", to |-> x, f |-> f, args |-> a]>>
Let(x, a) == <<[is |-> "let", to |-> x, from |-> a]>>
Free(x) == Do("_", "Free", <<x>>)
Param(x, i) == <<[is |-> "param", to |-> x, at |-> i]>>
AddrOf(x) == <<[is |-> "address", to |-> x \o "_addr", of |-> x]>>
Deref(x, p) == <<[is |-> "deref", to |-> x, from |-> p]>>
Store(p, a) == <<[is |-> "store", at |-> p, from |-> a]>>
If(x, s, f) == <<[is |-> "if", of |-> x, yes |-> s, no |-> f]>>
TypeIn(x, v, kinds) == <<[is |-> "typein", to |-> x, of |-> v, kinds |-> kinds]>>
Goto(b) == <<[is |-> "goto", yes |-> b]>>
Try(s, f) == <<[is |-> "try", yes |-> s, catch |-> f]>>
TryEnd(b) == <<[is |-> "tryend", yes |-> b]>>
Return(a) == <<[is |-> "return", from |-> a]>>
Unreachable == <<[is |-> "unreachable"]>>

Arg(x, i) == Param(x \o "_addr", i) \o Deref(x, x \o "_addr")
Renew(x, f, a) == Do(x \o "_new", f, a) \o Free(x) \o Let(x, x \o "_new")
Up(i) == Renew(i, "plus", <<i, "1">>)
When(f, a, s, n) == Do("check", f, a) \o If("check", s, n)
IfKind(x, kinds, s, n) == TypeIn("check", x, kinds) \o If("check", s, n)
ForNext(i, iter, s, n) == Let(i, "om") \o AddrOf(i) \o When("IterNext", <<iter, i \o "_addr">>, s, n)
Fail(message) == Do("_", "ExceptionThrow", <<"predefined procedure", message>>) \o Unreachable
=============================================================================
