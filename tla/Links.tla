------------------------------ MODULE Links ------------------------------
(***************************************************************************)
(* What a program means before it is lowered: the statements of            *)
(* src/src/ast.rs and the order in which their parts run.  A part that is  *)
(* evaluated as a whole (an expression, a condition, a call) is a leaf and *)
(* has an identifier; the rest of a program is its control structure.      *)
(*                                                                         *)
(* A statement is a record with a field k:                                 *)
(*   "do"        id               an expression or assignment              *)
(*   "call"      id, f            a call of procedure f                    *)
(*   "exit"      id                                                        *)
(*   "backtrack" id                                                        *)
(*   "return", "break", "continue"                                         *)
(*   "if"        branches (a sequence of [id, body]), else                 *)
(*   "while", "dowhile"  id, body                                          *)
(*   "for"       params (a sequence of [init, iter, var]), filter, body    *)
(*   "try"       body, clauses (a sequence of [kind, var, body])           *)
(*   "check"     body, after                                               *)
(* The value a return computes is a leaf in front of it.                   *)
(*                                                                         *)
(* ProgramLinks says which part follows which.  Module Source is the       *)
(* specification made of these links.                                      *)
(***************************************************************************)
EXTENDS Integers, Sequences

Raises == {"usr", "lng", "bt"}

(* The leaf to run next, or how the procedure ends: "return" and "raise"   *)
(* are not identifiers.  env says where control goes: after the statements *)
(* (next), on break, continue and return, and on an exception of each kind.*)
TopLevel == [next |-> "return", brk |-> "none", cont |-> "none", ret |-> "return",
             usr |-> "raise", lng |-> "raise", bt |-> "raise"]

LoopEnv(env, again) == [env EXCEPT !.next = again, !.cont = again, !.brk = env.next]

NoFilter == ""

(* The first clause of a try statement that handles exceptions of a kind;  *)
(* 0 if there is none.  "final" is a plain catch.                          *)
Handler(clauses, kind) ==
    LET H == {i \in DOMAIN clauses :
                \/ clauses[i].kind = kind
                \/ clauses[i].kind = "final" /\ kind = "usr"}
    IN  IF H = {} THEN 0 ELSE CHOOSE i \in H : \A j \in H : i <= j

RECURSIVE First(_, _), TryEnv(_, _)

First(stmts, env) ==
    IF stmts = <<>> THEN env.next
    ELSE LET s == Head(stmts)
             after == [env EXCEPT !.next = First(Tail(stmts), env)]
         IN  CASE s.k = "return"   -> env.ret
               [] s.k = "break"    -> env.brk
               [] s.k = "continue" -> env.cont
               [] s.k = "if"       -> s.branches[1].id
               [] s.k = "for"      -> s.params[1].init
               [] s.k = "dowhile"  -> First(s.body, LoopEnv(after, s.id))
               [] s.k = "try"      -> First(s.body, TryEnv(s, after))
               [] s.k = "check"    -> First(s.body, TryEnv(s, after))
               [] OTHER            -> s.id

(* The body of a try or check statement: the exceptions it handles go to   *)
(* the handler, the others where they went before.                         *)
TryEnv(s, env) ==
    IF s.k = "check" THEN [env EXCEPT !.bt = First(s.after, env)]
    ELSE LET goes(kind) == LET i == Handler(s.clauses, kind)
                           IN  IF i = 0 THEN env[kind] ELSE First(s.clauses[i].body, env)
         IN  [env EXCEPT !.usr = goes("usr"), !.lng = goes("lng")]

(* The links <<id, sig, next>> of statements: when leaf id ends with sig,  *)
(* next is what follows; <<id, "call", f>> says that it calls procedure f.  *)
Raised(id, env) == {<<id, r, env[r]>> : r \in Raises}

RECURSIVE Links(_, _), StmtLinks(_, _)

Links(stmts, env) ==
    IF stmts = <<>> THEN {}
    ELSE StmtLinks(Head(stmts), [env EXCEPT !.next = First(Tail(stmts), env)])
         \union Links(Tail(stmts), env)

IfLinks(s, env) ==
    LET otherwise(i) == IF i < Len(s.branches) THEN s.branches[i + 1].id
                        ELSE First(s.else, env)
    IN  Links(s.else, env) \union UNION {
            LET b == s.branches[i]
            IN  {<<b.id, "true", First(b.body, env)>>, <<b.id, "false", otherwise(i)>>}
                \union Raised(b.id, env) \union Links(b.body, env) : i \in DOMAIN s.branches}

LoopLinks(s, env) ==
    LET inside == LoopEnv(env, s.id)
    IN  {<<s.id, "true", First(s.body, inside)>>, <<s.id, "false", env.next>>}
        \union Raised(s.id, env) \union Links(s.body, inside)

(* Nested iterations, the last parameter innermost. *)
ForLinks(s, env) ==
    LET n == Len(s.params)
        inside == LoopEnv(env, s.params[n].iter)
        body == First(s.body, inside)
        deeper(i) == IF i < n THEN s.params[i + 1].init
                     ELSE IF s.filter = NoFilter THEN body ELSE s.filter
        outer(i) == IF i = 1 THEN env.next ELSE s.params[i - 1].iter
    IN  UNION {LET p == s.params[i]
               IN  {<<p.init, "ok", p.iter>>, <<p.iter, "true", deeper(i)>>,
                    <<p.iter, "false", outer(i)>>}
                   \union Raised(p.init, env) : i \in 1..n}
        \union (IF s.filter = NoFilter THEN {}
                ELSE {<<s.filter, "true", body>>, <<s.filter, "false", s.params[n].iter>>}
                     \union Raised(s.filter, env))
        \union Links(s.body, inside)

StmtLinks(s, env) ==
    CASE s.k \in {"do", "backtrack"} -> {<<s.id, "ok", env.next>>} \union Raised(s.id, env)
      [] s.k = "call" ->
            {<<s.id, "call", s.f>>, <<s.id, "ok", env.next>>} \union Raised(s.id, env)
      [] s.k = "if" -> IfLinks(s, env)
      [] s.k \in {"while", "dowhile"} -> LoopLinks(s, env)
      [] s.k = "for" -> ForLinks(s, env)
      [] s.k = "try" ->
            Links(s.body, TryEnv(s, env)) \union
            UNION {Links(s.clauses[i].body, env) : i \in DOMAIN s.clauses}
      [] s.k = "check" -> Links(s.body, TryEnv(s, env)) \union Links(s.after, env)
      [] OTHER -> {}

(* A procedure is entered as if a leaf with its name had ended "ok". *)
ProgramLinks(src) ==
    UNION {{<<p, "ok", First(src[p], TopLevel)>>} \union Links(src[p], TopLevel) :
              p \in DOMAIN src}
==========================================================================
