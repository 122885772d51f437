----------------------------- MODULE MCTypes -----------------------------
(***************************************************************************)
(* The types of the blocks of a lowered program, computed by following     *)
(* them.  That the program keeps to them is for Typed to say.              *)
(***************************************************************************)
EXTENDS BlockTypes, TLC

MCVars == {"x", "y", "e", "g"}

(* What two ways into a block have in common. *)
Least(a, b) == IF a <= b THEN a ELSE b

Join(k, l) ==
    [framed |-> k.framed, leaked |-> k.leaked \/ l.leaked,
     held |-> [x \in Vars |-> Least(k.held[x], l.held[x])] @@ <<>>, runs |-> k.runs \union l.runs]

With(k, R) == [framed |-> k.framed, leaked |-> k.leaked, held |-> k.held, runs |-> R]

Lift(F(_), R) == UNION {F(r) : r \in R}

AfterOf(tidy, s, k) == With(After(tidy, s, k), Lift(LAMBDA r : Goes(s, r), k.runs))

RECURSIVE Through(_, _, _)

(* What is known at each statement of a block that is entered with k. *)
Through(tidy, block, ks) ==
    LET i == Len(ks)
    IN  IF i = Len(block) THEN ks
        ELSE Through(tidy, block, Append(ks, AfterOf(tidy, block[i], ks[i])))

(* Where statement s in a block with catch block c goes: the block, the    *)
(* catch block of that one and what is known there.                        *)
Thrower(s, k, c, R) ==
    IF c = NoBlock \/ R = {} THEN {} ELSE {<<c, With(Thrown(s, k), R)>>}

Ways(raising, s, k, c) ==
    LET with(x) == {r \in k.runs : r.reg = x}
    IN  CASE s.op = "assign" -> Thrower(s, k, c, Lift(LAMBDA r : Throws(raising, s, r), k.runs))
          [] s.op = "branch" ->
                {w \in {<<s.yes, With(k, with("true"))>>, <<s.no, With(k, with("false"))>>} :
                    w[2].runs # {}}
                \union Thrower(s, k, c, {[r EXCEPT !.kind = "usr"] : r \in with("nonbool")})
          [] s.op \in {"goto", "tryend"} -> {<<s.to, k>>}
          [] s.op = "try" -> {<<s.attempt, k>>}
          [] OTHER -> {}

(* The catch blocks of the blocks s leads to. *)
Inherits(s, c, known) ==
    CASE s.op = "branch" -> (s.yes :> c) @@ (s.no :> c)
      [] s.op = "goto" -> s.to :> c
      [] s.op = "try" -> (s.attempt :> s.catch) @@ (s.catch :> c)
      [] s.op = "tryend" -> s.to :> known[c]
      [] OTHER -> <<>>

RECURSIVE CatchesFrom(_, _, _)

CatchesFrom(proc, todo, known) ==
    IF todo = {} THEN known
    ELSE LET b == CHOOSE x \in todo : TRUE
             block == proc.blocks[b]
             found == Inherits(block[Len(block)], known[b], known)
         IN  CatchesFrom(proc, (todo \ {b}) \union (DOMAIN found \ DOMAIN known), known @@ found)

WaysOut(procs, c, block, ks) ==
    UNION {Ways(procs.raising, block[i], ks[i], c) : i \in DOMAIN block}

RECURSIVE JoinAll(_)

JoinAll(S) == LET k == CHOOSE x \in S : TRUE
              IN  IF S = {k} THEN k ELSE Join(k, JoinAll(S \ {k}))

(* What is known at the blocks that ways lead to. *)
Entered(known, ways) ==
    LET before(to) == IF to \in DOMAIN known THEN {known[to]} ELSE {}
    IN  [to \in {w[1] : w \in ways} |->
            JoinAll(before(to) \union {w[2] : w \in {v \in ways : v[1] = to}})] @@ <<>>

Changed(known, new) == {to \in DOMAIN new : to \notin DOMAIN known \/ known[to] # new[to]}

RECURSIVE Follow(_, _, _, _, _)

(* The types at the start of each block, followed until nothing is new. *)
Follow(proc, procs, catches, todo, known) ==
    IF todo = {} THEN known
    ELSE LET b == CHOOSE x \in todo : TRUE
             block == proc.blocks[b]
             new == Entered(known, WaysOut(procs, catches[b], block,
                                           Through(procs.tidy, block, <<known[b]>>)))
         IN  Follow(proc, procs, catches, (todo \ {b}) \union Changed(known, new), new @@ known)

WholeBlocks(proc, tidy, first) ==
    [b \in DOMAIN first |-> Through(tidy, proc.blocks[b], <<first[b]>>)] @@ <<>>

ProcKnown(p, proc, procs, catches) ==
    LET entry == [framed |-> FALSE, leaked |-> FALSE, held |-> Nothing, runs |-> Back(p)]
    IN  WholeBlocks(proc, procs.tidy,
                    Follow(proc, procs, catches, {proc.start}, proc.start :> entry))

ProgramCatch(code) ==
    [p \in DOMAIN code |-> CatchesFrom(code[p], {code[p].start}, code[p].start :> NoBlock)] @@ <<>>

(* The kinds of the exceptions that may leave the procedure. *)
StmtRaises(s, k, raising) ==
    CASE s.op = "assign" -> {x.kind : x \in Lift(LAMBDA r : Throws(raising, s, r), k.runs)}
      [] s.op = "branch" -> {"usr" : r \in {x \in k.runs : x.reg = "nonbool"}}
      [] OTHER -> {}

Raises(proc, known, raising, catches) ==
    UNION {UNION {StmtRaises(proc.blocks[b][i], known[b][i], raising) : i \in DOMAIN known[b]} :
              b \in {x \in DOMAIN known : catches[x] = NoBlock}}

(* A procedure is tidy if it always returns on the frames it began with.   *)
IsTidy(proc, known) ==
    \A b \in DOMAIN known : \A i \in DOMAIN known[b] :
        proc.blocks[b][i].op = "return" => ~ known[b][i].leaked

TypesFrom(code, catch, procs, known) ==
    [known |-> known, catch |-> catch,
     tidy |-> {p \in DOMAIN known : IsTidy(code[p], known[p])},
     raising |-> [p \in DOMAIN known |-> Raises(code[p], known[p], procs.raising, catch[p])] @@ <<>>]

(* What the procedures in P are like, given what those they call are like. *)
Seen(code, catch, P, procs) ==
    TypesFrom(code, catch, procs, [p \in P |-> ProcKnown(p, code[p], procs, catch[p])] @@ <<>>)

RECURSIVE Settled(_, _, _, _, _)

(* All procedures are tidy, and none raises an exception, until one of     *)
(* them is seen to be otherwise.                                           *)
Settled(code, catch, P, procs, seen) ==
    IF seen.tidy = procs.tidy /\ seen.raising = procs.raising THEN seen
    ELSE Settled(code, catch, P, seen, Seen(code, catch, P, seen))

Both(main, callees) ==
    [known |-> main.known @@ callees.known, catch |-> callees.catch,
     tidy |-> main.tidy \union callees.tidy,
     raising |-> main.raising @@ callees.raising]

AddMain(code, catch, callees) == Both(Seen(code, catch, {Main}, callees), callees)

(* The procedures main calls first; nothing calls main. *)
ProgramTypes(code, catch) ==
    LET called == DOMAIN code \ {Main}
        first == [tidy |-> called, raising |-> [p \in called |-> {}]]
    IN  AddMain(code, catch, Settled(code, catch, called, first, Seen(code, catch, called, first)))

TypesOf(code) == ProgramTypes(code, ProgramCatch(code))
===========================================================================
