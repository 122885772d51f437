---------------------------- MODULE BlockTypes ----------------------------
(***************************************************************************)
(* What is known of the interpreter's data at each statement of a lowered  *)
(* program: types for its blocks.  Types[g] is a record:                   *)
(*   known    known[p][b][i] is for statement i of block b of procedure p, *)
(*            where b may be reached                                       *)
(*   catch    catch[p][b]: the catch block of the innermost try section    *)
(*            that is open in block b, NoBlock if there is none            *)
(*   raising  raising[p]: the kinds of the exceptions that may leave p     *)
(*   tidy     the procedures that return on the frames they began with     *)
(* and what is known at a statement, a record too:                         *)
(*   framed  the procedure's frame is on the stack                         *)
(*   leaked  frames of procedures an exception left may be on top of it    *)
(*   held    how many entries each name has at least, in the frame on top  *)
(*   runs    the exception's kind, the tested temporary, the part that ran *)
(*           last and how it ended: the combinations that may occur        *)
(* WellTyped says that the statements keep to it; it looks at each         *)
(* procedure on its own.  What follows from it for the interpreter, with   *)
(* any number of calls, is proved in Interp_proofs.                        *)
(***************************************************************************)
EXTENDS Interp

CONSTANTS
    Vars,    \* the names the interpreter's stack may hold
    Types    \* the types of each program's blocks

ASSUME VarsAssumption == Boundary \notin Vars

Kinds == {"usr", "lng", "bt"}
Regs == {"true", "false", "nonbool"}

Nothing == [x \in Vars |-> 0]

Catch(g, p, b) == Types[g].catch[p][b]

Known(g, p, b) == Types[g].known[p][b]

(* What the types see of the data. *)
RunOf(m) ==
    [kind |-> m.kind, reg |-> m.reg, last |-> m.calls[Len(m.calls)], sig |-> m.sig]

Ended(r, id, o) == [kind |-> r.kind, reg |-> r.reg, last |-> id, sig |-> o]

LeafGoes(id, r) ==
    {Ended(r, id, o) : o \in Outcomes[id] \intersect {"ok"}}
    \union {[Ended(r, id, o) EXCEPT !.reg = o] : o \in Outcomes[id] \intersect {"true", "false"}}
    \union {[Ended(r, id, o) EXCEPT !.reg = "nonbool"] :
               o \in Outcomes[id] \intersect (IF IsCondition(id) THEN {"usr"} ELSE {})}

LeafThrows(id, r) ==
    {[Ended(r, id, o) EXCEPT !.kind = "usr"] : o \in Outcomes[id] \intersect {"usr"}}
    \union {Ended(r, id, o) : o \in Outcomes[id] \intersect {"lng"}}

Back(id) == [kind : {"lng"}, reg : Regs, last : {id}, sig : {"ok"}]

Out(raising, s) ==
    {[kind |-> k, reg |-> x, last |-> s.id, sig |-> k] : k \in raising[s.f], x \in Regs}

(* After an assignment, and when it throws. *)
Goes(s, r) ==
    CASE s.do = "leaf"    -> LeafGoes(s.id, r)
      [] s.do = "call"    -> LeafGoes(s.id, r) \union Back(s.id)
      [] s.do = "kind_is" -> {[r EXCEPT !.reg = IF r.kind = s.kind THEN "true" ELSE "false"]}
      [] s.do = "reset"   -> {[r EXCEPT !.kind = "lng"]}
      [] s.do = "true"    -> {[r EXCEPT !.reg = "true"]}
      [] s.do \in {"frame_add", "frame_pop", "add", "pop"} -> {r}
      [] s.do \in {"exit", "backtrack", "rethrow"} -> {}

Throws(raising, s, r) ==
    CASE s.do = "leaf"      -> LeafThrows(s.id, r)
      [] s.do = "call"      -> LeafThrows(s.id, r) \union Out(raising, s)
      [] s.do = "backtrack" -> {[Ended(r, s.id, "bt") EXCEPT !.kind = "bt"]}
      [] s.do = "rethrow"   -> {r}
      [] OTHER              -> {}

(* The names held after an assignment, and when it throws. *)
HeldAfter(tidy, s, k) ==
    CASE s.do = "add" -> [k.held EXCEPT ![s.var] = @ + 1]
      [] s.do = "pop" -> [k.held EXCEPT ![s.var] = IF @ = 0 THEN 0 ELSE @ - 1]
      [] s.do \in {"frame_add", "frame_pop"} -> Nothing
      [] s.do = "call" -> IF s.f \in tidy THEN k.held ELSE Nothing
      [] OTHER -> k.held

(* An assignment as far as the frames are concerned. *)
After(tidy, s, k) ==
    [framed |-> s.do # "frame_pop",
     leaked |-> k.leaked \/ (s.do = "call" /\ s.f \notin tidy),
     held   |-> HeldAfter(tidy, s, k)]

Thrown(s, k) ==
    IF s.op = "assign" /\ s.do = "call"
    THEN [framed |-> k.framed, leaked |-> TRUE, held |-> Nothing]
    ELSE [framed |-> k.framed, leaked |-> k.leaked, held |-> k.held]

(* What have says implies what want says. *)
Fits(have, want) ==
    /\ have.framed = want.framed
    /\ have.leaked => want.leaked
    /\ \A x \in Vars : want.held[x] <= have.held[x]

(* A block that is entered with frames k and what the parts left in R, if  *)
(* it is entered at all.                                                   *)
Enters(g, p, to, k, R) ==
    R # {} =>
    /\ to \in DOMAIN Types[g].known[p]
    /\ Fits(k, Known(g, p, to)[1])
    /\ R \subseteq Known(g, p, to)[1].runs

(* An exception thrown in block b goes to a catch block or leaves.         *)
Lands(g, p, b, k, R) ==
    IF Catch(g, p, b) # NoBlock
    THEN Enters(g, p, Catch(g, p, b), k, R)
    ELSE \A r \in R : /\ r.sig = r.kind
                      /\ r.kind \in Types[g].raising[p]
                      /\ <<r.last, r.sig, "raise">> \in Flow[g]

(* The part the statement stands for may run, and in its own ways only. *)
PartTyped(g, s, k) ==
    /\ s.id \in DOMAIN Outcomes
    /\ \A r \in k.runs : r.kind = "lng" /\ <<r.last, r.sig, s.id>> \in Flow[g]
    /\ s.do \in {"leaf", "call"} => Outcomes[s.id] \subseteq {"ok", "true", "false", "usr", "lng"}
    /\ s.do = "exit" => "exit" \in Outcomes[s.id]
    /\ s.do = "backtrack" => "bt" \in Outcomes[s.id]
    /\ s.do = "call" => /\ s.f \in DOMAIN Text[g] /\ s.f \in DOMAIN Code[g]
                        /\ <<s.id, "call", s.f>> \in Flow[g]

Parts == {"leaf", "call", "exit", "backtrack"}

AssignTyped(g, p, b, i, s, k) ==
    LET next == Known(g, p, b)[i + 1]
    IN  /\ s.do \in Parts \union {"frame_add", "frame_pop", "add", "pop",
                                  "kind_is", "reset", "rethrow", "true"}
        /\ i + 1 \in DOMAIN Code[g][p].blocks[b]
        /\ s.do \in Parts => PartTyped(g, s, k)
        /\ k.framed = (s.do # "frame_add")
        /\ s.do \in {"add", "pop"} => s.var \in Vars
        /\ s.do = "pop" => k.held[s.var] > 0
        /\ Fits(After(Types[g].tidy, s, k), next)
        /\ s.do = "call" => Back(s.id) \subseteq next.runs
        /\ s.do = "call" => Lands(g, p, b, Thrown(s, k), Out(Types[g].raising, s))
        /\ \A r \in k.runs : /\ Goes(s, r) \subseteq next.runs
                             /\ Lands(g, p, b, Thrown(s, k), Throws(Types[g].raising, s, r))

BranchTyped(g, p, b, s, k) ==
    LET with(x) == {r \in k.runs : r.reg = x}
    IN  /\ k.framed
        /\ Enters(g, p, s.yes, k, with("true"))
        /\ Enters(g, p, s.no, k, with("false"))
        /\ Lands(g, p, b, Thrown(s, k), {[r EXCEPT !.kind = "usr"] : r \in with("nonbool")})

(* Sections are opened and closed as the catch blocks say. *)
TryTyped(g, p, b, s, k) ==
    /\ k.framed
    /\ Enters(g, p, s.attempt, k, k.runs)
    /\ Catch(g, p, s.attempt) = s.catch
    /\ s.catch \in DOMAIN Depth[g][p]
    /\ Catch(g, p, s.catch) = Catch(g, p, b)

TryEndTyped(g, p, b, s, k) ==
    /\ k.framed
    /\ Catch(g, p, b) # NoBlock
    /\ Enters(g, p, s.to, k, k.runs)
    /\ Catch(g, p, s.to) = Catch(g, p, Catch(g, p, b))

ReturnTyped(g, p, k) ==
    /\ ~ k.framed
    /\ k.leaked => p \notin Types[g].tidy
    /\ \A r \in k.runs : r.kind = "lng" /\ <<r.last, r.sig, "return">> \in Flow[g]

StmtTyped(g, p, b, i) ==
    LET s == Code[g][p].blocks[b][i]
        k == Known(g, p, b)[i]
    IN  /\ k.framed \in BOOLEAN /\ k.leaked \in BOOLEAN /\ k.held \in [Vars -> Nat]
        /\ s.op = "assign" => AssignTyped(g, p, b, i, s, k)
        /\ s.op = "branch" => BranchTyped(g, p, b, s, k)
                              /\ Catch(g, p, s.yes) = Catch(g, p, b)
                              /\ Catch(g, p, s.no) = Catch(g, p, b)
        /\ s.op = "goto" => Enters(g, p, s.to, k, k.runs) /\ Catch(g, p, s.to) = Catch(g, p, b)
        /\ s.op = "try" => TryTyped(g, p, b, s, k)
        /\ s.op = "tryend" => TryEndTyped(g, p, b, s, k)
        /\ s.op = "return" => ReturnTyped(g, p, k)
        /\ s.op = "unreachable" => k.runs = {}

(* Where a procedure begins, from whatever called it. *)
EntryTyped(g, p) ==
    LET start == Code[g][p].start
    IN  /\ Enters(g, p, start, [framed |-> FALSE, leaked |-> FALSE, held |-> Nothing], Back(p))
        /\ Catch(g, p, start) = NoBlock

ProcTyped(g, p) ==
    /\ EntryTyped(g, p)
    /\ NoBlock \notin DOMAIN Depth[g][p]
    /\ Types[g].raising[p] \subseteq Kinds
    /\ DOMAIN Types[g].known[p] \subseteq DOMAIN Depth[g][p]
    /\ \A b \in DOMAIN Types[g].known[p] :
          /\ 1 \in DOMAIN Code[g][p].blocks[b]
          /\ Catch(g, p, b) \in DOMAIN Depth[g][p] \union {NoBlock}
          /\ \A i \in DOMAIN Code[g][p].blocks[b] : StmtTyped(g, p, b, i)

ProgramTyped(g) == \A p \in DOMAIN Code[g] : ProcTyped(g, p)

WellTyped(P) == \A g \in P : ProgramTyped(g)

(***************************************************************************)
(* The program that is about to run is well typed: on every path through   *)
(* its procedures, normal or exceptional, sections are opened and closed,  *)
(* frames and variables pushed and popped, the exception reset and each    *)
(* part run where the statements of the program say.                       *)
(***************************************************************************)
Typed ==
    mem = Enter("proc", InitMem) /\ ctxs = <<Activation(Main)>> => ProgramTyped(prog)
===========================================================================
