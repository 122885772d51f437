----------------------------- MODULE Source -----------------------------
(***************************************************************************)
(* What a program does before it is lowered.  This is the abstract         *)
(* specification: the state is the part each active procedure ran last and *)
(* how the latest one ended, sig; Flow says what follows (module Links).   *)
(***************************************************************************)
EXTENDS Integers, Sequences

CONSTANTS
    Programs,   \* the programs
    Text,       \* Text[g][p] is the body of procedure p of program g
    Flow,       \* Flow[g] is ProgramLinks(Text[g])
    Main,       \* the name of every program's main procedure
    Outcomes    \* Outcomes[id]: the ways leaf id may end

VARIABLES prog, calls, sig

Init ==
    /\ prog \in Programs
    /\ calls = <<Main>>
    /\ sig = "ok"

Last == calls[Len(calls)]

Follows(t) == calls # <<>> /\ <<Last, sig, t>> \in Flow[prog]

Below == SubSeq(calls, 1, Len(calls) - 1)

(* Leaf id runs and ends in one of its ways. *)
Run(id) ==
    /\ Follows(id)
    /\ calls' = Append(Below, id)
    /\ sig' \in Outcomes[id]
    /\ UNCHANGED prog

(* Leaf id calls procedure f. *)
CallProc(id) ==
    /\ Follows(id)
    /\ \E f \in DOMAIN Text[prog] :
          /\ <<id, "call", f>> \in Flow[prog]
          /\ calls' = Append(Append(Below, id), f)
    /\ sig' = "ok"
    /\ UNCHANGED prog

(* The procedure ends; the call of it has succeeded. *)
Return ==
    /\ Follows("return")
    /\ calls' = Below
    /\ sig' = IF Below = <<>> THEN sig ELSE "ok"
    /\ UNCHANGED prog

(* An exception leaves the procedure; the call of it raises it. *)
Raise ==
    /\ Follows("raise")
    /\ calls' = Below
    /\ UNCHANGED <<prog, sig>>

Next ==
    \/ \E id \in DOMAIN Outcomes : Run(id) \/ CallProc(id)
    \/ Return
    \/ Raise

Spec == Init /\ [][Next]_<<prog, calls, sig>>
=========================================================================
