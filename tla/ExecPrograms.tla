--------------------------- MODULE ExecPrograms ---------------------------
(***************************************************************************)
(* Programs for model checking Exec: a main procedure of three blocks and  *)
(* a procedure with a try section.  An assignment may succeed, panic, exit *)
(* or call that procedure.  The data is the stack of the immediate heaps   *)
(* that are alive, each with the kind of its owner.                        *)
(***************************************************************************)
EXTENDS Integers, Sequences, IR

Blk == 1..3

Tries == {<<[op |-> "try", attempt |-> b[1], catch |-> b[2]]>> :
             b \in {x \in Blk \X Blk : x[1] # x[2] /\ x[1] # 1}}

Terms == {<<>>, <<[op |-> "return"]>>, <<[op |-> "unreachable"]>>}
    \union {<<[op |-> "goto", to |-> b]>> : b \in Blk}
    \union {<<[op |-> "tryend", to |-> b]>> : b \in Blk}
    \union {<<[op |-> "branch", yes |-> b[1], no |-> b[2]]>> : b \in {<<1, 3>>, <<2, 3>>}}
    \union Tries

Work == [op |-> "assign"]

Proc(s) == [start |-> 1, blocks |-> s]

Mains == {Proc(s) : s \in [Blk -> {<<Work>> \o t : t \in Terms}]}

(* Those that are well labelled, use every block and open a try section. *)
GoodMains ==
    {p \in Mains :
        /\ \E b \in Blk : Len(p.blocks[b]) = 2 /\ p.blocks[b][2].op = "try"
        /\ LET d == Labelling(p) IN DOMAIN d = Blk /\ ProcLabelled(p, d)}

(* Those that open a try section at once and go on in any way. *)
AnyMains == {p \in Mains : \E t \in Tries : p.blocks[1] = <<Work>> \o t}

Callee == Proc(<< <<[op |-> "try", attempt |-> 2, catch |-> 3]>>,
                  <<Work, [op |-> "tryend", to |-> 3]>>,
                  <<[op |-> "return"]>> >>)

CodeOf(mains) == [p \in mains |-> [main |-> p, callee |-> Callee]]

DepthOfAll(mains) == [p \in mains |-> [main |-> Labelling(p), callee |-> Labelling(Callee)]]

MCInitMem == <<>>

MCEval(stmt, m) == {[out |-> "ok", mem |-> m],
                    [out |-> "panic", mem |-> m],
                    [out |-> "exit", mem |-> m],
                    [out |-> "call", callee |-> "callee", mem |-> m]}

MCCond(stmt, m) == {[out |-> o, mem |-> m] : o \in {"yes", "no", "panic"}}

MCEnter(kind, m) == Append(m, kind)

MCLeave(kind, m) == SubSeq(m, 1, Len(m) - 1)

MCResult(ret, call, m) == SubSeq(m, 1, Len(m) - 1)
===========================================================================
