------------------------------ MODULE MCExec ------------------------------
(***************************************************************************)
(* The control machine on every well-labelled main of ExecPrograms, and on *)
(* mains that need not be well labelled: a return in a try section and a   *)
(* try end outside one raise a panic.                                      *)
(***************************************************************************)
EXTENDS Exec, ExecPrograms

MCPrograms == GoodMains \union AnyMains
MCCode == CodeOf(MCPrograms)
MCDepth == DepthOfAll(MCPrograms)
===========================================================================
