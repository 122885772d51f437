--------------------------- MODULE ExecLabelled ---------------------------
(***************************************************************************)
(* The control machine on programs whose procedures are well labelled: the *)
(* assumption the theorems about it rest on.  The lowering produces such   *)
(* programs; an implementation of it that did not would run into the       *)
(* panics the control machine raises itself.                               *)
(***************************************************************************)
EXTENDS Exec

ASSUME ProgramsAssumption == \A g \in Programs : Labelled(g)
===========================================================================
