----------------------------- MODULE MCInterp -----------------------------
(***************************************************************************)
(* Interp on the programs of InterpPrograms: nested control       *)
(* structure in main around each way to leave it.                          *)
(***************************************************************************)
EXTENDS MCTypes, Lower, InterpPrograms

Written == INSTANCE Links

LabelledProgram(code) == [p \in DOMAIN code |-> Labelling(code[p])] @@ <<>>

(* Without try {...} catch (e) { try { r(); } catch (e) {...} }: when r     *)
(* raises an exception its frame stays, and e cannot be popped (catch_pop). *)
MCPrograms == Nestings \ {<<8, 7, 9>>}

(* The tables are computed once; the constants refer to them. *)
TextTable == [g \in MCPrograms |-> TextOf(g)] @@ <<>>

CodeTable == [g \in MCPrograms |-> LoweredProgram(TextOf(g))] @@ <<>>

DepthTable == [g \in MCPrograms |-> LabelledProgram(LoweredProgram(TextOf(g)))] @@ <<>>

FlowTable == [g \in MCPrograms |-> Written!ProgramLinks(EffectOf(g))] @@ <<>>

TypesTable == [g \in MCPrograms |-> TypesOf(LoweredProgram(TextOf(g)))] @@ <<>>

MCText == TextTable
MCCode == CodeTable
MCDepth == DepthTable
MCFlow == FlowTable
MCTypesOf == TypesTable
===========================================================================
