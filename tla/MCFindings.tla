---------------------------- MODULE MCFindings ----------------------------
(***************************************************************************)
(* Programs on which Interp does not do what the sources say of it.        *)
(***************************************************************************)
EXTENDS Interp, Lower, InterpPrograms

Written == INSTANCE Links

LabelledProgram(code) == [p \in DOMAIN code |-> Labelling(code[p])] @@ <<>>

(* A statement after a do-while loop. *)
DoWhileText == WithMain(<<Statement(4, 1, <<>>, NamedClauses), Part("work")>>)

(* A language exception under catchLng. *)
CatchLngText == WithMain(<<Statement(11, 1, Risk(0), NamedClauses)>>)

(* An exception that leaves a procedure and is caught in a catch body. *)
CatchPopText == TextOf(<<8, 7, 9>>)

TextTable == <<DoWhileText, CatchLngText, CatchPopText>>

CodeTable == [g \in 1..3 |-> LoweredProgram(TextTable[g])] @@ <<>>

DepthTable == [g \in 1..3 |-> LabelledProgram(LoweredProgram(TextTable[g]))] @@ <<>>

FlowTable == [g \in 1..3 |-> Written!ProgramLinks(TextTable[g])] @@ <<>>

MCText == TextTable
MCCode == CodeTable
MCDepth == DepthTable
MCFlow == FlowTable

DoWhilePrograms == {1}
CatchLngPrograms == {2}
CatchPopPrograms == {3}
===========================================================================
