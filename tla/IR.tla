------------------------------- MODULE IR -------------------------------
(***************************************************************************)
(* The intermediate representation (src/src/ir/def.rs): what the control   *)
(* flow of a procedure is, and when it is well labelled.                   *)
(*                                                                         *)
(* A program maps procedure names to [start, blocks]; a block is a         *)
(* sequence of statements.  A statement is a record with a field op; the   *)
(* other fields depend on op:                                              *)
(*   "assign"       any assignment: an operation, a native call, or a call *)
(*   "branch"       yes, no        both are block names                    *)
(*   "try"          attempt, catch                                         *)
(*   "tryend"       to                                                     *)
(*   "goto"         to                                                     *)
(*   "return", "unreachable"                                               *)
(* Annotate statements only feed the debugger and are left out.            *)
(***************************************************************************)
EXTENDS Integers, FiniteSets

Terminators == {"branch", "try", "tryend", "goto", "return", "unreachable"}

StmtOps == Terminators \union {"assign"}

(* The blocks control may continue in after a statement, each with the     *)
(* number of try sections the step opens (1) or closes (-1).               *)
Edges(stmt) ==
    CASE stmt.op = "branch" -> {<<stmt.yes, 0>>, <<stmt.no, 0>>}
      [] stmt.op = "try"    -> {<<stmt.attempt, 1>>, <<stmt.catch, 0>>}
      [] stmt.op = "tryend" -> {<<stmt.to, -1>>}
      [] stmt.op = "goto"   -> {<<stmt.to, 0>>}
      [] OTHER              -> {}

(***************************************************************************)
(* A labelling d gives the blocks of a procedure the number of try         *)
(* sections that are open when they run.  StmtLabelled says that stmt, in  *)
(* a block at depth n, keeps to d: only a block outside every try section  *)
(* returns, and a try section is closed exactly once on every path.        *)
(***************************************************************************)
StmtLabelled(stmt, n, d) ==
    /\ stmt.op \in StmtOps
    /\ stmt.op = "goto"   => stmt.to \in DOMAIN d /\ d[stmt.to] = n
    /\ stmt.op = "branch" =>
          /\ stmt.yes \in DOMAIN d /\ d[stmt.yes] = n
          /\ stmt.no \in DOMAIN d /\ d[stmt.no] = n
    /\ stmt.op = "try" =>
          /\ stmt.attempt \in DOMAIN d /\ d[stmt.attempt] = n + 1
          /\ stmt.catch \in DOMAIN d /\ d[stmt.catch] = n
    /\ stmt.op = "tryend" => stmt.to \in DOMAIN d /\ n = d[stmt.to] + 1
    /\ stmt.op = "return" => n = 0

ProcLabelled(proc, d) ==
    /\ d \in [DOMAIN d -> Nat]
    /\ DOMAIN d \subseteq DOMAIN proc.blocks
    /\ proc.start \in DOMAIN d
    /\ d[proc.start] = 0
    /\ \A b \in DOMAIN d : \A i \in DOMAIN proc.blocks[b] :
          StmtLabelled(proc.blocks[b][i], d[b], d)

(***************************************************************************)
(* The blocks reachable from the start block, paired with every depth they *)
(* are reached at, and the labelling this gives.  Evaluated by TLC only.   *)
(***************************************************************************)
DepthPairs(proc) ==
    LET StepsFrom(x) ==
            {x} \union {<<e[1], x[2] + e[2]>> : e \in UNION {Edges(proc.blocks[x[1]][i]) :
                                                   i \in DOMAIN proc.blocks[x[1]]}}
        upto[k \in Nat] == IF k = 0 THEN {<<proc.start, 0>>}
                           ELSE UNION {StepsFrom(x) : x \in upto[k - 1]}
    IN  upto[Cardinality(DOMAIN proc.blocks)]

Labelling(proc) ==
    LET pairs == DepthPairs(proc)
    IN  [b \in {x[1] : x \in pairs} |-> (CHOOSE x \in pairs : x[1] = b)[2]]
=========================================================================
