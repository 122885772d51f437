CONSTANTS
    Programs <- CatchPopPrograms
    Code <- MCCode
    Depth <- MCDepth
    Text <- MCText
    Flow <- MCFlow
    Main = "main"
    NoBlock = NoBlock
    InitMem <- StartMem
    MaxDepth = 12
    MaxEntries = 6
    Outcomes <- MCOutcomes
    Eval <- EvalStmt
    Cond <- CondStmt
    Enter <- EnterActivation
    Leave <- LeaveActivation
    Result <- ResultOf
SPECIFICATION FairSpec
INVARIANT PopFinds
