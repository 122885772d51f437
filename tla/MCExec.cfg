CONSTANTS
    Programs <- MCPrograms
    Code <- MCCode
    Depth <- MCDepth
    Main = "main"
    NoBlock = NoBlock
    InitMem <- MCInitMem
    MaxDepth = 5
    Eval <- MCEval
    Cond <- MCCond
    Enter <- MCEnter
    Leave <- MCLeave
    Result <- MCResult
SPECIFICATION FairSpec
INVARIANTS TypeOK Nested AtDepth TryDepth NoTryMismatch HeapPerActivation
PROPERTIES CaughtByInnermost PanicDelivered
