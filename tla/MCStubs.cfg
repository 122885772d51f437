SPECIFICATION FairSpec
CONSTANTS
    Programs <- stubs_init
    Inputs <- MCInputs
    Changes <- MCChanges
    Caches <- MCCaches
    Lines <- MCLines
    Evaluated <- MCEvaluated
    Randoms <- MCRandoms
    MaxReads = 3
CHECK_DEADLOCK FALSE
INVARIANTS
    TypeOK
    ReadsLive
    Settled
    ParamsKept
    ResultRight
PROPERTY
    Terminates
