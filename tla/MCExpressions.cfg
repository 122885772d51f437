SPECIFICATION Spec
CONSTANTS
    Programs <- MCPrograms
    Inputs <- MCInputs
    Changes <- MCChanges
    Caches <- MCCaches
    Source <- MCSource
    Lines <- MCLines
    Evaluated <- MCEvaluated
    Randoms <- MCRandoms
    MaxReads = 0
CHECK_DEADLOCK FALSE
INVARIANTS
    ReadsLive
    Settled
    ParamsKept
    MethodScoped
    MeansWhatItSays
    NamesScoped
    RightUnread
