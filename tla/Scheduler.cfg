SPECIFICATION FairSpec
CONSTANTS
    q = q
    e = e
    v = v
    Schedules = {q, v}
    Crons = {0, 1}
    NextOf <- Periods
    MaxTime = 3
    Converts = {v}
    Editable = {v}
    Deletable = {q}
    Cancellable = {q}
    MaxCrashes = 1
    MaxStoreErrors = 1
CHECK_DEADLOCK FALSE
INVARIANTS
    TypeOK
    FlagInv
    NoOverlappingRuns
PROPERTIES
    
    DueIsServed
