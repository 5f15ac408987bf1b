SPECIFICATION Spec
CONSTANTS
    q = q
    e = e
    v = v
    Schedules = {q, e}
    Crons = {1}
    NextOf <- Periods
    MaxTime = 2
    Converts = {}
    Editable = {e}
    Deletable = {}
    Cancellable = {}
    MaxCrashes = 0
    MaxStoreErrors = 0
CHECK_DEADLOCK FALSE
INVARIANTS
    NoOverlapAtAll
