SPECIFICATION ManagerFairSpec
CONSTANTS
    a1 = a1
    a2 = a2
    A = A
    Jobs <- OneProjectJobs
    Projects = {A}
    ProjectOf <- OneProject
    Limit = 1
    Cancellable = {a1, a2}
    Writes = {a1}
    MaxStoreErrors = 1
    CleanupRuns = TRUE
CHECK_DEADLOCK FALSE
INVARIANTS
    ManagerTypeOK
    RunningWithinQuota
    HistoryAgrees
    NoIdleSlotWhileQueued
PROPERTIES
    CancelKept
    ImplementsLifecycle
    EveryJobEnds
