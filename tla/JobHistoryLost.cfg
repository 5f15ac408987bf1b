SPECIFICATION ManagerSpec
CONSTANTS
    a1 = a1
    a2 = a2
    A = A
    Jobs <- OneProjectJobs
    Projects = {A}
    ProjectOf <- OneProject
    Limit = 1
    Cancellable = {a1}
    Writes = {}
    MaxStoreErrors = 0
    CleanupRuns = FALSE
CHECK_DEADLOCK FALSE
INVARIANTS
    TerminalAlwaysPersisted
