SPECIFICATION FairSpec
CONSTANTS
    a1 = a1
    a2 = a2
    a3 = a3
    b1 = b1
    b2 = b2
    A = A
    B = B
    Jobs <- TwoProjectJobs
    Projects = {A, B}
    ProjectOf <- TwoProjects
    Limit = 1
    Cancellable = {a2, b2}
CHECK_DEADLOCK FALSE
INVARIANTS
    SlotInv
    QuotaRespected
PROPERTIES
    ImplementsSlotPool
    FifoUntilCancel
    ServedUnlessCancels
