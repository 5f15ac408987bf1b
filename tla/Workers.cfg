SPECIFICATION FairSpec
CONSTANTS
    w1 = w1
    w2 = w2
    q1 = q1
    q2 = q2
    oa = oa
    ob = ob
    Endpoints = {w1, w2}
    Requests = {q1, q2}
    Objects = {oa, ob}
    Size <- UnitSize
    MaxBytes = 1
    ObjectsOf <- OneAndBoth
    RouteKey <- KeyOfEach
    VnodesOf <- VnodesOfEach
    Precedence <- AsConfigured
    Authorized = {w1}
    Caching = {w1, w2}
    MaxFailures = 2
CHECK_DEADLOCK FALSE
INVARIANTS
    WorkersTypeOK
    DispatchSound
    CacheAccounts
    LocalFilesWhole
PROPERTIES
    EveryQueryReturns
