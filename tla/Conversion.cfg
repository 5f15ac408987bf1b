SPECIFICATION FairSpec
CONSTANTS
    v1 = v1
    i1 = i1
    a1 = a1
    k1 = k1
    k2 = k2
    j1 = j1
    f1 = f1
    n1 = n1
    n2 = n2
    t1 = t1
    v2 = v2
    t3 = t3
    s1 = s1
    s2 = s2
    p1 = p1
    p2 = p2
    file1 = file1
    file2 = file2
    Sessions = {v1, v2, i1, a1, k1, k2}
    KindOf <- KindOfEach
    UserOf <- UserOfEach
    Users = {"u1", "u2"}
    Bindings <- ViewBindings
    Scripts = {v2}
    Strays = {t3}
    Tables = {t1, t3}
    SchemaOf <- SchemaOfEach
    Connections = {"c1", "c2"}
    MaxFaults = 1
    Savers = {s1, s2}
    Config <- TwoConfigs
    Patterns = {p1, p2}
    LengthOf <- LengthOfEach
    FileOf <- FileOfEach
    Matching <- MatchAll
    DeleteRequests = {p1}
    NoProfile = "noprofile"
    ConvJobs = {j1}
    TasksOf <- OneJob
    FileIn <- SameFile
    Files = {f1}
    Deletes = {j1}
    Workers = 2
    MaxRequests = 2
CHECK_DEADLOCK FALSE
INVARIANTS
    ConversionTypeOK
    RunsAsItself
    ConnectionsClean
    OneConfigPerProfile
    JobAgrees
    NothingLost
PROPERTIES
    EveryRequestEnds
