SPECIFICATION Spec
CONSTANTS
    ann = ann
    bob = bob
    ha = ha
    hb = hb
    pa = pa
    pb = pb
    u1 = u1
    u2 = u2
    v1 = v1
    r1 = r1
    r2 = r2
    r3 = r3
    Accounts = {ann, bob}
    Hosts = {ha, hb}
    Projects = {pa, pb}
    Users = {u1, u2, v1}
    Requests = {r1, r2, r3}
    HostOf <- HostOfEach
    ProjectsOf <- OneProjectEach
    UsersOf <- TwoUsersAndOne
    IAMURL = ha
    HaveKey = {u2}
    Before = Before
    NoAccount = NoAccount
    MaxFailures = 1
CHECK_DEADLOCK FALSE
SYMMETRY AnyRequest
INVARIANTS
    SessionsTypeOK
    OwnUnlessCrossed
    KeysReplaced
