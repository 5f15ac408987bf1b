SPECIFICATION Spec
CONSTANTS
    tab = tab
    c1 = c1
    x1 = x1
    r1 = r1
    r2 = r2
    stm = stm
    Tables = {tab}
    Writers = {c1, x1}
    TargetOf <- AllTo
    Kind <- KindOfEach
    Droppable = {tab}
    MaxFailures = 1
    Readers = {r1, r2}
    Statements = {stm}
    StatementOf <- SameStatement
    Reads <- ReadsAll
    MaxEntries = 1
    Expires = TRUE
SYMMETRY SameReaders
CHECK_DEADLOCK FALSE
INVARIANTS
    CacheTypeOK
    FreshIfClean
    WithinLimit
