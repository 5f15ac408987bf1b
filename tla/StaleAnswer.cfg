SPECIFICATION Spec
CONSTANTS
    tab = tab
    c1 = c1
    x1 = x1
    r1 = r1
    r2 = r2
    stm = stm
    Tables = {tab}
    Writers = {c1}
    TargetOf <- AllTo
    Kind <- KindOfEach
    Droppable = {}
    MaxFailures = 0
    Readers = {r1, r2}
    Statements = {stm}
    StatementOf <- SameStatement
    Reads <- ReadsAll
    MaxEntries = 0
    Expires = FALSE
CHECK_DEADLOCK FALSE
INVARIANTS
    NoStaleAnswer
