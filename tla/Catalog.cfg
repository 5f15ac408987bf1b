SPECIFICATION Spec
CONSTANTS
    ta = ta
    tb = tb
    da = da
    db = db
    c1 = c1
    o1 = o1
    x1 = x1
    Tables = {ta, tb}
    Writers = {c1, o1, x1}
    TargetOf <- TargetOfEach
    Kind <- KindOfEach
    Droppable = {tb}
    MaxFailures = 2
    Datasets = {da, db}
    DatasetOf <- DatasetOfEach
    Deleters = {remover}
    Queries = {reader}
    Texts = {"09", "10", "9", "x"}
    Rank <- RankOfEach
    Number <- NumberOfEach
    NoValue = NoValue
CHECK_DEADLOCK FALSE
INVARIANTS
    CatalogTypeOK
    RowSurvives
    OrphansAreLate
    SteadyTablesBound
