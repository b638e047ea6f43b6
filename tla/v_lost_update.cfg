SPECIFICATION Spec
CONSTANTS
    Clients = {c1, c2}
    Ids = {i1}
    Locs = {l1}
    NoId = NoId
    NoLoc = NoLoc
    NoRec = NoRec
    Keep = Keep
    Kinds = {"create", "update"}
    MaxVer = 3
    MaxBatch = 0
    MaxDoubt = 2
    WALSync = FALSE
    Exclusive = FALSE
SYMMETRY Interchangeable
CHECK_DEADLOCK FALSE
PROPERTIES UpdateReplacesItsVersion
