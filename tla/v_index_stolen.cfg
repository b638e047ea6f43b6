SPECIFICATION Spec
CONSTANTS
    Clients = {c1}
    Ids = {i1, i2}
    Locs = {l1}
    NoId = NoId
    NoLoc = NoLoc
    NoRec = NoRec
    Keep = Keep
    Kinds = {"create", "delete", "getByKey"}
    MaxVer = 1
    MaxBatch = 0
    MaxDoubt = 2
    WALSync = FALSE
    Exclusive = FALSE
SYMMETRY Interchangeable
CHECK_DEADLOCK FALSE
PROPERTIES NotFoundIsTrue
