SPECIFICATION Spec
CONSTANTS
    Clients = {c1, c2}
    Ids = {i1, i2}
    Locs = {l1, l2}
    NoId = NoId
    NoLoc = NoLoc
    NoRec = NoRec
    Keep = Keep
    Kinds = {"create","update","delete","createMany","deleteMany","get"}
    MaxVer = 2
    MaxBatch = 2
    MaxDoubt = 1
    WALSync = TRUE
    Exclusive = TRUE
SYMMETRY Interchangeable
CHECK_DEADLOCK FALSE
PROPERTIES ImplementsInterface
