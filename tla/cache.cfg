SPECIFICATION Spec
CONSTANTS
    Clients = {c1, c2}
    Ids = {i1, i2}
    Locs = {l1, l2}
    NoRec = NoRec
    Absent = Absent
    Kinds = {"getByKey", "create", "update", "delete"}
    MaxVer = 2
    MaxBatch = 1
    MaxPending = 2
    MaxTainted = 0
    Moves = TRUE
SYMMETRY Interchangeable
CHECK_DEADLOCK FALSE
INVARIANTS TypeOK EntriesFresh
