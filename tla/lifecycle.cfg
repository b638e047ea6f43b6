SPECIFICATION FairSpec
CONSTANTS
    Procs = {p1, p2}
    Stoppers = {s1}
    Kinds = {"simple", "get", "list", "upload", "health"}
    Objects = 2
    Buffer = 1
CHECK_DEADLOCK FALSE
INVARIANTS TypeOK EarlyCallsDrained ListingComplete
PROPERTIES ShutdownReturns
