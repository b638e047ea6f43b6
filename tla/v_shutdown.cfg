SPECIFICATION Spec
CONSTANTS
    Procs = {p1, p2}
    Stoppers = {s1, s2}
    Kinds = {"simple"}
    Objects = 1
    Buffer = 1
CHECK_DEADLOCK FALSE
INVARIANTS ShutdownWaits
