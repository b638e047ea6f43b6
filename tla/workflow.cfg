SPECIFICATION Spec
CONSTANTS
    Ids = {r1, r2, r3}
    None = None
    MaxLate = 2
SYMMETRY RunSymmetry
CHECK_DEADLOCK FALSE
INVARIANTS TypeOK RecordsBacked OrphansExplained DoneIsClean ReadsOwnObject
