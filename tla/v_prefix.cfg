SPECIFICATION Spec
CONSTANTS
    Ids = {i1, i2}
    Absent = Absent
    Buckets <- MCBuckets
    Keys <- PlainKeys
    Prefixes <- PlainPrefixes
    Limits = {0, 4}
    DefaultListLimit = 1
    MaxListLimit = 2
CHECK_DEADLOCK FALSE
INVARIANTS PrefixFilters
