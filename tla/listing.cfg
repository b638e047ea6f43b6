SPECIFICATION FairSpec
CONSTANTS
    Ids = {i1, i2}
    Absent = Absent
    Buckets <- MCBuckets
    Keys <- MCKeys
    Prefixes <- MCPrefixes
    Limits = {0, 4}
    DefaultListLimit = 1
    MaxListLimit = 2
CHECK_DEADLOCK FALSE
INVARIANTS TypeOK ListingComplete ReadsExplained
PROPERTIES KeysAscend ListingEnds
