SPECIFICATION FairSpec
CONSTANTS
    Procs = {p1, p2}
    Keys = {k1}
    NoKey = NoKey
    Kinds = {"createBucket", "deleteBucket", "bucketExists", "put", "putStream", "get", "stat", "delete"}
    MaxAttempts = 3
CHECK_DEADLOCK FALSE
INVARIANTS TypeOK BodiesWhole SuccessIsTrue AllAttemptsMade
PROPERTIES CallsEnd
