SPECIFICATION FairSpec
CONSTANTS
    MinPartSize = 7
    MaxPartSize = 9
    MaxParts = 7
    MaxConcurrency = 3
    MaxInt = 80
    DefaultConfig <- MCDefault
    Configs <- MCConfigs
    Uploads <- MCUploads
    MaxAttempts = 2
CHECK_DEADLOCK FALSE
INVARIANTS TypeOK ObjectWhole NothingLeftBehind MemoryBounded TooLargeExplained
PROPERTIES UploadEnds
