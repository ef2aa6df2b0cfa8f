\* Two requests of two callers, one change of the file, one restart.
CONSTANTS
    Requests = {"r1", "r2"}
    Tokens = {"t1", "t2"}
    Kinds = {"session", "list", "create", "get", "delete", "bad"}
    Configs <- MCConfigs
    Credentials <- MCCredentials
    Workspaces = {"a", "b"}
    SlotLimit = 1
    GlobalSlots = 2
    MaxTime = 2
    MaxEdits = 1
    MaxStarts = 2
    Burst = 1
    MaxBuckets = 3
SPECIFICATION Spec
INVARIANTS RequestsBounded BurstKept
PROPERTIES RevokedNeverCommits EffectsRecorded QuotaKept 
CHECK_DEADLOCK FALSE
