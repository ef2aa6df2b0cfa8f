\* Two requests, two tokens; a rotation of the keys, a reload and a restart.
CONSTANTS
    Requests = {"r1", "r2"}
    Tokens <- MCTokens
    Kids = {"k1", "k2"}
    Configs <- MCConfigs
    FirstConfigs <- MCFirstConfigs
    Lifetime = 2
    Skew = 0
    KeyTTL = 1
    RetryAfter = 1
    VerifySlots = 1
    Capacity = 2
    PerPublisher = 1
    MaxTime = 2
    MaxRotations = 1
    MaxReloads = 1
    MaxCrashes = 1
SPECIFICATION FairSpec
INVARIANTS TokenUsedOnce LedgerSound
PROPERTIES StoredWhileTrusted WithdrawnKeyExpires NobodyWaitsForEver
CHECK_DEADLOCK FALSE
