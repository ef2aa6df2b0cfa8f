\* Every accepted job ends, and a key has one.
SPECIFICATION FairSpec
CONSTANTS
    Jobs = {1, 2}
    Workers = {w1, w2}
    Keys = {k1, k2}
    Digests = {d1}
    MaxAttempts = 2
    MaxCrashes = 1
    Stops = FALSE
    None = None
    Faults = FALSE
INVARIANT OneJobPerKey
PROPERTY JobsEnd
