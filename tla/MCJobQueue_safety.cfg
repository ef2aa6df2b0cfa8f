\* Two workers, two jobs; leases expire, writes fail, the process restarts.
SPECIFICATION Spec
CONSTANTS
    Jobs = {1, 2}
    Workers = {w1, w2}
    Keys = {k1, k2}
    Digests = {d1, d2}
    MaxAttempts = 2
    MaxCrashes = 1
    Stops = TRUE
    None = None
    Faults = TRUE
SYMMETRY Symmetry
INVARIANTS
    OwnerHoldsLatestClaim
    LeasesAndAttempts
    
PROPERTY ImplementsLifecycle
CHECK_DEADLOCK FALSE
