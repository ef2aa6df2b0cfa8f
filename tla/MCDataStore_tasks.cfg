\* Three tasks of at most three processes, which fail or die after any step.
SPECIFICATION Spec
CONSTANTS
    t1 = t1
    t2 = t2
    t3 = t3
    t4 = t4
    daemon = daemon
    cli3 = cli3
    cli4 = cli4
    Tasks <- TheTasks
    Process <- TheProcess
    Daemon = daemon
    Blobs = {b1}
    MaxActive = 3
    NoFile = NoFile
    Short = Short
    Garbage = Garbage
    None = None
SYMMETRY Symmetry
INVARIANTS
    
    AckedReadable
    ChainHolds
    FingerprintsAgree
    
CHECK_DEADLOCK FALSE
