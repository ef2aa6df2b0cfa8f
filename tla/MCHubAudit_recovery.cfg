SPECIFICATION Spec
CONSTANTS
    e1 = e1
    e2 = e2
    Events = {e1, e2}
    SegmentSize = 2
    MaxSegments = 2
    MaxEntries = 6
SYMMETRY Symmetry
INVARIANTS
    OpenLogIsHistory
    AckedKept
    RefusedForCause
    TailNeverSwallowed
    FilesBounded
PROPERTY ImplementsAppendOnlyLog
