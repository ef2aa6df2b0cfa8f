\* A deterministic command: two analyses share a cache that loses entries.
SPECIFICATION Spec
CONSTANTS
    MaxFactors = 2
    Repetitions = 2
    MaxExperiments = 16
    Arguments = 1
    MaxAnalyses = 2
    Flaky = FALSE
    Timeouts = FALSE
    Cancellation = FALSE
    Faults = TRUE
INVARIANTS
    AnalysesAgree
    AuditedWasSaved
CHECK_DEADLOCK FALSE
