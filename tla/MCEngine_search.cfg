\* A deterministic command: the whole search over up to six factors and a budget it may exhaust.
SPECIFICATION Spec
CONSTANTS
    MaxFactors = 6
    Repetitions = 2
    MaxExperiments = 24
    Arguments = 2
    MaxAnalyses = 1
    Flaky = FALSE
    Timeouts = FALSE
    Cancellation = FALSE
    Faults = FALSE
INVARIANTS
    SplitPartitions
    MinimalityAgrees
    ExperimentBound
CHECK_DEADLOCK FALSE
