\* The context is cancelled between two runs.
SPECIFICATION Spec
CONSTANTS
    MaxFactors = 2
    Repetitions = 2
    MaxExperiments = 16
    Arguments = 1
    MaxAnalyses = 1
    Flaky = FALSE
    Timeouts = FALSE
    Cancellation = TRUE
    Faults = FALSE
INVARIANT ProofFromFinishedRuns
CHECK_DEADLOCK FALSE
