\* A flaky command, timeouts and cancellation.
SPECIFICATION FairSpec
CONSTANTS
    MaxFactors = 2
    Repetitions = 2
    MaxExperiments = 10
    Arguments = 2
    MaxAnalyses = 1
    Flaky = TRUE
    Timeouts = TRUE
    Cancellation = TRUE
    Faults = FALSE
INVARIANT VerdictHasEvidence
 
CHECK_DEADLOCK FALSE
