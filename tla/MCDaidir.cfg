CONSTANTS
    s1 = s1
    s2 = s2
    Simvs <- MCSimvs
    Ams <- MCAms
    Compiles = 3
    Parts = 2
    GroupKill = TRUE
SPECIFICATION Spec
CHECK_DEADLOCK FALSE
INVARIANTS NeverHalfRunnable SuccessRuns FailureRefuses MixedNeedsRebuild ReportOfRecord
