CONSTANTS
    N = 3
    Suite <- MCSuite
    NoSuite = "none"
SPECIFICATION Spec
CONSTRAINT WithProc
INVARIANTS EveryBlockOnce SuiteExclusive NothingRunsOn
CHECK_DEADLOCK FALSE
