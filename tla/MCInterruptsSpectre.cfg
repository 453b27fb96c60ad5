SPECIFICATION Spec
CONSTANTS
    Handled = {INT, TERM}
    Flags = {USR1, USR2}
    TSTP = TSTP
    ALRM = ALRM
    DeathSig = TERM
    Ignored = {}
    NoSig = NoSig
    OuterHandles = TRUE
    MayKillVamos = TRUE
    MaxSignals = 3
INVARIANTS SignalPassedOn GraceRunning KillOnlyAfterSignal ChildResumed FlagsInOrder NoChildLeft
CHECK_DEADLOCK FALSE
