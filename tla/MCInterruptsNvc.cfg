SPECIFICATION FairSpec
CONSTANTS
    Handled = {INT, TERM}
    Flags = {}
    TSTP = TSTP
    ALRM = ALRM
    DeathSig = TERM
    Ignored = {}
    NoSig = NoSig
    OuterHandles = FALSE
    MayKillVamos = FALSE
    MaxSignals = 3
PROPERTIES ChildEnds
CHECK_DEADLOCK FALSE
