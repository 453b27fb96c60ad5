CONSTANTS
    r1 = r1
    r2 = r2
    f1 = f1
    f2 = f2
    t1 = t1
    t2 = t2
    Runs <- MCRuns
    Files <- MCFiles
    Hdl <- MCHdl
    Texts <- MCTexts
    None = None
    Torn = Torn
    MaxEdits = 1
SPECIFICATION Spec
CHECK_DEADLOCK FALSE
INVARIANTS NothingLeft StaleNeedsRace
PROPERTY ImplementsStore
