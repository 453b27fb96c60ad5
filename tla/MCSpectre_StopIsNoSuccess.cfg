SPECIFICATION Spec
CONSTANTS
    INT = INT
    HUP = HUP
    USR1 = USR1
    Engine = "vacask"
    HasVa = TRUE
    Decks = 2
    Files = 2
    MaxStops = 1
    MaxFlags = 0
INVARIANT StopIsNoSuccess
CHECK_DEADLOCK FALSE
