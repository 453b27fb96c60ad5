SPECIFICATION FairSpec
CONSTANTS
    INT = INT
    HUP = HUP
    USR1 = USR1
    Engine = "vacask"
    HasVa = TRUE
    Decks = 2
    Files = 2
    MaxStops = 3
    MaxFlags = 0
INVARIANTS NoEngineLeft NoEngineAfterStop OneStopConverts SecondConvertsNothing
PROPERTY StopEnds
CHECK_DEADLOCK FALSE
