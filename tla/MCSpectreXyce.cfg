SPECIFICATION Spec
CONSTANTS
    INT = INT
    HUP = HUP
    USR1 = USR1
    Engine = "xyce"
    HasVa = TRUE
    Decks = 2
    Files = 2
    MaxStops = 3
    MaxFlags = 1
INVARIANTS StopGivesThree HangupKeepsResults TrailerOnce EscapeBounded ExitAsInTrailer AlarmOnlyFromExit FlagsAnswered
CHECK_DEADLOCK FALSE
