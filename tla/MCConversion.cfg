SPECIFICATION Spec
CONSTANTS
    A = A
    B = B
    MaxSteps = 2
    Points <- MCPoints
    Streams <- MCStreams
    MaxStops = 2
INVARIANTS TypeOK LogListsFiles ParentsListLeaves CompleteListed NoTempLeft StatusHonest
CHECK_DEADLOCK FALSE
