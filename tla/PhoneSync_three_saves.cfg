SPECIFICATION SavesSpec
CONSTANTS
    p1 = p1
    p2 = p2
    p3 = p3
    Pushes <- ThreePushes
    MaxEdits = 3
    MaxOthers = 2
    MaxTroubles = 0
    MaxEvents = 5
    CanTear = FALSE
    CanPull = FALSE
SYMMETRY AnyOrderOfThree
PROPERTY RepushDisplacesStashed
CHECK_DEADLOCK FALSE
