SPECIFICATION PhoneSpec
CONSTANTS
    p1 = p1
    p2 = p2
    p3 = p3
    Pushes <- TwoPushes
    MaxEdits = 2
    MaxOthers = 1
    MaxTroubles = 1
    MaxEvents = 3
    CanTear = TRUE
    CanPull = TRUE
SYMMETRY AnyOrder
INVARIANT PhoneInv
PROPERTY WakeBuriesNothing
PROPERTY RepushDisplacesStashed
PROPERTY PushKeepsWhatItReplaces
