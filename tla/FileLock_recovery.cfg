SPECIFICATION FairLockSpec
CONSTANTS
    c1 = c1
    c2 = c2
    c3 = c3
    Contenders <- ThreeContenders
    CanCrash = TRUE
    CanOverrun = TRUE
INVARIANT LockTypeOK
INVARIANT ExclusionUntilStolen
PROPERTY ReleaseRemovesOwnFile
PROPERTY DeadOwnerLockCleared
