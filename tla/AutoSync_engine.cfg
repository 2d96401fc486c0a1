SPECIFICATION FairAutoSpec
CONSTANTS
    MaxWrites = 2
    MaxOthers = 1
    MaxFaults = 2
    MaxQueue = 1
    MaxGen = 2
INVARIANT AutoInv
INVARIANT SyncedMeansSynced
PROPERTY AutoPullKeepsWrites
PROPERTY WritesAreSynced
CHECK_DEADLOCK FALSE
