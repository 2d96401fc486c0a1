SPECIFICATION ShareSpec
CONSTANTS
    Devices = {d1, d2}
    Apps = {a1}
    MaxId = 3
    MaxVer = 2
    MaxClock = 3
    MaxForgets = 1
    MaxCalls = 2
SYMMETRY Swap
INVARIANT ShareTypeOK
INVARIANT TombstonedScopeIsEmpty
INVARIANT WrittenMemoryKept
INVARIANT DeliveredOnce
PROPERTY RevokedStaysHidden
