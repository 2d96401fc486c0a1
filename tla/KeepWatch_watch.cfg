SPECIFICATION KeepWatchSpec
CONSTANTS
    Calls = {c1, c2}
    Ticks = {t1}
INVARIANT KeepWatchInv
PROPERTY UnwantedWakeEnds
