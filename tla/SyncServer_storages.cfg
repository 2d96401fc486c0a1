SPECIFICATION ServerSpec
CONSTANTS
    d1 = d1
    d2 = d2
    small = small
    big = big
    huge = huge
    PartsOf <- OneSmallOneBig
    Devices = {d1, d2}
    Blobs = {small, big}
    KeepMax = 1
    MaxVersion <- ThreeOnPostgres
    MaxUploads = 2
    MaxLost <- OneLostInMemory
SYMMETRY Symmetric
INVARIANT ServerInv
INVARIANT SlowPullFinishes
PROPERTY ImplementsRegister
