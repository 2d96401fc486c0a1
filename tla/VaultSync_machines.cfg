SPECIFICATION SyncSpec
CONSTANTS
    mac = mac
    pc2 = pc2
    app = app
    far = far
    s1 = s1
    s2 = s2
    e1 = e1
    k1 = k1
    Machines <- TwoMachines
    Procs <- OneProcEach
    Home <- HomeOneEach
    Origin = mac
    Servers = {s1}
    Edits = {e1, k1}
    Marks = {k1}
    CanCrash = TRUE
    Reviewers = {}
    MaxVersion = 2
    MaxGen = 2
INVARIANT SyncTypeOK
INVARIANT SyncInv
INVARIANT HonestCopyNeverRefused
INVARIANT NoLostUpdate
INVARIANT BaselineNamesOneVersion
PROPERTY AutoPullBuriesNothing
