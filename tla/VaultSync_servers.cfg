SPECIFICATION SyncSpec
CONSTANTS
    mac = mac
    pc2 = pc2
    app = app
    far = far
    s1 = s1
    s2 = s2
    e1 = e1
    k1 = k1
    Machines <- OneMachine
    Procs <- OneProc
    Home <- HomeOne
    Origin = mac
    Servers = {s1, s2}
    Edits = {e1}
    Marks = {}
    CanCrash = FALSE
    Reviewers = {app}
    MaxVersion = 2
    MaxGen = 2
INVARIANT RecordedGenerationIsOfRecordedBytes
PROPERTY ConfirmDropsOnlyWhatWasShown
