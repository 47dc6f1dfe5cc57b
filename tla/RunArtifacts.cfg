SPECIFICATION MCSpec
CONSTANTS
    Handles = {h1}
    Threads = {runner, worker}
    Runner = runner
    Tags = {ckpt, plan}
    CkptTag = ckpt
    NoHash = 0
    NoThread = NoThread
    MaxEvents = 4
    MaxFaults = 0
    s1 = s1  s2 = s2
    SnapshotCalls = {s1, s2}
    Paths = {1, 2, 3}
    Forbidden = {3}
    Exempt = {2}
    FirstTexts <- MCTexts
    MaxTextEdits = 1
    NoText = NoText
SYMMETRY Symmetric
CHECK_DEADLOCK FALSE
INVARIANTS ChainVerifies SnapshotsTellTruth
PROPERTY ImplementsAuditLog
