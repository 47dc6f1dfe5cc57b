SPECIFICATION ResumeSpec
CONSTANTS
    Handles = {h1}
    Threads = {runner, worker}
    Runner = runner
    Tags = {ckpt, plan}
    CkptTag = ckpt
    NoHash = 0
    NoThread = NoThread
    MaxEvents = 4
    MaxFaults = 0
CHECK_DEADLOCK FALSE
INVARIANT LastCheckpointIsNewest
