SPECIFICATION MCSpec
CONSTANTS
    Order <- MCOrder
    DependsOn <- Fan
    Condition <- Guarded
    ParallelSafe <- AllButGather
    MaxIterations <- RetryFirst
    MaxWorkers = 2
    AgentLimit = 3
    StaleValues <- BothStale
    Faults <- AllFaults
    MaxRuns = 2
    NoStep = NoStep
    code = code
    Paths = {code, test}
    Failures = {lint, unit}
    Originals = {"missing", "old"}
    MaxFixAttempts = 1
    MaxTotalTasks = 3
    MaxTasks = 2
    MaxChanges = 2
INVARIANTS
    EndsWithVerdict
    DependenciesSettleFirst
    OvershootBounded
    NothingUnreported
    DoneMeansVerified
PROPERTIES
    KeepsContract
    RunEnds
    RunTaskEnds
CHECK_DEADLOCK FALSE
