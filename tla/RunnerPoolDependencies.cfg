SPECIFICATION MCSpec
CONSTANTS
    Order <- MCOrder
    DependsOn <- Chain
    Condition <- Unconditional
    ParallelSafe <- AllSteps
    MaxIterations <- Once
    MaxWorkers = 2
    AgentLimit = 4
    StaleValues <- FreshOnly
    Faults <- NoFaults
    MaxRuns = 1
    NoStep = NoStep
    code = code
    Paths = {code}
    Failures = {lint}
    Originals = {"missing", "old"}
    MaxFixAttempts = 1
    MaxTotalTasks = 1
    MaxTasks = 1
    MaxChanges = 1
INVARIANTS
    DependenciesSettleFirst
CHECK_DEADLOCK FALSE
