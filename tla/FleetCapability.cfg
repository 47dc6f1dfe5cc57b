SPECIFICATION Spec
CONSTANTS
    w1 = w1  w2 = w2  t1 = t1  t2 = t2  c1 = c1  c2 = c2  c3 = c3
    Workers = {w1, w2}
    Tasks = {t1, t2}
    Kind <- MCKind
    Priority <- MCPriority
    Capabilities <- MCCapabilities
    MaxRetries = 3
    Calls = {c1, c2}
    PoolSize = 1
    NoKind = NoKind
    None = None
    Faults = {}
INVARIANT CapableWorkersOnly
CHECK_DEADLOCK FALSE
