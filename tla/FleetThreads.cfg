SPECIFICATION Spec
CONSTANTS
    w1 = w1  w2 = w2  t1 = t1  t2 = t2  c1 = c1  c2 = c2  c3 = c3
    Workers = {w1}
    Tasks = {t1, t2}
    Kind <- MCKind
    Priority <- MCPriority
    Capabilities <- MCCapabilities
    MaxRetries = 2
    Calls = {c1, c2}
    PoolSize = 2
    NoKind = NoKind
    None = None
    Faults = {"timeout", "crash"}
INVARIANTS AtMostOneCopy
PROPERTY KeepsTaskContract
CHECK_DEADLOCK FALSE
