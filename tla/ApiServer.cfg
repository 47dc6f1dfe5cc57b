SPECIFICATION MCSpec
CONSTANTS
    Checks = {1, 2, 3}
    ClientOf <- MCClientOf
    MaxRequests = 1
    WindowSeconds = 1
    MaxTime = 2
    NoEntry = None
    Invocations = {1, 2, 3, 4}
    CallOf <- MCCallOf
    Decisions = {d1, d2}
    Nobody = None
    MayStop = TRUE
    McpCalls = {1, 2}
    NoCall = None
    ServerFaults = {"die", "error", "chatter"}
    Watchers = {w1, w2}
    Pollers = {p}
    MaxPolls = 2
    MaxLogs = 1
    MayAbort = TRUE
    Profiles = {1, 2}
    DefaultProfile = 1
    ProviderIds = {"openai", "ollama"}
    Changes <- MCChanges
    Writers = {a1, a2}
    AskedTasks = {"codebase", "coder", "context", "documents", "command", "docs",
                  "organizer", "github", "research"}
    None = "none"
    Blank = "blank"
    Word = "no"
    Clicks = {k1, k2}
    MaxPagePolls = 2
    NoRow = None
    MaxChanges = 3
INVARIANTS
    LimitHolds
    AskedStaysDecidable
    AnswersItsOwn
    FollowersToldTruth
    RunsAsAnswered
    DocumentCoherent
    ProvidersServe
PROPERTIES
    KeepsApprovalContract
    CallsEnd
    StreamsEnd
CHECK_DEADLOCK FALSE
