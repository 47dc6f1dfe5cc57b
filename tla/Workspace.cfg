SPECIFICATION MCSpec
CONSTANTS
    r1 = r1  r2 = r2  r3 = r3
    Requests = {r1, r2, r3}
    Plans <- MCPlans
    Faults = {"scan", "tool", "raise", "crash"}
    None = None
    BrowserCalls = {1, 2, 3}
    BrowserKinds = {"sync", "async"}
    BrowserOps = {"navigate", "click", "create_session", "close_session"}
    HasPlaywright = {TRUE, FALSE}
    NoBrowser = NoBrowser
    MemoryCalls = {1, 2, 3}
    ProcessOf <- MCProcessOf
    RequestsOf <- MCRequestsOf
    MemoryCrashes = TRUE
    NoValue = NoValue
    BrainWords = {"w1", "w2"}
    Experiences <- MCExperiences
    Lessons <- MCLessons
    MaxEpisodes = 2
    MaxConcepts = 2
    MaxPerceived = 3
    MaxRestarts = 1
    RunKinds = {"documents", "research", "file_organization", "workflow", "docs_maintenance",
                "command_assistant", "github_maintenance", "context_maintainer", "plan"}
    ResumeCommands = {"resume", "runs resume"}
    MaxResumes = 2
    StepSeq <- MCStepSeq
    Names <- MCNames
    DepLists <- MCDepLists
    ContextCalls = {1, 2}
    SourceFiles = {"x", "y"}
    ContextRequests <- MCContextRequests
    NameOrder <- MCNameOrder
    InitialSources <- MCSources
    MaxEdits = 1
    Missing = Missing
    Torn = Torn
    ErrorClasses = {"ProviderError", "ToolSafetyError", "ConfigError", "PlanningError",
                    "ExecutionError", "VerificationError", "PatchApplicationError",
                    "ResumeError", "IntegrationError", "PermissionError", "FileNotFoundError",
                    "ConnectionError", "KeyError", "ValueError", "AssertionError",
                    "RuntimeError", "KeyboardInterrupt", "coding.PlanningError",
                    "BudgetExceededError"}
    Messages <- MCMessages
    StepRetries = {0, 1}
    NoError = NoError
    Adapters = {"openai_v1", "azure_foundry", "gemini", "vertex", "anthropic", "cohere",
                "ollama_cloud", "bedrock", "oci"}
    ServiceFaults = {"400", "401", "403", "404", "429", "500", "503",
                     "timeout", "connection", "broken"}
    MaxRounds = 2
    MaxChecks = 2
    MaxHelpers = 1
    Candidates <- MCCandidates
    RouterCalls = {r1, r2, r3}
    HealthTtl = 1
    MaxRouterTime = 1
    Unmarked = Unmarked
    VaultCalls = {r1, r2, r3}
    Refs = {"openai", "gemini"}
    Phrases = {"right", "wrong"}
    NoSecret = NoSecret
SYMMETRY Symmetric
INVARIANTS
    SessionsKeepFaith
    ToolsAccounted
    StoresServe
    MemoriesMakeSense
    ViewsTellTruth
    OrderIsTopological
    GraphJudgedRightly
    ContextCanBeTrusted
    ErrorsCount
CHECK_DEADLOCK FALSE
