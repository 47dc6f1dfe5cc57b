---------------------------- MODULE MCApiServer ----------------------------
(* The parts of the API server share no state: each behaviour exercises    *)
(* one of them, chosen at the start.                                       *)
EXTENDS RateLimiter, ToolApproval, McpConnections, RunExecutor, ProviderProfiles,
        TaskInputs, Dashboard

VARIABLE part

apiVars == <<limiterVars, approvalVars, mcpVars, runVars, profileVars, asking,
             pageVars, part>>

\* Three requests of one client, and windows that end in between.
MCClientOf == [r \in Checks |-> 0]

\* Two calls the policy asks about, one it allows, one it denies.
MCCallOf == [i \in Invocations |->
    CASE i \in {1, 2} -> Call("filesystem", "write", "workspace", Absent)
      [] i = 3 -> Call("filesystem", "read", "workspace", Absent)
      [] OTHER -> Call("shell.execute", "invoke", Absent, "rm")]

\* With an auth mode that does not exist, or an empty endpoint.
Invalid(change) == [change EXCEPT !.valid = FALSE]

\* Two profiles that use the same provider, and one that needs no secret.
MCChanges ==
    {Change("add", p, "openai", {"planner"}, "secret", "given") : p \in Profiles}
      \cup {Change("setup", 1, "openai", Roles, "secret", k) : k \in {"given", "missing"}}
      \cup {Change("add", 1, "ollama", {"executor"}, "none", "missing")}
      \cup {Change(op, p, "openai", {}, "secret", "given") :
               op \in {"rotate", "remove", "delete", "use"}, p \in Profiles}
      \cup {Change("assign", 1, "ollama", {"verifier"}, "none", "missing"),
            Change("assign-all", 1, "openai", {}, "none", "missing"),
            Change("update", 1, "openai", {}, "none", "missing"),
            Change("update", 1, "openai", {}, "secret", "empty"),
            Change("update", 1, "ollama", {}, "secret", "missing")}
      \cup {Invalid(Change("update", 1, "openai", {}, "secret", "given")),
            Invalid(Change("update", 1, "ollama", {}, "none", "missing"))}

MCInit ==
    /\ LimiterInit /\ ApprovalInit /\ McpInit /\ RunInit /\ ProfilesInit
    /\ InputsInit /\ PageInit
    /\ part \in {"limiter", "tools", "mcp", "sockets", "events", "profiles",
                "tasks", "page"}

\* The variables v belong to the parts p.
Only(p, v) == part \notin p => UNCHANGED v

MCNext ==
    /\ UNCHANGED part
    /\ Only({"limiter"}, limiterVars) /\ Only({"tools"}, approvalVars)
    /\ Only({"mcp"}, mcpVars) /\ Only({"sockets", "events"}, runVars)
    /\ Only({"profiles"}, profileVars) /\ Only({"tasks"}, asking)
    /\ Only({"page"}, pageVars)
    /\ \/ part = "limiter" /\ LimiterNext
       \/ part = "tools" /\ ApprovalNext
       \/ part = "mcp" /\ McpNext
       \/ /\ part \in {"sockets", "events"} /\ RunNext
          /\ part = "sockets" => poller' = poller /\ logged' = logged
          /\ part = "events" => watcher' = watcher
       \/ part = "profiles" /\ ProfilesNext
       \/ part = "tasks" /\ InputsNext
       \/ part = "page" /\ PageNext

MCSpec == MCInit /\ [][MCNext]_apiVars /\ McpFairness /\ RunFairness

\* Who follows a run is told the truth, through a stream or on the page.
FollowersToldTruth == StreamTruthful /\ PageTruthful
=============================================================================
