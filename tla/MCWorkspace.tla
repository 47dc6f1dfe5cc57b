---------------------------- MODULE MCWorkspace ----------------------------
(* What is kept in the workspace besides the ledgers of the runs, the      *)
(* tools that work on it and the graphs a workflow is built from.  The     *)
(* parts share no state: each behaviour exercises one of them, chosen at   *)
(* the start.                                                              *)
EXTENDS CoderSession, BrowserSessions, Brain, MemoryBus, RunReports,
        ExecutionDag, ContextOps, ModelCalls, CheckCommands,
        SecretVault, TLC

CONSTANTS r1, r2, r3

VARIABLE part

workspaceVars == <<sessionVars, browserVars, memoryVars, brainVars,
                   reportVars, dagVars, contextVars, modelVars, checkVars, routingVars,
                   vaultVars, part>>

(* A session with short plans of every kind of action: one that is free,   *)
(* two that need trust, and two the policy refuses.                        *)
ReadFile == Call("filesystem", "read", "workspace", Absent)

EditFile == Call("filesystem", "write", "workspace", Absent)

Test == Call("shell.execute", "invoke", Absent, "pytest")

EditGit == Call("filesystem", "write", "git", Absent)

RemoveFiles == Call("shell.execute", "invoke", Absent, "rm")

MCPlans == {<<ReadFile, EditFile>>, <<EditFile, Test>>, <<EditGit>>, <<RemoveFiles>>}

Symmetric == Permutations(Requests)

(* Two threads of one process and one of another.                          *)
MCProcessOf == [t \in MemoryCalls |-> IF t = 2 THEN 2 ELSE 1]

MCRequestsOf == [t \in MemoryCalls |->
    CASE t = 1 -> {[op |-> "nested", backend |-> "jsonl"]}
                    \cup [op : {"write"}, backend : {"sqlite", "vector", "global"}]
      [] t = 2 -> [op : {"write"}, backend : Backends]
      [] OTHER -> [op : {"read"}, backend : Backends]
                    \cup {[op |-> "write", backend |-> "jsonl"]}]

(* Texts of two words, and concepts that share their words or are related. *)
MCExperiences == [text : {<<"w1">>, <<"w2", "w1">>}, importance : 0..2]

MCLessons ==
    {[id |-> "x", label |-> <<"w1">>, description |-> <<>>, related |-> <<>>],
     [id |-> "y", label |-> <<"w1">>, description |-> <<"w2">>, related |-> <<"x", "z">>],
     [id |-> "w2", label |-> <<"w2">>, description |-> <<>>, related |-> <<>>]}

(* Three steps and a name that is no step; lists of at most two names.     *)
MCStepSeq == <<"a", "b", "c">>

MCNames == {"a", "b", "c", "missing"}

MCDepLists ==
    {<<>>} \cup {<<x>> : x \in MCNames}
           \cup {<<x, y>> : x, y \in MCNames \ {"missing"}}

(* The file named x is there, the one named y is not.  One call inits the  *)
(* context or regenerates it; the other regenerates it, is the preflight   *)
(* of a workflow (a fixed run directory, applied although git says dirty), *)
(* or cleans.                                                              *)
Request(op, scope, write, dir) ==
    [op |-> op, scope |-> scope, write |-> write, dirty |-> scope = "changed",
     dir |-> dir, keep |-> 1]

MCContextRequests ==
    <<{Request("init", "full", "patch", "a"), Request("run", "full", "apply", "a")},
      {Request("run", "full", "apply", "a"), Request("preflight", "changed", "apply", "p"),
       Request("clean", "full", "patch", "a")}>>

MCNameOrder == [a |-> 1, p |-> 2]

MCSources == {[x |-> 1, y |-> 0]}

(* Errors that say nothing, one thing or two.                              *)
MCPhrases ==
    TransientPhrases \cup ForbiddenPhrases \cup CredentialPhrases \cup RequestPhrases
      \cup {"401", "approval_denied", "patch"}

MCMessages ==
    {{}} \cup {{p} : p \in MCPhrases}
         \cup {{"rate_limit", "auth"}, {"timeout", "model"}, {"forbidden", "not_found"},
               {"auth", "patch"}, {"network", "approval_denied"}}

MCCandidates == <<"m1", "m2">>

MCInit ==
    /\ part \in {"coder", "browser", "memory", "brain", "reports", "dag",
                "context", "errors", "models", "checks", "routing", "vault"}
    /\ SessionInit /\ (part # "coder" => trust = "ask")
    /\ BrowserInit /\ (part # "browser" => playwright)
    /\ MemoryInit /\ BrainInit /\ ReportsInit
    /\ DagInit /\ (part # "dag" => dependsOn = [s \in Steps |-> <<>>])
    /\ ContextInit
    /\ part # "context" =>
         /\ context = NoContext
         /\ \A c \in ContextCalls : Asked(c).op \in {"init", "clean"}
    /\ ErrorInit
    /\ part # "errors" => step.by = "runner"
    /\ part \notin {"errors", "models"} => step.retries = 0
    /\ \E a \in Adapters : invocation = NotInvoked(a)
    /\ part # "models" => invocation.adapter = "openai_v1"
    /\ ChecksInit /\ RoutingInit /\ VaultInit

\* The variables v belong to part p.
Only(p, v) == part # p => UNCHANGED v

MCNext ==
    /\ UNCHANGED part
    /\ Only("coder", sessionVars) /\ Only("browser", browserVars)
    /\ Only("memory", memoryVars) /\ Only("brain", brainVars)
    /\ Only("reports", reportVars) /\ Only("dag", dagVars)
    /\ Only("context", contextVars)
    /\ part \notin {"errors", "models"} => UNCHANGED errorVars
    /\ Only("models", invocation)
    /\ Only("checks", checkVars) /\ Only("routing", routingVars)
    /\ Only("vault", vaultVars)
    /\ \/ part = "coder" /\ SessionNext
       \/ part = "browser" /\ BrowserNext
       \/ part = "memory" /\ MemoryNext
       \/ part = "brain" /\ BrainNext
       \/ part = "reports" /\ ReportsNext
       \/ part = "dag" /\ DagNext
       \/ part = "context" /\ ContextNext
       \/ part = "errors" /\ ErrorNext
       \/ part = "models" /\ ModelNext
       \/ part = "checks" /\ ChecksNext
       \/ part = "routing" /\ RoutingNext
       \/ part = "vault" /\ VaultNext

MCSpec == MCInit /\ [][MCNext]_workspaceVars

\* The processes that tools start are accounted for, browsers and commands, and
\* what a run says of its commands is what happened (BrowserSessions,
\* CheckCommands).
ToolsAccounted == BrowsersAccounted /\ ChecksToldTruly /\ CommandsEnd

\* The stores that calls of several processes share keep what they were given
\* (MemoryBus, SecretVault).
StoresServe == MemoryServes /\ SecretsKept

\* An error of a model is told as what it is (ModelCalls), and a router that
\* falls back remembers it for its time (ModelCalls).
ErrorsCount == ErrorsToldTruly /\ FailuresRemembered
=============================================================================
