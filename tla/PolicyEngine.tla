---------------------------- MODULE PolicyEngine ---------------------------
(***************************************************************************)
(* core/policy_engine.py: PolicyEngine.evaluate, with the risk of an       *)
(* operation (core/tool_invocation.py), the boundaries of a ToolContext    *)
(* (core/tool_protocol.py) and the configurations the interfaces and the   *)
(* coder use.  A path is the place it lies in, a command is its first      *)
(* word: what the policies look at.                                        *)
(***************************************************************************)
EXTENDS FiniteSets

Risks == {"none", "low", "medium", "high", "critical"}

\* No path, or no command, in the parameters of a call.
Absent == "absent"

Call(tool, operation, path, command) ==
    [tool |-> tool, operation |-> operation, path |-> path, command |-> command]

----------------------------------------------------------------------------
(* Risk.                                                                   *)

\* The risk_level each default tool passes to BaseTool.__init__.
DefaultRisk(tool) ==
    CASE tool \in {"filesystem", "git"} -> "none"
      [] tool = "memory" -> "low"
      [] tool = "local_db" -> "medium"
      [] OTHER -> "high"

RiskOf(call) ==
    CASE call.tool = "filesystem" /\ call.operation \in {"read", "list", "stat"} -> "none"
      [] call.tool = "filesystem" /\ call.operation \in {"write", "copy"} -> "medium"
      [] OTHER -> DefaultRisk(call.tool)

----------------------------------------------------------------------------
(* Boundaries.                                                             *)

PathAllowed(context, path) ==
    /\ path \notin context.deniedPaths
    /\ context.allowedPaths = {} \/ path \in context.allowedPaths

----------------------------------------------------------------------------
(* PolicyEngine.evaluate: policies 1 to 6 deny, 7 denies or asks, and the  *)
(* rule for the risk decides the rest.                                     *)

HttpTool(tool) == tool = "http.request"

LocalOnlyRefuses(config, call) ==
    config.localOnly /\ (HttpTool(call.tool) \/ call.tool \in {"git.push", "git.clone"})

StrictPrivateRefuses(config, call) ==
    config.strictPrivate /\ call.path \in config.sensitive

BudgetRefuses(context) == context.callsLeft = 0

BoundaryRefuses(context, call) ==
    call.path # Absent /\ ~PathAllowed(context, call.path)

CommandRefuses(config, call) ==
    /\ call.command # Absent
    /\ \/ call.command \in config.commandDenylist
       \/ config.commandAllowlist # {} /\ call.command \notin config.commandAllowlist

NetworkRefuses(config, call) == HttpTool(call.tool) /\ ~config.networkAllowed

Refuses(config, context, call) ==
    \/ LocalOnlyRefuses(config, call)
    \/ StrictPrivateRefuses(config, call)
    \/ BudgetRefuses(context)
    \/ BoundaryRefuses(context, call)
    \/ CommandRefuses(config, call)
    \/ NetworkRefuses(config, call)

\* A tool named for what it deletes.
DeleteRestricted(config, call) ==
    call.tool \in config.deleteTools /\ ~config.deleteAllowed

Evaluate(config, context, call) ==
    CASE Refuses(config, context, call) -> "deny"
      [] ~Refuses(config, context, call) /\ DeleteRestricted(config, call) ->
           IF config.deleteRequiresReason THEN "ask" ELSE "deny"
      [] OTHER -> config.rules[RiskOf(call)]

----------------------------------------------------------------------------
(* Configurations.                                                         *)

PolicyConfig(rules, commands, localOnly) ==
    [rules |-> rules, commandAllowlist |-> commands, commandDenylist |-> {},
     networkAllowed |-> FALSE, localOnly |-> localOnly, strictPrivate |-> FALSE,
     sensitive |-> {"secret"}, deleteTools |-> {}, deleteAllowed |-> FALSE,
     deleteRequiresReason |-> TRUE]

Rules(medium, high) ==
    [none |-> "allow", low |-> "allow", medium |-> medium, high |-> high,
     critical |-> "deny"]

SafeCommands == {"python", "pytest", "git", "npm", "node", "pip", "poetry", "cargo", "go", "dotnet"}

TrustModes == {"read_only", "ask", "workspace"}

\* _policy_config of workflows/coder/runtime.py.
CoderConfig(trust) ==
    PolicyConfig(CASE trust = "read_only" -> Rules("deny", "deny")
                   [] trust = "workspace" -> Rules("allow", "allow")
                   [] OTHER -> Rules("ask", "ask"),
                 SafeCommands, TRUE)

CoderContext ==
    [allowedPaths |-> {"workspace"}, deniedPaths |-> {"git"}, callsLeft |-> 1]

\* interface_policy_config, and the context of POST /api/tools/{id}/invoke.
InterfaceConfig == PolicyConfig(Rules("ask", "deny"), {}, FALSE)

InterfaceContext ==
    [allowedPaths |-> {"workspace", "git"}, deniedPaths |-> {}, callsLeft |-> 1]
=============================================================================
