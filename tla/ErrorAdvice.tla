---------------------------- MODULE ErrorAdvice ----------------------------
(***************************************************************************)
(* What an error leads to, and what is said of it afterwards: the calls of *)
(* RetryEngine.execute for one step of a workflow, or the one call of a    *)
(* coder turn; the failure that is logged; the summary of the run, which   *)
(* works out the kind of the error once more from the log line; and the    *)
(* catalog the interfaces answer with.                                     *)
(*                                                                         *)
(* An error is its class and the phrases its message says.  A phrase       *)
(* stands for all keywords that the same lists of the code look for: "401" *)
(* for the number 403 too, "auth" for "unauthorized", "not_found" for      *)
(* "unsupported".                                                          *)
(***************************************************************************)
EXTENDS Naturals, SequencesExt

CONSTANTS
    ErrorClasses,  \* classes of the errors that are raised
    Messages,      \* sets of phrases their messages say
    StepRetries,   \* Step.max_iterations - 1
    NoError

Own == {"ProviderError", "ToolSafetyError", "ConfigError", "PlanningError", "ExecutionError",
        "VerificationError", "PatchApplicationError", "ResumeError", "IntegrationError",
        "RepoInspectionError"}

Builtin == {"PermissionError", "FileNotFoundError", "ConnectionError", "TimeoutError", "KeyError",
            "ValueError", "TypeError", "IndexError", "AssertionError", "RuntimeError",
            "KeyboardInterrupt"}

\* Classes that have the name of one of core.errors: those of
\* workflows/coding/runtime.py and of vendored aictx.
Namesakes == {"coding.PlanningError", "aictx.ConfigError"}

ASSUME ErrorAssumption ==
    /\ ErrorClasses \subseteq Own \cup Builtin \cup Namesakes \cup {"BudgetExceededError"}
    /\ StepRetries \subseteq Nat
    /\ \A says \in Messages : IsFiniteSet(says)

VARIABLES
    step,    \* the calls: [by: the runner or a coder turn, at, retries, attempt]
    raised,  \* the error last raised
    logged,  \* how many events of each kind RetryEngine logged
    payload  \* of the RUN_FAILED event: the name of its class, or "None", and its phrases

errorVars == <<step, raised, logged, payload>>

ErrorInit ==
    /\ step \in [by : {"runner"}, at : {"call"}, retries : StepRetries, attempt : {0}]
                \cup {[by |-> "coder", at |-> "call", retries |-> 0, attempt |-> 0]}
    /\ raised = NoError
    /\ logged = [retry |-> 0, success |-> 0, exhausted |-> 0]
    /\ payload = NoError

----------------------------------------------------------------------------
(* Functions of an error.                                                  *)

Rule(to, phrases) == [to |-> to, phrases |-> phrases]

\* What the first rule with a phrase that is said leads to.
FirstSaid(rules, says, default) ==
    LET said == {i \in DOMAIN rules : rules[i].phrases \cap says # {}}
    IN  IF said = {} THEN default ELSE rules[Min(said)].to

TransientPhrases == {"rate_limit", "too_many", "server_overloaded", "timeout", "deadline_exceeded",
                     "connection", "network", "service_unavailable"}

ForbiddenPhrases == {"forbidden"}

CredentialPhrases == {"auth", "api_key"}

RequestPhrases == {"model", "not_found", "bad_request"}

\* A mutant: what the request may have wrong is looked for first.
ConfigurationFirst(says) ==
    FirstSaid(<<Rule("configuration", RequestPhrases), Rule("transient", TransientPhrases),
                Rule("permission", ForbiddenPhrases),
                Rule("configuration", CredentialPhrases)>>, says, "fatal")

ClassifyProviderError(says) ==
    FirstSaid(<<Rule("transient", TransientPhrases),
                Rule("permission", ForbiddenPhrases),
                Rule("configuration", CredentialPhrases),
                Rule("configuration", RequestPhrases)>>, says, "fatal")

\* _CATEGORY_MAP
CategoryMap == [
    ConnectionError |-> "transient", TimeoutError |-> "transient",
    PermissionError |-> "permission", ToolSafetyError |-> "permission",
    FileNotFoundError |-> "configuration", KeyError |-> "configuration",
    ValueError |-> "configuration", ConfigError |-> "configuration",
    ResumeError |-> "configuration", IntegrationError |-> "configuration",
    RepoInspectionError |-> "configuration",
    AssertionError |-> "verification", PatchApplicationError |-> "verification",
    VerificationError |-> "verification",
    PlanningError |-> "recoverable",
    RuntimeError |-> "fatal", ExecutionError |-> "fatal"]

\* The first class of the MRO that is mapped; BudgetExceededError is a RuntimeError.
ClassifyError(e) ==
    IF e.class = "ProviderError" THEN ClassifyProviderError(e.says)
    ELSE IF e.class \in DOMAIN CategoryMap THEN CategoryMap[e.class]
    ELSE "fatal"

ShouldRetry(category) == category \in {"transient", "recoverable", "verification"}

Outage == "provider_outage"

TroubleshootingSection(e, category) ==
    LET byCategory ==
            CASE category = "permission" -> "tool_call_blocked"
              [] e.class = "ResumeError" -> "failed_run"
              [] category = "configuration" /\ e.class # "ResumeError" -> "configuration_issues"
              [] category = "transient" -> Outage
              [] OTHER -> "fails_mid_execution"
    IN  IF e.class # "ProviderError" THEN byCategory
        ELSE FirstSaid(<<Rule("provider_forbidden", ForbiddenPhrases),
                         Rule("provider_authentication", CredentialPhrases),
                         Rule(Outage, {"rate_limit", "too_many", "service_unavailable", "timeout"}),
                         Rule("provider_mismatch", RequestPhrases)>>,
                       e.says, byCategory)

ErrorSummary(e) ==
    LET category == ClassifyError(e)
    IN  [category |-> category, retryable |-> ShouldRetry(category),
         halt |-> ~ ShouldRetry(category), section |-> TroubleshootingSection(e, category)]

\* type(exc).__name__
TypeName(class) ==
    CASE class = "coding.PlanningError" -> "PlanningError"
      [] class = "aictx.ConfigError" -> "ConfigError"
      [] OTHER -> class

\* The names error_summary_from_text knows.
ErrorMap == (Own \cup Builtin) \ {"ConnectionError", "TypeError", "IndexError", "KeyboardInterrupt"}

\* A mutant: without a name it is an error of the runtime.
NamesOnly(name, says) ==
    ErrorSummary([class |-> IF name \in ErrorMap THEN name ELSE "RuntimeError", says |-> says])

ErrorSummaryFromText(name, says) ==
    LET byText == FirstSaid(
            <<Rule("ProviderError", {"auth", "forbidden", "rate_limit", "model", "timeout", "network"}),
              Rule("PermissionError", {"approval_denied"}),
              Rule("VerificationError", {"patch"})>>, says, "RuntimeError")
    IN  ErrorSummary([class |-> IF name \in ErrorMap THEN name ELSE byText, says |-> says])

\* catalog_entry_for: the entry of an error, by its machine category.
CatalogEntryFor(e) ==
    CASE e.class \in {"ValueError", "TypeError"} -> "validation_error"
      [] e.class = "PermissionError" -> "auth_error"
      [] e.class = "ProviderError" ->
            FirstSaid(<<Rule("auth_error", {"auth", "forbidden", "401"})>>, e.says, "provider_error")
      [] e.class \in {"ConfigError", "KeyError", "FileNotFoundError"} -> "configuration_error"
      [] e.class = "ToolSafetyError" -> "policy_block"
      [] e.class = "IntegrationError" -> "integration_unavailable"
      [] e.class = "ResumeError" ->
            FirstSaid(<<Rule("not_found", {"not_found"})>>, e.says, "run_failed")
      [] e.class \in {"ExecutionError", "PlanningError", "PatchApplicationError",
                      "VerificationError", "RepoInspectionError"} -> "run_failed"
      [] OTHER -> "unexpected_error"

\* What `agentheim` exits with and an endpoint answers.
Catalog == [
    validation_error |-> [exit |-> 2, http |-> 400],
    configuration_error |-> [exit |-> 3, http |-> 400],
    auth_error |-> [exit |-> 4, http |-> 401],
    provider_error |-> [exit |-> 5, http |-> 503],
    policy_block |-> [exit |-> 6, http |-> 409],
    integration_unavailable |-> [exit |-> 7, http |-> 503],
    not_found |-> [exit |-> 8, http |-> 404],
    run_failed |-> [exit |-> 9, http |-> 500],
    unexpected_error |-> [exit |-> 1, http |-> 500]]

----------------------------------------------------------------------------
(* RetryEngine.execute, and those who catch what it raises.                *)

\* A BaseException that the runner and the coder do not catch.
Uncaught(e) == e.class = "KeyboardInterrupt"

LogFailure(name, e) == payload' = [name |-> name, says |-> e.says]

\* The call returns; a success that took a retry is logged.
CallReturns ==
    /\ step.at = "call"
    /\ step' = [step EXCEPT !.at = "returned"]
    /\ logged' = IF step.attempt > 0 THEN [logged EXCEPT !.success = @ + 1] ELSE logged
    /\ UNCHANGED <<raised, payload>>

\* A mutant: the attempts are counted from one.
OneMore(e) == ShouldRetry(ClassifyError(e)) /\ step.attempt <= step.retries

MayRetry(e) == ShouldRetry(ClassifyError(e)) /\ step.attempt < step.retries

\* The call raises e and is repeated after a delay.
CallRetried(e) ==
    /\ step.at = "call" /\ MayRetry(e)
    /\ raised' = e
    /\ logged' = [logged EXCEPT !.retry = @ + 1]
    /\ step' = [step EXCEPT !.attempt = @ + 1]
    /\ UNCHANGED payload

\* The call raises e and is not repeated.  RetryEngine is only used when the
\* step may be retried at all.
GivesUp(e) ==
    /\ step.at = "call" /\ ~ MayRetry(e)
    /\ raised' = e
    /\ logged' = IF step.retries > 0 THEN [logged EXCEPT !.exhausted = @ + 1] ELSE logged

\* The failed result of the step ends the run; its text is logged, its class is not.
StepFails(e) ==
    /\ step.by = "runner" /\ ShouldRetry(ClassifyError(e))
    /\ GivesUp(e)
    /\ LogFailure("None", e)
    /\ step' = [step EXCEPT !.at = "failed"]

\* The error ends the run itself; or the turn of a coder session, when the
\* workspace cannot be scanned: what the model raises leaves the turn its own plan.
RunRaises(e) ==
    /\ IF step.by = "runner" THEN ~ ShouldRetry(ClassifyError(e))
       ELSE e.class \in {"PermissionError", "FileNotFoundError"}
    /\ ~ Uncaught(e)
    /\ GivesUp(e)
    /\ LogFailure(TypeName(e.class), e)
    /\ step' = [step EXCEPT !.at = "raised"]

RunInterrupted(e) ==
    /\ Uncaught(e) /\ GivesUp(e)
    /\ step' = [step EXCEPT !.at = "interrupted"]
    /\ UNCHANGED payload

ErrorNext ==
    \/ CallReturns
    \/ \E class \in ErrorClasses, says \in Messages :
         LET e == [class |-> class, says |-> says]
         IN  CallRetried(e) \/ StepFails(e) \/ RunRaises(e) \/ RunInterrupted(e)

ErrorSpec == ErrorInit /\ [][ErrorNext]_errorVars

----------------------------------------------------------------------------
(* Properties.                                                             *)

\* What the summary of the run says of its error.
ToldOfRun == ErrorSummaryFromText(payload.name, payload.says)

\* A run that an error ended says of it what the runtime decided by, when the
\* class is one the summary knows by its name; a provider's outage that the step
\* was retried for, and that the summary has only the text of, is still an outage.
ToldAsDecided ==
    /\ step.at = "raised" /\ raised.class \in ErrorMap =>
         ToldOfRun = ErrorSummary(raised)
    /\ step.at = "failed" /\ raised.class = "ProviderError"
         /\ raised.says \cap {"rate_limit", "timeout", "network"} # {} =>
         ToldOfRun.category = "transient" /\ ToldOfRun.retryable

\* Every repetition is in the ledger, there is none but for an error that may pass,
\* and as many as the step allows.
RetriesAccounted ==
    /\ logged.retry = step.attempt /\ step.attempt <= step.retries
    /\ step.at \in {"failed", "raised", "interrupted"} =>
         /\ logged.exhausted = (IF step.retries > 0 THEN 1 ELSE 0)
         /\ logged.success = 0
         /\ step.at = "failed" => step.attempt = step.retries

\* Of an error that says one thing: the summary and the catalog do not contradict
\* each other.  What is worth a retry is not answered as a matter of credentials or
\* configuration, nor with the section on them, and an error of the provider that is
\* answered as one is no matter of credentials either.
AdviceAgrees ==
    raised # NoError /\ Cardinality(raised.says) <= 1 =>
      LET entry == CatalogEntryFor(raised)
          summary == ErrorSummary(raised)
      IN  /\ summary.retryable =>
               entry \notin {"auth_error", "configuration_error", "validation_error"}
          /\ summary.category = "transient" <=> summary.section = Outage
          /\ raised.class = "ProviderError" /\ summary.retryable =>
               Catalog[entry].http = 503

FailuresToldTruly == ToldAsDecided /\ RetriesAccounted /\ AdviceAgrees
=============================================================================
