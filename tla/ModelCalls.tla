----------------------------- MODULE ModelCalls ----------------------------
(***************************************************************************)
(* How a step asks a model: the agents' run_structured, which asks once    *)
(* more when the answer does not parse; the provider adapters, which send  *)
(* a request up to three times; and the retries of the step, by            *)
(* ErrorAdvice.  Three loops, each of which judges the failures of the     *)
(* inner one by what is left of them: a class and a message.               *)
(* At the end, the choice of a model with CascadingRouter.                 *)
(***************************************************************************)
EXTENDS ErrorAdvice

CONSTANTS
    Adapters,      \* the adapters used
    ServiceFaults  \* what a service may answer a request with

\* Adapters on top of the openai package, of requests, and of the SDKs of clouds.
OpenAI == {"openai_v1", "azure_foundry"}

Http == {"gemini", "vertex", "anthropic", "cohere", "ollama_cloud"}

ASSUME AdapterAssumption ==
    /\ Adapters \subseteq OpenAI \cup Http \cup {"bedrock", "oci"}
    /\ ServiceFaults \subseteq {"400", "401", "403", "404", "429", "500", "503",
                                "timeout", "connection", "broken"}

VARIABLE
    invocation  \* [adapter, at, sent: requests of this invoke, repair: is it the second?,
                \*  fault: the last one, refusals: how many requests the service has refused]

modelVars == <<errorVars, invocation>>

NotInvoked(adapter) == [adapter |-> adapter, at |-> "idle", sent |-> 0, repair |-> FALSE,
                        fault |-> NoError, refusals |-> 0]

ModelInit ==
    /\ ErrorInit /\ step.by = "runner"
    /\ \E a \in Adapters : invocation = NotInvoked(a)

----------------------------------------------------------------------------
(* The adapters.                                                           *)

\* The phrases in what requests says of an answer; that the URL of Google names
\* the model is in the message too.
HttpSays == [f \in ServiceFaults |->
    CASE f = "400" -> {"bad_request"}
      [] f = "401" -> {"auth", "401"}
      [] f = "403" -> {"forbidden", "401"}
      [] f = "404" -> {"not_found"}
      [] f = "429" -> {"too_many"}
      [] f = "503" -> {"service_unavailable"}
      [] f = "timeout" -> {"timeout", "connection"}
      [] f = "connection" -> {"connection"}
      [] OTHER -> {}]

\* The phrases in what the openai package says: the words of the service.
SdkSays == [f \in ServiceFaults |->
    CASE f = "401" -> {{"api_key", "401"}}
      [] f = "403" -> {{"401"}, {"forbidden", "401"}}
      [] f = "404" -> {{"model", "not_found"}}
      [] f = "429" -> {{"rate_limit"}}
      [] f = "503" -> {{}, {"server_overloaded"}}
      [] f = "timeout" -> {{"timeout"}}
      [] f = "connection" -> {{"connection"}}
      [] OTHER -> {{}}]

Refusals == {"400", "401", "403", "404"}

\* A mutant: the refusals are those of credentials only.
WrongCredentials(adapter, fault) == adapter = "gemini" /\ fault \in {"401", "403"}

\* _NON_RETRYABLE and _is_non_retryable_http_error
Refused(adapter, fault) ==
    adapter \in OpenAI \cup {"gemini", "vertex"} /\ fault \in Refusals

\* The adapter sends the request again: after 0, 1 and 2 seconds.
SendsAgain(adapter, fault, sent) ==
    /\ adapter \notin {"bedrock", "oci"}
    /\ ~ Refused(adapter, fault)
    /\ sent < 3

Provider(says) == [class |-> "ProviderError", says |-> says]

\* What OpenAIV1Provider.invoke raises in the end.
OpenAIRaises(fault) ==
    {Provider(words \cup (IF fault \in Refusals THEN {} ELSE {"model"})) : words \in SdkSays[fault]}

GeminiRaises(fault) ==
    Provider(HttpSays[fault] \cup (IF fault \in {"timeout", "broken"} THEN {} ELSE {"model"}))

VertexRaises(fault) ==
    IF fault = "403" THEN Provider({"forbidden"}) ELSE GeminiRaises(fault)

AnthropicRaises(fault) == Provider(HttpSays[fault])

CohereRaises(fault) == Provider(HttpSays[fault])

OllamaRaises(fault) == Provider(HttpSays[fault])

\* Whatever boto3 says, it is a RuntimeError.
BedrockRaises(fault) == [class |-> "RuntimeError", says |-> HttpSays[fault]]

\* _raise_from_oci_error, and any other error of the SDK.
OciRaises(fault) ==
    [class |-> "aictx.ConfigError",
     says |-> CASE fault \in {"401", "404"} -> {"auth"}
                [] fault = "403" -> {"forbidden"}
                [] OTHER -> {}]

Raises(adapter, fault) ==
    CASE adapter \in OpenAI -> OpenAIRaises(fault)
      [] adapter = "gemini" -> {GeminiRaises(fault)}
      [] adapter = "vertex" -> {VertexRaises(fault)}
      [] adapter = "anthropic" -> {AnthropicRaises(fault)}
      [] adapter = "cohere" -> {CohereRaises(fault)}
      [] adapter = "ollama_cloud" -> {OllamaRaises(fault)}
      [] adapter = "bedrock" -> {BedrockRaises(fault)}
      [] adapter = "oci" -> {OciRaises(fault)}

----------------------------------------------------------------------------
\* execute_step builds the agent, which invokes the adapter.
AskModel ==
    /\ step.at = "call" /\ invocation.at = "idle"
    /\ invocation' = [invocation EXCEPT !.at = "send", !.repair = FALSE, !.fault = NoError]
    /\ UNCHANGED errorVars

\* A credential of Google that is not there or cannot be refreshed, or an account
\* of Azure without a key, before anything is sent.
HasNoCredentials ==
    /\ invocation.at = "send" /\ invocation.sent = 0
    /\ \/ invocation.adapter = "vertex"
       \/ invocation.adapter = "azure_foundry" /\ ~ invocation.repair
    /\ LET e == Provider({"auth"})
       IN  StepFails(e) \/ RunRaises(e)
    /\ invocation' = [invocation EXCEPT !.at = "idle", !.fault = "401"]

\* The request is sent, fails, and is sent again.
RequestFails(fault) ==
    /\ invocation.at = "send"
    /\ SendsAgain(invocation.adapter, fault, invocation.sent + 1)
    /\ invocation' = [invocation EXCEPT !.sent = @ + 1, !.fault = fault,
                         !.refusals = IF fault \in Refusals THEN @ + 1 ELSE @]
    /\ UNCHANGED errorVars

\* The request is sent for the last time and fails; the agent lets the error pass.
InvokeRaises(fault) ==
    /\ invocation.at = "send"
    /\ ~ SendsAgain(invocation.adapter, fault, invocation.sent + 1)
    /\ invocation' = [invocation EXCEPT !.at = "idle", !.sent = 0, !.fault = fault,
                         !.refusals = IF fault \in Refusals THEN @ + 1 ELSE @]
    /\ \E e \in Raises(invocation.adapter, fault) :
         CallRetried(e) \/ StepFails(e) \/ RunRaises(e)

\* The service answers without any choice, and OpenAIV1Provider.invoke takes the first.
AnswerIsEmpty ==
    /\ invocation.at = "send" /\ invocation.adapter \in OpenAI
    /\ invocation' = [invocation EXCEPT !.at = "idle", !.sent = 0, !.fault = NoError]
    /\ RunRaises([class |-> "IndexError", says |-> {}])

\* The model answers with the JSON that was asked for.
AnswerParses ==
    /\ invocation.at = "send"
    /\ invocation' = [invocation EXCEPT !.at = "idle", !.sent = 0, !.fault = NoError]
    /\ CallReturns

\* It answers with something else: once more, with the answer shown to it, and
\* the second time the result of the agent says it failed.
AskToRepair ==
    /\ invocation.at = "send" /\ ~ invocation.repair
    /\ invocation' = [invocation EXCEPT !.repair = TRUE, !.sent = 0]
    /\ UNCHANGED errorVars

RepairFails ==
    /\ invocation.at = "send" /\ invocation.repair
    /\ invocation' = [invocation EXCEPT !.at = "idle", !.sent = 0, !.fault = NoError]
    /\ CallReturns

ModelNext ==
    \/ AskModel \/ HasNoCredentials
    \/ \E fault \in ServiceFaults : RequestFails(fault) \/ InvokeRaises(fault)
    \/ AnswerIsEmpty \/ AnswerParses \/ AskToRepair \/ RepairFails

ModelSpec == ModelInit /\ [][ModelNext]_modelVars

----------------------------------------------------------------------------
(* Properties.                                                             *)

\* What the adapter has to say of the fault of its last request is understood by
\* the loop around it.  A service that limits the rate, cannot be reached or does
\* not answer in time is worth a retry of the step, whatever words an adapter adds;
\* what the service refused is not, and is sent no second time by the adapters that
\* know a refusal, not in a retry of the step either.
FaultsToldApart ==
    invocation.fault # NoError /\ invocation.at = "idle" =>
      LET category == ClassifyError(raised)
          fault == invocation.fault
      IN  /\ invocation.adapter \in OpenAI \cup Http
             /\ fault \in {"429", "timeout", "connection"}
                          \cup (IF invocation.adapter \in Http THEN {"503"} ELSE {}) =>
               category = "transient" /\ step.at # "raised"
          /\ fault \in Refusals => ~ ShouldRetry(category) /\ step.at = "raised"
          /\ invocation.adapter \in OpenAI \cup {"gemini", "vertex"} => invocation.refusals <= 1
\* The two halves of what is said of an error: to the loop around it and to the
\* reader of the run.
ErrorsToldTruly == FailuresToldTruly /\ FaultsToldApart

----------------------------------------------------------------------------
(* core/cascading_router.py: CascadingRouter.resolve and                   *)
(* invoke_with_fallback over one health cache, which the steps of a        *)
(* workflow would share from their threads.  The candidates of a role and  *)
(* capability are in the order of the registry (every model costs 0.0).  A *)
(* call resolves its models and then invokes them, with any answer from    *)
(* each.                                                                   *)

CONSTANTS
    Candidates,    \* the models that fit, in the order of the registry
    RouterCalls,   \* the calls, each in a thread of its own
    HealthTtl,     \* health_ttl_seconds, in ticks
    MaxRouterTime, \* bound: the clock
    Unmarked       \* a model that is not in the cache, or never failed

RoutedModels == ToSet(Candidates)

ASSUME RoutingAssumption ==
    /\ Candidates \in Seq(RoutedModels) /\ Candidates # <<>> /\ IsInjective(Candidates)
    /\ HealthTtl \in Nat /\ MaxRouterTime \in Nat /\ Unmarked \notin Nat

VARIABLES
    health,   \* _health_cache: when the model was marked unhealthy
    clock,    \* time.monotonic()
    route,    \* the calls: [at, asks, todo, pool, tried, since]
    failedAt, \* history: when the model last failed with a transient error
    forgot    \* history: models whose mark was popped by a check that had
              \* read an older one

routingVars == <<health, clock, route, failedAt, forgot>>

Rests(m) == health[m] # Unmarked

Goes(c, place) == route' = [route EXCEPT ![c].at = place]

----------------------------------------------------------------------------
(* The models are gone through twice: resolve keeps those that are healthy *)
(* and binds them, or all if there are none; invoke_with_fallback calls    *)
(* those of the binding that are still healthy, one after the other.       *)

Resolve(c) ==
    /\ route[c].at = "new"
    /\ route' = [route EXCEPT ![c].at = "look", ![c].todo = Candidates, ![c].since = clock]
    /\ UNCHANGED <<health, clock, failedAt, forgot>>

Bound(pool) == IF pool = <<>> THEN Candidates ELSE pool

Exhausted(c) ==
    /\ route[c].at = "look" /\ route[c].todo = <<>>
    /\ IF route[c].asks = "resolve"
       THEN route' = [route EXCEPT ![c].asks = "invoke", ![c].todo = Bound(route[c].pool)]
       ELSE Goes(c, "failed")
    /\ UNCHANGED <<health, clock, failedAt, forgot>>

\* What a call does with a model it found healthy, or not.
Healthy(c) ==
    IF route[c].asks = "resolve"
    THEN route' = [route EXCEPT ![c].at = "look", ![c].todo = Tail(@),
                                ![c].pool = Append(@, Head(route[c].todo))]
    ELSE Goes(c, "calling")

Skip(c) == route' = [route EXCEPT ![c].at = "look", ![c].todo = Tail(@)]

----------------------------------------------------------------------------
(* is_healthy: the cache is looked at, read and cleaned in three steps.    *)

\* Mutant: a mark counts until it is taken back.
NeverExpires(mark) == FALSE

Expired(mark) == HealthTtl = 0 \/ clock >= mark + HealthTtl

LookUp(c) ==
    /\ route[c].at = "look" /\ route[c].todo # <<>>
    /\ IF Rests(Head(route[c].todo)) THEN Goes(c, "read") ELSE Healthy(c)
    /\ UNCHANGED <<health, clock, failedAt, forgot>>

\* A mark that another call has popped since raises a KeyError, which nobody
\* handles.
ReadMark(c) ==
    LET m == Head(route[c].todo) IN
    /\ route[c].at = "read"
    /\ IF ~Rests(m) THEN Goes(c, "raised")
       ELSE IF Expired(health[m]) THEN Goes(c, "pop")
       ELSE Skip(c)
    /\ UNCHANGED <<health, clock, failedAt, forgot>>

PopMark(c) ==
    LET m == Head(route[c].todo) IN
    /\ route[c].at = "pop"
    /\ health' = [health EXCEPT ![m] = Unmarked]
    /\ forgot' = IF Rests(m) /\ ~Expired(health[m]) THEN forgot \cup {m} ELSE forgot
    /\ Healthy(c)
    /\ UNCHANGED <<clock, failedAt>>

----------------------------------------------------------------------------
\* The model answers, or raises an error that is not transient and is raised
\* on.
CallEnds(c) ==
    /\ route[c].at = "calling"
    /\ route' = [route EXCEPT ![c].at = "answered", ![c].tried = @ \cup {Head(route[c].todo)}]
    /\ UNCHANGED <<health, clock, failedAt, forgot>>

\* A transient error: the model is marked and the next one is called.
CallFails(c) ==
    LET m == Head(route[c].todo) IN
    /\ route[c].at = "calling"
    /\ health' = [health EXCEPT ![m] = clock]
    /\ failedAt' = [failedAt EXCEPT ![m] = clock]
    /\ forgot' = forgot \ {m}
    /\ route' = [route EXCEPT ![c].at = "look", ![c].todo = Tail(@), ![c].tried = @ \cup {m}]
    /\ UNCHANGED clock

Tick ==
    /\ clock < MaxRouterTime
    /\ clock' = clock + 1
    /\ UNCHANGED <<health, route, failedAt, forgot>>

RoutingInit ==
    /\ health = [m \in RoutedModels |-> Unmarked] /\ failedAt = health
    /\ clock = 0 /\ forgot = {}
    /\ route = [c \in RouterCalls |->
         [at |-> "new", asks |-> "resolve", todo |-> <<>>, pool |-> <<>>,
          tried |-> {}, since |-> 0]]

RoutingNext ==
    \/ \E c \in RouterCalls :
         \/ Resolve(c) \/ Exhausted(c) \/ LookUp(c) \/ ReadMark(c) \/ PopMark(c)
         \/ CallEnds(c) \/ CallFails(c)
    \/ Tick

RoutingSpec == RoutingInit /\ [][RoutingNext]_routingVars

----------------------------------------------------------------------------
\* Did the model fail so late that it was to rest after time t?
FailedSince(m, t) == failedAt[m] # Unmarked /\ t < failedAt[m] + HealthTtl

\* However calls overlap, the cache remembers a failure for its time, unless a
\* check that read an older mark pops the new one; a call that failed without
\* calling any model had every model of the role resting at some time since it
\* began; and a KeyError takes three calls: one that failed with the model, one
\* that popped its mark, and the one that looked twice meanwhile.
FailuresRemembered ==
    /\ \A m \in RoutedModels : FailedSince(m, clock) => Rests(m) \/ m \in forgot
    /\ \A c \in RouterCalls :
         /\ route[c].at = "failed" /\ route[c].tried = {} =>
              \A m \in RoutedModels : FailedSince(m, route[c].since)
         /\ route[c].at = "raised" =>
              \E d \in RouterCalls \ {c}, e \in RouterCalls \ {c} :
                 /\ d # e /\ route[e].at # "new"
                 /\ Head(route[c].todo) \in route[d].tried
=============================================================================
