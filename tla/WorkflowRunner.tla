--------------------------- MODULE WorkflowRunner --------------------------
(***************************************************************************)
(* core/workflow_runner.py: WorkflowRunner.run, with core/retry_engine.py, *)
(* core/step_budget.py and core/replay_engine.py.                          *)
(*                                                                         *)
(* A run executes the steps of a workflow in one thread, or in a thread    *)
(* pool when every step of the group is parallel-safe; it may be resumed   *)
(* from its ledger after it ended or its process died.  The ledger is the  *)
(* sequence of the events that replay and readers use; appending to it is  *)
(* one step (RunLedger implements AuditLog).  ExecutionDag always cuts the *)
(* order into one group (OneGroup), so the loop over groups has one turn.  *)
(***************************************************************************)
EXTENDS Naturals, Sequences, FiniteSets

CONSTANTS
    Order,          \* ExecutionDAG.topological_order of the workflow
    DependsOn,      \* Step.depends_on of every step
    Condition,      \* Step.condition: [on |-> kind, of |-> step id]
    ParallelSafe,   \* the steps with parallel_safe = True
    MaxIterations,  \* Step.max_iterations
    MaxWorkers,     \* max_workers of the thread pool
    AgentLimit,     \* BudgetLimits.max_agent_invocations
    StaleValues,    \* values _context_stale may take in the preflight
    Faults,         \* bound: the kinds of failure that happen
    MaxRuns,        \* bound: starts and resumes in a behaviour
    NoStep          \* step_id of the events about the run

Steps == {Order[i] : i \in 1..Len(Order)}

Kinds == {"none", "if", "unless", "fresh", "stale"}

FaultKinds ==
    {"transient",    \* execute_step raises an error that should_retry
     "halting",      \* execute_step raises an error that should_halt
     "result",       \* execute_step returns a result with success = False
     "late",         \* max_time_seconds passes
     "diagnostics",  \* write_diagnostics_bundle raises
     "preflight",    \* AictxContextOps.status raises
     "crash"}        \* the process dies

ASSUME RunnerAssumption ==
    /\ Order \in Seq(Steps)
    /\ \A i, j \in 1..Len(Order) : Order[i] = Order[j] => i = j
    /\ \A s \in Steps : Condition[s].on \in Kinds
    /\ MaxIterations \in [Steps -> Nat \ {0}]
    /\ MaxWorkers \in Nat \ {0} /\ AgentLimit \in Nat \ {0}
    /\ StaleValues \subseteq BOOLEAN /\ StaleValues # {}
    /\ Faults \subseteq FaultKinds
    /\ MaxRuns \in Nat
    /\ NoStep \notin Steps

VARIABLES
    log,       \* the ledger
    runs,      \* runs started or resumed so far
    main,      \* where WorkflowRunner.run is
    stale,     \* _context_stale
    parallel,  \* the group runs in the thread pool
    todo,      \* steps of the group that were not started yet
    prior,     \* prior: outcome per step, as the steps of the group see it
    pc,        \* where _run_step is, per step
    tries,     \* RetryEngine.execute: attempt
    result,    \* success of the StepResult of each step
    used,      \* _snapshot.agent_invocations_used
    late       \* elapsed time has reached max_time_seconds

locals == <<stale, parallel, todo, prior, pc, tries, result, used, late>>
vars == <<log, runs, main, locals>>

Event(type, s) == [type |-> type, step |-> s]

RunEvent(type) == Event(type, NoStep)

Settling == {"completed", "skipped"}

Unknown == [s \in Steps |-> "none"]

Over == {"returned", "raised", "aborted", "crashed"}

----------------------------------------------------------------------------
(* Starting, resuming and ending a run.                                    *)

\* ReplayEngine.replay: the last STATE_TRANSITION of a step decides.
Replayed(s) ==
    LET at == {i \in 1..Len(log) :
                 log[i].step = s /\ log[i].type \in Settling \cup {"failed"}}
    IN  CASE at = {} -> "none"
          [] \E i \in at : (\A j \in at : j <= i) /\ log[i].type \in Settling -> "ok"
          [] OTHER -> "fail"

Begin(events, outcomes) ==
    /\ runs < MaxRuns
    /\ runs' = runs + 1
    /\ main' = "preflight"
    /\ log' = log \o events
    /\ prior' = outcomes
    /\ UNCHANGED <<stale, parallel, todo, pc, tries, result, used, late>>

Start ==
    /\ main = "idle"
    /\ Begin(<<RunEvent("initiated")>>, Unknown)

Resume ==
    /\ main \in Over
    /\ Begin(<<RunEvent("resumed"), RunEvent("initiated")>>,
             [s \in Steps |-> Replayed(s)])

\* The locals of run are gone.
Return(to) ==
    /\ main' = to
    /\ stale' = FALSE /\ parallel' = FALSE /\ todo' = {}
    /\ prior' = Unknown /\ pc' = [s \in Steps |-> "waiting"]
    /\ tries' = [s \in Steps |-> 0] /\ result' = Unknown
    /\ used' = 0 /\ late' = FALSE

Crash ==
    /\ "crash" \in Faults
    /\ main \notin Over \cup {"idle"}
    /\ Return("crashed")
    /\ UNCHANGED <<log, runs>>

\* The stale-context preflight runs before the try block.
Preflight ==
    /\ main = "preflight"
    /\ \/ /\ main' = "group"
          /\ stale' \in StaleValues
          /\ UNCHANGED <<parallel, todo, prior, pc, tries, result, used, late>>
       \/ /\ "preflight" \in Faults
          /\ Return("aborted")
    /\ UNCHANGED <<log, runs>>

----------------------------------------------------------------------------
(* The group.                                                              *)

\* Mutant: only steps without an outcome are left to do.
Untried == {s \in Steps : prior[s] = "none"}

Remaining == {s \in Steps : prior[s] # "ok"}

StartGroup ==
    /\ main = "group"
    /\ todo' = Remaining
    /\ main' = IF Remaining = {} THEN "complete" ELSE "running"
    /\ parallel' = (Remaining \subseteq ParallelSafe /\ Cardinality(Remaining) > 1)
    /\ UNCHANGED <<log, runs, stale, prior, pc, tries, result, used, late>>

Running == {s \in Steps : pc[s] \notin {"waiting", "done"}}

Failed == {s \in Steps : result[s] = "fail" /\ pc[s] = "done"}

Capacity == IF parallel THEN MaxWorkers ELSE 1

\* Mutant: the sequential loop does not break.
NoBreak == FALSE

Broken == ~parallel /\ Failed # {}

\* The first of the steps left, in the order of the group.
Foremost(s) ==
    \E i \in 1..Len(Order) : Order[i] = s /\ \A j \in 1..(i - 1) : Order[j] \notin todo

BeginStep ==
    /\ main = "running"
    /\ Cardinality(Running) < Capacity
    /\ ~Broken
    /\ \E s \in todo :
          /\ Foremost(s)
          /\ pc' = [pc EXCEPT ![s] = "begun"]
          /\ todo' = todo \ {s}
    /\ UNCHANGED <<log, runs, main, stale, parallel, prior, tries, result, used, late>>

AllSucceeded == Failed = {}

\* Mutant: the group goes on until every step was started.
NothingLeft == todo = {}

GroupOver == todo = {} \/ Broken

EndGroup ==
    /\ main = "running" /\ Running = {}
    /\ GroupOver
    /\ prior' = [s \in Steps |-> IF result[s] = "none" THEN prior[s] ELSE result[s]]
    /\ \/ /\ AllSucceeded
          /\ log' = Append(log, RunEvent("checkpoint"))
          /\ main' = "complete"
       \/ /\ ~AllSucceeded
          /\ log' = log
          /\ main' = "fail"
    /\ UNCHANGED <<runs, stale, parallel, todo, pc, tries, result, used, late>>

Complete ==
    /\ main = "complete"
    /\ log' = Append(log, RunEvent("run_completed"))
    /\ Return("returned")
    /\ UNCHANGED runs

Fail ==
    /\ main = "fail"
    /\ log' = Append(log, RunEvent("run_failed"))
    /\ main' = "diagnose"
    /\ UNCHANGED <<runs, locals>>

\* When the bundle cannot be written the except block names an undefined
\* logger: the NameError reaches the except block of run.
Diagnose ==
    /\ main = "diagnose"
    /\ \/ Return("returned")
       \/ /\ "diagnostics" \in Faults
          /\ main' = "raising"
          /\ UNCHANGED locals
    /\ UNCHANGED <<log, runs>>

\* Mutant: the except block only re-raises.
RaiseOnly ==
    /\ main = "raising"
    /\ Return("raised")
    /\ UNCHANGED <<log, runs>>

\* except Exception in run.
ReportAndRaise ==
    /\ main = "raising"
    /\ log' = Append(log, RunEvent("run_failed"))
    /\ Return("raised")
    /\ UNCHANGED runs

----------------------------------------------------------------------------
(* _run_step.                                                              *)

Goto(s, from, to) == pc[s] = from /\ pc' = [pc EXCEPT ![s] = to]

\* The step returns a StepResult: the sequential loop adds it to prior.
Finish(s, outcome) ==
    /\ pc' = [pc EXCEPT ![s] = "done"]
    /\ result' = [result EXCEPT ![s] = outcome]
    /\ prior' = IF parallel THEN prior ELSE [prior EXCEPT ![s] = outcome]
    /\ UNCHANGED main

\* The step raises: in the pool the exception becomes a failed result, in the
\* sequential loop it reaches run.
Raise(s) ==
    /\ pc' = [pc EXCEPT ![s] = "done"]
    /\ result' = [result EXCEPT ![s] = IF parallel THEN "fail" ELSE "none"]
    /\ main' = IF parallel THEN main ELSE "raising"
    /\ UNCHANGED prior

Succeeded(id) == id \in Steps => prior[id] # "fail"

ConditionHolds(s) ==
    LET c == Condition[s] IN
    CASE c.on = "none" -> TRUE
      [] c.on = "if" -> Succeeded(c.of)
      [] c.on = "unless" -> ~Succeeded(c.of)
      [] c.on = "fresh" -> ~stale
      [] c.on = "stale" -> stale

Skip(s) ==
    /\ pc[s] = "begun" /\ ~ConditionHolds(s)
    /\ log' = Append(log, Event("skipped", s))
    /\ Finish(s, "ok")
    /\ UNCHANGED <<runs, stale, parallel, todo, tries, used, late>>

Exceeded == used >= AgentLimit

CheckBudget(s) ==
    /\ pc[s] = "begun" /\ ConditionHolds(s)
    /\ \/ /\ Exceeded \/ late
          /\ Finish(s, "fail")
       \/ /\ ~(Exceeded \/ late)
          /\ pc' = [pc EXCEPT ![s] = "invoke"]
          /\ UNCHANGED <<main, prior, result>>
    /\ UNCHANGED <<log, runs, stale, parallel, todo, tries, used, late>>

Invoke(s) ==
    /\ Goto(s, "invoke", "execute")
    /\ log' = Append(log, Event("invoked", s))
    /\ UNCHANGED <<runs, main, stale, parallel, todo, prior, tries, result, used, late>>

Positions == 1..Len(log)

\* Position i of the ledger belongs to the last attempt.
InAttempt(i) == \A j \in Positions : log[j].type = "initiated" => j < i

\* workflow.execute_step returns a result.
ExecuteReturns(s) ==
    /\ Goto(s, "execute", "record")
    /\ \E outcome \in {"ok"} \cup (IF "result" \in Faults THEN {"fail"} ELSE {}) :
          result' = [result EXCEPT ![s] = outcome]
    /\ UNCHANGED <<log, runs, main, stale, parallel, todo, prior, tries, used, late>>

\* max_retries is max_iterations - 1.
RetriesLeft(s) == tries[s] < MaxIterations[s] - 1

\* An error that should_retry: RetryEngine tries again, or gives up.
ExecuteFails(s) ==
    /\ "transient" \in Faults
    /\ pc[s] = "execute"
    /\ \/ /\ RetriesLeft(s)
          /\ tries' = [tries EXCEPT ![s] = @ + 1]
          /\ UNCHANGED <<pc, result>>
       \/ /\ ~RetriesLeft(s)
          /\ Goto(s, "execute", "transition")
          /\ result' = [result EXCEPT ![s] = "fail"]
          /\ UNCHANGED tries
    /\ UNCHANGED <<log, runs, main, stale, parallel, todo, prior, used, late>>

ExecuteHalts(s) ==
    /\ "halting" \in Faults
    /\ pc[s] = "execute"
    /\ Raise(s)
    /\ UNCHANGED <<log, runs, stale, parallel, todo, tries, used, late>>

\* Mutant: the invocation is not counted.
SpentNothing == used

Spent == used + 1

\* record_agent_invocation raises when the counter reaches the limit, after
\* the step has been executed.
Record(s) ==
    /\ pc[s] = "record"
    /\ used' = Spent
    /\ \/ /\ Spent >= AgentLimit
          /\ Raise(s)
       \/ /\ Spent < AgentLimit
          /\ pc' = [pc EXCEPT ![s] = "transition"]
          /\ UNCHANGED <<main, prior, result>>
    /\ UNCHANGED <<log, runs, stale, parallel, todo, tries, late>>

Transition(s) ==
    /\ pc[s] = "transition"
    /\ log' = Append(log, Event(IF result[s] = "ok" THEN "completed" ELSE "failed", s))
    /\ Finish(s, result[s])
    /\ UNCHANGED <<runs, stale, parallel, todo, tries, used, late>>

\* The clock passes max_time_seconds.
Expire ==
    /\ "late" \in Faults
    /\ main = "running" /\ ~late
    /\ late' = TRUE
    /\ UNCHANGED <<log, runs, main, stale, parallel, todo, prior, pc, tries, result, used>>

----------------------------------------------------------------------------
\* build_run_summary, for a workflow that writes no final report or plan: the
\* status it derives from all events of the ledger.
SummaryStatus ==
    LET logged == {log[i].type : i \in 1..Len(log)} IN
    CASE "run_failed" \in logged -> "failed"
      [] "run_failed" \notin logged /\ "run_completed" \in logged -> "completed"
      [] OTHER -> IF log = <<>> THEN "pending" ELSE "running"

----------------------------------------------------------------------------
Init ==
    /\ log = <<>> /\ runs = 0
    /\ main = "idle"
    /\ stale = FALSE /\ parallel = FALSE /\ todo = {}
    /\ prior = Unknown /\ pc = [s \in Steps |-> "waiting"]
    /\ tries = [s \in Steps |-> 0] /\ result = Unknown
    /\ used = 0 /\ late = FALSE

RunStep(s) ==
    \/ Skip(s) \/ CheckBudget(s) \/ Invoke(s)
    \/ ExecuteReturns(s) \/ ExecuteFails(s) \/ ExecuteHalts(s)
    \/ Record(s) \/ Transition(s)

Drive ==
    \/ Preflight \/ StartGroup \/ BeginStep \/ EndGroup
    \/ Complete \/ Fail \/ Diagnose \/ ReportAndRaise

Next ==
    \/ Start \/ Resume \/ Crash \/ Expire
    \/ Drive
    \/ \E s \in Steps : RunStep(s)

Spec == Init /\ [][Next]_vars

\* The threads of a live process are scheduled, and execute_step returns or
\* raises; nobody has to start or resume a run.
FairSpec == Spec /\ WF_vars(Drive) /\ \A s \in Steps : WF_vars(RunStep(s))

----------------------------------------------------------------------------
(* Properties.                                                             *)

EventTypes == {"initiated", "resumed", "invoked", "completed", "failed",
               "skipped", "checkpoint", "run_completed", "run_failed"}

Outcomes == {"none", "ok", "fail"}

Locations == {"waiting", "begun", "invoke", "execute", "record", "transition", "done"}

\* Every variable has the type the code gives it.
TypeOK ==
    /\ log \in Seq([type : EventTypes, step : Steps \cup {NoStep}])
    /\ runs \in 0..MaxRuns
    /\ main \in {"idle", "preflight", "group", "running", "complete", "fail",
                 "diagnose", "raising"} \cup Over
    /\ stale \in BOOLEAN /\ parallel \in BOOLEAN /\ late \in BOOLEAN
    /\ todo \subseteq Steps
    /\ prior \in [Steps -> Outcomes] /\ result \in [Steps -> Outcomes]
    /\ pc \in [Steps -> Locations]
    /\ tries \in [Steps -> Nat] /\ \A s \in Steps : tries[s] < MaxIterations[s]
    /\ used \in Nat

SettledBefore(s, i) ==
    \E j \in 1..(i - 1) : log[j].step = s /\ log[j].type \in Settling

SettledSteps == {s \in Steps : SettledBefore(s, Len(log) + 1)}

\* The last start, resume or verdict in the ledger.
Verdict ==
    LET at == {i \in Positions : log[i].type \in
                   {"initiated", "run_completed", "run_failed"}}
        last == log[CHOOSE i \in at : \A j \in at : j <= i].type
    IN  CASE at = {} -> "none"
          [] at # {} /\ last = "run_completed" -> "completed"
          [] at # {} /\ last = "run_failed" -> "failed"
          [] OTHER -> "open"

Contract == INSTANCE RunContract WITH settled <- SettledSteps, verdict <- Verdict

\* Read from its ledger, a run keeps RunContract across crashes and resumes:
\* no step settles twice, and RUN_COMPLETED is written only when every step
\* of the workflow is settled.
KeepsContract == Contract!Spec

\* Whether a run returns or raises, its ledger ends with its verdict, and the
\* summary tells it unless an earlier attempt failed; only a failure of the
\* preflight, outside the try block, leaves no verdict.
EndsWithVerdict ==
    main \in {"returned", "raised"} =>
        /\ Verdict \in {"completed", "failed"}
        /\ \/ SummaryStatus = Verdict
           \/ \E i \in Positions : log[i].type = "run_failed" /\ ~InAttempt(i)

\* A step is invoked only after the steps it depends on have settled.
DependenciesSettleFirst ==
    \A i \in Positions : log[i].type = "invoked" =>
        \A d \in DependsOn[log[i].step] \cap Steps : SettledBefore(d, i)

Count(type) == Cardinality({i \in Positions : InAttempt(i) /\ log[i].type = type})

\* In the pool, steps whose checks passed before the counter moved can exceed
\* the limit, but never by as many as there are workers: whatever else fails,
\* at most AgentLimit + MaxWorkers - 1 steps of an attempt return from their
\* agent, and fewer than AgentLimit of them are recorded as completed.  In one
\* thread the check before an invocation sees every invocation before it.
OvershootBounded ==
    /\ used <= AgentLimit + MaxWorkers - 1
    /\ Count("completed") < AgentLimit
    /\ main = "running" /\ ~parallel => Count("invoked") <= AgentLimit

\* Every attempt that is not killed comes to an end, whatever its steps do.
RunEnds == main = "preflight" ~> main \in Over
=============================================================================
