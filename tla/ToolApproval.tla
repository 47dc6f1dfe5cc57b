---------------------------- MODULE ToolApproval ---------------------------
(***************************************************************************)
(* Tool calls through the API server: POST /api/tools/{id}/invoke, the     *)
(* InterfaceApprovalStore of interfaces/tool_approval.py, the              *)
(* ApprovalWorkflow of core/approval_workflow.py and ToolInvoker.invoke    *)
(* of core/tool_invocation.py.                                             *)
(*                                                                         *)
(* Endpoints run in a thread pool, in any overlap.  Every call has a       *)
(* ledger of its own; an approval lives in the memory of the server until  *)
(* somebody decides it or the server stops.                                *)
(***************************************************************************)
EXTENDS Naturals, Sequences, FiniteSets, PolicyEngine

CONSTANTS
    Invocations,  \* requests to invoke a tool
    CallOf,       \* tool, parameters and paths of each of them
    Decisions,    \* requests to grant or deny an approval
    Nobody,
    MayStop       \* bound: the server may be stopped and started again

ASSUME ApprovalAssumption ==
    /\ Nobody \notin Invocations
    /\ MayStop \in BOOLEAN

VARIABLES
    at,        \* where POST /api/tools/{id}/invoke is
    events,    \* the ledger of the call: verdict, approval, call, result
    store,     \* InterfaceApprovalStore._pending
    workflow,  \* ApprovalWorkflow._pending of the stored approvals
    decision,  \* the requests to decide: [at, on, grant]
    stopped    \* history: the server was stopped

approvalVars == <<at, events, store, workflow, decision, stopped>>

Unsent == [at |-> "unsent", on |-> Nobody, grant |-> FALSE]

Done == [Unsent EXCEPT !.at = "done"]

Emit(i, type) == events' = [events EXCEPT ![i] = Append(@, type)]

----------------------------------------------------------------------------
(* POST /api/tools/{tool_id}/invoke.                                       *)

Ruling(i) == Evaluate(InterfaceConfig, InterfaceContext, CallOf[i])

\* Mutant: what the policy asks about is called without an answer.
AskedIsAllowed(i) == IF Ruling(i) = "deny" THEN "answered" ELSE "call"

\* Where a call goes on when the policy has ruled.
RuledTo(i) ==
    CASE Ruling(i) = "ask" -> "request"
      [] Ruling(i) = "deny" -> "answered"
      [] OTHER -> "call"

Rule(i) ==
    /\ at[i] = "new"
    /\ Emit(i, Ruling(i))
    /\ at' = [at EXCEPT ![i] = RuledTo(i)]
    /\ UNCHANGED <<store, workflow, decision, stopped>>

\* ApprovalWorkflow.request: the answer will name the approval, and the
\* ledger does so already.
Request(i) ==
    /\ at[i] = "request"
    /\ workflow' = workflow \cup {i}
    /\ Emit(i, "asked")
    /\ at' = [at EXCEPT ![i] = "store"]
    /\ UNCHANGED <<store, decision, stopped>>

\* Mutant: the store keeps the last approval only.
KeepsLast(i) == {i}

Stored(i) == store \cup {i}

\* The answer is 409 with the approval request.
Store(i) ==
    /\ at[i] = "store"
    /\ store' = Stored(i)
    /\ at' = [at EXCEPT ![i] = "answered"]
    /\ UNCHANGED <<events, workflow, decision, stopped>>

\* ToolInvoker.invoke: TOOL_CALLED, the tool, TOOL_RESULT_RECEIVED.
CallAllowed(i) ==
    /\ at[i] = "call"
    /\ Emit(i, "called")
    /\ at' = [at EXCEPT ![i] = "result"]
    /\ UNCHANGED <<store, workflow, decision, stopped>>

\* The tool returns, or raises and leaves no result.
ReturnAllowed(i) ==
    /\ at[i] = "result"
    /\ Emit(i, "finished") \/ UNCHANGED events
    /\ at' = [at EXCEPT ![i] = "answered"]
    /\ UNCHANGED <<store, workflow, decision, stopped>>

----------------------------------------------------------------------------
(* POST /api/tools/approvals/{request_id}/grant and .../deny.              *)

Answered(d) == decision' = [decision EXCEPT ![d] = Done]

Goto(d, to) == decision' = [decision EXCEPT ![d].at = to]

\* Mutant: the approval is read, and left where it was.
Peek(pending, i) == pending

\* dict.pop(request_id, None): the GIL makes it one step.
Pop(pending, i) == pending \ {i}

\* An id that is not pending is answered 404.
Take(d, i, grant) ==
    /\ decision[d].at = "unsent"
    /\ store' = Pop(store, i)
    /\ decision' = [decision EXCEPT ![d] =
         IF i \in store THEN [at |-> "workflow", on |-> i, grant |-> grant] ELSE Done]
    /\ UNCHANGED <<at, events, workflow, stopped>>

\* ApprovalWorkflow.grant and .deny.
Decide(d) ==
    LET i == decision[d].on IN
    /\ decision[d].at = "workflow"
    /\ workflow' = Pop(workflow, i)
    /\ IF i \in workflow
       THEN /\ Emit(i, IF decision[d].grant THEN "granted" ELSE "denied")
            /\ IF decision[d].grant THEN Goto(d, "call") ELSE Answered(d)
       ELSE Answered(d) /\ UNCHANGED events
    /\ UNCHANGED <<at, store, stopped>>

CallGranted(d) ==
    /\ decision[d].at = "call"
    /\ Emit(decision[d].on, "called")
    /\ Goto(d, "result")
    /\ UNCHANGED <<at, store, workflow, stopped>>

ReturnGranted(d) ==
    /\ decision[d].at = "result"
    /\ Emit(decision[d].on, "finished") \/ UNCHANGED events
    /\ Answered(d)
    /\ UNCHANGED <<at, store, workflow, stopped>>

----------------------------------------------------------------------------
\* The server stops: what it keeps in memory is gone, and so are its requests.
Stop ==
    /\ MayStop /\ ~stopped
    /\ stopped' = TRUE
    /\ store' = {} /\ workflow' = {}
    /\ at' = [i \in Invocations |-> IF at[i] = "new" THEN "new" ELSE "answered"]
    /\ decision' = [d \in Decisions |-> IF decision[d] = Unsent THEN Unsent ELSE Done]
    /\ UNCHANGED events

ApprovalInit ==
    /\ at = [i \in Invocations |-> "new"]
    /\ events = [i \in Invocations |-> <<>>]
    /\ store = {} /\ workflow = {}
    /\ decision = [d \in Decisions |-> Unsent]
    /\ stopped = FALSE

ApprovalNext ==
    \/ \E i \in Invocations :
         Rule(i) \/ Request(i) \/ Store(i) \/ CallAllowed(i) \/ ReturnAllowed(i)
    \/ \E d \in Decisions :
         \/ \E i \in Invocations, grant \in BOOLEAN : Take(d, i, grant)
         \/ Decide(d) \/ CallGranted(d) \/ ReturnGranted(d)
    \/ Stop

ApprovalSpec == ApprovalInit /\ [][ApprovalNext]_approvalVars

----------------------------------------------------------------------------
\* build_run_summary: the approvals of the run that wait for a decision.
PendingApprovals(i) ==
    LET Logged(type) == Cardinality({n \in 1..Len(events[i]) : events[i][n] = type})
        Undecided == Logged("asked") - Logged("granted") - Logged("denied")
    IN  IF Undecided > 0 THEN Undecided ELSE 0

----------------------------------------------------------------------------
(* Properties.                                                             *)

LastEvent(i) == IF events[i] = <<>> THEN "new" ELSE events[i][Len(events[i])]

Contract ==
    INSTANCE ApprovalContract WITH stage <- [i \in Invocations |-> LastEvent(i)]

\* However requests to invoke, grant and deny overlap, repeat or are cut off
\* by a stop of the server, the ledger of every call keeps ApprovalContract:
\* the tool is called once at most, after the policy or a user allowed it, and
\* never after a denial.
KeepsApprovalContract == Contract!Spec

BeingDecided(i) ==
    \E d \in Decisions : decision[d].on = i /\ decision[d].at = "workflow"

\* An approval that was answered and that the summary of its run counts as
\* pending can be decided until the server stops: no other approval and no
\* refused request takes its place in the store.
AskedStaysDecidable ==
    \A i \in Invocations :
        at[i] = "answered" /\ PendingApprovals(i) > 0 /\ ~stopped =>
            (i \in store /\ i \in workflow) \/ BeingDecided(i)
=============================================================================
