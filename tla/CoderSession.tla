---------------------------- MODULE CoderSession ---------------------------
(***************************************************************************)
(* workflows/coder/runtime.py: one coder session, kept in session.json,    *)
(* and the requests made on it through the API server, the web interface   *)
(* and the command line.                                                   *)
(*                                                                         *)
(* post_message and approve_request load the session, work on their own    *)
(* copy for as long as the planner and the tools take, and write it back.  *)
(* Nothing keeps two requests apart.  transcript.jsonl and ledger.jsonl    *)
(* are appended to as a request goes on; they are kept here as what they   *)
(* say: questions and answers, approvals requested, granted and denied.    *)
(***************************************************************************)
EXTENDS Naturals, Sequences, FiniteSets, PolicyEngine

CONSTANTS
    Requests,  \* requests on the session
    Plans,     \* plans _plan_turn may return: sequences of tool calls
    Faults,    \* bound: the kinds of failure that happen
    None

FaultKinds ==
    {"scan",   \* inspect_repository raises in _plan_turn
     "tool",   \* a tool returns success = False
     "raise",  \* a tool raises
     "crash"}  \* the process of a request dies

Statuses == {"idle", "running", "awaiting_approval", "blocked", "completed", "failed"}

PlannedCalls == UNION {{plan[n] : n \in 1..Len(plan)} : plan \in Plans}

PendingRecords == [id : Nat, call : PlannedCalls, index : Nat]

SessionRecords ==
    [status : Statuses, plan : Plans \cup {<<>>}, index : Nat,
     pending : PendingRecords \cup {None}, changed : SUBSET {call.path : call \in PlannedCalls}]

\* Plans are finite, and of the four kinds of action only write_file writes.
ASSUME SessionAssumption ==
    /\ IsFiniteSet(Requests)
    /\ Faults \subseteq FaultKinds
    /\ None \notin Nat /\ None \notin SessionRecords /\ None \notin PendingRecords
    /\ \A plan \in Plans : Len(plan) \in Nat
    /\ \A call \in PlannedCalls : call.operation = "write" => call.tool = "filesystem"

VARIABLES
    trust,      \* trust_mode, set by create_session
    saved,      \* session.json; None while it is being rewritten
    report,     \* "status" of final_report.json
    work,       \* the requests: where they are, and their copy of the session
    questions,  \* user messages in the transcript
    answers,    \* assistant messages in the transcript
    asked,      \* APPROVAL_REQUESTED: the call of every request id
    granted,    \* APPROVAL_GRANTED: how often, per request id
    denied,     \* APPROVAL_DENIED: request ids
    ran,        \* calls tools were invoked with, and for which approval
    times,      \* how often, per request id
    written,    \* paths of the files written
    disturbed   \* history: requests overlapped, one ended without saving, or a
                \* write that failed has left something

files == <<trust, saved, report, questions, answers, asked, granted, denied>>
sessionVars == <<files, work, ran, times, written, disturbed>>

Session(status, plan, index, pending, changed) ==
    [status |-> status, plan |-> plan, index |-> index, pending |-> pending,
     changed |-> changed]

NewSession == Session("idle", <<>>, 0, None, {})

NoWork == [at |-> "new", id |-> None, session |-> None]

Ended == {"new", "saved", "refused", "raised", "died"}

Active == {r \in Requests : work[r].at \notin Ended}

Ids == 1..Len(asked)

\* The request goes on at `at' with its copy s of the session.
Goto(r, at, s) == work' = [work EXCEPT ![r].at = at, ![r].session = s]

End(r, at) == work' = [work EXCEPT ![r] = [NoWork EXCEPT !.at = at]]

\* A request that begins while another goes on, or one that ends early.
Overlap(r) == disturbed' = (disturbed \/ Active # {})

----------------------------------------------------------------------------
(* Invoking tools.                                                         *)

\* ToolInvoker.invoke calls the tool, for approval `by' or because the policy
\* allows the call.
CallTool(by, call) ==
    /\ ran' = ran \cup {[by |-> by, call |-> call]}
    /\ times' = IF by = None THEN times ELSE [times EXCEPT ![by] = @ + 1]

Writes(call) == call.operation = "write"

\* The tool returns success, returns an error, or raises; only then may it
\* have written nothing.
ToolSucceeds(call) == written' = IF Writes(call) THEN written \cup {call.path} ELSE written

\* FilesystemTool returns the error of a write that has emptied the file.
ToolFails(by, call) ==
    /\ "tool" \in Faults
    /\ CallTool(by, call)
    /\ \/ UNCHANGED <<written, disturbed>>
       \/ Writes(call) /\ ToolSucceeds(call) /\ disturbed' = TRUE

ToolRaises(r, by, call) ==
    /\ "raise" \in Faults
    /\ CallTool(by, call)
    /\ End(r, "raised")
    /\ disturbed' = TRUE
    /\ \/ ToolSucceeds(call)
       \/ UNCHANGED written

Changed(s, call) == IF Writes(call) THEN s.changed \cup {call.path} ELSE s.changed

----------------------------------------------------------------------------
(* post_message.                                                           *)

\* _load_session, and the user's message in the transcript.
Post(r) ==
    /\ work[r].at = "new"
    /\ IF saved = None
       THEN End(r, "refused") /\ UNCHANGED questions
       ELSE /\ Goto(r, "plan", [saved EXCEPT !.status = "running"])
            /\ questions' = questions + 1
    /\ Overlap(r)
    /\ UNCHANGED <<trust, saved, report, answers, asked, granted, denied, ran, times, written>>

\* _plan_turn: the plan of the model or the fallback, or the scan raises.  A
\* new plan takes the place of the old one and of its pending approval.
Plan(r) ==
    /\ work[r].at = "plan"
    /\ \/ \E plan \in Plans :
            Goto(r, "act", [work[r].session EXCEPT !.plan = plan, !.index = 0,
                                                   !.pending = None])
       \/ /\ "scan" \in Faults
          /\ Goto(r, "save", [work[r].session EXCEPT !.status = "failed"])
    /\ UNCHANGED <<files, ran, times, written, disturbed>>

----------------------------------------------------------------------------
(* _run_actions and _invoke_action.                                        *)

NextCall(s) == s.plan[s.index + 1]

Decision(call) == Evaluate(CoderConfig(trust), CoderContext, call)

AtAction(r) == work[r].at = "act" /\ work[r].session.index < Len(work[r].session.plan)

\* The policy asks: a new approval is requested and the turn stops.
Ask(r) ==
    LET s == work[r].session  call == NextCall(s) IN
    /\ AtAction(r) /\ Decision(call) = "ask"
    /\ asked' = Append(asked, call)
    /\ granted' = Append(granted, 0) /\ times' = Append(times, 0)
    /\ Goto(r, "save", [s EXCEPT !.status = "awaiting_approval",
                          !.pending = [id |-> Len(asked) + 1, call |-> call, index |-> s.index]])
    /\ UNCHANGED <<trust, saved, report, questions, answers, denied, ran, written, disturbed>>

Refuse(r) ==
    LET s == work[r].session IN
    /\ AtAction(r) /\ Decision(NextCall(s)) = "deny"
    /\ Goto(r, "save", [s EXCEPT !.status = "blocked"])
    /\ UNCHANGED <<files, ran, times, written, disturbed>>

Act(r) ==
    LET s == work[r].session  call == NextCall(s) IN
    /\ AtAction(r) /\ Decision(call) = "allow"
    /\ \/ /\ CallTool(None, call) /\ ToolSucceeds(call)
          /\ Goto(r, "act", [s EXCEPT !.changed = Changed(s, call), !.index = @ + 1])
          /\ UNCHANGED disturbed
       \/ ToolFails(None, call) /\ Goto(r, "save", [s EXCEPT !.status = "blocked"])
       \/ ToolRaises(r, None, call)
    /\ UNCHANGED files

\* _complete_turn.
Complete(r) ==
    LET s == work[r].session IN
    /\ work[r].at = "act" /\ ~AtAction(r)
    /\ answers' = answers + 1
    /\ Goto(r, "save", [s EXCEPT !.status = "completed"])
    /\ UNCHANGED <<trust, saved, report, questions, asked, granted, denied, ran, times,
                   written, disturbed>>

----------------------------------------------------------------------------
(* approve_request.                                                        *)

\* Mutant: any approval will do while one is pending.
AnyPending(s, id) == s.pending # None

IsPending(s, id) == s.pending # None /\ s.pending.id = id

\* Mutant: the denied approval stays in the session.
DeniedButKept(s) == [s EXCEPT !.status = "blocked"]

Denied(s) == [s EXCEPT !.status = "blocked", !.pending = None]

Decide(r, id, grant) ==
    /\ work[r].at = "new"
    /\ IF saved = None \/ ~IsPending(saved, id)
       THEN End(r, "refused") /\ UNCHANGED <<granted, denied>>
       ELSE \/ /\ grant
               /\ granted' = [granted EXCEPT ![id] = @ + 1]
               /\ work' = [work EXCEPT ![r] = [at |-> "invoke", id |-> id, session |-> saved]]
               /\ UNCHANGED denied
            \/ /\ ~grant
               /\ denied' = denied \cup {id}
               /\ work' = [work EXCEPT ![r] = [at |-> "save", id |-> id,
                                               session |-> Denied(saved)]]
               /\ UNCHANGED granted
    /\ Overlap(r)
    /\ UNCHANGED <<trust, saved, report, questions, answers, asked, ran, times, written>>

\* Mutant: approve_request does not list the file.
UnlistedPath(s, call) == s.changed

\* The path of a filesystem call is listed, whatever its operation; only
\* writes are ever asked for.
ApprovedPath(s, call) ==
    IF call.tool = "filesystem" THEN s.changed \cup {call.path} ELSE s.changed

\* Mutant: the approval is not taken out of the session.
StillPending(s) == [s EXCEPT !.status = "running", !.index = s.pending.index + 1,
                             !.changed = ApprovedPath(s, s.pending.call)]

Approved(s) ==
    [s EXCEPT !.status = "running", !.pending = None, !.index = s.pending.index + 1,
              !.changed = ApprovedPath(s, s.pending.call)]

\* The granted call runs without another look at the policy, and then the rest
\* of the plan.
InvokeGranted(r) ==
    LET s == work[r].session IN
    /\ work[r].at = "invoke"
    /\ \/ /\ CallTool(work[r].id, s.pending.call) /\ ToolSucceeds(s.pending.call)
          /\ Goto(r, "act", Approved(s))
          /\ UNCHANGED disturbed
       \/ /\ ToolFails(work[r].id, s.pending.call)
          /\ Goto(r, "save", [s EXCEPT !.status = "blocked", !.pending = None])
       \/ ToolRaises(r, work[r].id, s.pending.call)
    /\ UNCHANGED files

----------------------------------------------------------------------------
(* _save_session: session.json is emptied and written, then the report.    *)

ReportStatus(s) ==
    CASE s.status \in {"awaiting_approval", "blocked"} -> "blocked"
      [] s.status = "completed" -> "done"
      [] s.status = "running" -> "running"
      [] OTHER -> "pending"

Truncate(r) ==
    /\ work[r].at = "save"
    /\ saved' = None
    /\ Goto(r, "write", work[r].session)
    /\ UNCHANGED <<trust, report, questions, answers, asked, granted, denied, ran, times, written, disturbed>>

Write(r) ==
    /\ work[r].at = "write"
    /\ saved' = work[r].session
    /\ Goto(r, "report", work[r].session)
    /\ UNCHANGED <<trust, report, questions, answers, asked, granted, denied, ran, times, written, disturbed>>

WriteReport(r) ==
    /\ work[r].at = "report"
    /\ report' = ReportStatus(work[r].session)
    /\ End(r, "saved")
    /\ UNCHANGED <<trust, saved, questions, answers, asked, granted, denied, ran, times, written, disturbed>>

Crash(r) ==
    /\ "crash" \in Faults
    /\ r \in Active
    /\ End(r, "died")
    /\ disturbed' = TRUE
    /\ UNCHANGED <<files, ran, times, written>>

----------------------------------------------------------------------------
\* create_session.
SessionInit ==
    /\ trust \in TrustModes
    /\ saved = NewSession /\ report = ReportStatus(NewSession)
    /\ work = [r \in Requests |-> NoWork]
    /\ questions = 0 /\ answers = 0
    /\ asked = <<>> /\ granted = <<>> /\ denied = {}
    /\ ran = {} /\ times = <<>> /\ written = {}
    /\ disturbed = FALSE

Turn(r) ==
    \/ Plan(r) \/ Ask(r) \/ Refuse(r) \/ Act(r) \/ Complete(r) \/ InvokeGranted(r)
    \/ Truncate(r) \/ Write(r) \/ WriteReport(r)

SessionNext ==
    \E r \in Requests :
        \/ Post(r)
        \/ \E id \in Ids, grant \in BOOLEAN : Decide(r, id, grant)
        \/ Turn(r)
        \/ Crash(r)

SessionSpec == SessionInit /\ [][SessionNext]_sessionVars

----------------------------------------------------------------------------
(* Properties.                                                             *)

Trusted(call) == RiskOf(call) \in {"none", "low"} \/ trust = "workspace"

\* Whatever requests overlap, die or repeat, a tool call that changes the
\* workspace runs because the user trusts the workspace, or for an approval:
\* the approval of that very call, granted at least as often as it ran.
RunsWhatWasGranted ==
    \A n \in ran :
        \/ n.by = None /\ Trusted(n.call)
        \/ /\ n.by \in Ids /\ trust = "ask"
           /\ asked[n.by] = n.call
           /\ times[n.by] <= granted[n.by]

\* While requests come one after another and all of them save, an approval is
\* decided once: its call runs at most once, and never after a denial.
ApprovalDecidedOnce ==
    ~disturbed =>
        \A id \in Ids : times[id] <= 1 /\ (id \in denied => times[id] = 0)

\* An approval is asked for, granted and used up as the user is told: what
\* runs was granted, and what is decided is decided once.
ApprovalsRespected == RunsWhatWasGranted /\ ApprovalDecidedOnce

\* session.json never mixes two sessions: it awaits an approval exactly while
\* one is pending (a turn that could not be planned leaves the old one), the
\* pending call is the action the plan has reached, and a completed turn has
\* reached the end of its plan.
SavedSessionCoherent ==
    saved # None =>
        /\ saved.status = "awaiting_approval" => saved.pending # None
        /\ saved.pending # None =>
             /\ saved.status \in {"awaiting_approval", "failed"}
             /\ saved.pending.index = saved.index
             /\ saved.pending.call = NextCall(saved)
        /\ saved.status = "completed" => saved.index = Len(saved.plan)

\* While requests come one after another, all of them save, and no write that
\* fails leaves anything, the saved session is the whole story: between requests it lists every file written,
\* no question has two answers, and the report says the session's status.
NothingUntold ==
    ~disturbed /\ Active = {} =>
        /\ saved # None
        /\ written \subseteq saved.changed
        /\ answers <= questions
        /\ report = ReportStatus(saved)

\* What a reader of the session file and its report relies on.
SavedSessionTrue == SavedSessionCoherent /\ NothingUntold

\* The two halves of what the user of a session relies on.
SessionsKeepFaith == ApprovalsRespected /\ SavedSessionTrue
=============================================================================
