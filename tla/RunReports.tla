----------------------------- MODULE RunReports ----------------------------
(***************************************************************************)
(* What is said of a run: the directory its runtime leaves behind          *)
(* (workflows/*/runtime.py), and the views of it that the command line,    *)
(* the API server and the web interface give (core/run_summary.py and      *)
(* core/run_view.py).                                                      *)
(*                                                                         *)
(* One run, and the processes that drive or resume it.  The workflow       *)
(* runner and the ledger have modules of their own: here a workflow's      *)
(* steps succeed or fail, and the ledger is the set of events that views   *)
(* look for.  Every write truncates a file before it fills it.             *)
(***************************************************************************)
EXTENDS Naturals

CONSTANTS
    RunKinds,       \* the runtimes used
    ResumeCommands, \* the commands used to resume, of "resume" and "runs resume"
    MaxResumes      \* bound

\* Runtimes that leave their steps to WorkflowRunner.
DrivesWorkflow == {"documents", "research", "file_organization", "workflow"}

ASSUME ReportsAssumption ==
    /\ RunKinds \subseteq DrivesWorkflow \cup {"docs_maintenance", "command_assistant",
                              "github_maintenance", "context_maintainer", "plan"}
    /\ ResumeCommands \subseteq {"resume", "runs resume"}
    /\ MaxResumes \in Nat

VARIABLES
    reported,  \* the run: [kind, caller, at, status]
    runEvents, \* the events of its ledger
    runFiles,  \* final_report.json, final_report.md, plan.json and run.json
    record,    \* the status of the run executor's record, "none" for the others
    succeeded, \* history: in some attempt every step succeeded
    resumes,   \* how often the run was resumed
    unknown    \* history: was a workflow asked for that is not registered?

reportVars == <<reported, runEvents, runFiles, record, succeeded, resumes, unknown>>

At(stage) == reported.at = stage

Continue(stage) == reported' = [reported EXCEPT !.at = stage]

\* write_json and write_text.
WriteFile(file, is) == runFiles' = [runFiles EXCEPT ![file] = is]

Emit(event) == runEvents' = runEvents \cup {event}

----------------------------------------------------------------------------
(* The runtimes: run_task, and execute of the workflow endpoints.          *)

\* RunLedger.create, and the ArtifactStore of the context maintainer.
CreateRun(kind, caller) ==
    /\ At("new")
    /\ kind \in {"workflow", "plan"} => caller = (IF kind = "plan" THEN "cli" ELSE "executor")
    /\ reported' = [kind |-> kind, caller |-> caller, at |-> "created", status |-> "none"]
    /\ record' = IF caller = "executor" THEN "running" ELSE "none"
    /\ IF kind = "context_maintainer" THEN WriteFile("run", "initiated") ELSE UNCHANGED runFiles
    /\ UNCHANGED <<runEvents, succeeded, resumes, unknown>>

\* The context of the workspace is looked at: research before its steps, the
\* documentation for public documents.
EmitContext ==
    /\ At("created") /\ reported.kind \in {"research", "docs_maintenance"}
    /\ Emit("context")
    /\ UNCHANGED <<reported, runFiles, record, succeeded, resumes, unknown>>

\* _resolve_context_pack: planning says what it scanned, and made anew.
ResolveContextPack ==
    /\ At("created") /\ reported.kind = "plan"
    /\ Emit("context") /\ Continue("asking")
    /\ UNCHANGED <<runFiles, record, succeeded, resumes, unknown>>

\* plan_task of the coding workflow writes what it asked, in a run.json without
\* a status, and begins to write what the model answered: if that is a plan.
BeginPlan ==
    /\ At("asking")
    /\ \E parsed \in BOOLEAN :
         /\ runFiles' = [runFiles EXCEPT !.run = "unstated",
                                        !.plan = IF parsed THEN "torn" ELSE "none"]
         /\ Continue(IF parsed THEN "plan" ELSE "raised")
    /\ UNCHANGED <<runEvents, record, succeeded, resumes, unknown>>

EndPlan ==
    /\ At("plan")
    /\ WriteFile("plan", "whole") /\ Continue("return")
    /\ UNCHANGED <<runEvents, record, succeeded, resumes, unknown>>

\* RUN_INITIATED, from the runner, the command assistant or the context
\* maintainer.
Initiate ==
    /\ At("created")
    /\ reported.kind \in DrivesWorkflow \cup {"command_assistant", "context_maintainer"}
    /\ Emit("initiated")
    /\ Continue(IF reported.kind \in DrivesWorkflow THEN "steps" ELSE "agents")
    /\ UNCHANGED <<runFiles, record, succeeded, resumes, unknown>>

\* WorkflowRunner.run up to its verdict.
RunSteps ==
    /\ At("steps")
    /\ \E ok \in BOOLEAN :
         /\ Emit(IF ok THEN "completed" ELSE "failed")
         /\ succeeded' = ok
    /\ Continue("verdict")
    /\ UNCHANGED <<runFiles, record, resumes, unknown>>

\* The runtime has the status of its report: it may be written.
ReportAs(status) ==
    /\ reported' = [reported EXCEPT !.at = "report", !.status = status]
    /\ UNCHANGED <<runEvents, runFiles, record, succeeded, resumes, unknown>>

\* Mutant: a report was written, so the run is done.
AlwaysDone(ok) == "done"

DoneIf(ok) == IF ok THEN "done" ELSE "failed"

ReportDocuments ==
    /\ At("verdict") /\ reported.kind = "documents"
    /\ ReportAs(DoneIf(succeeded))

ReportOrganization ==
    /\ At("verdict") /\ reported.kind = "file_organization"
    /\ ReportAs(DoneIf(succeeded))

\* Steps that failed raise, and so does a last step without a valid report;
\* the report of research has no status.
ReportResearch ==
    /\ At("verdict") /\ reported.kind = "research"
    /\ succeeded
    /\ ReportAs("unstated")

\* The detection fails, public documents are impacted, or neither: updates and
\* an alignment that fail are told in the report, as done.
ReportDocsMaintenance ==
    /\ At("created") /\ reported.kind = "docs_maintenance"
    /\ \E status \in {"failed", "pending_review", "done"} : ReportAs(status)

\* A generation that fails is told in the report, as done.
ReportCommandAssistant ==
    /\ At("agents") /\ reported.kind = "command_assistant"
    /\ \E parsed \in BOOLEAN : ReportAs(DoneIf(parsed))

ReportGithubMaintenance ==
    /\ At("created") /\ reported.kind = "github_maintenance"
    /\ \E summarized \in BOOLEAN : ReportAs(DoneIf(summarized))

ReportContextMaintainer ==
    /\ At("agents") /\ reported.kind = "context_maintainer"
    /\ ReportAs("unstated")

\* The results of a workflow are returned as they are: no report.
ReturnResults ==
    /\ At("verdict") /\ reported.kind = "workflow"
    /\ Continue("return")
    /\ UNCHANGED <<runEvents, runFiles, record, succeeded, resumes, unknown>>

----------------------------------------------------------------------------
(* The report, and the end of the run.                                     *)

BeginReport ==
    /\ At("report")
    /\ WriteFile("json", "torn") /\ Continue("write")
    /\ UNCHANGED <<runEvents, record, succeeded, resumes, unknown>>

EndReport ==
    /\ At("write")
    /\ WriteFile("json", reported.status) /\ Continue("markdown")
    /\ UNCHANGED <<runEvents, record, succeeded, resumes, unknown>>

WriteMarkdown ==
    /\ At("markdown")
    /\ WriteFile("md", "whole") /\ Continue("return")
    /\ UNCHANGED <<runEvents, record, succeeded, resumes, unknown>>

\* On the command line a run.json is added where there is none.
Return ==
    /\ At("return")
    /\ Continue("returned")
    /\ record' = IF record = "running" THEN "completed" ELSE record
    /\ IF reported.caller = "cli" /\ reported.kind # "plan" /\ runFiles.run = "none"
       THEN WriteFile("run", "completed") ELSE UNCHANGED runFiles
    /\ UNCHANGED <<runEvents, succeeded, resumes, unknown>>

Working == ~(reported.at \in {"new", "returned", "raised", "dead", "resumed"})

\* A provider, a model, a parser or the disk fails: the runner says so in the
\* ledger if its steps are under way.
Raise ==
    /\ Working
    /\ Continue("raised")
    /\ IF At("steps") THEN Emit("failed") ELSE UNCHANGED runEvents
    /\ record' = IF record = "running" THEN "failed" ELSE record
    /\ UNCHANGED <<runFiles, succeeded, resumes, unknown>>

\* The process dies, and its executor's records with it.
DieInRun ==
    /\ Working \/ At("resumed")
    /\ Continue("dead")
    /\ record' = "none"
    /\ UNCHANGED <<runEvents, runFiles, succeeded, resumes, unknown>>

----------------------------------------------------------------------------
(* resume (interfaces/cli/cli.py) and runs resume (product_commands.py).   *)

CanResume == "initiated" \in runEvents

\* The command looks for the workflow that RUN_INITIATED names: resume has
\* registered the workflows before, runs resume has not.
Resume(command) ==
    /\ reported.at \in {"returned", "raised", "dead"}
    /\ CanResume /\ resumes < MaxResumes
    /\ resumes' = resumes + 1
    /\ \/ command = "resume" /\ Continue("resumed") /\ UNCHANGED unknown
       \/ command = "runs resume" /\ unknown' = TRUE /\ UNCHANGED reported
    /\ UNCHANGED <<runEvents, runFiles, record, succeeded>>

\* The runner goes through the steps that have not succeeded, for the command
\* assistant and the context maintainer all of them, as their runtimes log no
\* step.  The report is not written again.
RunAgain ==
    /\ At("resumed")
    /\ \E ok \in BOOLEAN :
         /\ succeeded => ok
         /\ Emit(IF ok THEN "completed" ELSE "failed")
         /\ succeeded' = (succeeded \/ ok)
    /\ Continue("raised")
    /\ UNCHANGED <<runFiles, record, resumes, unknown>>

----------------------------------------------------------------------------
(* build_run_summary, build_run_view and run_status_payload.               *)

NormalizeStatus(is) ==
    CASE is \in {"done", "completed"} -> "completed"
      [] is \in {"pending", "initiated"} -> "pending"
      [] is \in {"none", "unstated"} -> "unknown"
      [] OTHER -> is

\* Mutant: only the events count.
EventsOnly ==
    IF "failed" \in runEvents THEN "failed"
    ELSE IF "completed" \in runEvents THEN "completed"
    ELSE IF runFiles.plan # "none" THEN "planned"
    ELSE "running"

\* build_run_summary.
SummaryStatus ==
    IF runFiles.json \notin {"none", "unstated"} THEN NormalizeStatus(runFiles.json)
    ELSE IF "failed" \in runEvents THEN "failed"
    ELSE IF "completed" \in runEvents \/ runFiles.json = "unstated" \/ runFiles.md # "none"
         THEN "completed"
    ELSE IF runFiles.plan # "none" THEN "planned"
    ELSE IF runEvents # {} THEN "running"
    ELSE NormalizeStatus(runFiles.run)

\* build_run_view: half a report, or half a plan, makes the summary raise.
ViewStatus == IF "torn" \in {runFiles.json, runFiles.plan} THEN "unknown" ELSE SummaryStatus

\* Does the result of the run name its directory?  A list of results does not.
Resolves == record = "completed" /\ reported.kind # "workflow"

\* run_status_payload, for who asks by the id of the executor's record.
EndpointStatus(found) == IF found THEN ViewStatus ELSE record

----------------------------------------------------------------------------
ReportsInit ==
    /\ reported = [kind |-> "plan", caller |-> "cli", at |-> "new", status |-> "none"]
    /\ runEvents = {}
    /\ runFiles = [f \in {"json", "md", "plan", "run"} |-> "none"]
    /\ record = "none"
    /\ succeeded = FALSE /\ resumes = 0 /\ unknown = FALSE

ReportsNext ==
    \/ \E kind \in RunKinds, caller \in {"cli", "executor"} : CreateRun(kind, caller)
    \/ EmitContext \/ ResolveContextPack \/ BeginPlan \/ EndPlan
    \/ Initiate \/ RunSteps
    \/ ReportDocuments \/ ReportOrganization \/ ReportResearch \/ ReportDocsMaintenance
    \/ ReportCommandAssistant \/ ReportGithubMaintenance \/ ReportContextMaintainer
    \/ ReturnResults \/ BeginReport \/ EndReport \/ WriteMarkdown \/ Return
    \/ Raise \/ DieInRun
    \/ \E command \in ResumeCommands : Resume(command)
    \/ RunAgain

ReportsSpec == ReportsInit /\ [][ReportsNext]_reportVars

----------------------------------------------------------------------------
Told == {ViewStatus, EndpointStatus(Resolves)}

\* Whatever a run driven by the workflow runner goes through - errors, deaths
\* with half a report, resumes that leave the old report - it is called
\* completed only if in some attempt every step succeeded.  The exception is
\* the endpoint that executes a workflow: it reports that the call returned.
CompletedIsTrue ==
    reported.kind \in DrivesWorkflow /\ ~succeeded =>
        /\ ViewStatus # "completed"
        /\ EndpointStatus(Resolves) = "completed" => reported.kind = "workflow"

\* A run that returned is over to everyone who looks, however its runtime
\* says so and whatever a later resume does: views never call it running,
\* pending or unknown.
ReturnedIsOver ==
    At("returned") \/ record = "completed" =>
        /\ reported.kind # "plan" =>
             Told \subseteq {"completed", "failed", "pending_review", "none"}
        /\ reported.kind = "plan" => ViewStatus = "planned"

\* What the reader of a run list or a status endpoint relies on.
ViewsTellTruth == CompletedIsTrue /\ ReturnedIsOver

\* A run that the views offer to resume can be resumed: agentheim runs resume
\* is for that (docs/CLI-COMMANDS.md:33).
ResumeFindsTheWorkflow == ~unknown
=============================================================================
