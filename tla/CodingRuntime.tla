--------------------------- MODULE CodingRuntime ---------------------------
(***************************************************************************)
(* run_task of workflows/coding/runtime.py, with the state table of        *)
(* core/state_machine.py it walks and the PatchApplier of core/patching.py *)
(* it writes the repository with.                                          *)
(*                                                                         *)
(* One thread drives a run.  What the planner, the coder and the verifier  *)
(* answer is free, and every call may raise.  A file is its text, of which *)
(* there are few: the properties ask what a file contains, never how.  The *)
(* tasks of the plan and the changes of a patch are chosen when they are   *)
(* reached.                                                                *)
(***************************************************************************)
EXTENDS Naturals, Sequences

CONSTANTS
    Paths,          \* the files a plan may name
    Failures,       \* the keys a verifier's findings are counted under
    Originals,      \* bound: the texts files have when the run begins
    MaxFixAttempts, \* the argument max_fix_attempts
    MaxTotalTasks,  \* 20 in the code
    MaxTasks,       \* bound: tasks of a plan
    MaxChanges      \* bound: changes of one patch that are written

ASSUME Bounds == Originals \subseteq {"missing", "empty", "old"}
                 /\ MaxFixAttempts \in Nat /\ MaxTotalTasks \in Nat
                 /\ MaxTasks \in Nat \ {0} /\ MaxChanges \in Nat \ {0}

VARIABLES
    phase,     \* where run_task is
    state,     \* RuntimeStateMachine.current
    mode,      \* the argument mode
    repo,      \* the text of every file
    origin,    \* the texts when run_task was called
    kind,      \* the type of the current task
    verdicts,  \* the last verdict on every task begun
    total,     \* total_task_count
    attempts,  \* attempts_remaining
    fix,       \* fix_attempt
    repeated,  \* repeated_failures
    refused,   \* errors # [] in apply_changes
    undo,      \* the applied_changes of the open patch
    changed,   \* total_changes, as a set
    report,    \* final_report.json
    invalid    \* a transition has been refused

machine == <<state, invalid>>
files == <<repo, undo, refused>>
task == <<kind, verdicts, total>>
fixing == <<fix, repeated>>
fixed == <<mode, origin>>
codingVars ==
    <<phase, machine, files, task, fixing, fixed, attempts, changed, report>>

----------------------------------------------------------------------------
\* The texts a file may have.  "missing" is a file that does not exist.
Texts == {"missing", "empty", "old", "new"}

Modes == {"apply", "auto"}

TaskKinds == {"inspect", "edit", "other"}

ChangeTypes == {"create", "modify", "delete"}

Startup == <<"INIT", "LOAD_CONFIG", "PREPARE_WORKSPACE", "SCAN_REPOSITORY",
             "BUILD_CONTEXT_PACK", "PLAN">>

Stops == {"BLOCKED", "FAILED_AND_ROLLED_BACK"}

\* RuntimeStateMachine.ALLOWED: where the work may go next, and the two stops
\* that are open from every state in which work goes on.
Onward ==
    [INIT               |-> {"LOAD_CONFIG"},
     LOAD_CONFIG        |-> {"PREPARE_WORKSPACE"},
     PREPARE_WORKSPACE  |-> {"SCAN_REPOSITORY"},
     SCAN_REPOSITORY    |-> {"BUILD_CONTEXT_PACK"},
     BUILD_CONTEXT_PACK |-> {"PLAN"},
     PLAN               |-> {"EXECUTE_TASK", "FINAL_REPORT"},
     EXECUTE_TASK       |-> {"BASIC_VERIFY", "VERIFY_TASK"},
     BASIC_VERIFY       |-> {"VERIFY_TASK", "EXECUTE_TASK", "FINAL_VERIFY"},
     VERIFY_TASK        |-> {"FIX_LOOP", "EXECUTE_TASK", "FINAL_VERIFY"},
     FIX_LOOP           |-> {"EXECUTE_TASK", "BASIC_VERIFY"},
     FINAL_VERIFY       |-> {"FINAL_REPORT"},
     FINAL_REPORT       |-> {"RESUME_AVAILABLE", "DONE"},
     RESUME_AVAILABLE   |-> {"DONE"}]

States == DOMAIN Onward \union {"DONE"} \union Stops

Allowed(s) ==
    CASE s \in DOMAIN Onward -> Onward[s] \union Stops
      [] s = "BLOCKED" -> {"RESUME_AVAILABLE", "DONE"}
      [] OTHER -> {}

\* transition: the new state, or an ExecutionError that run_task handles.
Transit(next, then) ==
    IF next \in Allowed(state)
    THEN state' = next /\ phase' = then /\ UNCHANGED invalid
    ELSE phase' = "raising" /\ invalid' = TRUE /\ UNCHANGED state

CodingInit ==
    /\ phase = "starting" /\ state = "INIT" /\ invalid = FALSE
    /\ mode \in Modes
    /\ origin \in [Paths -> Originals]
    /\ repo = origin
    /\ kind = "edit" /\ verdicts = <<>> /\ total = 0
    /\ fix = 0 /\ repeated = [f \in Failures |-> 0]
    /\ attempts = 0 /\ refused = FALSE /\ undo = <<>>
    /\ changed = {} /\ report = "none"

----------------------------------------------------------------------------
\* Configuration, workspace, scan and context pack, up to a plan that exists.
\* A plan has at least one task (TaskGraph.ordered_tasks).
GetReady ==
    /\ phase = "starting"
    /\ \E k \in 1..5 :
          /\ state = Startup[k]
          /\ Transit(Startup[k + 1], IF k = 5 THEN "tasks" ELSE "starting")
    /\ UNCHANGED <<files, task, fixing, fixed, attempts, changed, report>>

\* Uncommitted changes, and not allow_dirty.
DirtyRepository ==
    /\ phase = "starting" /\ state = "PREPARE_WORKSPACE"
    /\ Transit("BLOCKED", "raising")
    /\ UNCHANGED <<files, task, fixing, fixed, attempts, changed, report>>

TooManyTasks(n) == n > MaxTotalTasks

\* attempts_remaining of a task: max(1, min(max_fix_attempts + 1, 4)).
FirstAttempts == IF MaxFixAttempts < 3 THEN MaxFixAttempts + 1 ELSE 4

FixAttempts == 2

\* The next of plan.task_graph.ordered_tasks.
NextTask ==
    /\ phase = "tasks" /\ Len(verdicts) < MaxTasks
    /\ total' = total + 1
    /\ IF TooManyTasks(total')
       THEN /\ Transit("BLOCKED", "raising")
            /\ UNCHANGED <<kind, verdicts, attempts, fix>>
       ELSE /\ kind' \in TaskKinds
            /\ verdicts' = Append(verdicts, "open")
            /\ attempts' = FirstAttempts
            /\ fix' = 0
            /\ Transit("EXECUTE_TASK",
                          IF kind' = "inspect" THEN "inspecting" ELSE "coding")
    /\ UNCHANGED <<files, repeated, fixed, changed, report>>

Judge(verdict) == verdicts' = [verdicts EXCEPT ![Len(verdicts)] = verdict]

\* An inspection is recorded; nothing is patched or verified.
Inspect ==
    /\ phase = "inspecting"
    /\ Judge("passed")
    /\ Transit("BASIC_VERIFY", "tasks")
    /\ UNCHANGED <<files, kind, total, fixing, fixed, attempts, changed,
                   report>>

----------------------------------------------------------------------------
\* Mutant: an attempt that is not counted.
SameAttempts(n) == n

AttemptsAfter(n) == n - 1

LoseAttempt ==
    /\ attempts' = AttemptsAfter(attempts)
    /\ phase' = IF attempts' > 0 THEN "coding" ELSE "giving up"

\* Outside the fix loop, a task that is no edit may need no change.
MayChangeNothing == fix = 0 /\ kind # "edit"

\* The coder fails, or answers with a plan without changes.
CoderIsNoUse ==
    /\ phase = "coding"
    /\ LoseAttempt
    /\ UNCHANGED <<machine, files, task, fixing, fixed, changed, report>>

NothingToChange ==
    /\ phase = "coding" /\ MayChangeNothing
    /\ Transit("BASIC_VERIFY", "checking")
    /\ UNCHANGED <<files, task, fixing, fixed, attempts, changed, report>>

CoderPlans ==
    /\ phase = "coding"
    /\ phase' = "patching"
    /\ UNCHANGED <<machine, files, task, fixing, fixed, attempts, changed,
                   report>>

TextOf(file) == IF file = "missing" THEN "empty" ELSE file

\* _render_after_text: model_dump always carries an after_text, "" by default.
AfterText(type, text) == IF type = "delete" THEN "empty" ELSE text

\* The next change of the patch.  One that is out of scope, names a forbidden
\* path or is too long is refused, and the others are still written.
ChangeFile ==
    /\ phase = "patching"
    /\ \/ refused' = TRUE /\ UNCHANGED <<repo, undo>>
       \/ /\ Len(undo) < MaxChanges
          /\ \E path \in Paths, type \in ChangeTypes,
                text \in {"empty", "new"} :
                /\ repo' = [repo EXCEPT ![path] = AfterText(type, text)]
                /\ undo' = Append(undo, [path |-> path, type |-> type,
                                         before |-> TextOf(repo[path])])
          /\ UNCHANGED refused
    /\ UNCHANGED <<phase, machine, task, fixing, fixed, attempts, changed,
                   report>>

UndoPaths == {undo[i].path : i \in DOMAIN undo}

\* The PatchApplyResult is dropped.
CallOver == refused' = FALSE /\ undo' = <<>>

PatchApplied ==
    /\ phase = "patching" /\ undo # <<>> /\ ~refused
    /\ changed' = changed \union UndoPaths
    /\ CallOver
    /\ Transit("BASIC_VERIFY", "checking")
    /\ UNCHANGED <<repo, task, fixing, fixed, attempts, report>>

PatchRefused ==
    /\ phase = "patching" /\ refused
    /\ phase' = "undoing"
    /\ UNCHANGED <<machine, files, task, fixing, fixed, attempts, changed,
                   report>>

\* Mutant: rollback in the order of the patch.
FirstUndone == IF undo = <<>> THEN 0 ELSE 1

\* rollback walks reversed(applied_changes).
NextUndone == Len(undo)

\* What rollback leaves of a change: a file it takes for created is removed,
\* every other file gets its earlier text back.
Restored(change) ==
    IF change.type = "create" /\ change.before = "empty"
    THEN "missing" ELSE change.before

UndoChange ==
    /\ phase = "undoing" /\ undo # <<>>
    /\ LET change == undo[NextUndone]
       IN  repo' = [repo EXCEPT ![change.path] = Restored(change)]
    /\ undo' = [i \in 1..(Len(undo) - 1) |->
                  IF i < NextUndone THEN undo[i] ELSE undo[i + 1]]
    /\ UNCHANGED <<phase, machine, refused, task, fixing, fixed, attempts,
                   changed, report>>

Undone ==
    /\ phase = "undoing" /\ undo = <<>>
    /\ CallOver
    /\ LoseAttempt
    /\ UNCHANGED <<machine, repo, task, fixing, fixed, changed, report>>

\* No attempt is left: the task fails, a fix blocks the run.
GiveUp ==
    /\ phase = "giving up"
    /\ IF fix = 0 THEN Transit("FAILED_AND_ROLLED_BACK", "raising")
                  ELSE Transit("BLOCKED", "reporting")
    /\ UNCHANGED <<files, task, fixing, fixed, attempts, changed, report>>

----------------------------------------------------------------------------
BasicVerify ==
    /\ phase = "checking"
    /\ Transit("VERIFY_TASK", "verifying")
    /\ UNCHANGED <<files, task, fixing, fixed, attempts, changed, report>>

\* The report's status is free text that run_task only compares with
\* "failed": every other verdict counts as a pass, and so does a report on
\* commands that failed, which reach the verifier as text.
VerifierPasses ==
    /\ phase = "verifying"
    /\ Judge("passed")
    /\ phase' = "tasks"
    /\ UNCHANGED <<machine, files, kind, total, fixing, fixed,
                   attempts, changed, report>>

\* Mutant: a failed verdict stops only the fix loop.
NeverBlocks == FALSE

BlocksOnFailure == mode # "auto"

\* A failed report ends the run, or in mode auto starts the fix loop.
VerifierFails ==
    /\ phase = "verifying"
    /\ Judge("failed")
    /\ IF mode = "auto"
       THEN /\ \E key \in Failures :
                  repeated' = [repeated EXCEPT ![key] = @ + 1]
            /\ Transit("FIX_LOOP", "fixing")
       ELSE /\ IF BlocksOnFailure THEN Transit("BLOCKED", "reporting")
                                  ELSE phase' = "tasks" /\ UNCHANGED machine
            /\ UNCHANGED repeated
    /\ UNCHANGED <<files, kind, total, fix, fixed, attempts, changed,
                   report>>

NoFixLeft == fix >= MaxFixAttempts

\* Only the last report can have repeated a failure: the run ends at the first.
SameFailureTwice == \E key \in Failures : repeated[key] >= 2

\* The same failure twice in the run, or no fix left, blocks it.
TryFix ==
    /\ phase = "fixing"
    /\ IF SameFailureTwice \/ NoFixLeft
       THEN /\ Transit("BLOCKED", "reporting")
            /\ UNCHANGED <<fix, total, attempts>>
       ELSE /\ fix' = fix + 1
            /\ total' = total + 1
            /\ IF TooManyTasks(total')
               THEN Transit("BLOCKED", "raising") /\ UNCHANGED attempts
               ELSE /\ attempts' = FixAttempts
                    /\ phase' = "coding" /\ UNCHANGED machine
    /\ UNCHANGED <<files, kind, verdicts, repeated, fixed,
                   changed, report>>

----------------------------------------------------------------------------
FinalVerify ==
    /\ phase = "tasks" /\ verdicts # <<>>
    /\ Transit("FINAL_VERIFY", "final")
    /\ UNCHANGED <<files, task, fixing, fixed, attempts, changed, report>>

FinalReport ==
    /\ phase = "final"
    /\ Transit("FINAL_REPORT", "reporting")
    /\ UNCHANGED <<files, task, fixing, fixed, attempts, changed, report>>

WriteReport ==
    /\ phase = "reporting"
    /\ report' = IF state = "BLOCKED" THEN "blocked" ELSE "done"
    /\ phase' = "reported"
    /\ UNCHANGED <<machine, files, task, fixing, fixed, attempts, changed>>

MakeResumable ==
    /\ phase = "reported"
    /\ Transit("RESUME_AVAILABLE",
                  IF report = "done" THEN "finishing" ELSE "returning")
    /\ UNCHANGED <<files, task, fixing, fixed, attempts, changed, report>>

FinishRun ==
    /\ phase = "finishing"
    /\ Transit("DONE", "returning")
    /\ UNCHANGED <<files, task, fixing, fixed, attempts, changed, report>>

ReturnReport ==
    /\ phase = "returning"
    /\ phase' = "returned"
    /\ UNCHANGED <<machine, files, task, fixing, fixed, attempts, changed,
                   report>>

Ended == {"returned", "raised"}

\* The states whose failure has been recorded before.
Recorded == Stops

\* A tool, a model, the disk or the record of the last transition raises, or
\* run_task itself does; except Exception then makes the last transition.
RaiseOut ==
    /\ phase \notin Ended
    /\ phase' = "raised"
    /\ IF state \in Recorded THEN UNCHANGED machine
       ELSE IF "FAILED_AND_ROLLED_BACK" \in Allowed(state)
       THEN state' = "FAILED_AND_ROLLED_BACK" /\ UNCHANGED invalid
       ELSE invalid' = TRUE /\ UNCHANGED state
    /\ UNCHANGED <<files, task, fixing, fixed, attempts, changed, report>>

Work ==
    \/ GetReady \/ DirtyRepository \/ NextTask \/ Inspect
    \/ CoderIsNoUse \/ NothingToChange \/ CoderPlans
    \/ ChangeFile \/ PatchApplied \/ PatchRefused \/ UndoChange \/ Undone
    \/ GiveUp \/ BasicVerify \/ VerifierPasses \/ VerifierFails \/ TryFix
    \/ FinalVerify \/ FinalReport \/ WriteReport \/ MakeResumable \/ FinishRun
    \/ ReturnReport

CodingNext == Work \/ RaiseOut

\* One thread, and every call it makes returns or raises.
CodingSpec == CodingInit /\ [][CodingNext]_codingVars /\ WF_codingVars(CodingNext)

----------------------------------------------------------------------------
Phases == {"starting", "tasks", "inspecting", "coding", "patching", "undoing",
           "giving up", "checking", "verifying", "fixing", "final",
           "reporting", "reported", "finishing", "returning", "raising"}
          \union Ended

Change == [path : Paths, type : ChangeTypes, before : Texts \ {"missing"}]

\* Types and ranges: the fix loop stays within max_fix_attempts, a patch loop
\* within its attempts, and the run within the limit on tasks and fixes.
CodingTypes ==
    /\ phase \in Phases /\ state \in States /\ invalid \in BOOLEAN
    /\ mode \in Modes /\ kind \in TaskKinds
    /\ repo \in [Paths -> Texts] /\ origin \in [Paths -> Texts]
    /\ verdicts \in Seq({"open", "passed", "failed"})
    /\ total \in 0..(MaxTotalTasks + 1) /\ fix \in 0..MaxFixAttempts
    /\ attempts \in 0..4 /\ refused \in BOOLEAN
    /\ repeated \in [Failures -> 0..2]
    /\ undo \in Seq(Change) /\ Len(undo) <= MaxChanges
    /\ changed \subseteq Paths /\ report \in {"none", "blocked", "done"}

\* A file whose text is not what it was when the run began is one the final
\* report names (total_changes), or is in the patch being applied or undone:
\* a refused patch, partly written, leaves nothing behind that is not
\* reported, whichever of its changes hit the same file and in whatever order.
NothingUnreported ==
    \A path \in Paths :
        TextOf(repo[path]) # TextOf(origin[path]) =>
            path \in changed \union UndoPaths

\* run_task walks only transitions that RuntimeStateMachine.ALLOWED has, in
\* every combination of inspections, retries, fixes and errors.  The one that
\* is refused is the handler's, when recording DONE itself has failed.
WalksTheTable == invalid => state = "DONE"

\* A run reported as done ended every task of its plan with a verification
\* whose verdict was not "failed" or an inspection: no failure is left behind
\* by a later task.
DoneMeansVerified ==
    report = "done" => \A i \in DOMAIN verdicts : verdicts[i] = "passed"

\* Attempts, fixes and tasks run out: a run_task that has begun returns or
\* raises.
RunTaskEnds == state # "INIT" ~> phase \in Ended
=============================================================================
