---------------------------- MODULE CheckCommands ---------------------------
(***************************************************************************)
(* The commands a work order expects to pass: _basic_verify and            *)
(* _run_verifier of workflows/coding/runtime.py, the adapters they call,   *)
(* ShellTool and its ShellSandbox (tools/shell) and the processes those    *)
(* start.                                                                  *)
(*                                                                         *)
(* A run checks its repository once per task and once more per fix: a      *)
(* round.  A command is what the four places that may refuse it look at,   *)
(* and is chosen when it is reached.  Of the records of its report those   *)
(* of commands are kept one by one, of the others their statuses.          *)
(***************************************************************************)
EXTENDS Naturals, Sequences, FiniteSets, PolicyEngine

CONSTANTS
    MaxRounds,   \* bound: calls of _basic_verify
    MaxChecks,   \* bound: commands of a work order
    MaxHelpers   \* bound: processes started by commands that are alive

ASSUME ChecksAssumption ==
    MaxRounds \in Nat \ {0} /\ MaxChecks \in Nat \ {0} /\ MaxHelpers \in Nat

VARIABLES
    checkAt,   \* where the run is
    command,   \* the command at hand
    child,     \* its process: none, alive, zero, nonzero or killed
    helpers,   \* processes that commands have started and that are alive
    records,   \* its VerificationRecords in each round, with what happened
    others,    \* the statuses of its other records, as the summary reads them
    outputs,   \* command_NN_stdout.txt and _stderr.txt: whose they are
    toolCalls  \* tool_calls.jsonl: the command and the files it names

checkVars == <<checkAt, command, child, helpers, records, others, outputs, toolCalls>>

Nothing == [class |-> "safe", word |-> Absent, denied |-> FALSE, argument |-> "plain"]

\* Whether classify_command says "safe", the first word, whether a denied phrase
\* is in it, and whether an argument is one the sandbox refuses.  Without a word
\* it is the empty list.
CommandKinds ==
    {Nothing} \cup
    [class : {"safe", "unsafe"},
     word : {"pytest", "Pytest", "make"}, denied : BOOLEAN,
     argument : {"plain", "forbidden"}]

Id == <<Len(records), Len(records[Len(records)]) + 1>>

----------------------------------------------------------------------------
(* Who may refuse a command.                                               *)

\* policy_evaluate.
Blocked(c) == c.class # "safe"

\* _get_policy_engine and _make_context.
CodingConfig ==
    [PolicyConfig(Rules("ask", "ask"), SafeCommands, FALSE) EXCEPT !.commandDenylist = {"sudo"}]

CodingContext ==
    [allowedPaths |-> {"workspace"}, deniedPaths |-> {"git", "lock"}, callsLeft |-> 1]

\* tool_invoke: what would have to be asked is done if it classifies as safe.
EngineDenies(c) ==
    LET decision ==
          Evaluate(CodingConfig, CodingContext,
                   Call("shell.execute", "invoke", Absent, IF c.denied THEN "sudo" ELSE c.word))
    IN  decision = "deny" \/ (decision = "ask" /\ Blocked(c))

Lower(word) == IF word = "Pytest" THEN "pytest" ELSE word

\* ShellTool.invoke: there must be a word.  The context lists no commands.
ToolRefuses(c) == c.word = Absent

\* allowed_commands of SandboxConfig: the list of the policy engine again.
SandboxCommands == SafeCommands

\* ShellSandbox._validate: a word that is not listed, a git subcommand, a
\* metacharacter or a path that climbs.
SandboxRefuses(c) == Lower(c.word) \notin SandboxCommands \/ c.argument = "forbidden"

\* Mutant: the sandbox is asked about the first word only.
AnyArgument(c) ==
    Blocked(c) \/ EngineDenies(c) \/ ToolRefuses(c) \/ Lower(c.word) \notin SandboxCommands

CommandRefused(c) ==
    Blocked(c) \/ EngineDenies(c) \/ ToolRefuses(c) \/ SandboxRefuses(c)

----------------------------------------------------------------------------
(* _basic_verify.                                                          *)

\* Mutant: a command whose time is up counts by its exit code.
StatusOnTime(end) == IF end \in {"zero", "late"} THEN "passed"
                     ELSE IF end = "nonzero" THEN "failed" ELSE "skipped"

\* The status of a verifier may be any word: one that does not say passed or
\* skipped counts as failed.
RecordStatuses == {"passed", "failed", "skipped"}

\* The status of a record by what happened: refused, not started, ended with
\* zero or not, killed when its time was up, ended but its output held open
\* until then (late), or ended with an output that is not text (unread).
StatusOf(end) ==
    CASE end = "zero" -> "passed"
      [] end = "nonzero" -> "failed"
      [] OTHER -> "skipped"

Recorded(end) ==
    LET r == Len(records)
    IN  records' = [records EXCEPT ![r] = Append(@, [status |-> StatusOf(end), end |-> end])]

\* The working tree's diff is read: git-diff-sanity passes unless it is empty.
\* --no-tests skips basic-tests and ends the round.
BeginChecks(noTests) ==
    /\ checkAt = "working" /\ Len(records) < MaxRounds
    /\ records' = Append(records, <<>>)
    /\ \E diff \in {"passed", "skipped"} :
         others' = others \cup {diff} \cup (IF noTests THEN {"skipped"} ELSE {})
    /\ checkAt' = IF noTests THEN "judging" ELSE "checking"
    /\ UNCHANGED <<command, child, helpers, outputs, toolCalls>>

\* _record_inspect_task: a task that only looks has passed.
Inspect ==
    /\ checkAt = "working"
    /\ others' = others \cup {"passed"}
    /\ UNCHANGED <<checkAt, command, child, helpers, records, outputs, toolCalls>>

\* The next of expected_commands.
ReachCommand ==
    /\ checkAt = "checking" /\ Len(records[Len(records)]) < MaxChecks
    /\ \E c \in CommandKinds :
         \/ CommandRefused(c) /\ Recorded("refused") /\ UNCHANGED <<checkAt, command>>
         \/ ~CommandRefused(c) /\ command' = c /\ checkAt' = "starting" /\ UNCHANGED records
    /\ UNCHANGED <<child, helpers, others, outputs, toolCalls>>

\* subprocess.run: the process starts, or there is none.
StartCommand ==
    /\ checkAt = "starting"
    /\ \/ child' = "alive" /\ checkAt' = "running" /\ UNCHANGED records
       \/ Recorded("unstarted") /\ checkAt' = "checking" /\ UNCHANGED child
    /\ UNCHANGED <<command, helpers, others, outputs, toolCalls>>

\* Mutant: the result is read when the process has ended.
NotWaitedFor == FALSE

\* The result is read when the process has ended and nothing holds its output.
OutputHeld == \E h \in helpers : h.piped /\ h.of = Id

CommandDone ==
    /\ checkAt = "running" /\ child \in {"zero", "nonzero"} /\ ~OutputHeld
    /\ \/ checkAt' = "writing" /\ UNCHANGED <<records, child>>
       \/ checkAt' = "checking" /\ child' = "none" /\ Recorded("unread")
    /\ UNCHANGED <<command, helpers, others, outputs, toolCalls>>

\* Time is up: the process is killed, and nothing that it started.
CommandTimesOut ==
    /\ checkAt = "running" /\ (child = "alive" \/ OutputHeld)
    /\ Recorded(IF child = "alive" THEN "killed" ELSE "late")
    /\ child' = "none" /\ checkAt' = "checking"
    /\ UNCHANGED <<command, helpers, others, outputs, toolCalls>>

\* _write_run_command_output, with the number of the command among those that
\* ran in this round.
FileNumber ==
    LET ran == {n \in DOMAIN records[Len(records)] :
                  records[Len(records)][n].end \in {"zero", "nonzero"}}
    IN  Cardinality(ran) + 1

WriteOutput ==
    /\ checkAt = "writing"
    /\ outputs' = [f \in DOMAIN outputs \cup {FileNumber} |->
                     IF f = FileNumber THEN Id ELSE outputs[f]]
    /\ checkAt' = "noting"
    /\ UNCHANGED <<command, child, helpers, records, others, toolCalls>>

NoteCommand ==
    /\ checkAt = "noting"
    /\ toolCalls' = Append(toolCalls, [of |-> Id, file |-> FileNumber])
    /\ Recorded(child)
    /\ child' = "none" /\ checkAt' = "checking"
    /\ UNCHANGED <<command, helpers, others, outputs>>

ChecksDone ==
    /\ checkAt = "checking"
    /\ checkAt' = "judging"
    /\ UNCHANGED <<command, child, helpers, records, others, outputs, toolCalls>>

\* _run_verifier: its report is a record as well.
RunVerifier ==
    /\ checkAt = "judging"
    /\ \E verdict \in RecordStatuses : others' = others \cup {verdict}
    /\ checkAt' = "working"
    /\ UNCHANGED <<command, child, helpers, records, outputs, toolCalls>>

\* The run is done or blocked: the FinalReport has all records there are.
ReportChecks ==
    /\ checkAt = "working"
    /\ checkAt' = "reported"
    /\ UNCHANGED <<command, child, helpers, records, others, outputs, toolCalls>>

\* git, the ledger or the verifier raises; or the user interrupts, and the
\* process is killed but not what it started.  No report is made.
CheckRaises ==
    /\ checkAt \notin {"reported", "over", "crashed"}
    /\ checkAt' = "over"
    /\ child' = IF child = "alive" THEN "killed" ELSE child
    /\ others' = {}
    /\ UNCHANGED <<command, helpers, records, outputs, toolCalls>>

\* The program dies.  The command has a session of its own and lives on.
CrashInCheck ==
    /\ checkAt \notin {"reported", "over", "crashed"}
    /\ checkAt' = "crashed"
    /\ others' = {}
    /\ UNCHANGED <<command, child, helpers, records, outputs, toolCalls>>

----------------------------------------------------------------------------
(* The processes.                                                          *)

ProcessEnds ==
    /\ child = "alive"
    /\ child' \in {"zero", "nonzero"}
    /\ UNCHANGED <<checkAt, command, helpers, records, others, outputs, toolCalls>>

\* The command starts a process of its own, with its output or without.
StartHelper ==
    /\ checkAt = "running" /\ child = "alive" /\ Cardinality(helpers) < MaxHelpers
    /\ \E piped \in BOOLEAN : helpers' = helpers \cup {[of |-> Id, piped |-> piped]}
    /\ UNCHANGED <<checkAt, command, child, records, others, outputs, toolCalls>>

HelperEnds ==
    /\ \E h \in helpers : helpers' = helpers \ {h}
    /\ UNCHANGED <<checkAt, command, child, records, others, outputs, toolCalls>>

----------------------------------------------------------------------------
ChecksInit ==
    /\ checkAt = "working" /\ command = Nothing /\ child = "none"
    /\ helpers = {} /\ records = <<>> /\ others = {} /\ outputs = <<>> /\ toolCalls = <<>>

ChecksNext ==
    \/ \E noTests \in BOOLEAN : BeginChecks(noTests)
    \/ Inspect \/ ReachCommand \/ StartCommand \/ CommandDone \/ CommandTimesOut
    \/ WriteOutput \/ NoteCommand \/ ChecksDone \/ RunVerifier \/ ReportChecks
    \/ CheckRaises \/ CrashInCheck
    \/ ProcessEnds \/ StartHelper \/ HelperEnds

ChecksSpec == ChecksInit /\ [][ChecksNext]_checkVars

----------------------------------------------------------------------------
\* Did a command of some round end so?
EndedWith(end) == \E r \in DOMAIN records : \E n \in DOMAIN records[r] : records[r][n].end = end

\* _verification_summary of core/run_summary.py: what the summary of the run
\* makes of the records of the report.  No run writes a verification.json.
VerificationSummary ==
    LET Has(status) ==
          \/ status \in others
          \/ \E r \in DOMAIN records : \E n \in DOMAIN records[r] : records[r][n].status = status
    IN  IF Has("failed") THEN "failed"
        ELSE IF Has("passed") THEN "passed"
        ELSE IF Has("skipped") THEN "skipped"
        ELSE "not_run"

----------------------------------------------------------------------------
EndOf(id) == records[id[1]][id[2]].end

IsRecorded(id) == id[2] \in DOMAIN records[id[1]]

\* What a run says of its checks is what happened.  A check passed or failed
\* if it ran to its end in time, and is skipped otherwise.  The summary of a
\* reported run says failed exactly if a command of some round failed, mended
\* since or not, or a verdict was neither passed nor skipped; and it says passed
\* if not and something passed, of which a changed working tree or an
\* inspection is enough.
\* A command runs only if the classification, the policy engine, the tool and
\* the sandbox all allow it.  The files a tool call names hold the output of
\* its command, unless a later round has written them anew.
ChecksToldTruly ==
    /\ \A r \in DOMAIN records : \A n \in DOMAIN records[r] :
         LET c == records[r][n] IN
         /\ c.status = "passed" <=> c.end = "zero"
         /\ c.status = "failed" <=> c.end = "nonzero"
    /\ checkAt = "reported" =>
         LET failed == EndedWith("nonzero") \/ "failed" \in others
             passed == EndedWith("zero") \/ "passed" \in others
         IN  /\ VerificationSummary = "failed" <=> failed
             /\ VerificationSummary = "passed" <=> passed /\ ~failed
    /\ child = "alive" =>
         /\ command.class = "safe" /\ command.word \in SafeCommands
         /\ ~command.denied /\ command.argument = "plain"
    /\ \A i \in DOMAIN toolCalls :
         LET call == toolCalls[i] IN
         outputs[call.file] = call.of \/ outputs[call.file][1] > call.of[1]

\* A command that is still alive is the one being waited for, unless the
\* program died; and a process it started that still holds its output is left
\* behind only by a check recorded as skipped, or by a run cut short in it.
CommandsEnd ==
    /\ child = "alive" => checkAt \in {"running", "crashed"}
    /\ \A h \in helpers :
         h.piped /\ IsRecorded(h.of) => EndOf(h.of) \in {"killed", "late"}
=============================================================================
