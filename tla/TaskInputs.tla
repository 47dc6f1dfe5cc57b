----------------------------- MODULE TaskInputs -----------------------------
(***************************************************************************)
(* presets/, interfaces/guided_tui, the form of interfaces/web_ui/app.py,  *)
(* `agentheim use` and `agentheim start`, and the endpoints that run a     *)
(* task: the ways a person's answers to the questions of a task reach the  *)
(* run.                                                                    *)
(*                                                                         *)
(* Each interface collects inputs in its own way and hands them to         *)
(* Preset.validate_inputs; what the run then does is a function of them.   *)
(* An answer is a string here: "true" and "false" are the booleans, None   *)
(* no answer, Blank a text of spaces, Word a text that means no, "given"   *)
(* any other text.  The questions of a task are asked in an order that is  *)
(* left open, and the default_config of a task is not told apart from the  *)
(* defaults of its questions, which it repeats.                            *)
(***************************************************************************)
EXTENDS TLC

CONSTANTS
    AskedTasks,  \* bound: tasks that are asked for
    None,        \* no answer, no default
    Blank,       \* a text of spaces
    Word         \* "no", "0", or "false" as a string

VARIABLE
    asking  \* one use of one interface: [at, by, task, told, inputs, todo, yes]

----------------------------------------------------------------------------
(* The tasks.                                                              *)

Ask(type, options, default) == [type |-> type, options |-> options, default |-> default]
Text == Ask("text", {}, None)
Place == Ask("text", {}, ".")
Choice(options, default) == Ask("choice", options, default)
Confirm(default) == Ask("confirm", {}, default)

CodebaseQuestions == [
    task |-> Text, repo |-> Place, allow_dirty |-> Confirm("false"),
    mode |-> Choice({"apply", "auto", "ci"}, "apply")]

CoderQuestions == [
    task |-> Text, repo |-> Place,
    trust_mode |-> Choice({"read_only", "ask", "workspace"}, "ask")]

ContextQuestions == [
    scope |-> Choice({"full", "changed"}, "full"), project_path |-> Place,
    write_mode |-> Choice({"patch", "apply"}, "patch")]

DocumentsQuestions == [query |-> Text, repo |-> Place]
CommandQuestions == [command_description |-> Text, explain_only |-> Confirm("false")]
DocsQuestions == [repo |-> Place, apply |-> Confirm("true")]
OrganizerQuestions == [goal |-> Text, target_dir |-> Place, dry_run |-> Confirm("true")]
GithubQuestions == [issues_text |-> Text, summary_only |-> Confirm("false")]
ResearchQuestions == [topic |-> Text, repo |-> Place]

GuidedQuestions == [
    codebase |-> CodebaseQuestions, coder |-> CoderQuestions,
    context |-> ContextQuestions, documents |-> DocumentsQuestions,
    command |-> CommandQuestions, docs |-> DocsQuestions,
    organizer |-> OrganizerQuestions, github |-> GithubQuestions,
    research |-> ResearchQuestions]

Tasks == DOMAIN GuidedQuestions

ASSUME InputsAssumption == AskedTasks \subseteq Tasks

Questions(t) == GuidedQuestions[t]
Keys(t) == DOMAIN Questions(t)

Truthy(v) == v \notin {None, "", "false"}

\* Mutant: an answer that is false counts as none.
Falsy(v) == ~Truthy(v)

NoAnswer(v) == v \in {None, ""}

\* What the run of each task makes of its inputs: where it works, and what it
\* may do there.
When(condition, effect) == IF condition THEN {effect} ELSE {}

CodebaseRun(inputs) ==
    [at |-> inputs.repo,
     may |-> {"write"} \cup When(inputs.mode = "auto", "fix")
                       \cup When(Truthy(inputs.allow_dirty), "start dirty")]

\* An unknown trust mode raises.
CoderRun(inputs) ==
    [at |-> inputs.repo,
     may |-> When(inputs.trust_mode = "ask", "ask to write")
               \cup When(inputs.trust_mode = "workspace", "write")
               \cup When(inputs.trust_mode = "other", "fail")]

ContextRun(inputs) ==
    [at |-> IF inputs.project_path = "." /\ ~NoAnswer(inputs.repo)
            THEN inputs.repo ELSE inputs.project_path,
     may |-> When(inputs.write_mode = "apply", "write")
               \cup When(inputs.scope = "changed", "update")]

DocumentsRun(inputs) == [at |-> inputs.repo, may |-> {}]

\* explain_only and summary_only reach nothing: neither task runs or drafts.
CommandRun(inputs) == [at |-> ".", may |-> {}]

DocsRun(inputs) == [at |-> inputs.repo, may |-> When(Truthy(inputs.apply), "write")]

OrganizerRun(inputs) ==
    [at |-> inputs.target_dir, may |-> When(~Truthy(inputs.dry_run), "write")]

GithubRun(inputs) == [at |-> ".", may |-> {}]

ResearchRun(inputs) == [at |-> inputs.repo, may |-> {}]

PresetRun(t, inputs) ==
    CASE t = "codebase" -> CodebaseRun(inputs)
      [] t = "coder" -> CoderRun(inputs)
      [] t = "context" -> ContextRun(inputs)
      [] t = "documents" -> DocumentsRun(inputs)
      [] t = "command" -> CommandRun(inputs)
      [] t = "docs" -> DocsRun(inputs)
      [] t = "organizer" -> OrganizerRun(inputs)
      [] t = "github" -> GithubRun(inputs)
      [] t = "research" -> ResearchRun(inputs)

----------------------------------------------------------------------------
(* Preset.validate_inputs.                                                 *)

MissingInputs(t, inputs) ==
    {k \in Keys(t) : NoAnswer(inputs[k]) /\ Questions(t)[k].default = None}

WithDefaults(t, inputs) ==
    [k \in DOMAIN inputs |->
        IF k \in Keys(t) /\ NoAnswer(inputs[k]) THEN Questions(t)[k].default ELSE inputs[k]]

ValidateInputs ==
    /\ asking.at = "validate"
    /\ asking' = IF MissingInputs(asking.task, asking.inputs) # {}
                 THEN [asking EXCEPT !.at = "refused"]
                 ELSE [asking EXCEPT !.at = "run",
                                     !.inputs = WithDefaults(asking.task, @)]

RunPreset ==
    /\ asking.at = "run"
    /\ asking' = [asking EXCEPT !.at = "done",
                                !.inputs = PresetRun(asking.task, asking.inputs)]

----------------------------------------------------------------------------
(* What people type.                                                       *)

\* The repository another option or the request may name.
Option == "option"

Answers(q) ==
    {""} \cup CASE q.type = "choice" -> q.options \cup {"other"}
                [] q.type = "confirm" -> {"true", "false", Word}
                [] q = Place -> {".", "given"}
                [] OTHER -> {Blank, "given"}

NothingYet(t) == [k \in Keys(t) \cup {"repo"} |-> None]

\* The command line and the endpoints: some questions are answered with the
\* request.  _parse_input_args makes booleans of "true" and "false" alone.
GivenAnswers(t) ==
    {g \in [Keys(t) -> {None} \cup UNION {Answers(Questions(t)[k]) : k \in Keys(t)}] :
        \A k \in Keys(t) : g[k] \in {None} \cup Answers(Questions(t)[k])}

StartAsking(by, t, at, told, inputs, todo, yes) ==
    asking' = [at |-> at, by |-> by, task |-> t, told |-> told, inputs |-> inputs,
               todo |-> todo, yes |-> yes]

\* `agentheim start`, and POST /api/presets/{id}/run and /api/tasks/{id}/run
\* of either server.
SendInputs(t) ==
    /\ asking.at = "idle"
    /\ \E given \in GivenAnswers(t) :
         StartAsking("request", t, "validate", given, given @@ NothingYet(t), {}, FALSE)

\* `agentheim use`: the option --repo fills in the repository.
UseTask(t) ==
    /\ asking.at = "idle"
    /\ \E given \in GivenAnswers(t), yes \in BOOLEAN :
         LET Filled(k) == k \in Keys(t) \cap {"repo", "project_path"} /\ given[k] = None
             inputs == [k \in Keys(t) \cup {"repo"} |->
                          IF k \notin Keys(t) \/ Filled(k) THEN Option ELSE given[k]]
         IN StartAsking("use", t, "ask", given, inputs,
                  {k \in Keys(t) : NoAnswer(inputs[k])}, yes)

Question(k) == Questions(asking.task)[k]

\* The answer of question k is raw, and it becomes v.
Reply(k, raw, v) ==
    asking' = [asking EXCEPT !.told[k] = raw, !.inputs[k] = v, !.todo = @ \ {k}]

NextQuestion == CHOOSE k \in asking.todo : TRUE

\* _collect_missing_inputs: typer.prompt asks again until it has a text.
PromptFor(k) ==
    /\ asking.by = "use" /\ asking.at = "ask" /\ ~asking.yes
    /\ \E raw \in Answers(Question(k)) :
         /\ raw = "" => Question(k).default # None
         /\ Reply(k, raw, CASE raw = "" -> Question(k).default
                               [] Question(k).type = "confirm" /\ raw = Word -> "false"
                               [] OTHER -> raw)

\* The questionnaire of the guided interface strips what is typed and asks
\* again until the answer is valid.
ParseAnswer(q, raw) ==
    IF raw \in {"", Blank} THEN q.default
    ELSE IF q.type = "choice" /\ raw \notin q.options THEN None
    ELSE IF q.type = "confirm" /\ raw = Word THEN "false"
    ELSE raw

Guide(t) ==
    /\ asking.at = "idle"
    /\ StartAsking("guided", t, "ask", [k \in Keys(t) |-> None], NothingYet(t), Keys(t), FALSE)

AskQuestion(k) ==
    /\ asking.by = "guided" /\ asking.at = "ask"
    /\ \E raw \in Answers(Question(k)) :
         /\ ParseAnswer(Question(k), raw) # None
         /\ Reply(k, raw, ParseAnswer(Question(k), raw))

AllAnswered ==
    /\ asking.at = "ask" /\ (asking.todo = {} \/ asking.yes)
    /\ asking' = [asking EXCEPT !.at = "validate"]

\* The form of the dashboard shows the defaults; a box is checked or not, a
\* list offers its options, and the button is enabled by inputsReady.
FormAnswers(q) ==
    CASE q.type = "choice" -> q.options
      [] q.type = "confirm" -> {"true", "false"}
      [] OTHER -> Answers(q)

ShowForm(t) ==
    /\ asking.at = "idle"
    /\ LET shown == [k \in Keys(t) |-> IF Questions(t)[k].default = None
                                       THEN "" ELSE Questions(t)[k].default]
       IN StartAsking("page", t, "form", shown, shown @@ NothingYet(t), Keys(t), FALSE)

EditField(k) ==
    /\ asking.at = "form"
    /\ \E raw \in FormAnswers(Question(k)) : Reply(k, raw, raw)

InputsReady ==
    \A k \in Keys(asking.task) :
        Question(k).default = None => asking.inputs[k] \notin {"", Blank}

ClickRun ==
    /\ asking.at = "form" /\ InputsReady
    /\ asking' = [asking EXCEPT !.at = "validate", !.todo = {}]

----------------------------------------------------------------------------

InputsInit == asking = [at |-> "idle"]

InputsNext ==
    \/ \E t \in AskedTasks : SendInputs(t) \/ UseTask(t) \/ Guide(t) \/ ShowForm(t)
    \/ /\ asking.at = "ask" /\ asking.todo # {}
       /\ PromptFor(NextQuestion) \/ AskQuestion(NextQuestion)
    \/ asking.at = "form" /\ \E k \in asking.todo : EditField(k)
    \/ AllAnswered \/ ClickRun
    \/ ValidateInputs \/ RunPreset

InputsSpec == InputsInit /\ [][InputsNext]_asking

----------------------------------------------------------------------------
(* Properties.                                                             *)

\* The inputs that the answers mean, wherever they were given.  The option
\* --repo does not reach the file organizer, which has no such question.
MeantInputs ==
    LET use == asking.by = "use"
        Meant(k, v) ==
          IF use /\ v = None /\ k \in {"repo", "project_path"} THEN Option
          ELSE IF NoAnswer(v) \/ (v = Blank /\ asking.by = "guided") THEN Question(k).default
          ELSE IF Question(k).type = "confirm" /\ v = Word THEN "false"
          ELSE v
    IN [k \in Keys(asking.task) |-> Meant(k, asking.told[k])]
         @@ [repo |-> IF use THEN Option ELSE None]

\* Words for no that reach the run as they are: it takes them for yes.
WordKept == asking.by \in {"request", "use"} /\ \E k \in Keys(asking.task) : asking.told[k] = Word

\* Through whichever interface a task is asked for, the run does what the
\* answers mean, and in particular writes nothing when a dry run or a plan was
\* asked for; it never starts without a required answer; and nobody who was
\* asked, or could press the button, is told afterwards that one is missing.
RunsAsAnswered ==
    /\ asking.at = "done" =>
         /\ ~WordKept => asking.inputs = PresetRun(asking.task, MeantInputs)
         /\ \A k \in Keys(asking.task) : Question(k).default = None =>
              /\ ~NoAnswer(asking.told[k])
              /\ asking.by \in {"guided", "page"} => asking.told[k] # Blank
    /\ asking.at = "refused" => asking.by = "request" \/ asking.yes
=============================================================================
