------------------------ MODULE CodingRuntimeProofs ------------------------
(***************************************************************************)
(* What run_task promises for every set of files and failures and every    *)
(* limit on attempts, fixes, tasks and changes.                            *)
(*                                                                         *)
(* None of the properties is inductive.  That a transition is allowed      *)
(* needs the states each place of run_task can be reached in (Control);    *)
(* that the counters stay in range, the places where a counter is spent    *)
(* (Counters); that a report is true, what is known of the verdicts before *)
(* it is written (Verdicts).  That nothing is left unreported follows from *)
(* what the open patch remembers: the first change of it that hit a file   *)
(* holds the text the file had when the run began (Remembered).            *)
(*                                                                         *)
(* The second part is about FileChanges, the two workflows that change     *)
(* files of the repository outside a patch.  A content stays where it was  *)
(* put because whatever a rename lands on has come there after the target  *)
(* was found free (MoveTrue), and a report is complete because a line is   *)
(* in the journal before the run goes on (ReportIsTrue).                   *)
(***************************************************************************)
EXTENDS CodingRuntime, FileChanges, SequenceTheorems, TLAPS

\* The states of the machine in which each part of run_task is reached.
Control ==
    /\ phase = "starting" =>
           state \in {Startup[k] : k \in 1..5} /\ verdicts = <<>>
    /\ phase = "tasks" => state \in {"PLAN", "BASIC_VERIFY", "VERIFY_TASK"}
    /\ phase = "tasks" /\ state = "PLAN" => verdicts = <<>>
    /\ phase = "inspecting" => state = "EXECUTE_TASK"
    /\ phase \in {"coding", "patching", "undoing", "giving up"} =>
           state \in {"EXECUTE_TASK", "FIX_LOOP"}
    /\ phase = "checking" => state = "BASIC_VERIFY"
    /\ phase = "verifying" => state = "VERIFY_TASK"
    /\ phase = "fixing" => state = "FIX_LOOP"
    /\ phase = "final" => state = "FINAL_VERIFY"
    /\ phase \in {"reporting", "reported"} =>
           state \in {"BLOCKED", "FINAL_REPORT"}
    /\ phase = "finishing" => state = "RESUME_AVAILABLE"
    /\ invalid => phase = "raised" /\ state = "DONE"

\* What is left of a counter, and where it may have run out.
Counters ==
    /\ phase \notin {"raising", "raised"} => total <= MaxTotalTasks
    /\ phase \in {"coding", "patching", "undoing"} => attempts \in 1..4
    /\ phase \notin {"fixing", "reporting", "reported", "finishing",
                     "returning", "returned", "raising", "raised"} =>
           repeated \in [Failures -> 0..1]

Open == {"inspecting", "coding", "patching", "undoing", "giving up",
         "checking", "verifying", "fixing"}

Passed(n) == \A i \in 1..n : verdicts[i] = "passed"

\* All tasks but an open one have passed, and nothing is reported as done
\* after another verdict.
Verdicts ==
    /\ phase \in {"starting", "tasks", "final"} => Passed(Len(verdicts))
    /\ phase \in Open => verdicts # <<>> /\ Passed(Len(verdicts) - 1)
    /\ phase \in {"reporting", "reported"} /\ state = "FINAL_REPORT" =>
           Passed(Len(verdicts))
    /\ report # "none" =>
           phase \in {"reported", "finishing", "returning"} \union Ended
    /\ report = "done" => Passed(Len(verdicts))

\* The first change of the open patch that hit the file, if one did.
HitFirst(i, path) ==
    /\ undo[i].path = path
    /\ \A j \in 1..(i - 1) : undo[j].path # path

\* An unreported file has its first text, or the patch remembers that text.
Remembered ==
    \A path \in Paths \ changed :
        \/ /\ \A i \in 1..Len(undo) : undo[i].path # path
           /\ TextOf(repo[path]) = TextOf(origin[path])
        \/ \E i \in 1..Len(undo) :
              HitFirst(i, path) /\ undo[i].before = TextOf(origin[path])

Inv == CodingTypes /\ Control /\ Counters /\ Verdicts /\ Remembered

\* The part of Inv that the actions disturb together.
Core == CodingTypes /\ Control /\ Counters /\ Verdicts

----------------------------------------------------------------------------
\* The entries of ALLOWED that run_task relies on.
LEMMA Edges ==
    /\ \A k \in 1..5 : Startup[k + 1] \in Allowed(Startup[k])
    /\ "BLOCKED" \in Allowed("PREPARE_WORKSPACE")
    /\ \A s \in {"PLAN", "BASIC_VERIFY", "VERIFY_TASK"} :
           {"EXECUTE_TASK", "BLOCKED"} \subseteq Allowed(s)
    /\ \A s \in {"EXECUTE_TASK", "FIX_LOOP"} :
           {"BASIC_VERIFY", "FAILED_AND_ROLLED_BACK", "BLOCKED"}
               \subseteq Allowed(s)
    /\ {"VERIFY_TASK", "FINAL_VERIFY"} \subseteq Allowed("BASIC_VERIFY")
    /\ {"FIX_LOOP", "FINAL_VERIFY"} \subseteq Allowed("VERIFY_TASK")
    /\ "FINAL_REPORT" \in Allowed("FINAL_VERIFY")
    /\ \A s \in {"BLOCKED", "FINAL_REPORT"} : "RESUME_AVAILABLE" \in Allowed(s)
    /\ "DONE" \in Allowed("RESUME_AVAILABLE")
  BY DEF Allowed, Onward, Startup, Stops

\* The handler's transition is open wherever work goes on.
LEMMA FailureEdge ==
    \A s \in States \ Recorded :
        s # "DONE" => "FAILED_AND_ROLLED_BACK" \in Allowed(s)
  BY DEF States, Recorded, Stops, Allowed, Onward

\* Transitions lead to states, and the startup passes through states.
LEMMA StatesAreClosed ==
    /\ \A s \in States : Allowed(s) \subseteq States
    /\ \A k \in 1..6 : Startup[k] \in States
    /\ "INIT" = Startup[1]
  BY DEF States, Stops, Allowed, Onward, Startup

\* A transition that is allowed is taken.
LEMMA Taken ==
    ASSUME NEW next, NEW then, Transit(next, then), next \in Allowed(state)
    PROVE  state' = next /\ phase' = then /\ invalid' = invalid
  BY DEF Transit

----------------------------------------------------------------------------
\* A run begins with nothing judged, reported or spent.
LEMMA CoreStart == CodingInit => Core
<1> SUFFICES ASSUME CodingInit PROVE Core OBVIOUS
<1>1. CodingTypes
  <2>1. state \in States BY StatesAreClosed DEF CodingInit
  <2>2. repo \in [Paths -> Texts] /\ origin \in [Paths -> Texts]
    BY Bounds DEF CodingInit, Texts
  <2>3. /\ verdicts \in Seq({"open", "passed", "failed"})
        /\ undo \in Seq(Change) /\ Len(undo) <= MaxChanges
    BY Bounds DEF CodingInit
  <2>4. /\ total \in 0..(MaxTotalTasks + 1) /\ fix \in 0..MaxFixAttempts
        /\ attempts \in 0..4 /\ repeated \in [Failures -> 0..2]
    BY Bounds DEF CodingInit
  <2>5. /\ phase \in Phases /\ invalid \in BOOLEAN /\ mode \in Modes
        /\ kind \in TaskKinds /\ refused \in BOOLEAN /\ changed \subseteq Paths
        /\ report \in {"none", "blocked", "done"}
    BY DEF CodingInit, Phases, TaskKinds
  <2> QED BY <2>1, <2>2, <2>3, <2>4, <2>5 DEF CodingTypes
<1>2. Control BY DEF CodingInit, Control, Startup
<1>3. Counters BY Bounds DEF CodingInit, Counters
<1>4. Verdicts BY DEF CodingInit, Verdicts, Passed, Open, Ended
<1> QED BY <1>1, <1>2, <1>3, <1>4 DEF Core

\* Every patch loop begins with at least one attempt.
LEMMA Attempted == FirstAttempts \in 1..4 /\ FixAttempts \in 1..4
  BY Bounds DEF FirstAttempts, FixAttempts

\* An attempt that is lost was there to lose.
LEMMA Loses ==
    ASSUME attempts \in 1..4, LoseAttempt
    PROVE  /\ attempts' \in 0..4 /\ phase' \in {"coding", "giving up"}
           /\ phase' = "coding" => attempts' \in 1..4
<1>1. attempts' = attempts - 1 BY DEF LoseAttempt, AttemptsAfter
<1>2. attempts' \in 0..3 BY <1>1
<1>3. phase' = IF attempts' > 0 THEN "coding" ELSE "giving up" BY DEF LoseAttempt
<1>4. attempts' > 0 => attempts' \in 1..4 BY <1>2
<1>5. attempts' \in 0..4 BY <1>2
<1> QED BY <1>3, <1>4, <1>5, Zenon

\* A verdict replaces that of the last task.
LEMMA Judges ==
    ASSUME NEW verdict \in {"passed", "failed"}, Judge(verdict),
           verdicts \in Seq({"open", "passed", "failed"}), verdicts # <<>>
    PROVE  /\ verdicts' \in Seq({"open", "passed", "failed"})
           /\ verdicts' # <<>> /\ Len(verdicts') = Len(verdicts)
           /\ Len(verdicts) \in Nat \ {0}
           /\ verdicts'[Len(verdicts)] = verdict
           /\ \A i \in 1..(Len(verdicts) - 1) : verdicts'[i] = verdicts[i]
<1> DEFINE n == Len(verdicts)
<1>1. n \in Nat \ {0} BY EmptySeq
<1>2. verdicts' = [verdicts EXCEPT ![n] = verdict] BY DEF Judge
<1>3. /\ verdicts' \in Seq({"open", "passed", "failed"})
      /\ Len(verdicts') = n
  BY <1>1, <1>2, ExceptSeq
<1>4. \A j \in 1..n :
          verdicts'[j] = IF j = n THEN verdict ELSE verdicts[j]
  BY <1>1, <1>2, ExceptSeq
<1>5. verdicts' # <<>> BY <1>1, <1>3, EmptySeq
<1> QED BY <1>1, <1>3, <1>4, <1>5

\* While the task stays open, or the run is blocked, the verdicts say as much
\* as before.
LEMMA VerdictsKept ==
    ASSUME Verdicts, verdicts' = verdicts, report' = report, phase \in Open,
           \/ phase' \in Open \union {"raising"}
           \/ phase' = "reporting" /\ state' = "BLOCKED"
    PROVE  Verdicts'
<1>1. report' = "none" /\ verdicts # <<>> /\ Passed(Len(verdicts) - 1)'
  BY DEF Verdicts, Passed, Open, Ended
<1> QED BY <1>1 DEF Verdicts, Open, Ended

\* After an error the verdicts only have to be as good as the report.
LEMMA VerdictsAfterError ==
    ASSUME Verdicts, verdicts' = verdicts, report' = report, phase' = "raised"
    PROVE  Verdicts'
<1>1. report' = "done" => Passed(Len(verdicts))' BY DEF Verdicts, Passed
<1> QED BY <1>1 DEF Verdicts, Open, Ended

\* Every action finds the state of the machine, the counters and the verdicts
\* as the one before left them.
LEMMA CoreStep == Core /\ [CodingNext]_codingVars => Core'
<1> SUFFICES ASSUME Core, [CodingNext]_codingVars PROVE Core' OBVIOUS
<1> USE DEF Core
<1>1. CASE GetReady
  <2>0. /\ invalid' = invalid
        /\ \E k \in 1..5 :
              /\ state = Startup[k] /\ state' = Startup[k + 1]
              /\ phase' = IF k = 5 THEN "tasks" ELSE "starting"
    BY <1>1, Edges, Taken DEF GetReady
  <2>1. CodingTypes'
    BY <1>1, <2>0, StatesAreClosed DEF GetReady, CodingTypes, Phases, files, task,
       fixing, fixed
  <2>2. Control'
    <3>1. PICK k \in 1..5 :
             /\ state' = Startup[k + 1]
             /\ phase' = IF k = 5 THEN "tasks" ELSE "starting"
      BY <2>0
    <3>2. k # 5 => phase' = "starting" /\ state' \in {Startup[j] : j \in 1..5} BY <3>1
    <3>3. k = 5 => phase' = "tasks" /\ state' = "PLAN" BY <3>1 DEF Startup
    <3>4. verdicts = <<>> => verdicts' = <<>> BY <1>1 DEF GetReady, task
    <3>5. verdicts = <<>> BY <1>1 DEF GetReady, Control
    <3> QED BY <1>1, <2>0, <3>2, <3>3, <3>4 DEF GetReady, Control
  <2>3. Counters' BY <1>1, <2>0 DEF GetReady, Counters, task, fixing
  <2>4. Verdicts' BY <1>1, <2>0 DEF GetReady, Verdicts, Passed, Ended, Open, task
  <2> QED BY <2>1, <2>2, <2>3, <2>4
<1>2. CASE DirtyRepository
  <2>0. state' = "BLOCKED" /\ phase' = "raising" /\ invalid' = invalid
    BY <1>2, Edges, Taken DEF DirtyRepository
  <2>1. CodingTypes'
    BY <1>2, <2>0 DEF DirtyRepository, CodingTypes, Phases, States, Stops, files,
       task, fixing, fixed
  <2>2. Control' BY <1>2, <2>0 DEF DirtyRepository, Control
  <2>3. Counters' BY <2>0 DEF DirtyRepository, Counters
  <2>4. Verdicts' BY <1>2, <2>0 DEF DirtyRepository, Verdicts, Ended, Open
  <2> QED BY <2>1, <2>2, <2>3, <2>4
<1>3. CASE NextTask
  <2>0. /\ invalid' = invalid
        /\ \/ /\ state' = "BLOCKED" /\ phase' = "raising"
           \/ /\ total' <= MaxTotalTasks
              /\ state' = "EXECUTE_TASK"
              /\ phase' = IF kind' = "inspect" THEN "inspecting" ELSE "coding"
    <3>1. {"EXECUTE_TASK", "BLOCKED"} \subseteq Allowed(state)
      BY <1>3, Edges DEF NextTask, Control
    <3>2. CASE total + 1 > MaxTotalTasks
      BY <1>3, <3>1, <3>2, Taken DEF NextTask, TooManyTasks
    <3>3. CASE ~(total + 1 > MaxTotalTasks)
      BY <1>3, <3>1, <3>3, Taken, Bounds DEF NextTask
    <3> QED BY <3>2, <3>3
  <2>1. CodingTypes'
    <3>1. /\ total' \in 0..(MaxTotalTasks + 1) /\ kind' \in TaskKinds
          /\ attempts' \in 0..4 /\ fix' \in 0..MaxFixAttempts
      BY <1>3, Bounds, Attempted
      DEF NextTask, TooManyTasks, CodingTypes, Control, Counters
    <3>2. verdicts' \in Seq({"open", "passed", "failed"})
      <4>1. Append(verdicts, "open") \in Seq({"open", "passed", "failed"})
        BY DEF CodingTypes
      <4> QED BY <1>3, <4>1 DEF NextTask
    <3>3. state' \in States /\ phase' \in Phases /\ invalid' \in BOOLEAN
      BY <2>0 DEF CodingTypes, States, Stops, Onward, Phases, Ended
    <3> QED BY <1>3, <3>1, <3>2, <3>3 DEF NextTask, CodingTypes, files, fixed
  <2>2. Control' BY <1>3, <2>0 DEF NextTask, Control
  <2>3. Counters'
    BY <1>3, <2>0, Bounds DEF NextTask, TooManyTasks, FirstAttempts, Counters
  <2>4. Verdicts'
    <3>1. phase = "tasks" /\ report = "none" /\ report' = report
      BY <1>3 DEF NextTask, Verdicts, Ended
    <3>2. CASE phase' = "raising" BY <3>1, <3>2 DEF Verdicts, Open
    <3>3. CASE phase' # "raising"
      <4>1. verdicts' = Append(verdicts, "open") /\ phase' \in Open
        BY <1>3, <2>0, <3>3 DEF NextTask, TooManyTasks, Open, Transit
      <4>2. Passed(Len(verdicts)) /\ Len(verdicts) \in Nat BY <3>1 DEF Verdicts
      <4>3. verdicts' # <<>> /\ Passed(Len(verdicts) - 1)' BY <4>1, <4>2 DEF Passed
      <4> QED BY <3>1, <4>1, <4>3 DEF Verdicts, Open, Ended
    <3> QED BY <3>2, <3>3
  <2> QED BY <2>1, <2>2, <2>3, <2>4
<1>4. CASE Inspect
  <2>0. state' = "BASIC_VERIFY" /\ phase' = "tasks" /\ invalid' = invalid
    BY <1>4, Edges, Taken DEF Inspect, Control
  <2>1. CodingTypes'
    <3>1. verdicts' \in Seq({"open", "passed", "failed"})
      BY <1>4, Judges DEF Inspect, CodingTypes, Verdicts, Open
    <3> QED BY <1>4, <2>0, <3>1 DEF Inspect, CodingTypes, Phases, States, Onward, files,
         fixing, fixed
  <2>2. Control' BY <1>4, <2>0 DEF Inspect, Control
  <2>3. Counters' BY <1>4, <2>0 DEF Inspect, Counters, fixing
  <2>4. Verdicts' BY <1>4, <2>0 DEF Inspect, Judge, Verdicts, Passed, Ended, Open
  <2> QED BY <2>1, <2>2, <2>3, <2>4
<1>5. CASE CoderIsNoUse
  <2>1. CodingTypes'
    BY <1>5, Loses DEF CoderIsNoUse, Counters, CodingTypes, Phases, Ended, TaskKinds,
       States, Stops, Onward, machine, files, task, fixing, fixed
  <2>2. Control' BY <1>5, Loses DEF CoderIsNoUse, Control, Counters, machine
  <2>3. Counters' BY <1>5, Loses DEF CoderIsNoUse, CodingTypes, Counters, task, fixing
  <2>4. Verdicts' BY <1>5, Loses, VerdictsKept DEF CoderIsNoUse, Counters, Open, task
  <2> QED BY <2>1, <2>2, <2>3, <2>4
<1>6. CASE NothingToChange
  <2>0. state' = "BASIC_VERIFY" /\ phase' = "checking" /\ invalid' = invalid
    BY <1>6, Edges, Taken DEF NothingToChange, Control
  <2>1. CodingTypes'
    BY <1>6, <2>0 DEF NothingToChange, CodingTypes, Phases, States, Onward, files,
       task, fixing, fixed
  <2>2. Control' BY <1>6, <2>0 DEF NothingToChange, Control
  <2>3. Counters' BY <1>6 DEF NothingToChange, Counters, task, fixing
  <2>4. Verdicts' BY <1>6, <2>0 DEF NothingToChange, Verdicts, Passed, Ended, Open, task
  <2> QED BY <2>1, <2>2, <2>3, <2>4
<1>7. CASE CoderPlans
  <2>1. CodingTypes'
    BY <1>7 DEF CoderPlans, CodingTypes, Phases, machine, files, task, fixing, fixed
  <2>2. Control' BY <1>7 DEF CoderPlans, Control, machine
  <2>3. Counters' BY <1>7 DEF CoderPlans, Counters, task, fixing
  <2>4. Verdicts' BY <1>7 DEF CoderPlans, Verdicts, Passed, Ended, Open, task
  <2> QED BY <2>1, <2>2, <2>3, <2>4
<1>8. CASE ChangeFile
  <2>1. CodingTypes'
    <3> DEFINE Typed == /\ repo' \in [Paths -> Texts] /\ refused' \in BOOLEAN
                        /\ undo' \in Seq(Change) /\ Len(undo') <= MaxChanges
    <3>1. Typed
      <4>1. CASE refused' = TRUE /\ UNCHANGED <<repo, undo>> BY <4>1 DEF CodingTypes
      <4>2. ASSUME Len(undo) < MaxChanges, UNCHANGED refused,
                   NEW path \in Paths, NEW type \in ChangeTypes,
                   NEW text \in {"empty", "new"},
                   repo' = [repo EXCEPT ![path] = AfterText(type, text)],
                   undo' = Append(undo, [path |-> path, type |-> type,
                                         before |-> TextOf(repo[path])])
            PROVE  Typed
        <5>1. repo' \in [Paths -> Texts] BY <4>2 DEF CodingTypes, AfterText, Texts
        <5>2. [path |-> path, type |-> type, before |-> TextOf(repo[path])]
                  \in Change
          BY DEF CodingTypes, Change, TextOf, Texts
        <5>3. undo' \in Seq(Change) /\ Len(undo') = Len(undo) + 1
          BY <4>2, <5>2 DEF CodingTypes
        <5>4. Len(undo') <= MaxChanges BY <4>2, Bounds
        <5> QED BY <4>2, <5>1, <5>3, <5>4 DEF CodingTypes
      <4> QED BY <1>8, <4>1, <4>2 DEF ChangeFile
    <3> QED BY <1>8, <3>1 DEF ChangeFile, CodingTypes, machine, task, fixing, fixed
  <2>2. Control' BY <1>8 DEF ChangeFile, Control, machine
  <2>3. Counters' BY <1>8 DEF ChangeFile, Counters, task, fixing
  <2>4. Verdicts' BY <1>8 DEF ChangeFile, Verdicts, Passed, task
  <2> QED BY <2>1, <2>2, <2>3, <2>4
<1>9. CASE PatchApplied
  <2>0. state' = "BASIC_VERIFY" /\ phase' = "checking" /\ invalid' = invalid
    BY <1>9, Edges, Taken DEF PatchApplied, Control
  <2>1. CodingTypes'
    <3>1. undo' \in Seq(Change) /\ Len(undo') <= MaxChanges
      BY <1>9, Bounds DEF PatchApplied, CallOver
    <3>2. changed' \subseteq Paths
      <4>1. \A i \in DOMAIN undo : undo[i].path \in Paths
        <5>1. \A i \in DOMAIN undo : undo[i] \in Change BY DEF CodingTypes
        <5> QED BY <5>1 DEF Change
      <4> QED BY <1>9, <4>1 DEF PatchApplied, UndoPaths, CodingTypes
    <3> QED BY <1>9, <2>0, <3>1, <3>2 DEF PatchApplied, CallOver, CodingTypes, Phases,
         States, Onward, task, fixing, fixed
  <2>2. Control' BY <1>9, <2>0 DEF PatchApplied, Control
  <2>3. Counters' BY <1>9 DEF PatchApplied, Counters, task, fixing
  <2>4. Verdicts' BY <1>9, <2>0 DEF PatchApplied, Verdicts, Passed, Ended, Open, task
  <2> QED BY <2>1, <2>2, <2>3, <2>4
<1>10. CASE PatchRefused
  <2>1. CodingTypes'
    BY <1>10 DEF PatchRefused, CodingTypes, Phases, machine, files, task, fixing,
       fixed
  <2>2. Control' BY <1>10 DEF PatchRefused, Control, machine
  <2>3. Counters' BY <1>10 DEF PatchRefused, Counters, task, fixing
  <2>4. Verdicts' BY <1>10 DEF PatchRefused, Verdicts, Passed, Ended, Open, task
  <2> QED BY <2>1, <2>2, <2>3, <2>4
<1>11. CASE UndoChange
  <2>1. CodingTypes'
    <3>1. Len(undo) \in Nat \ {0} /\ undo[Len(undo)] \in Change
      BY <1>11 DEF UndoChange, CodingTypes
    <3>2. repo' \in [Paths -> Texts]
      BY <1>11, <3>1 DEF UndoChange, NextUndone, Restored, CodingTypes, Change,
         Texts
    <3>3. undo' \in Seq(Change) /\ Len(undo') = Len(undo) - 1
      BY <1>11, <3>1 DEF UndoChange, CodingTypes
    <3>4. Len(undo') <= MaxChanges BY <3>3, Bounds DEF CodingTypes
    <3> QED
      BY <1>11, <3>2, <3>4 DEF UndoChange, CodingTypes, machine, task, fixing, fixed
  <2>2. Control' BY <1>11 DEF UndoChange, Control, machine
  <2>3. Counters' BY <1>11 DEF UndoChange, Counters, task, fixing
  <2>4. Verdicts' BY <1>11 DEF UndoChange, Verdicts, Passed, task
  <2> QED BY <2>1, <2>2, <2>3, <2>4
<1>12. CASE Undone
  <2>1. CodingTypes'
    BY <1>12, Loses, EmptySeq, Bounds DEF Undone, CallOver, Counters, CodingTypes,
       Phases, Ended, TaskKinds, States, Stops, Onward, machine, files, task,
       fixing, fixed
  <2>2. Control' BY <1>12, Loses DEF Undone, Control, Counters, machine
  <2>3. Counters' BY <1>12, Loses DEF Undone, CodingTypes, Counters, task, fixing
  <2>4. Verdicts' BY <1>12, Loses, VerdictsKept DEF Undone, Counters, Open, task
  <2> QED BY <2>1, <2>2, <2>3, <2>4
<1>13. CASE GiveUp
  <2>0. /\ invalid' = invalid
        /\ \/ state' = "FAILED_AND_ROLLED_BACK" /\ phase' = "raising"
           \/ state' = "BLOCKED" /\ phase' = "reporting"
    BY <1>13, Edges, Taken DEF GiveUp, Control
  <2>1. CodingTypes'
    BY <1>13, <2>0 DEF GiveUp, CodingTypes, Phases, States, Stops, files, task,
       fixing, fixed
  <2>2. Control' BY <1>13, <2>0 DEF GiveUp, Control
  <2>3. Counters' BY <1>13, <2>0 DEF GiveUp, Counters, task, fixing
  <2>4. Verdicts' BY <1>13, <2>0, VerdictsKept DEF GiveUp, Open, task
  <2> QED BY <2>1, <2>2, <2>3, <2>4
<1>14. CASE BasicVerify
  <2>0. state' = "VERIFY_TASK" /\ phase' = "verifying" /\ invalid' = invalid
    BY <1>14, Edges, Taken DEF BasicVerify, Control
  <2>1. CodingTypes'
    BY <1>14, <2>0 DEF BasicVerify, CodingTypes, Phases, States, Onward, files,
       task, fixing, fixed
  <2>2. Control' BY <1>14, <2>0 DEF BasicVerify, Control
  <2>3. Counters' BY <1>14, <2>0 DEF BasicVerify, Counters, task, fixing
  <2>4. Verdicts' BY <1>14, <2>0 DEF BasicVerify, Verdicts, Passed, Ended, Open, task
  <2> QED BY <2>1, <2>2, <2>3, <2>4
<1>15. CASE VerifierPasses
  <2>1. CodingTypes'
    <3>1. verdicts' \in Seq({"open", "passed", "failed"})
      BY <1>15, Judges DEF VerifierPasses, CodingTypes, Verdicts, Open
    <3> QED BY <1>15, <3>1 DEF VerifierPasses, CodingTypes, Phases, machine, files,
         fixing, fixed
  <2>2. Control' BY <1>15 DEF VerifierPasses, Control, machine
  <2>3. Counters' BY <1>15 DEF VerifierPasses, Counters, fixing
  <2>4. Verdicts' BY <1>15 DEF VerifierPasses, Judge, Verdicts, Passed, Ended, Open
  <2> QED BY <2>1, <2>2, <2>3, <2>4
<1>16. CASE VerifierFails
  <2>0. /\ invalid' = invalid
        /\ \/ state' = "BLOCKED" /\ phase' = "reporting"
           \/ state' = "FIX_LOOP" /\ phase' = "fixing"
    BY <1>16, Edges, Taken DEF VerifierFails, BlocksOnFailure, Control
  <2>1. CodingTypes'
    <3>1. verdicts' \in Seq({"open", "passed", "failed"})
      BY <1>16, Judges DEF VerifierFails, CodingTypes, Verdicts, Open
    <3>2. repeated' \in [Failures -> 0..2] BY <1>16 DEF VerifierFails, Counters
    <3> QED BY <1>16, <2>0, <3>1, <3>2
      DEF VerifierFails, Phases, States, Stops, Onward, CodingTypes, files, fixed
  <2>2. Control' BY <1>16, <2>0 DEF VerifierFails, Control
  <2>3. Counters' BY <1>16, <2>0 DEF VerifierFails, Counters
  <2>4. Verdicts'
    <3>1. verdicts' # <<>> /\ Passed(Len(verdicts) - 1)'
      BY <1>16, Judges DEF VerifierFails, CodingTypes, Verdicts, Open, Passed
    <3>2. report = "none" /\ report' = report
      BY <1>16 DEF VerifierFails, Verdicts, Ended
    <3> QED BY <2>0, <3>1, <3>2 DEF Verdicts, Open, Ended
  <2> QED BY <2>1, <2>2, <2>3, <2>4
<1>17. CASE TryFix
  <2>0. /\ invalid' = invalid
        /\ \/ state' = "BLOCKED" /\ phase' \in {"reporting", "raising"}
           \/ state' = state /\ phase' = "coding"
    BY <1>17, Edges, Taken DEF TryFix, Control, machine
  <2>1. CodingTypes'
    <3>1. fix' \in 0..MaxFixAttempts /\ total' \in 0..(MaxTotalTasks + 1)
      BY <1>17, Bounds DEF TryFix, NoFixLeft, CodingTypes, Counters
    <3>2. attempts' \in 0..4 BY <1>17, Attempted DEF TryFix, CodingTypes
    <3>3. state' \in States /\ phase' \in Phases /\ invalid' \in BOOLEAN
      BY <2>0 DEF CodingTypes, States, Stops, Onward, Phases
    <3> QED BY <1>17, <3>1, <3>2, <3>3 DEF TryFix, CodingTypes, files, fixed
  <2>2. Control' BY <1>17, <2>0 DEF TryFix, Control
  <2>3. Counters'
    <3>1. CASE phase' = "raising" BY <3>1 DEF Counters
    <3>2. CASE phase' = "reporting"
      <4>1. total' = total BY <1>17, <3>2, <2>0, Taken, Edges
        DEF TryFix, Transit, Control
      <4> QED BY <1>17, <3>2, <4>1 DEF TryFix, Counters
    <3>3. CASE phase' = "coding"
      <4>1. ~SameFailureTwice /\ total' <= MaxTotalTasks /\ attempts' \in 1..4
        BY <1>17, <3>3, Attempted, Bounds
        DEF TryFix, Transit, TooManyTasks, CodingTypes, Counters
      <4>2. repeated' \in [Failures -> 0..1]
        BY <1>17, <4>1 DEF TryFix, SameFailureTwice, CodingTypes
      <4> QED BY <4>1, <4>2 DEF Counters
    <3> QED BY <2>0, <3>1, <3>2, <3>3
  <2>4. Verdicts' BY <1>17, <2>0, VerdictsKept DEF TryFix, Open, Control
  <2> QED BY <2>1, <2>2, <2>3, <2>4
<1>18. CASE FinalVerify
  <2>0. state' = "FINAL_VERIFY" /\ phase' = "final" /\ invalid' = invalid
    BY <1>18, Edges, Taken DEF FinalVerify, Control
  <2>1. CodingTypes'
    BY <1>18, <2>0 DEF FinalVerify, CodingTypes, Phases, States, Onward, files,
       task, fixing, fixed
  <2>2. Control' BY <1>18, <2>0 DEF FinalVerify, Control
  <2>3. Counters' BY <1>18, <2>0 DEF FinalVerify, Counters, task, fixing
  <2>4. Verdicts' BY <1>18 DEF FinalVerify, Verdicts, Passed, Ended, task
  <2> QED BY <2>1, <2>2, <2>3, <2>4
<1>19. CASE FinalReport
  <2>0. state' = "FINAL_REPORT" /\ phase' = "reporting" /\ invalid' = invalid
    BY <1>19, Edges, Taken DEF FinalReport, Control
  <2>1. CodingTypes'
    BY <1>19, <2>0 DEF FinalReport, CodingTypes, Phases, States, Onward, files,
       task, fixing, fixed
  <2>2. Control' BY <1>19, <2>0 DEF FinalReport, Control
  <2>3. Counters' BY <1>19, <2>0 DEF FinalReport, Counters, task
  <2>4. Verdicts' BY <1>19, <2>0 DEF FinalReport, Verdicts, Passed, Ended, Open, task
  <2> QED BY <2>1, <2>2, <2>3, <2>4
<1>20. CASE WriteReport
  <2>1. CodingTypes'
    BY <1>20 DEF WriteReport, CodingTypes, Phases, machine, files, task, fixing,
       fixed
  <2>2. Control' BY <1>20 DEF WriteReport, Control, machine
  <2>3. Counters' BY <1>20 DEF WriteReport, Counters, task
  <2>4. Verdicts'
    BY <1>20 DEF WriteReport, Verdicts, Passed, Control, Open, machine, task
  <2> QED BY <2>1, <2>2, <2>3, <2>4
<1>21. CASE MakeResumable
  <2>0. /\ state' = "RESUME_AVAILABLE" /\ invalid' = invalid
        /\ phase' = IF report = "done" THEN "finishing" ELSE "returning"
    BY <1>21, Edges, Taken DEF MakeResumable, Control
  <2>1. CodingTypes'
    BY <1>21, <2>0 DEF MakeResumable, CodingTypes, Phases, States, Onward, files,
       task, fixing, fixed
  <2>2. Control' BY <1>21, <2>0 DEF MakeResumable, Control
  <2>3. Counters' BY <1>21, <2>0 DEF MakeResumable, Counters, task
  <2>4. Verdicts' BY <1>21, <2>0 DEF MakeResumable, Verdicts, Passed, Open, task
  <2> QED BY <2>1, <2>2, <2>3, <2>4
<1>22. CASE FinishRun
  <2>0. state' = "DONE" /\ phase' = "returning" /\ invalid' = invalid
    BY <1>22, Edges, Taken DEF FinishRun, Control
  <2>1. CodingTypes'
    BY <1>22, <2>0 DEF FinishRun, CodingTypes, Phases, States, files, task, fixing,
       fixed
  <2>2. Control' BY <1>22, <2>0 DEF FinishRun, Control
  <2>3. Counters' BY <1>22, <2>0 DEF FinishRun, Counters, task
  <2>4. Verdicts' BY <1>22, <2>0 DEF FinishRun, Verdicts, Passed, Open, task
  <2> QED BY <2>1, <2>2, <2>3, <2>4
<1>23. CASE ReturnReport
  <2>1. CodingTypes'
    BY <1>23 DEF ReturnReport, CodingTypes, Phases, Ended, machine, files, task, fixing,
       fixed
  <2>2. Control' BY <1>23 DEF ReturnReport, Control, machine
  <2>3. Counters' BY <1>23 DEF ReturnReport, Counters, task
  <2>4. Verdicts' BY <1>23 DEF ReturnReport, Verdicts, Passed, Ended, Open, task
  <2> QED BY <2>1, <2>2, <2>3, <2>4
<1>24. CASE RaiseOut
  <2>0. /\ phase' = "raised"
        /\ \/ state' = state /\ invalid' = invalid
           \/ state' = "FAILED_AND_ROLLED_BACK" /\ invalid' = invalid
           \/ state' = state /\ state = "DONE" /\ invalid'
    BY <1>24, FailureEdge DEF RaiseOut, CodingTypes, machine
  <2>1. CodingTypes'
    BY <1>24, <2>0 DEF RaiseOut, CodingTypes, Phases, Ended, States, Stops, files,
       task, fixing, fixed
  <2>2. Control'
    <3>1. phase' = "raised" BY <2>0
    <3>2. invalid' => state' = "DONE" BY <1>24, <2>0 DEF Control, RaiseOut, Ended
    <3> QED BY <3>1, <3>2 DEF Control
  <2>3. Counters' BY <2>0 DEF Counters
  <2>4. Verdicts' BY <1>24, <2>0, VerdictsAfterError DEF RaiseOut, task
  <2> QED BY <2>1, <2>2, <2>3, <2>4
<1>25. CASE UNCHANGED codingVars
  <2>1. CodingTypes'
    BY <1>25 DEF CodingTypes, codingVars, machine, files, task, fixing, fixed
  <2>2. Control' /\ Counters'
    BY <1>25 DEF Control, Counters, codingVars, machine, task, fixing
  <2>3. Verdicts' BY <1>25 DEF Verdicts, Passed, codingVars, machine, task
  <2> QED BY <2>1, <2>2, <2>3
<1> QED BY <1>1, <1>2, <1>3, <1>4, <1>5, <1>6, <1>7, <1>8, <1>9, <1>10, <1>11,
     <1>12, <1>13, <1>14, <1>15, <1>16, <1>17, <1>18, <1>19, <1>20, <1>21,
     <1>22, <1>23, <1>24, <1>25 DEF CodingNext, Work

----------------------------------------------------------------------------
\* Rolling a change back restores the text before it, and a file that was
\* missing counts as one with an empty text.
LEMMA RestoredText ==
    ASSUME NEW change \in Change
    PROVE  TextOf(Restored(change)) = change.before
  BY DEF Change, Texts, TextOf, Restored

\* Only writing and undoing a change disturb what the patch remembers.
LEMMA RememberedKept ==
    ASSUME Remembered, UNCHANGED <<repo, undo, origin, changed>>
    PROVE  Remembered'
  BY DEF Remembered, HitFirst

\* Writing, undoing and accepting changes keep the first texts known.
LEMMA RememberedStep == CodingTypes /\ Remembered /\ [CodingNext]_codingVars => Remembered'
<1> SUFFICES ASSUME CodingTypes, Remembered, [CodingNext]_codingVars PROVE Remembered'
  OBVIOUS
<1> DEFINE n == Len(undo)
<1>0. n \in Nat /\ undo \in [1..n -> Change] BY LenProperties DEF CodingTypes
<1>1. CASE ChangeFile
  <2>1. CASE UNCHANGED <<repo, undo>>
    BY <1>1, <2>1, RememberedKept DEF ChangeFile, fixed
  <2>2. ASSUME NEW path \in Paths, NEW type \in ChangeTypes,
               NEW text \in {"empty", "new"},
               repo' = [repo EXCEPT ![path] = AfterText(type, text)],
               undo' = Append(undo, [path |-> path, type |-> type,
                                     before |-> TextOf(repo[path])])
        PROVE  Remembered'
    <3> DEFINE entry == [path |-> path, type |-> type,
                         before |-> TextOf(repo[path])]
    <3>1. /\ Len(undo') = n + 1 /\ undo'[n + 1] = entry
          /\ \A i \in 1..n : undo'[i] = undo[i]
      BY <1>0, <2>2
    <3>2. changed' = changed /\ origin' = origin BY <1>1 DEF ChangeFile, fixed
    <3>3. ASSUME NEW p \in Paths \ changed
          PROVE  \/ /\ \A i \in 1..(n + 1) : undo'[i].path # p
                    /\ TextOf(repo'[p]) = TextOf(origin[p])
                 \/ \E i \in 1..(n + 1) :
                       /\ undo'[i].path = p
                       /\ \A j \in 1..(i - 1) : undo'[j].path # p
                       /\ undo'[i].before = TextOf(origin[p])
      <4>1. CASE \E i \in 1..n :
                    HitFirst(i, p) /\ undo[i].before = TextOf(origin[p])
        <5>1. PICK i \in 1..n :
                 HitFirst(i, p) /\ undo[i].before = TextOf(origin[p])
          BY <4>1
        <5>2. i \in 1..(n + 1) /\ undo'[i] = undo[i] BY <1>0, <3>1
        <5>3. \A j \in 1..(i - 1) : undo'[j].path # p BY <1>0, <3>1, <5>1 DEF HitFirst
        <5> QED BY <5>1, <5>2, <5>3 DEF HitFirst
      <4>2. CASE /\ \A i \in 1..n : undo[i].path # p
                 /\ TextOf(repo[p]) = TextOf(origin[p])
        <5>1. CASE p = path BY <1>0, <3>1, <4>2, <5>1
        <5>2. CASE p # path
          <6>1. repo'[p] = repo[p] BY <2>2, <5>2 DEF CodingTypes
          <6>2. \A i \in 1..(n + 1) : undo'[i].path # p BY <1>0, <3>1, <4>2, <5>2
          <6> QED BY <4>2, <6>1, <6>2
        <5> QED BY <5>1, <5>2
      <4> QED BY <4>1, <4>2 DEF Remembered
    <3> QED BY <3>1, <3>2, <3>3 DEF Remembered, HitFirst
  <2> QED BY <1>1, <2>1, <2>2 DEF ChangeFile
<1>2. CASE UndoChange
  <2>1. n \in Nat \ {0} /\ undo[n] \in Change
    BY <1>0, <1>2, EmptySeq DEF UndoChange, CodingTypes
  <2>2. /\ Len(undo') = n - 1
        /\ \A i \in 1..(n - 1) : undo'[i] = undo[i]
    BY <1>2, <2>1 DEF UndoChange, NextUndone
  <2>3. repo' = [repo EXCEPT ![undo[n].path] = Restored(undo[n])]
    BY <1>2 DEF UndoChange, NextUndone
  <2>4. changed' = changed /\ origin' = origin BY <1>2 DEF UndoChange, fixed
  <2>5. ASSUME NEW p \in Paths \ changed
        PROVE  \/ /\ \A i \in 1..(n - 1) : undo'[i].path # p
                  /\ TextOf(repo'[p]) = TextOf(origin[p])
               \/ \E i \in 1..(n - 1) :
                     /\ undo'[i].path = p
                     /\ \A j \in 1..(i - 1) : undo'[j].path # p
                     /\ undo'[i].before = TextOf(origin[p])
    <3>1. CASE /\ \A i \in 1..n : undo[i].path # p
               /\ TextOf(repo[p]) = TextOf(origin[p])
      <4>1. repo'[p] = repo[p] BY <2>1, <2>3, <3>1 DEF CodingTypes
      <4> QED BY <2>1, <2>2, <3>1, <4>1
    <3>2. ASSUME NEW i \in 1..n, HitFirst(i, p),
                 undo[i].before = TextOf(origin[p])
          PROVE  \/ /\ \A k \in 1..(n - 1) : undo'[k].path # p
                    /\ TextOf(repo'[p]) = TextOf(origin[p])
                 \/ \E k \in 1..(n - 1) :
                       /\ undo'[k].path = p
                       /\ \A j \in 1..(k - 1) : undo'[j].path # p
                       /\ undo'[k].before = TextOf(origin[p])
      <4>1. CASE i = n
        <5>1. TextOf(repo'[p]) = TextOf(origin[p])
          BY <2>1, <2>3, <3>2, <4>1, RestoredText DEF HitFirst, CodingTypes
        <5> QED BY <2>1, <2>2, <3>2, <4>1, <5>1 DEF HitFirst
      <4>2. CASE i # n
        <5>1. i \in 1..(n - 1) /\ undo'[i] = undo[i] BY <2>1, <2>2, <4>2
        <5>2. \A j \in 1..(i - 1) : undo'[j].path # p
          BY <2>1, <2>2, <3>2, <5>1 DEF HitFirst
        <5> QED BY <3>2, <5>1, <5>2 DEF HitFirst
      <4> QED BY <4>1, <4>2
    <3> QED BY <3>1, <3>2 DEF Remembered
  <2> QED BY <2>2, <2>4, <2>5 DEF Remembered, HitFirst
<1>3. CASE PatchApplied
  <2>1. /\ changed' = changed \union UndoPaths /\ undo' = <<>>
        /\ repo' = repo /\ origin' = origin
    BY <1>3 DEF PatchApplied, CallOver, fixed
  <2>2. ASSUME NEW p \in Paths \ changed, p \notin UndoPaths
        PROVE  TextOf(repo[p]) = TextOf(origin[p])
    BY <1>0, <2>2 DEF Remembered, UndoPaths, HitFirst
  <2> QED BY <2>1, <2>2 DEF Remembered
<1>4. CASE Undone BY <1>4, RememberedKept DEF Undone, CallOver, fixed
<1>5. CASE UNCHANGED <<repo, undo, origin, changed>> BY <1>5, RememberedKept
<1>6. CASE UNCHANGED codingVars BY <1>6, RememberedKept DEF codingVars, files, fixed
<1> QED BY <1>1, <1>2, <1>3, <1>4, <1>5, <1>6
  DEF CodingNext, Work, GetReady, DirtyRepository, NextTask, Inspect, CoderIsNoUse,
      NothingToChange, CoderPlans, PatchRefused, GiveUp, BasicVerify,
      VerifierPasses, VerifierFails, TryFix, FinalVerify, FinalReport,
      WriteReport, MakeResumable, FinishRun, ReturnReport, RaiseOut, files, fixed

----------------------------------------------------------------------------
\* The inductive invariant of run_task.
THEOREM Invariant == CodingSpec => []Inv
<1>1. CodingInit => Inv
  <2>1. CodingInit => Remembered BY DEF CodingInit, Remembered
  <2> QED BY <2>1, CoreStart DEF Inv, Core
<1>2. Inv /\ [CodingNext]_codingVars => Inv' BY CoreStep, RememberedStep DEF Inv, Core
<1> QED BY <1>1, <1>2, PTL DEF CodingSpec

\* Types and ranges: within max_fix_attempts fixes, the attempts of a task
\* and the limit on tasks and fixes, whatever these limits are.
THEOREM TypeCorrect == CodingSpec => []CodingTypes
<1>1. Inv => CodingTypes BY DEF Inv
<1> QED BY <1>1, Invariant, PTL

\* apply_changes and rollback: a file that differs from its first text is
\* reported, or in the patch that is open.
THEOREM AllReported == CodingSpec => []NothingUnreported
<1>1. Inv => NothingUnreported
  <2> SUFFICES ASSUME Inv, NEW path \in Paths,
                      TextOf(repo[path]) # TextOf(origin[path]),
                      path \notin changed
               PROVE  path \in UndoPaths
    BY DEF NothingUnreported
  <2>1. PICK i \in 1..Len(undo) : undo[i].path = path BY DEF Inv, Remembered, HitFirst
  <2> QED BY <2>1, LenProperties DEF Inv, CodingTypes, UndoPaths
<1> QED BY <1>1, Invariant, PTL

\* RuntimeStateMachine.ALLOWED refuses no transition of run_task but the
\* handler's after DONE.
THEOREM TableIsWalked == CodingSpec => []WalksTheTable
<1>1. Inv => WalksTheTable BY DEF Inv, Control, WalksTheTable
<1> QED BY <1>1, Invariant, PTL

\* A report says done only if every task of the plan passed, for plans of
\* every length and every number of fixes.
THEOREM DoneIsVerified == CodingSpec => []DoneMeansVerified
<1>1. Inv => DoneMeansVerified
  BY LenProperties DEF Inv, CodingTypes, Verdicts, Passed, DoneMeansVerified
<1> QED BY <1>1, Invariant, PTL
----------------------------------------------------------------------------
(* FileChanges: what becomes of every file, and what the reports say.      *)

ChangeStages ==
    {"new", "analyze", "propose", "preview", "apply", "move", "journal", "rename", "detect",
     "doc", "update", "write", "report", "ended", "reported", "dead"}

PlannedChanges == Moves \cup [source : ChangePaths, target : ChangePaths]

Tellings == [source : ChangePaths, target : ChangePaths, success : BOOLEAN]

OrganizerSteps == {"analyze", "propose", "preview", "apply"}

ChangeRecords ==
    [kind : {"organize", "docs"}, asked : BOOLEAN, dry : BOOLEAN, at : ChangeStages,
     attempt : {1, 2}, logged : SUBSET OrganizerSteps, parsed : SUBSET OrganizerSteps,
     impacted : SUBSET ChangePaths, items : Seq(ChangePaths), todo : Seq(PlannedChanges),
     told : Seq(Tellings), status : {"none", "failed", "done", "pending_review"}]

JournalLines == [run : ChangeRuns, source : ChangePaths, target : ChangePaths]

ChangesTypeOK ==
    /\ DOMAIN tree = ChangePaths /\ tree = [p \in ChangePaths |-> tree[p]]
    /\ organized \in [ChangeRuns -> ChangeRecords]
    /\ changes \subseteq JournalLines
    /\ edited \in Nat
    /\ \A c \in DOMAIN lastAt : lastAt[c] \in ChangePaths
    /\ NoFile \notin DOMAIN lastAt

\* The lines of run r are told in its report so far.
TellsAll(run, r, lines) ==
    \A l \in lines : l.run = r =>
        \E i \in DOMAIN run.told : run.told[i].source = l.source /\ run.told[i].target = l.target

\* What a run knows of the files and of the journal.
MoveTrue(run, r, now, spared, lines) ==
    /\ run.at \in {"journal", "rename", "write"} => run.todo # <<>> /\ ~run.dry
    /\ run.at \in {"detect", "doc", "update", "write"} => run.kind = "docs"
    /\ run.at \in {"update", "write"} => run.items # <<>>
    /\ run.at \in {"journal", "rename"} =>
         /\ run.todo[1].source # run.todo[1].target
         /\ now[run.todo[1].target] \in spared \cup {NoFile, CutShort}
    /\ run.at = "rename" => Line(r, run.todo[1].source, run.todo[1].target) \in lines
    /\ run.at = "write" => Line(r, run.todo[1].source, run.todo[1].source) \in lines

Unchanging == {"new", "analyze", "propose", "preview", "apply", "detect"}

ReportIsTrue(run, r, lines) ==
    /\ run.dry = run.asked
    /\ run.asked => \A l \in lines : l.run # r
    /\ run.attempt = 1 /\ run.at \in Unchanging => \A l \in lines : l.run # r
    /\ run.attempt = 2 => run.kind = "organize" /\ run.at \notin {"report", "reported"}
    /\ run.attempt = 1 /\ run.at \in {"move", "journal", "doc", "update", "report", "reported"} =>
         TellsAll(run, r, lines)
    /\ run.attempt = 1 /\ run.at = "rename" =>
         TellsAll(run, r, lines \ {Line(r, run.todo[1].source, run.todo[1].target)})
    /\ run.attempt = 1 /\ run.at = "write" =>
         TellsAll(run, r, lines \ {Line(r, run.todo[1].source, run.todo[1].source)})
    /\ ~run.dry => \A i \in DOMAIN run.told :
         run.told[i].success => Line(r, run.told[i].source, run.told[i].target) \in lines

\* The content is where it was put last; or its owner knows, or the journal.
KeptAt(c) ==
    \/ tree[lastAt[c]] = c
    \/ c \in excused
    \/ \E l \in changes : organized[l.run].kind = "docs" /\ l.source = lastAt[c]

ChangesInv ==
    /\ ChangesTypeOK
    /\ \A r \in ChangeRuns : MoveTrue(organized[r], r, tree, excused, changes)
    /\ \A r \in ChangeRuns : ReportIsTrue(organized[r], r, changes)
    /\ \A c \in DOMAIN lastAt \ {CutShort} : KeptAt(c)

LEMMA RunTyped ==
  ASSUME ChangesInv, NEW r \in ChangeRuns
  PROVE  /\ organized[r] \in ChangeRecords
         /\ MoveTrue(organized[r], r, tree, excused, changes)
         /\ ReportIsTrue(organized[r], r, changes)
BY DEF ChangesInv, ChangesTypeOK

LEMMA NextTodo ==
  ASSUME NEW o \in ChangeRecords, o.todo # <<>>
  PROVE  /\ o.todo[1].source \in ChangePaths /\ o.todo[1].target \in ChangePaths
         /\ Tail(o.todo) \in Seq(PlannedChanges)
<1>1. o.todo \in Seq(PlannedChanges) BY DEF ChangeRecords
<1>2. Len(o.todo) \in Nat \ {0} /\ Tail(o.todo) \in Seq(PlannedChanges)
  BY <1>1, EmptySeq, HeadTailProperties
<1>3. o.todo[1] \in PlannedChanges BY <1>1, <1>2, ElementOfSeq
<1> QED BY <1>2, <1>3 DEF PlannedChanges, Moves

LEMMA ToldMore ==
  ASSUME NEW s \in Seq(Tellings), NEW e \in Tellings
  PROVE  /\ Append(s, e) \in Seq(Tellings)
         /\ \A i \in DOMAIN s : i \in DOMAIN Append(s, e) /\ Append(s, e)[i] = s[i]
         /\ \E i \in DOMAIN Append(s, e) : Append(s, e)[i] = e
         /\ \A i \in DOMAIN Append(s, e) : Append(s, e)[i] = e \/ (i \in DOMAIN s /\ Append(s, e)[i] = s[i])
<1>1. /\ Append(s, e) \in Seq(Tellings) /\ Len(Append(s, e)) = Len(s) + 1
      /\ \A i \in 1 .. Len(s) : Append(s, e)[i] = s[i]
      /\ Append(s, e)[Len(s) + 1] = e
  BY AppendProperties
<1>2. Len(s) \in Nat /\ DOMAIN s = 1 .. Len(s) /\ DOMAIN Append(s, e) = 1 .. Len(s) + 1
  BY <1>1, LenProperties
<1> QED BY <1>1, <1>2

----------------------------------------------------------------------------
\* What is true of a run stays true while others move, write and edit: their
\* lines are not its own, and what comes to its target is excused.
LEMMA MoveStill ==
  ASSUME NEW y, NEW o, NEW t, NEW ex, NEW ch, NEW t2, NEW ex2, NEW ch2,
         MoveTrue(y, o, t, ex, ch), ch \subseteq ch2,
         y.at \in {"journal", "rename"} => t2[y.todo[1].target] \in ex2 \cup {NoFile, CutShort}
  PROVE  MoveTrue(y, o, t2, ex2, ch2)
BY DEF MoveTrue

LEMMA ReportStill ==
  ASSUME NEW y, NEW o, NEW ch, NEW ch2,
         ReportIsTrue(y, o, ch), ch \subseteq ch2, \A l \in ch2 \ ch : l.run # o
  PROVE  ReportIsTrue(y, o, ch2)
BY DEF ReportIsTrue, TellsAll

\* Run r has come to x, with the files, the excused contents and the journal
\* that it leaves: what the runs know is still so.
Moved(r, x, t, ex, ch) ==
    /\ x.kind = organized[r].kind
    /\ DOMAIN t = ChangePaths /\ t = [p \in ChangePaths |-> t[p]]
    /\ ch \subseteq JournalLines
    /\ MoveTrue(x, r, t, ex, ch) /\ ReportIsTrue(x, r, ch)
    /\ changes \subseteq ch /\ \A l \in ch \ changes : l.run = r
    /\ \A o \in ChangeRuns \ {r} :
         organized[o].at \in {"journal", "rename"} =>
           t[organized[o].todo[1].target] \in ex \cup {NoFile, CutShort}

LEMMA RunMoves ==
  ASSUME ChangesInv, NEW r \in ChangeRuns, NEW x \in ChangeRecords,
         NEW t, NEW ex, NEW ch, Moved(r, x, t, ex, ch),
         organized' = [organized EXCEPT ![r] = x], tree' = t, excused' = ex, changes' = ch,
         edited' \in Nat, \A c \in DOMAIN lastAt' : lastAt'[c] \in ChangePaths,
         NoFile \notin DOMAIN lastAt',
         \A c \in DOMAIN lastAt' \ {CutShort} : KeptAt(c)'
  PROVE  ChangesInv'
<1>1. /\ organized'[r] = x
      /\ \A o \in ChangeRuns \ {r} : organized'[o] = organized[o]
  BY DEF ChangesInv, ChangesTypeOK
<1>2. ChangesTypeOK' BY DEF Moved, ChangesInv, ChangesTypeOK
<1>3. ASSUME NEW o \in ChangeRuns
      PROVE  MoveTrue(organized[o], o, tree, excused, changes)' /\ ReportIsTrue(organized[o], o, changes)'
  <2>1. CASE o = r BY <1>1, <2>1 DEF Moved
  <2>2. CASE o # r
    <3>1. PICK y : y = organized[o] OBVIOUS
    <3>2. PICK now, spared, lines : now = tree /\ spared = excused /\ lines = changes
      OBVIOUS
    <3>3. MoveTrue(y, o, now, spared, lines) /\ ReportIsTrue(y, o, lines)
      BY <3>1, <3>2, RunTyped
    <3>4. /\ lines \subseteq ch
          /\ y.at \in {"journal", "rename"} => t[y.todo[1].target] \in ex \cup {NoFile, CutShort}
      BY <2>2, <3>1, <3>2 DEF Moved
    <3>5. MoveTrue(y, o, t, ex, ch) BY <3>3, <3>4, MoveStill
    <3>6. \A l \in ch \ lines : l.run # o BY <2>2, <3>2 DEF Moved
    <3>7. ReportIsTrue(y, o, ch) BY <3>3, <3>4, <3>6, ReportStill
    <3>8. organized'[o] = y BY <1>1, <2>2, <3>1
    <3> QED BY <3>5, <3>7, <3>8
  <2> QED BY <2>1, <2>2
<1> QED BY <1>2, <1>3 DEF ChangesInv

\* A step of a run that leaves the files and the journal alone.
LEMMA RunGoesOn ==
  ASSUME ChangesInv, NEW r \in ChangeRuns, NEW x \in ChangeRecords,
         organized' = [organized EXCEPT ![r] = x], x.kind = organized[r].kind, FilesRest,
         MoveTrue(x, r, tree, excused, changes), ReportIsTrue(x, r, changes)
  PROVE  ChangesInv'
<1>1. PICK t, ex, ch : t = tree /\ ex = excused /\ ch = changes OBVIOUS
<1>2. /\ tree' = t /\ excused' = ex /\ changes' = ch /\ lastAt' = lastAt /\ edited' = edited
  BY <1>1 DEF FilesRest
<1>3. /\ DOMAIN t = ChangePaths /\ t = [p \in ChangePaths |-> t[p]] /\ ch \subseteq JournalLines
      /\ edited' \in Nat /\ \A c \in DOMAIN lastAt' : lastAt'[c] \in ChangePaths
      /\ NoFile \notin DOMAIN lastAt'
  BY <1>1, <1>2 DEF ChangesInv, ChangesTypeOK
<1>4. /\ MoveTrue(x, r, t, ex, ch) /\ ReportIsTrue(x, r, ch)
      /\ changes \subseteq ch /\ \A l \in ch \ changes : l.run = r
  BY <1>1
<1>5. \A o \in ChangeRuns \ {r} :
        organized[o].at \in {"journal", "rename"} =>
          t[organized[o].todo[1].target] \in ex \cup {NoFile, CutShort}
  BY <1>1 DEF ChangesInv, MoveTrue
<1>6. \A o \in ChangeRuns : organized'[o].kind = organized[o].kind
  BY DEF ChangesInv, ChangesTypeOK
<1>7. ASSUME NEW c \in DOMAIN lastAt' \ {CutShort} PROVE KeptAt(c)'
  <2>1. KeptAt(c) BY <1>2 DEF ChangesInv
  <2>2. ASSUME NEW l \in changes, organized[l.run].kind = "docs", l.source = lastAt[c]
        PROVE  KeptAt(c)'
    <3>1. l.run \in ChangeRuns BY DEF ChangesInv, ChangesTypeOK, JournalLines
    <3>2. l \in changes' /\ organized'[l.run].kind = "docs" /\ l.source = lastAt'[c]
      BY <1>1, <1>2, <1>6, <2>2, <3>1
    <3> QED BY <3>2 DEF KeptAt
  <2>3. CASE tree[lastAt[c]] = c \/ c \in excused BY <1>1, <1>2, <2>3 DEF KeptAt
  <2> QED BY <2>1, <2>2, <2>3 DEF KeptAt
<1>8. Moved(r, x, t, ex, ch) BY <1>3, <1>4, <1>5 DEF Moved
<1> QED BY <1>2, <1>3, <1>7, <1>8, RunMoves

\* A run that is gone holds nothing.
Emptied(o, place) ==
    [o EXCEPT !.at = place, !.parsed = {}, !.items = <<>>, !.todo = <<>>, !.told = <<>>,
              !.status = "none"]

LEMMA GoneRun ==
  ASSUME NEW o \in ChangeRecords, NEW place \in {"ended", "dead", "report"}
  PROVE  /\ Emptied(o, place) \in ChangeRecords
         /\ Emptied(o, place).at = place /\ Emptied(o, place).kind = o.kind
         /\ Emptied(o, place).told = <<>> /\ Emptied(o, place).asked = o.asked
         /\ Emptied(o, place).dry = o.dry /\ Emptied(o, place).attempt = o.attempt
         /\ Emptied(o, place).logged = o.logged /\ Emptied(o, place).todo = <<>>
<1>1. /\ <<>> \in Seq(ChangePaths) /\ <<>> \in Seq(PlannedChanges) /\ <<>> \in Seq(Tellings)
  OBVIOUS
<1> QED BY <1>1 DEF ChangeRecords, ChangeStages, Emptied

LEMMA RunGone ==
  ASSUME ChangesInv, NEW r \in ChangeRuns, NEW place \in {"ended", "dead"},
         Update(r, Gone(r, place)), FilesRest
  PROVE  ChangesInv'
<1>1. PICK o \in ChangeRecords : o = organized[r] BY RunTyped
<1>2. place \in {"ended", "dead", "report"} OBVIOUS
<1>3. PICK x \in ChangeRecords :
        /\ x = Emptied(o, place) /\ x.at = place /\ x.kind = o.kind /\ x.told = <<>>
        /\ x.asked = o.asked /\ x.dry = o.dry /\ x.attempt = o.attempt
  BY <1>2, GoneRun
<1>4. organized' = [organized EXCEPT ![r] = x] BY <1>1, <1>3 DEF Update, Gone, Emptied
<1>5. ReportIsTrue(o, r, changes) BY <1>1, RunTyped
<1>6. MoveTrue(x, r, tree, excused, changes) BY <1>3 DEF MoveTrue
<1>7. ReportIsTrue(x, r, changes) BY <1>3, <1>5 DEF ReportIsTrue, Unchanging
<1>8. x.kind = organized[r].kind BY <1>1, <1>3
<1> QED BY <1>4, <1>6, <1>7, <1>8, RunGoesOn

LEMMA ChangesStart == ChangesInit => ChangesInv
<1> SUFFICES ASSUME ChangesInit PROVE ChangesInv OBVIOUS
<1>1. ASSUME NEW r \in ChangeRuns
      PROVE  /\ organized[r] \in ChangeRecords /\ organized[r].at = "new"
             /\ organized[r].dry = organized[r].asked /\ organized[r].told = <<>>
             /\ organized[r].attempt = 1
  <2>1. PICK k \in {"organize", "docs"}, d \in BOOLEAN : organized[r] = Fresh(k, d)
    BY DEF ChangesInit
  <2> QED BY <2>1 DEF Fresh, ChangeRecords, ChangeStages
<1>2. ASSUME NEW p \in FirstFiles
      PROVE  /\ First(p) # NoFile /\ First(p).at = p /\ p \in ChangePaths
             /\ First(p) \in DOMAIN lastAt /\ lastAt[First(p)] = p /\ tree[p] = First(p)
  <2>1. First(p) \in Wordings /\ First(p).at = p /\ p \in ChangePaths
    BY ChangesAssumption DEF First, Content, Wordings
  <2> QED BY <2>1, ChangesAssumption DEF ChangesInit
<1>3. \A c \in DOMAIN lastAt : \E p \in FirstFiles : c = First(p) BY DEF ChangesInit
<1>4. ChangesTypeOK
  <2>1. organized \in [ChangeRuns -> ChangeRecords] BY <1>1 DEF ChangesInit
  <2>2. DOMAIN tree = ChangePaths /\ tree = [p \in ChangePaths |-> tree[p]]
    BY DEF ChangesInit
  <2>3. ASSUME NEW c \in DOMAIN lastAt PROVE lastAt[c] \in ChangePaths /\ c # NoFile
    <3>1. PICK p \in FirstFiles : c = First(p) BY <1>3
    <3> QED BY <1>2, <3>1
  <2>4. changes \subseteq JournalLines /\ edited \in Nat BY DEF ChangesInit
  <2> QED BY <2>1, <2>2, <2>3, <2>4 DEF ChangesTypeOK
<1>5. \A r \in ChangeRuns : MoveTrue(organized[r], r, tree, excused, changes)
  BY <1>1 DEF MoveTrue
<1>6. \A r \in ChangeRuns : ReportIsTrue(organized[r], r, changes)
  BY <1>1 DEF ReportIsTrue, ChangesInit
<1>7. \A c \in DOMAIN lastAt : KeptAt(c) BY <1>2, <1>3 DEF KeptAt
<1> QED BY <1>4, <1>5, <1>6, <1>7 DEF ChangesInv

----------------------------------------------------------------------------
\* The actions that leave the files and the journal alone.
LEMMA StartKeeps ==
  ASSUME ChangesInv, NEW r \in ChangeRuns, StartChanges(r)
  PROVE  ChangesInv'
<1>1. PICK o \in ChangeRecords : o = organized[r] BY RunTyped
<1>2. o.at = "new" /\ o.kind \in {"organize", "docs"}
  BY <1>1 DEF StartChanges, AtChange, ChangeRecords
<1>3. PICK place \in {"analyze", "detect"} :
        place = (IF o.kind = "organize" THEN "analyze" ELSE "detect")
  OBVIOUS
<1>4. PICK x : x = [o EXCEPT !.at = place] OBVIOUS
<1>5. /\ x \in ChangeRecords /\ x.at = place /\ x.kind = o.kind /\ x.told = o.told
      /\ x.asked = o.asked /\ x.dry = o.dry /\ x.attempt = o.attempt
  BY <1>4 DEF ChangeRecords, ChangeStages
<1>6. organized' = [organized EXCEPT ![r] = x] /\ FilesRest
  BY <1>1, <1>3, <1>4 DEF StartChanges, Update, Goes
<1>7. ReportIsTrue(o, r, changes) BY <1>1, RunTyped
<1>8. ReportIsTrue(x, r, changes) BY <1>2, <1>5, <1>7 DEF ReportIsTrue, Unchanging
<1>9. MoveTrue(x, r, tree, excused, changes) BY <1>2, <1>3, <1>5 DEF MoveTrue
<1> QED BY <1>1, <1>5, <1>6, <1>8, <1>9, RunGoesOn

\* A run that failed before it changed anything tells of failures only.
FailedWith(o, told) == [Emptied(o, "report") EXCEPT !.told = told, !.status = "failed"]

LEMMA FailedRun ==
  ASSUME NEW o \in ChangeRecords, NEW told \in Seq(Tellings)
  PROVE  /\ FailedWith(o, told) \in ChangeRecords
         /\ FailedWith(o, told).at = "report" /\ FailedWith(o, told).kind = o.kind
         /\ FailedWith(o, told).told = told /\ FailedWith(o, told).asked = o.asked
         /\ FailedWith(o, told).dry = o.dry /\ FailedWith(o, told).attempt = o.attempt
<1>1. /\ <<>> \in Seq(ChangePaths) /\ <<>> \in Seq(PlannedChanges) OBVIOUS
<1> QED BY <1>1 DEF ChangeRecords, ChangeStages, Emptied, FailedWith

LEMMA StepFailed ==
  ASSUME ChangesInv, NEW r \in ChangeRuns, organized[r].at \in OrganizerSteps,
         NEW told \in Seq(Tellings), \A i \in DOMAIN told : ~told[i].success,
         StepFails(r, told), FilesRest
  PROVE  ChangesInv'
<1>1. PICK o \in ChangeRecords : o = organized[r] BY RunTyped
<1>2. CASE o.attempt # 1
  <2>1. Update(r, Gone(r, "ended")) BY <1>1, <1>2 DEF StepFails
  <2> QED BY <2>1, RunGone
<1>3. CASE o.attempt = 1
  <2>1. PICK x \in ChangeRecords :
          /\ x = FailedWith(o, told) /\ x.at = "report" /\ x.kind = o.kind /\ x.told = told
          /\ x.asked = o.asked /\ x.dry = o.dry /\ x.attempt = o.attempt
    BY FailedRun
  <2>2. organized' = [organized EXCEPT ![r] = x]
    BY <1>1, <1>3, <2>1 DEF StepFails, Update, Gone, Emptied, FailedWith
  <2>3. ReportIsTrue(o, r, changes) BY <1>1, RunTyped
  <2>4. \A l \in changes : l.run # r
    BY <1>1, <1>3, <2>3 DEF ReportIsTrue, Unchanging, OrganizerSteps
  <2>5. ReportIsTrue(x, r, changes) BY <1>3, <2>1, <2>3, <2>4 DEF ReportIsTrue, TellsAll
  <2>6. MoveTrue(x, r, tree, excused, changes) BY <2>1 DEF MoveTrue
  <2> QED BY <1>1, <2>1, <2>2, <2>5, <2>6, RunGoesOn
<1> QED BY <1>2, <1>3

LEMMA PrepareKeeps ==
  ASSUME ChangesInv, NEW r \in ChangeRuns, PrepareStep(r)
  PROVE  ChangesInv'
<1>1. PICK o \in ChangeRecords : o = organized[r] BY RunTyped
<1>2. PICK s \in {"analyze", "propose", "preview"} :
        /\ AtChange(r, s)
        /\ FilesRest
        /\ \/ StepFails(r, <<>>)
           \/ Update(r, [organized[r] EXCEPT !.at = After(s), !.logged = @ \cup {s}, !.parsed = @ \cup {s}])
           \/ Update(r, Gone(r, "ended"))
  BY DEF PrepareStep
<1>3. o.at = s BY <1>1, <1>2 DEF AtChange
<1>4. CASE StepFails(r, <<>>)
  <2>0. <<>> \in Seq(Tellings) OBVIOUS
  <2>1. PICK told \in Seq(Tellings) : told = <<>> BY <2>0
  <2>2. StepFails(r, told) /\ (\A i \in DOMAIN told : ~told[i].success) /\ organized[r].at \in OrganizerSteps
    BY <1>1, <1>3, <1>4, <2>1 DEF OrganizerSteps
  <2> QED BY <1>2, <2>2, StepFailed
<1>5. CASE Update(r, Gone(r, "ended")) BY <1>2, <1>5, RunGone
<1>6. CASE Update(r, [organized[r] EXCEPT !.at = After(s), !.logged = @ \cup {s}, !.parsed = @ \cup {s}])
  <2>1. PICK x : x = [o EXCEPT !.at = After(s), !.logged = @ \cup {s}, !.parsed = @ \cup {s}]
    OBVIOUS
  <2>2. After(s) \in OrganizerSteps \ {"analyze"} /\ s \in OrganizerSteps
    BY DEF After, OrganizerSteps
  <2>3. /\ x \in ChangeRecords /\ x.at \in OrganizerSteps /\ x.kind = o.kind /\ x.told = o.told
        /\ x.asked = o.asked /\ x.dry = o.dry /\ x.attempt = o.attempt
    BY <2>1, <2>2 DEF ChangeRecords, ChangeStages, OrganizerSteps
  <2>4. organized' = [organized EXCEPT ![r] = x] BY <1>1, <1>6, <2>1 DEF Update
  <2>5. ReportIsTrue(o, r, changes) BY <1>1, RunTyped
  <2>6. o.attempt = 1 => \A l \in changes : l.run # r
    BY <1>3, <2>5 DEF ReportIsTrue, Unchanging
  <2>7. ReportIsTrue(x, r, changes) BY <2>3, <2>5, <2>6 DEF ReportIsTrue, OrganizerSteps
  <2>8. MoveTrue(x, r, tree, excused, changes) BY <2>3 DEF MoveTrue, OrganizerSteps
  <2> QED BY <1>1, <1>2, <2>3, <2>4, <2>7, <2>8, RunGoesOn
<1> QED BY <1>2, <1>4, <1>5, <1>6

\* What the applier was asked to move is told as failed, move by move.
LEMMA FailuresTold ==
  ASSUME NEW ms \in MoveAnswers
  PROVE  LET told == [i \in DOMAIN ms |->
                        [source |-> ms[i].source, target |-> ms[i].target, success |-> FALSE]]
         IN  told \in Seq(Tellings) /\ \A i \in DOMAIN told : ~told[i].success
<1>1. ms \in Seq(Moves) BY ChangesAssumption
<1>2. Len(ms) \in Nat /\ DOMAIN ms = 1 .. Len(ms) BY <1>1, LenProperties
<1>3. \A i \in 1 .. Len(ms) : ms[i] \in Moves BY <1>1, ElementOfSeq
<1>4. [i \in 1 .. Len(ms) |-> [source |-> ms[i].source, target |-> ms[i].target, success |-> FALSE]]
        \in [1 .. Len(ms) -> Tellings]
  BY <1>3 DEF Moves, Tellings
<1>5. [i \in 1 .. Len(ms) |-> [source |-> ms[i].source, target |-> ms[i].target, success |-> FALSE]]
        \in Seq(Tellings)
  BY <1>2, <1>4, SeqDef
<1> QED BY <1>2, <1>5

LEMMA AskKeeps ==
  ASSUME ChangesInv, NEW r \in ChangeRuns, AskApplier(r)
  PROVE  ChangesInv'
<1>1. PICK o \in ChangeRecords : o = organized[r] BY RunTyped
<1>2. o.at = "apply" /\ FilesRest BY <1>1 DEF AskApplier, AtChange
<1>3. organized[r].at \in OrganizerSteps BY <1>1, <1>2 DEF OrganizerSteps
<1>4. CASE StepFails(r, <<>>)
  <2>0. <<>> \in Seq(Tellings) OBVIOUS
  <2>1. PICK told \in Seq(Tellings) : told = <<>> BY <2>0
  <2>2. StepFails(r, told) /\ \A i \in DOMAIN told : ~told[i].success BY <1>4, <2>1
  <2> QED BY <1>2, <1>3, <2>2, StepFailed
<1>5. ASSUME NEW ms \in MoveAnswers,
             StepFails(r, [i \in DOMAIN ms |->
               [source |-> ms[i].source, target |-> ms[i].target, success |-> FALSE]])
      PROVE  ChangesInv'
  <2>1. PICK told \in Seq(Tellings) :
          /\ told = [i \in DOMAIN ms |->
               [source |-> ms[i].source, target |-> ms[i].target, success |-> FALSE]]
          /\ \A i \in DOMAIN told : ~told[i].success
    BY FailuresTold
  <2>2. StepFails(r, told) BY <1>5, <2>1
  <2> QED BY <1>2, <1>3, <2>1, <2>2, StepFailed
<1>6. ASSUME NEW ms \in MoveAnswers, Update(r, [Goes(r, "move") EXCEPT !.todo = ms])
      PROVE  ChangesInv'
  <2>1. ms \in Seq(PlannedChanges) BY ChangesAssumption DEF PlannedChanges
  <2>2. PICK x : x = [o EXCEPT !.at = "move", !.todo = ms] OBVIOUS
  <2>3. /\ x \in ChangeRecords /\ x.at = "move" /\ x.kind = o.kind /\ x.told = o.told
        /\ x.asked = o.asked /\ x.dry = o.dry /\ x.attempt = o.attempt
    BY <2>1, <2>2 DEF ChangeRecords, ChangeStages
  <2>4. organized' = [organized EXCEPT ![r] = x] BY <1>1, <1>6, <2>2 DEF Update, Goes
  <2>5. ReportIsTrue(o, r, changes) BY <1>1, RunTyped
  <2>6. o.attempt = 1 => \A l \in changes : l.run # r
    BY <1>2, <2>5 DEF ReportIsTrue, Unchanging
  <2>7. ReportIsTrue(x, r, changes) BY <2>3, <2>5, <2>6 DEF ReportIsTrue, TellsAll
  <2>8. MoveTrue(x, r, tree, excused, changes) BY <2>3 DEF MoveTrue
  <2> QED BY <1>1, <1>2, <2>3, <2>4, <2>7, <2>8, RunGoesOn
<1>7. CASE Update(r, Gone(r, "ended")) BY <1>2, <1>7, RunGone
<1> QED BY <1>4, <1>5, <1>6, <1>7 DEF AskApplier

----------------------------------------------------------------------------
\* An entry e has come to what was told.
OneMore(new, old, e) ==
    /\ \A i \in DOMAIN old : i \in DOMAIN new /\ new[i] = old[i]
    /\ \E i \in DOMAIN new : new[i] = e
    /\ \A i \in DOMAIN new : new[i] = e \/ (i \in DOMAIN old /\ new[i] = old[i])

Telling(source, target, ok) == [source |-> source, target |-> target, success |-> ok]

LEMMA ToldTrue ==
  ASSUME NEW o, NEW x, NEW r, NEW lines, NEW source, NEW target, NEW ok \in BOOLEAN,
         ReportIsTrue(o, r, lines), x.dry = o.dry, x.asked = o.asked, x.attempt = o.attempt,
         x.kind = o.kind, x.at \in {"move", "doc", "update"},
         OneMore(x.told, o.told, Telling(source, target, ok)),
         o.attempt = 1 => TellsAll(o, r, lines \ {Line(r, source, target)}),
         ~o.dry /\ ok => Line(r, source, target) \in lines
  PROVE  ReportIsTrue(x, r, lines)
<1>1. o.attempt = 1 => TellsAll(x, r, lines)
  <2> SUFFICES ASSUME o.attempt = 1, NEW l \in lines, l.run = r
               PROVE  \E i \in DOMAIN x.told : x.told[i].source = l.source /\ x.told[i].target = l.target
    BY DEF TellsAll
  <2>1. CASE l = Line(r, source, target)
    <3>1. l.source = source /\ l.target = target BY <2>1 DEF Line
    <3> QED BY <3>1 DEF OneMore, Telling
  <2>2. CASE l # Line(r, source, target) BY <2>2 DEF TellsAll, OneMore
  <2> QED BY <2>1, <2>2
<1>2. ~x.dry => \A i \in DOMAIN x.told :
        x.told[i].success => Line(r, x.told[i].source, x.told[i].target) \in lines
  BY DEF ReportIsTrue, OneMore, Telling
<1> QED BY <1>1, <1>2 DEF ReportIsTrue, Unchanging

LEMMA OneMoreTold ==
  ASSUME NEW o \in ChangeRecords, NEW source \in ChangePaths, NEW target \in ChangePaths,
         NEW ok \in BOOLEAN
  PROVE  /\ Append(o.told, Telling(source, target, ok)) \in Seq(Tellings)
         /\ OneMore(Append(o.told, Telling(source, target, ok)), o.told, Telling(source, target, ok))
<1>1. o.told \in Seq(Tellings) /\ Telling(source, target, ok) \in Tellings
  BY DEF ChangeRecords, Tellings, Telling
<1> QED BY <1>1, ToldMore DEF OneMore

\* The run with the next of what it plans done with, and told.
Noted(o, place, source, target, ok) ==
    [o EXCEPT !.at = place, !.todo = Tail(o.todo),
              !.told = Append(o.told, Telling(source, target, ok))]

LEMMA NotedRun ==
  ASSUME NEW o \in ChangeRecords, NEW place \in {"move", "update"}, NEW ok \in BOOLEAN,
         NEW source \in ChangePaths, NEW target \in ChangePaths, o.todo # <<>>
  PROVE  \E x \in ChangeRecords :
           /\ x = Noted(o, place, source, target, ok)
           /\ x.at = place /\ x.kind = o.kind /\ x.asked = o.asked
           /\ x.dry = o.dry /\ x.attempt = o.attempt /\ x.items = o.items
           /\ OneMore(x.told, o.told, Telling(source, target, ok))
<1>1. Tail(o.todo) \in Seq(PlannedChanges) BY NextTodo
<1>2. PICK told \in Seq(Tellings) :
        /\ told = Append(o.told, Telling(source, target, ok))
        /\ OneMore(told, o.told, Telling(source, target, ok))
  BY OneMoreTold
<1>3. PICK x : x = [o EXCEPT !.at = place, !.todo = Tail(o.todo), !.told = told] OBVIOUS
<1>4. x = Noted(o, place, source, target, ok) BY <1>2, <1>3 DEF Noted
<1>5. /\ x \in ChangeRecords /\ x.at = place /\ x.kind = o.kind /\ x.asked = o.asked
      /\ x.dry = o.dry /\ x.attempt = o.attempt /\ x.items = o.items /\ x.told = told
  BY <1>1, <1>2, <1>3 DEF ChangeRecords, ChangeStages
<1> QED BY <1>2, <1>4, <1>5

\* A move that came to nothing is told as failed, and one that a dry run is
\* told of as the answer has it.
LEMMA MoveRecorded ==
  ASSUME ChangesInv, NEW r \in ChangeRuns, NEW ok \in BOOLEAN, RecordMove(r, ok),
         organized[r].todo # <<>>, FilesRest,
         \/ organized[r].at = "move" /\ (ok => organized[r].dry)
         \/ organized[r].at \in {"journal", "rename"} /\ ~ok
  PROVE  ChangesInv'
<1>1. PICK o \in ChangeRecords : o = organized[r] BY RunTyped
<1>2. PICK source \in ChangePaths, target \in ChangePaths :
        source = o.todo[1].source /\ target = o.todo[1].target
  BY <1>1, NextTodo
<1>3. PICK x \in ChangeRecords :
        /\ x = Noted(o, "move", source, target, ok) /\ x.at = "move" /\ x.kind = o.kind
        /\ x.asked = o.asked /\ x.dry = o.dry /\ x.attempt = o.attempt
        /\ OneMore(x.told, o.told, Telling(source, target, ok))
  BY <1>1, NotedRun
<1>5. organized' = [organized EXCEPT ![r] = x]
  BY <1>1, <1>2, <1>3 DEF RecordMove, Update, Goes, Told, Noted, Telling
<1>4. ReportIsTrue(o, r, changes) BY <1>1, RunTyped
<1>6. o.attempt = 1 => TellsAll(o, r, changes \ {Line(r, source, target)})
  BY <1>1, <1>2, <1>4 DEF ReportIsTrue, TellsAll
<1>7. ~o.dry => ~ok BY <1>1
<1>8. x.at \in {"move", "doc", "update"} BY <1>3
<1>9. ReportIsTrue(x, r, changes) BY <1>3, <1>4, <1>6, <1>7, <1>8, ToldTrue
<1>10. MoveTrue(x, r, tree, excused, changes) BY <1>3 DEF MoveTrue
<1> QED BY <1>1, <1>3, <1>5, <1>9, <1>10, RunGoesOn

LEMMA BelieveKeeps ==
  ASSUME ChangesInv, NEW r \in ChangeRuns, BelieveMove(r)
  PROVE  ChangesInv'
<1>1. PICK ok \in BOOLEAN : ok = Said(organized[r].todo[1])
  <2>1. Said(organized[r].todo[1]) \in BOOLEAN BY DEF Said
  <2> QED BY <2>1
<1>2. /\ RecordMove(r, ok) /\ organized[r].todo # <<>> /\ FilesRest
      /\ organized[r].at = "move" /\ organized[r].dry
  BY <1>1 DEF BelieveMove, AtChange
<1> QED BY <1>2, MoveRecorded

LEMMA TestKeeps ==
  ASSUME ChangesInv, NEW r \in ChangeRuns, TestMove(r)
  PROVE  ChangesInv'
<1>1. PICK o \in ChangeRecords : o = organized[r] BY RunTyped
<1>2. o.at = "move" /\ o.todo # <<>> /\ ~o.dry /\ FilesRest
  BY <1>1 DEF TestMove, AtChange
<1>3. PICK m : m = o.todo[1] OBVIOUS
<1>4. CASE tree[m.source] # NoFile /\ Free(m.target)
  <2>1. PICK x : x = [o EXCEPT !.at = "journal"] OBVIOUS
  <2>2. /\ x \in ChangeRecords /\ x.at = "journal" /\ x.kind = o.kind /\ x.told = o.told
        /\ x.asked = o.asked /\ x.dry = o.dry /\ x.attempt = o.attempt /\ x.todo = o.todo
    BY <2>1 DEF ChangeRecords, ChangeStages
  <2>3. organized' = [organized EXCEPT ![r] = x]
    BY <1>1, <1>3, <1>4, <2>1 DEF TestMove, Update, Goes
  <2>4. ReportIsTrue(o, r, changes) BY <1>1, RunTyped
  <2>5. ReportIsTrue(x, r, changes)
    BY <1>2, <2>2, <2>4 DEF ReportIsTrue, Unchanging, TellsAll
  <2>6. tree[m.target] = NoFile /\ m.source # m.target BY <1>4 DEF Free
  <2>7. MoveTrue(x, r, tree, excused, changes) BY <1>2, <1>3, <2>2, <2>6 DEF MoveTrue
  <2> QED BY <1>1, <1>2, <2>2, <2>3, <2>5, <2>7, RunGoesOn
<1>5. CASE ~(tree[m.source] # NoFile /\ Free(m.target))
  <2>1. PICK ok \in BOOLEAN : ok = FALSE OBVIOUS
  <2>2. RecordMove(r, ok) BY <1>1, <1>3, <1>5, <2>1 DEF TestMove
  <2>3. organized[r].at = "move" /\ organized[r].todo # <<>> /\ ~ok BY <1>1, <1>2, <2>1
  <2> QED BY <1>2, <2>2, <2>3, MoveRecorded
<1> QED BY <1>4, <1>5

----------------------------------------------------------------------------
LEMMA MovesDoneKeeps ==
  ASSUME ChangesInv, NEW r \in ChangeRuns, MovesDone(r)
  PROVE  ChangesInv'
<1>1. PICK o \in ChangeRecords : o = organized[r] BY RunTyped
<1>2. o.at = "move" /\ FilesRest BY <1>1 DEF MovesDone, AtChange
<1>3. ReportIsTrue(o, r, changes) BY <1>1, RunTyped
<1>4. PICK logged : logged = o.logged \cup {"apply"} OBVIOUS
<1>5. logged \in SUBSET OrganizerSteps BY <1>4 DEF ChangeRecords, OrganizerSteps
<1>6. CASE o.attempt = 1
  <2>1. PICK x : x = [o EXCEPT !.at = "report", !.parsed = {}, !.items = <<>>, !.todo = <<>>,
                               !.status = "done", !.logged = logged]
    OBVIOUS
  <2>2. <<>> \in Seq(ChangePaths) /\ <<>> \in Seq(PlannedChanges) OBVIOUS
  <2>3. /\ x \in ChangeRecords /\ x.at = "report" /\ x.kind = o.kind /\ x.told = o.told
        /\ x.asked = o.asked /\ x.dry = o.dry /\ x.attempt = o.attempt
    BY <1>5, <2>1, <2>2 DEF ChangeRecords, ChangeStages
  <2>4. organized' = [organized EXCEPT ![r] = x]
    <3>1. Update(r, [[Gone(r, "report") EXCEPT !.told = organized[r].told, !.status = "done"]
                       EXCEPT !.logged = @ \cup {"apply"}])
      BY <1>1, <1>6 DEF MovesDone
    <3>2. [[Gone(r, "report") EXCEPT !.told = organized[r].told, !.status = "done"]
                       EXCEPT !.logged = @ \cup {"apply"}] = x
      BY <1>1, <1>4, <2>1, <2>3 DEF Gone, ChangeRecords
    <3> QED BY <3>1, <3>2 DEF Update
  <2>5. ReportIsTrue(x, r, changes)
    BY <1>2, <1>3, <1>6, <2>3 DEF ReportIsTrue, TellsAll, Unchanging
  <2>6. MoveTrue(x, r, tree, excused, changes) BY <2>3 DEF MoveTrue
  <2> QED BY <1>1, <1>2, <2>3, <2>4, <2>5, <2>6, RunGoesOn
<1>7. CASE o.attempt # 1
  <2>1. PICK y \in ChangeRecords :
          /\ y = Emptied(o, "ended") /\ y.at = "ended" /\ y.kind = o.kind /\ y.told = <<>>
          /\ y.asked = o.asked /\ y.dry = o.dry /\ y.attempt = o.attempt /\ y.logged = o.logged
    BY GoneRun
  <2>2. PICK x : x = [y EXCEPT !.logged = logged] OBVIOUS
  <2>3. /\ x \in ChangeRecords /\ x.at = "ended" /\ x.kind = o.kind /\ x.told = <<>>
        /\ x.asked = o.asked /\ x.dry = o.dry /\ x.attempt = o.attempt
    BY <1>5, <2>1, <2>2 DEF ChangeRecords
  <2>4. organized' = [organized EXCEPT ![r] = x]
    BY <1>1, <1>4, <1>7, <2>1, <2>2 DEF MovesDone, Update, Gone, Emptied
  <2>5. ReportIsTrue(x, r, changes) BY <1>3, <1>7, <2>3 DEF ReportIsTrue, Unchanging
  <2>6. MoveTrue(x, r, tree, excused, changes) BY <2>3 DEF MoveTrue
  <2> QED BY <1>1, <1>2, <2>3, <2>4, <2>5, <2>6, RunGoesOn
<1> QED BY <1>6, <1>7

LEMMA DetectKeeps ==
  ASSUME ChangesInv, NEW r \in ChangeRuns, Detect(r)
  PROVE  ChangesInv'
<1>1. PICK o \in ChangeRecords : o = organized[r] BY RunTyped
<1>2. o.at = "detect" /\ FilesRest BY <1>1 DEF Detect, AtChange
<1>3. MoveTrue(o, r, tree, excused, changes) /\ ReportIsTrue(o, r, changes)
  BY <1>1, RunTyped
<1>4. ASSUME NEW items \in DocAnswers, NEW impacted \in Impacts,
             Update(r, [Goes(r, "doc") EXCEPT !.items = items, !.impacted = impacted])
      PROVE  ChangesInv'
  <2>1. PICK x : x = [o EXCEPT !.at = "doc", !.items = items, !.impacted = impacted]
    OBVIOUS
  <2>2. items \in Seq(ChangePaths) /\ impacted \in SUBSET ChangePaths
    BY ChangesAssumption
  <2>3. /\ x \in ChangeRecords /\ x.at = "doc" /\ x.kind = o.kind /\ x.told = o.told
        /\ x.asked = o.asked /\ x.dry = o.dry /\ x.attempt = o.attempt
    BY <2>1, <2>2 DEF ChangeRecords, ChangeStages
  <2>4. organized' = [organized EXCEPT ![r] = x] BY <1>1, <1>4, <2>1 DEF Update, Goes
  <2>5. ReportIsTrue(x, r, changes)
    BY <1>2, <1>3, <2>3 DEF ReportIsTrue, MoveTrue, TellsAll, Unchanging
  <2>6. MoveTrue(x, r, tree, excused, changes) BY <1>2, <1>3, <2>3 DEF MoveTrue
  <2> QED BY <1>1, <1>2, <2>3, <2>4, <2>5, <2>6, RunGoesOn
<1>5. CASE Update(r, [Goes(r, "report") EXCEPT !.status = "failed"])
  <2>1. PICK x : x = [o EXCEPT !.at = "report", !.status = "failed"] OBVIOUS
  <2>3. /\ x \in ChangeRecords /\ x.at = "report" /\ x.kind = o.kind /\ x.told = o.told
        /\ x.asked = o.asked /\ x.dry = o.dry /\ x.attempt = o.attempt
    BY <2>1 DEF ChangeRecords, ChangeStages
  <2>4. organized' = [organized EXCEPT ![r] = x] BY <1>1, <1>5, <2>1 DEF Update, Goes
  <2>5. ReportIsTrue(x, r, changes)
    BY <1>2, <1>3, <2>3 DEF ReportIsTrue, MoveTrue, TellsAll, Unchanging
  <2>6. MoveTrue(x, r, tree, excused, changes) BY <2>3 DEF MoveTrue
  <2> QED BY <1>1, <1>2, <2>3, <2>4, <2>5, <2>6, RunGoesOn
<1>6. CASE Update(r, Gone(r, "ended")) BY <1>2, <1>6, RunGone
<1> QED BY <1>4, <1>5, <1>6 DEF Detect

LEMMA DocsDoneKeeps ==
  ASSUME ChangesInv, NEW r \in ChangeRuns, DocsDone(r)
  PROVE  ChangesInv'
<1>1. PICK o \in ChangeRecords : o = organized[r] BY RunTyped
<1>2. o.at = "doc" /\ FilesRest BY <1>1 DEF DocsDone, AtChange
<1>3. MoveTrue(o, r, tree, excused, changes) /\ ReportIsTrue(o, r, changes)
  BY <1>1, RunTyped
<1>4. CASE Update(r, Gone(r, "ended")) BY <1>2, <1>4, RunGone
<1>5. CASE Update(r, [Goes(r, "report") EXCEPT
                        !.status = IF organized[r].impacted = {} THEN "done" ELSE "pending_review"])
  <2>1. PICK status \in {"done", "pending_review"} :
          status = IF organized[r].impacted = {} THEN "done" ELSE "pending_review"
    OBVIOUS
  <2>2. PICK x : x = [o EXCEPT !.at = "report", !.status = status] OBVIOUS
  <2>3. /\ x \in ChangeRecords /\ x.at = "report" /\ x.kind = o.kind /\ x.told = o.told
        /\ x.asked = o.asked /\ x.dry = o.dry /\ x.attempt = o.attempt
    BY <2>1, <2>2 DEF ChangeRecords, ChangeStages
  <2>4. organized' = [organized EXCEPT ![r] = x]
    BY <1>1, <1>5, <2>1, <2>2 DEF Update, Goes
  <2>6. ReportIsTrue(x, r, changes)
    BY <1>2, <1>3, <2>3 DEF ReportIsTrue, MoveTrue, TellsAll, Unchanging
  <2>7. MoveTrue(x, r, tree, excused, changes) BY <2>3 DEF MoveTrue
  <2> QED BY <1>1, <1>2, <2>3, <2>4, <2>6, <2>7, RunGoesOn
<1> QED BY <1>4, <1>5 DEF DocsDone

LEMMA ReportKeeps ==
  ASSUME ChangesInv, NEW r \in ChangeRuns, ReportChanges(r)
  PROVE  ChangesInv'
<1>1. PICK o \in ChangeRecords : o = organized[r] BY RunTyped
<1>2. o.at = "report" /\ FilesRest BY <1>1 DEF ReportChanges, AtChange
<1>3. ReportIsTrue(o, r, changes) BY <1>1, RunTyped
<1>4. PICK x : x = [o EXCEPT !.at = "reported"] OBVIOUS
<1>5. /\ x \in ChangeRecords /\ x.at = "reported" /\ x.kind = o.kind /\ x.told = o.told
      /\ x.asked = o.asked /\ x.dry = o.dry /\ x.attempt = o.attempt
  BY <1>4 DEF ChangeRecords, ChangeStages
<1>6. organized' = [organized EXCEPT ![r] = x]
  BY <1>1, <1>4 DEF ReportChanges, Update, Goes
<1>7. ReportIsTrue(x, r, changes)
  BY <1>2, <1>3, <1>5 DEF ReportIsTrue, TellsAll, Unchanging
<1>8. MoveTrue(x, r, tree, excused, changes) BY <1>5 DEF MoveTrue
<1> QED BY <1>1, <1>2, <1>5, <1>6, <1>7, <1>8, RunGoesOn

LEMMA DieKeeps ==
  ASSUME ChangesInv, NEW r \in ChangeRuns, Die(r)
  PROVE  ChangesInv'
BY RunGone DEF Die

----------------------------------------------------------------------------
\* The docs maintainer passes to the next document.
PassedDoc(o, told) == [o EXCEPT !.at = "doc", !.items = Tail(o.items), !.told = told]

LEMMA DocPassed ==
  ASSUME ChangesInv, NEW r \in ChangeRuns, organized[r].items # <<>>,
         organized[r].at \in {"doc", "update"}, FilesRest,
         NEW told \in Seq(Tellings), Update(r, NextDoc(r, told)),
         \/ told = organized[r].told
         \/ \E p \in ChangePaths : OneMore(told, organized[r].told, Telling(p, p, FALSE))
  PROVE  ChangesInv'
<1>1. PICK o \in ChangeRecords : o = organized[r] BY RunTyped
<1>2. MoveTrue(o, r, tree, excused, changes) /\ ReportIsTrue(o, r, changes)
  BY <1>1, RunTyped
<1>3. Tail(o.items) \in Seq(ChangePaths)
  <2>1. o.items \in Seq(ChangePaths) /\ o.items # <<>> BY <1>1 DEF ChangeRecords
  <2> QED BY <2>1, HeadTailProperties
<1>4. PICK x : x = PassedDoc(o, told) OBVIOUS
<1>5. /\ x \in ChangeRecords /\ x.at = "doc" /\ x.kind = o.kind /\ x.told = told
      /\ x.asked = o.asked /\ x.dry = o.dry /\ x.attempt = o.attempt
  BY <1>3, <1>4 DEF PassedDoc, ChangeRecords, ChangeStages
<1>6. organized' = [organized EXCEPT ![r] = x]
  BY <1>1, <1>4 DEF Update, NextDoc, Goes, PassedDoc
<1>7. o.kind = "docs" /\ o.attempt = 1 /\ TellsAll(o, r, changes)
  BY <1>1, <1>2 DEF MoveTrue, ReportIsTrue, ChangeRecords
<1>8. ReportIsTrue(x, r, changes)
  <2>1. CASE told = o.told
    BY <1>2, <1>5, <1>7, <2>1 DEF ReportIsTrue, TellsAll, Unchanging
  <2>2. ASSUME NEW p \in ChangePaths, OneMore(told, o.told, Telling(p, p, FALSE))
        PROVE  ReportIsTrue(x, r, changes)
    <3>1. PICK ok \in BOOLEAN : ok = FALSE OBVIOUS
    <3>2. TellsAll(o, r, changes \ {Line(r, p, p)}) BY <1>7 DEF TellsAll
    <3>3. OneMore(x.told, o.told, Telling(p, p, ok)) /\ x.at \in {"move", "doc", "update"}
      BY <1>5, <2>2, <3>1
    <3> QED BY <1>2, <1>5, <3>1, <3>2, <3>3, ToldTrue
  <2> QED BY <1>1, <2>1, <2>2
<1>9. MoveTrue(x, r, tree, excused, changes) BY <1>5, <1>7 DEF MoveTrue
<1> QED BY <1>1, <1>5, <1>6, <1>8, <1>9, RunGoesOn

LEMMA UpdatesDoneKeeps ==
  ASSUME ChangesInv, NEW r \in ChangeRuns, UpdatesDone(r)
  PROVE  ChangesInv'
<1>1. PICK told \in Seq(Tellings) : told = organized[r].told
  BY RunTyped DEF ChangeRecords
<1>2. MoveTrue(organized[r], r, tree, excused, changes) BY RunTyped
<1>3. organized[r].at = "update" /\ FilesRest /\ Update(r, NextDoc(r, told))
  BY <1>1 DEF UpdatesDone, AtChange
<1>4. organized[r].items # <<>> BY <1>2, <1>3 DEF MoveTrue
<1> QED BY <1>1, <1>3, <1>4, DocPassed

LEMMA UpdateKeeps ==
  ASSUME ChangesInv, NEW r \in ChangeRuns, UpdateDoc(r)
  PROVE  ChangesInv'
<1>1. PICK o \in ChangeRecords : o = organized[r] BY RunTyped
<1>2. o.at = "doc" /\ o.items # <<>> /\ FilesRest BY <1>1 DEF UpdateDoc, AtChange
<1>3. PICK p \in ChangePaths : p = o.items[1]
  <2>1. o.items \in Seq(ChangePaths) BY DEF ChangeRecords
  <2>2. Len(o.items) \in Nat \ {0} BY <1>2, <2>1, EmptySeq
  <2>3. o.items[1] \in ChangePaths BY <2>1, <2>2, ElementOfSeq
  <2> QED BY <2>3
<1>4. MoveTrue(o, r, tree, excused, changes) /\ ReportIsTrue(o, r, changes)
  BY <1>1, RunTyped
<1>5. CASE Update(r, NextDoc(r, Told(r, p, p, FALSE)))
  <2>1. PICK ok \in BOOLEAN : ok = FALSE OBVIOUS
  <2>2. PICK told \in Seq(Tellings) :
          told = Append(o.told, Telling(p, p, ok)) /\ OneMore(told, o.told, Telling(p, p, ok))
    BY OneMoreTold
  <2>3. Told(r, p, p, FALSE) = told BY <1>1, <2>1, <2>2 DEF Told, Telling
  <2>4. Update(r, NextDoc(r, told)) BY <1>5, <2>3
  <2>5. OneMore(told, organized[r].told, Telling(p, p, FALSE)) BY <1>1, <2>1, <2>2
  <2> QED BY <1>1, <1>2, <2>4, <2>5, DocPassed
<1>6. ASSUME NEW ps \in DocAnswers,
             Update(r, [Goes(r, "update") EXCEPT !.todo =
                          [i \in DOMAIN ps |-> [source |-> ps[i], target |-> ps[i]]]])
      PROVE  ChangesInv'
  <2>1. PICK todo : todo = [i \in DOMAIN ps |-> [source |-> ps[i], target |-> ps[i]]]
    OBVIOUS
  <2>2. todo \in Seq(PlannedChanges)
    <3>1. ps \in Seq(ChangePaths) BY ChangesAssumption
    <3>2. Len(ps) \in Nat /\ DOMAIN ps = 1 .. Len(ps) BY <3>1, LenProperties
    <3>3. \A i \in 1 .. Len(ps) : ps[i] \in ChangePaths BY <3>1, ElementOfSeq
    <3>4. \A i \in 1 .. Len(ps) : [source |-> ps[i], target |-> ps[i]] \in PlannedChanges
      BY <3>3 DEF PlannedChanges
    <3>5. todo \in [1 .. Len(ps) -> PlannedChanges] BY <2>1, <3>2, <3>4
    <3> QED BY <3>2, <3>5, SeqDef
  <2>3. PICK x : x = [o EXCEPT !.at = "update", !.todo = todo] OBVIOUS
  <2>4. /\ x \in ChangeRecords /\ x.at = "update" /\ x.kind = o.kind /\ x.told = o.told
        /\ x.asked = o.asked /\ x.dry = o.dry /\ x.attempt = o.attempt /\ x.items = o.items
    BY <2>2, <2>3 DEF ChangeRecords, ChangeStages
  <2>5. organized' = [organized EXCEPT ![r] = x]
    BY <1>1, <1>6, <2>1, <2>3 DEF Update, Goes
  <2>6. ReportIsTrue(x, r, changes)
    BY <1>2, <1>4, <2>4 DEF ReportIsTrue, TellsAll, Unchanging
  <2>7. MoveTrue(x, r, tree, excused, changes) BY <1>2, <1>4, <2>4 DEF MoveTrue
  <2> QED BY <1>1, <1>2, <2>4, <2>5, <2>6, <2>7, RunGoesOn
<1>7. CASE Update(r, Gone(r, "ended")) BY <1>2, <1>7, RunGone
<1>8. \/ Update(r, NextDoc(r, Told(r, p, p, FALSE)))
      \/ \E ps \in DocAnswers :
           Update(r, [Goes(r, "update") EXCEPT !.todo =
                        [i \in DOMAIN ps |-> [source |-> ps[i], target |-> ps[i]]]])
      \/ Update(r, Gone(r, "ended"))
  BY <1>1, <1>3 DEF UpdateDoc
<1> QED BY <1>5, <1>6, <1>7, <1>8

----------------------------------------------------------------------------
\* A resumed organizer goes on with the first of its steps that is not logged,
\* and tells nothing of what it did before.
LEMMA ResumeKeeps ==
  ASSUME ChangesInv, NEW r \in ChangeRuns, ResumeOrganize(r)
  PROVE  ChangesInv'
<1>1. PICK o \in ChangeRecords : o = organized[r] BY RunTyped
<1>2. o.kind = "organize" /\ FilesRest BY <1>1 DEF ResumeOrganize
<1>3. PICK left : left = {i \in 1..4 : OrganizeSteps[i] \notin o.logged} OBVIOUS
<1>4. PICK place \in OrganizerSteps \cup {"ended"} :
        place = IF left = {} THEN "ended"
                ELSE OrganizeSteps[CHOOSE i \in left : \A j \in left : i <= j]
  <2>1. CASE left = {} BY <2>1
  <2>2. CASE left # {}
    <3>1. left \subseteq {1, 2, 3, 4} BY <1>3
    <3>2. \E i \in left : \A j \in left : i <= j
      <4>1. CASE 1 \in left BY <3>1, <4>1
      <4>2. CASE 1 \notin left /\ 2 \in left BY <3>1, <4>2
      <4>3. CASE 1 \notin left /\ 2 \notin left /\ 3 \in left BY <3>1, <4>3
      <4>4. CASE 1 \notin left /\ 2 \notin left /\ 3 \notin left
        <5>1. PICK k \in left : TRUE BY <2>2
        <5>2. k = 4 /\ \A j \in left : j = 4 BY <3>1, <4>4, <5>1
        <5> QED BY <5>1, <5>2
      <4> QED BY <4>1, <4>2, <4>3, <4>4
    <3>3. PICK i \in {1, 2, 3, 4} : i = CHOOSE k \in left : \A j \in left : k <= j
      BY <3>1, <3>2
    <3>4. OrganizeSteps[i] \in OrganizerSteps BY DEF OrganizeSteps, OrganizerSteps
    <3>5. PICK w \in OrganizerSteps : w = OrganizeSteps[i] BY <3>4
    <3>6. w = IF left = {} THEN "ended"
              ELSE OrganizeSteps[CHOOSE k \in left : \A j \in left : k <= j]
      BY <2>2, <3>3, <3>5
    <3>7. w \in OrganizerSteps \cup {"ended"} OBVIOUS
    <3> QED BY <3>6, <3>7, Zenon
  <2> QED BY <2>1, <2>2
<1>5. place \in OrganizerSteps \cup {"ended"} /\ o.asked \in BOOLEAN
  BY <1>4 DEF ChangeRecords
<1>6. PICK y \in ChangeRecords :
        /\ y = Emptied(o, "ended") /\ y.kind = o.kind /\ y.told = <<>>
        /\ y.asked = o.asked /\ y.todo = <<>>
  BY GoneRun
<1>7. PICK x : x = [y EXCEPT !.attempt = 2, !.dry = o.asked, !.at = place] OBVIOUS
<1>16. place \in ChangeStages BY <1>5 DEF ChangeStages, OrganizerSteps
<1>8. /\ x \in ChangeRecords /\ x.at = place /\ x.kind = o.kind /\ x.told = <<>>
      /\ x.asked = o.asked /\ x.dry = o.asked /\ x.attempt = 2
  BY <1>5, <1>6, <1>7, <1>16 DEF ChangeRecords
<1>9. organized' = [organized EXCEPT ![r] = x]
  <2>1. Update(r, [Emptied(o, "ended") EXCEPT !.attempt = 2, !.dry = o.asked, !.at = place])
    BY <1>1, <1>3, <1>4 DEF ResumeOrganize, Gone, Emptied, RestoredDry
  <2> QED BY <1>6, <1>7, <2>1 DEF Update
<1>10. ReportIsTrue(o, r, changes) BY <1>1, RunTyped
<1>11. ReportIsTrue(x, r, changes)
  BY <1>2, <1>5, <1>8, <1>10 DEF ReportIsTrue, OrganizerSteps
<1>12. MoveTrue(x, r, tree, excused, changes) BY <1>5, <1>8 DEF MoveTrue, OrganizerSteps
<1> QED BY <1>1, <1>2, <1>8, <1>9, <1>11, <1>12, RunGoesOn

----------------------------------------------------------------------------
\* The actions that write: the journal, or a file.
LEMMA KindsStay ==
  ASSUME ChangesInv, NEW r \in ChangeRuns, NEW x \in ChangeRecords,
         x.kind = organized[r].kind, organized' = [organized EXCEPT ![r] = x]
  PROVE  \A o \in ChangeRuns : organized'[o].kind = organized[o].kind
BY DEF ChangesInv, ChangesTypeOK

\* A content that nothing was put over is where it was.
LEMMA KeptOn ==
  ASSUME ChangesInv, NEW c \in DOMAIN lastAt \ {CutShort},
         NEW ch, ch = changes', changes \subseteq ch,
         \A o \in ChangeRuns : organized'[o].kind = organized[o].kind,
         NEW p, p = lastAt[c], lastAt'[c] = p, NEW ex, ex = excused', excused \subseteq ex,
         tree[p] = c => \/ tree'[p] = c
                        \/ c \in ex
                        \/ \E l \in changes : organized[l.run].kind = "docs" /\ l.source = p
  PROVE  KeptAt(c)'
<1>1. KeptAt(c) BY DEF ChangesInv
<1>2. ASSUME NEW l \in changes, organized[l.run].kind = "docs", l.source = p
      PROVE  KeptAt(c)'
  <2>1. l.run \in ChangeRuns BY DEF ChangesInv, ChangesTypeOK, JournalLines
  <2>2. l \in changes' /\ organized'[l.run].kind = "docs" /\ l.source = lastAt'[c]
    BY <1>2, <2>1
  <2> QED BY <2>2 DEF KeptAt
<1>3. CASE c \in ex BY <1>3 DEF KeptAt
<1>4. CASE tree'[p] = c BY <1>4 DEF KeptAt
<1> QED BY <1>1, <1>2, <1>3, <1>4 DEF KeptAt

LEMMA JournalKeeps ==
  ASSUME ChangesInv, NEW r \in ChangeRuns,
         NEW o \in ChangeRecords, o = organized[r],
         NEW source \in ChangePaths, NEW target \in ChangePaths,
         NEW place \in {"rename", "write"}, Update(r, Goes(r, place)),
         changes' = changes \cup {Line(r, source, target)},
         UNCHANGED <<tree, edited, lastAt, excused>>,
         o.todo # <<>>, ~o.dry, source = o.todo[1].source,
         \/ place = "rename" /\ target = o.todo[1].target /\ o.at = "journal"
         \/ place = "write" /\ target = source /\ o.at = "update"
  PROVE  ChangesInv'
<1>1. MoveTrue(o, r, tree, excused, changes) /\ ReportIsTrue(o, r, changes) BY RunTyped
<1>2. PICK x : x = [o EXCEPT !.at = place] OBVIOUS
<1>3. /\ x \in ChangeRecords /\ x.at = place /\ x.kind = o.kind /\ x.told = o.told
      /\ x.asked = o.asked /\ x.dry = o.dry /\ x.attempt = o.attempt /\ x.todo = o.todo
      /\ x.items = o.items
  BY <1>2 DEF ChangeRecords, ChangeStages
<1>4. organized' = [organized EXCEPT ![r] = x] /\ x.kind = organized[r].kind
  BY <1>2, <1>3 DEF Update, Goes
<1>5. PICK t, ex, ch, line : /\ t = tree /\ ex = excused /\ ch = changes \cup {line}
                             /\ line = Line(r, source, target)
  OBVIOUS
<1>6. line \in JournalLines /\ line.run = r BY <1>5 DEF Line, JournalLines
<1>7. /\ DOMAIN t = ChangePaths /\ t = [p \in ChangePaths |-> t[p]] /\ ch \subseteq JournalLines
      /\ edited' \in Nat /\ \A c \in DOMAIN lastAt' : lastAt'[c] \in ChangePaths
      /\ NoFile \notin DOMAIN lastAt'
  BY <1>5, <1>6 DEF ChangesInv, ChangesTypeOK
<1>8. tree' = t /\ excused' = ex /\ changes' = ch BY <1>5
<1>9. MoveTrue(x, r, t, ex, ch) BY <1>1, <1>3, <1>5 DEF MoveTrue
<1>10. ReportIsTrue(x, r, ch) BY <1>1, <1>3, <1>5 DEF ReportIsTrue, TellsAll, Unchanging
<1>11. changes \subseteq ch /\ \A l \in ch \ changes : l.run = r BY <1>5, <1>6
<1>12. \A q \in ChangeRuns \ {r} :
         organized[q].at \in {"journal", "rename"} =>
           t[organized[q].todo[1].target] \in ex \cup {NoFile, CutShort}
  BY <1>5 DEF ChangesInv, MoveTrue
<1>13. ASSUME NEW c \in DOMAIN lastAt' \ {CutShort} PROVE KeptAt(c)'
  <2>1. \A q \in ChangeRuns : organized'[q].kind = organized[q].kind
    BY <1>3, <1>4, KindsStay
  <2>2. PICK p : p = lastAt[c] OBVIOUS
  <2>3. /\ c \in DOMAIN lastAt \ {CutShort} /\ lastAt'[c] = p /\ tree'[p] = tree[p]
        /\ excused \subseteq ex
    BY <1>5, <2>2
  <2> QED BY <1>8, <1>11, <2>1, <2>2, <2>3, KeptOn
<1>14. Moved(r, x, t, ex, ch) BY <1>4, <1>7, <1>9, <1>10, <1>11, <1>12 DEF Moved
<1> QED BY <1>3, <1>4, <1>7, <1>8, <1>13, <1>14, RunMoves

LEMMA JournalMoveKeeps ==
  ASSUME ChangesInv, NEW r \in ChangeRuns, JournalMove(r)
  PROVE  ChangesInv'
<1>1. PICK o \in ChangeRecords : o = organized[r] BY RunTyped
<1>2. o.at = "journal" BY <1>1 DEF JournalMove, AtChange
<1>3. o.todo # <<>> /\ ~o.dry BY <1>1, <1>2, RunTyped DEF MoveTrue
<1>4. CASE RecordMove(r, FALSE) /\ UNCHANGED changes
  <2>1. PICK ok \in BOOLEAN : ok = FALSE OBVIOUS
  <2>2. RecordMove(r, ok) /\ FilesRest BY <1>4, <2>1 DEF JournalMove, FilesRest
  <2>3. organized[r].at \in {"journal", "rename"} /\ organized[r].todo # <<>> /\ ~ok
    BY <1>1, <1>2, <1>3, <2>1
  <2> QED BY <2>2, <2>3, MoveRecorded
<1>5. CASE /\ changes' = changes \cup
                {Line(r, organized[r].todo[1].source, organized[r].todo[1].target)}
           /\ Update(r, Goes(r, "rename"))
  <2>1. PICK source \in ChangePaths, target \in ChangePaths :
          source = o.todo[1].source /\ target = o.todo[1].target
    BY <1>3, NextTodo
  <2>2. PICK place \in {"rename", "write"} : place = "rename" OBVIOUS
  <2>3. /\ changes' = changes \cup {Line(r, source, target)} /\ Update(r, Goes(r, place))
        /\ UNCHANGED <<tree, edited, lastAt, excused>>
    BY <1>1, <1>5, <2>1, <2>2 DEF JournalMove
  <2> QED BY <1>1, <1>2, <1>3, <2>1, <2>2, <2>3, JournalKeeps
<1> QED BY <1>4, <1>5 DEF JournalMove

LEMMA JournalDocKeeps ==
  ASSUME ChangesInv, NEW r \in ChangeRuns, JournalDoc(r)
  PROVE  ChangesInv'
<1>1. PICK o \in ChangeRecords : o = organized[r] BY RunTyped
<1>2. o.at = "update" /\ o.todo # <<>> BY <1>1 DEF JournalDoc, AtChange
<1>3. PICK p \in ChangePaths : p = o.todo[1].source BY <1>2, NextTodo
<1>4. CASE ~o.dry
  <2>1. PICK place \in {"rename", "write"} : place = "write" OBVIOUS
  <2>2. /\ changes' = changes \cup {Line(r, p, p)} /\ Update(r, Goes(r, place))
        /\ UNCHANGED <<tree, edited, lastAt, excused>>
    BY <1>1, <1>3, <1>4, <2>1 DEF JournalDoc
  <2> QED BY <1>1, <1>2, <1>3, <1>4, <2>1, <2>2, JournalKeeps
<1>5. CASE o.dry
  <2>1. PICK ok \in BOOLEAN : ok = TRUE OBVIOUS
  <2>2. PICK x \in ChangeRecords :
          /\ x = Noted(o, "update", p, p, ok) /\ x.at = "update" /\ x.kind = o.kind
          /\ x.asked = o.asked /\ x.dry = o.dry /\ x.attempt = o.attempt /\ x.items = o.items
          /\ OneMore(x.told, o.told, Telling(p, p, ok))
    BY <1>2, NotedRun
  <2>3. organized' = [organized EXCEPT ![r] = x] /\ FilesRest
    <3>1. /\ Update(r, [o EXCEPT !.todo = Tail(@), !.told = Append(o.told, Telling(p, p, ok))])
          /\ FilesRest
      BY <1>1, <1>3, <1>5, <2>1 DEF JournalDoc, Told, Telling, FilesRest
    <3>2. [o EXCEPT !.todo = Tail(@), !.told = Append(o.told, Telling(p, p, ok))] = x
      BY <1>2, <2>2 DEF Noted, ChangeRecords
    <3> QED BY <3>1, <3>2 DEF Update
  <2>4. MoveTrue(o, r, tree, excused, changes) /\ ReportIsTrue(o, r, changes)
    BY <1>1, RunTyped
  <2>5. \A l \in changes : l.run # r BY <1>5, <2>4 DEF ReportIsTrue
  <2>6. ReportIsTrue(x, r, changes)
    BY <1>5, <2>2, <2>4, <2>5 DEF ReportIsTrue, TellsAll, Unchanging
  <2>7. MoveTrue(x, r, tree, excused, changes) BY <1>2, <2>2, <2>4 DEF MoveTrue
  <2> QED BY <1>1, <2>2, <2>3, <2>6, <2>7, RunGoesOn
<1> QED BY <1>4, <1>5

----------------------------------------------------------------------------
\* Run r comes to x and puts c at p, with the files and the excused contents
\* that it leaves: what was at p is accounted for.
PutBy(r, x, p, c, t, ex) ==
    /\ x.kind = organized[r].kind /\ x.at \in {"move", "update", "dead"}
    /\ x.at = "update" => x.kind = "docs" /\ x.items # <<>>
    /\ ReportIsTrue(x, r, changes)
    /\ DOMAIN t = ChangePaths /\ t = [q \in ChangePaths |-> t[q]] /\ t[p] = c
    /\ \A q \in ChangePaths \ {p} : t[q] = tree[q] \/ (t[q] = NoFile /\ tree[q] \in {c, NoFile})
    /\ excused \subseteq ex
    /\ Exposed(p, r) => c \in ex \cup {CutShort}
    /\ \/ tree[p] \in excused \cup {NoFile, CutShort}
       \/ \E l \in changes : organized[l.run].kind = "docs" /\ l.source = p

LEMMA PutKeeps ==
  ASSUME ChangesInv, NEW r \in ChangeRuns, NEW x \in ChangeRecords, NEW p \in ChangePaths,
         NEW c, NEW t, NEW ex, PutBy(r, x, p, c, t, ex),
         organized' = [organized EXCEPT ![r] = x], tree' = t, excused' = ex,
         UNCHANGED <<changes, edited>>,
         \/ c = CutShort /\ lastAt' = lastAt
         \/ c # NoFile /\ Put(c, p)
  PROVE  ChangesInv'
<1>1. PICK ch : ch = changes OBVIOUS
<1>2. PICK last, was : last = lastAt' /\ was = lastAt OBVIOUS
<1>3. /\ \A d \in DOMAIN last \ {c} : d \in DOMAIN was /\ last[d] = was[d]
      /\ c \in DOMAIN last /\ c # CutShort => last[c] = p
      /\ \A d \in DOMAIN last : last[d] \in ChangePaths
      /\ NoFile \notin DOMAIN last
  <2>1. (\A d \in DOMAIN was : was[d] \in ChangePaths) /\ NoFile \notin DOMAIN was
    BY <1>2 DEF ChangesInv, ChangesTypeOK
  <2>2. CASE c = CutShort /\ last = was BY <2>1, <2>2
  <2>3. CASE c # NoFile /\ last = [y \in DOMAIN was \cup {c} |-> IF y = c THEN p ELSE was[y]]
    BY <2>1, <2>3
  <2>4. \/ c = CutShort /\ last = was
        \/ c # NoFile /\ last = [y \in DOMAIN was \cup {c} |-> IF y = c THEN p ELSE was[y]]
    BY <1>2 DEF Put
  <2> QED BY <2>2, <2>3, <2>4
<1>4. /\ tree' = t /\ excused' = ex /\ changes' = ch /\ ch \subseteq JournalLines
      /\ edited' \in Nat /\ \A d \in DOMAIN lastAt' : lastAt'[d] \in ChangePaths
      /\ NoFile \notin DOMAIN lastAt'
  BY <1>1, <1>2, <1>3 DEF ChangesInv, ChangesTypeOK
<1>5. MoveTrue(x, r, t, ex, ch) BY DEF MoveTrue, PutBy
<1>6. ReportIsTrue(x, r, ch) /\ changes \subseteq ch /\ \A l \in ch \ changes : l.run = r
  BY <1>1 DEF PutBy
<1>7. ASSUME NEW o \in ChangeRuns \ {r}, organized[o].at \in {"journal", "rename"}
      PROVE  t[organized[o].todo[1].target] \in ex \cup {NoFile, CutShort}
  <2>1. PICK q : q = organized[o].todo[1].target OBVIOUS
  <2>2. MoveTrue(organized[o], o, tree, excused, changes) /\ organized[o] \in ChangeRecords
    BY RunTyped
  <2>3. organized[o].todo # <<>> BY <1>7, <2>2 DEF MoveTrue
  <2>4. q \in ChangePaths BY <2>1, <2>2, <2>3, NextTodo
  <2>5. CASE q = p
    <3>1. Exposed(p, r) BY <1>7, <2>1, <2>5 DEF Exposed, AboutToFill
    <3> QED BY <2>1, <2>5, <3>1 DEF PutBy
  <2>6. CASE q # p
    <3>1. tree[q] \in excused \cup {NoFile, CutShort} BY <1>7, <2>1, <2>2 DEF MoveTrue
    <3> QED BY <2>1, <2>4, <2>6, <3>1 DEF PutBy
  <2> QED BY <2>5, <2>6
<1>8. \A q \in ChangeRuns : organized'[q].kind = organized[q].kind
  BY KindsStay DEF PutBy
<1>9. ASSUME NEW d \in DOMAIN lastAt' \ {CutShort} PROVE KeptAt(d)'
  <2>1. CASE d = c
    <3>1. lastAt'[d] = p /\ tree'[p] = d BY <1>2, <1>3, <1>9, <2>1 DEF PutBy
    <3> QED BY <3>1 DEF KeptAt
  <2>2. CASE d # c
    <3>1. PICK q : q = lastAt[d] OBVIOUS
    <3>2. d \in DOMAIN lastAt \ {CutShort} /\ lastAt'[d] = q
      BY <1>2, <1>3, <1>9, <2>2, <3>1
    <3>3. q \in ChangePaths /\ d # NoFile BY <3>1, <3>2 DEF ChangesInv, ChangesTypeOK
    <3>4. tree[q] = d => \/ tree'[q] = d
                         \/ d \in ex
                         \/ \E l \in changes : organized[l.run].kind = "docs" /\ l.source = q
      <4>1. CASE q = p BY <1>9, <3>3, <4>1 DEF PutBy
      <4>2. CASE q # p BY <2>2, <3>3, <4>2 DEF PutBy
      <4> QED BY <4>1, <4>2
    <3>5. ch = changes' /\ changes \subseteq ch BY <1>1
    <3>6. excused \subseteq ex /\ ex = excused' BY DEF PutBy
    <3> QED BY <1>8, <3>1, <3>2, <3>4, <3>5, <3>6, KeptOn
  <2> QED BY <2>1, <2>2
<1>10. Moved(r, x, t, ex, ch) BY <1>4, <1>5, <1>6, <1>7 DEF Moved, PutBy
<1> QED BY <1>4, <1>9, <1>10, RunMoves

LEMMA RenameKeeps ==
  ASSUME ChangesInv, NEW r \in ChangeRuns, Rename(r)
  PROVE  ChangesInv'
<1>1. PICK o \in ChangeRecords : o = organized[r] BY RunTyped
<1>2. o.at = "rename" BY <1>1 DEF Rename, AtChange
<1>3. MoveTrue(o, r, tree, excused, changes) /\ ReportIsTrue(o, r, changes)
  BY <1>1, RunTyped
<1>4. o.todo # <<>> /\ ~o.dry BY <1>2, <1>3 DEF MoveTrue
<1>5. PICK source \in ChangePaths, target \in ChangePaths :
        source = o.todo[1].source /\ target = o.todo[1].target
  BY <1>4, NextTodo
<1>6. PICK c : c = tree[source] OBVIOUS
<1>7. CASE RecordMove(r, FALSE) /\ UNCHANGED <<tree, lastAt, excused>>
  <2>1. PICK ok \in BOOLEAN : ok = FALSE OBVIOUS
  <2>2. RecordMove(r, ok) /\ FilesRest BY <1>7, <2>1 DEF Rename, FilesRest
  <2>3. organized[r].at \in {"journal", "rename"} /\ organized[r].todo # <<>> /\ ~ok
    BY <1>1, <1>2, <1>4, <2>1
  <2> QED BY <2>2, <2>3, MoveRecorded
<1>8. CASE /\ c # NoFile
           /\ tree' = [tree EXCEPT ![source] = NoFile, ![target] = c]
           /\ Put(c, target)
           /\ excused' = IF Exposed(target, r) THEN excused \cup {c} ELSE excused
           /\ RecordMove(r, TRUE)
  <2>1. PICK ok \in BOOLEAN : ok = TRUE OBVIOUS
  <2>2. PICK x \in ChangeRecords :
          /\ x = Noted(o, "move", source, target, ok) /\ x.at = "move" /\ x.kind = o.kind
          /\ x.asked = o.asked /\ x.dry = o.dry /\ x.attempt = o.attempt
          /\ OneMore(x.told, o.told, Telling(source, target, ok))
    BY <1>4, NotedRun
  <2>3. organized' = [organized EXCEPT ![r] = x]
    BY <1>1, <1>5, <1>8, <2>1, <2>2 DEF RecordMove, Update, Goes, Told, Noted, Telling
  <2>4. /\ source # target /\ tree[target] \in excused \cup {NoFile, CutShort}
        /\ Line(r, source, target) \in changes
    BY <1>2, <1>3, <1>5 DEF MoveTrue
  <2>5. ReportIsTrue(x, r, changes)
    <3>1. o.attempt = 1 => TellsAll(o, r, changes \ {Line(r, source, target)})
      BY <1>2, <1>3, <1>5 DEF ReportIsTrue
    <3>2. x.at \in {"move", "doc", "update"} /\ (~o.dry /\ ok => Line(r, source, target) \in changes)
      BY <2>2, <2>4
    <3> QED BY <1>3, <2>2, <3>1, <3>2, ToldTrue
  <2>6. PICK t, ex : t = tree' /\ ex = excused' OBVIOUS
  <2>7. /\ DOMAIN t = ChangePaths /\ t = [q \in ChangePaths |-> t[q]] /\ t[target] = c
        /\ \A q \in ChangePaths \ {target} :
             t[q] = tree[q] \/ (t[q] = NoFile /\ tree[q] \in {c, NoFile})
    BY <1>6, <1>8, <2>4, <2>6 DEF ChangesInv, ChangesTypeOK
  <2>8. excused \subseteq ex /\ (Exposed(target, r) => c \in ex \cup {CutShort})
    BY <1>8, <2>6
  <2>9. UNCHANGED <<changes, edited>> /\ Put(c, target) BY <1>8 DEF Rename
  <2>10. /\ x.kind = organized[r].kind /\ x.at \in {"move", "update", "dead"}
         /\ x.at = "update" => x.kind = "docs" /\ x.items # <<>>
    BY <1>1, <2>2
  <2>11. PutBy(r, x, target, c, t, ex) BY <2>4, <2>5, <2>7, <2>8, <2>10 DEF PutBy
  <2> QED BY <1>8, <2>3, <2>6, <2>9, <2>11, PutKeeps
<1> QED BY <1>1, <1>5, <1>6, <1>7, <1>8 DEF Rename

LEMMA WritingDoc ==
  ASSUME ChangesInv, NEW r \in ChangeRuns, AtChange(r, "write")
  PROVE  /\ organized[r].kind = "docs" /\ organized[r].todo # <<>> /\ ~organized[r].dry
         /\ organized[r].items # <<>>
         /\ Line(r, organized[r].todo[1].source, organized[r].todo[1].source) \in changes
         /\ \E l \in changes : /\ organized[l.run].kind = "docs"
                               /\ l.source = organized[r].todo[1].source
<1>1. MoveTrue(organized[r], r, tree, excused, changes) BY RunTyped
<1>2. /\ organized[r].kind = "docs" /\ organized[r].todo # <<>> /\ ~organized[r].dry
      /\ organized[r].items # <<>>
      /\ Line(r, organized[r].todo[1].source, organized[r].todo[1].source) \in changes
  BY <1>1 DEF AtChange, MoveTrue
<1> QED BY <1>2 DEF Line

LEMMA WriteDocKeeps ==
  ASSUME ChangesInv, NEW r \in ChangeRuns, WriteDoc(r)
  PROVE  ChangesInv'
<1>1. PICK o \in ChangeRecords : o = organized[r] BY RunTyped
<1>2. o.at = "write" /\ AtChange(r, "write") BY <1>1 DEF WriteDoc, AtChange
<1>3. PICK p : p = o.todo[1].source OBVIOUS
<1>4. /\ o.kind = "docs" /\ o.todo # <<>> /\ ~o.dry /\ o.items # <<>> /\ Line(r, p, p) \in changes
      /\ \E l \in changes : organized[l.run].kind = "docs" /\ l.source = p
  BY <1>1, <1>2, <1>3, WritingDoc
<1>5. p \in ChangePaths BY <1>3, <1>4, NextTodo
<1>6. ReportIsTrue(o, r, changes) BY <1>1, RunTyped
<1>7. PICK ok \in BOOLEAN : ok = TRUE OBVIOUS
<1>8. PICK x \in ChangeRecords :
        /\ x = Noted(o, "update", p, p, ok) /\ x.at = "update" /\ x.kind = o.kind
        /\ x.asked = o.asked /\ x.dry = o.dry /\ x.attempt = o.attempt /\ x.items = o.items
        /\ OneMore(x.told, o.told, Telling(p, p, ok))
  BY <1>4, <1>5, NotedRun
<1>9. organized' = [organized EXCEPT ![r] = x]
  BY <1>1, <1>3, <1>7, <1>8 DEF WriteDoc, Update, Goes, Told, Noted, Telling
<1>10. ReportIsTrue(x, r, changes)
  <2>1. o.attempt = 1 => TellsAll(o, r, changes \ {Line(r, p, p)})
    BY <1>2, <1>3, <1>6 DEF ReportIsTrue
  <2>2. x.at \in {"move", "doc", "update"} /\ (~o.dry /\ ok => Line(r, p, p) \in changes)
    BY <1>4, <1>8
  <2> QED BY <1>5, <1>6, <1>8, <2>1, <2>2, ToldTrue
<1>11. PICK c : c = Rewritten(r, p) OBVIOUS
<1>12. c # NoFile BY <1>5, <1>11, ChangesAssumption DEF Rewritten, Content, Wordings
<1>13. PICK t, ex : t = tree' /\ ex = excused' OBVIOUS
<1>14. /\ tree' = [tree EXCEPT ![p] = c] /\ Put(c, p) /\ UNCHANGED <<changes, edited>>
       /\ excused' = IF Exposed(p, r) THEN excused \cup {c} ELSE excused
  BY <1>1, <1>3, <1>11 DEF WriteDoc
<1>15. /\ DOMAIN t = ChangePaths /\ t = [q \in ChangePaths |-> t[q]] /\ t[p] = c
       /\ \A q \in ChangePaths \ {p} : t[q] = tree[q]
  BY <1>5, <1>13, <1>14 DEF ChangesInv, ChangesTypeOK
<1>16. excused \subseteq ex /\ (Exposed(p, r) => c \in ex \cup {CutShort})
  BY <1>13, <1>14
<1>17. /\ x.kind = organized[r].kind /\ x.at \in {"move", "update", "dead"}
       /\ x.at = "update" => x.kind = "docs" /\ x.items # <<>>
  BY <1>1, <1>4, <1>8
<1>18. PutBy(r, x, p, c, t, ex) BY <1>4, <1>10, <1>15, <1>16, <1>17 DEF PutBy
<1> QED BY <1>5, <1>9, <1>12, <1>13, <1>14, <1>18, PutKeeps

LEMMA DieWritingKeeps ==
  ASSUME ChangesInv, NEW r \in ChangeRuns, DieWriting(r)
  PROVE  ChangesInv'
<1>1. PICK o \in ChangeRecords : o = organized[r] BY RunTyped
<1>2. AtChange(r, "write") BY DEF DieWriting
<1>3. PICK p : p = o.todo[1].source OBVIOUS
<1>4. /\ o.todo # <<>> /\ \E l \in changes : organized[l.run].kind = "docs" /\ l.source = p
  BY <1>1, <1>2, <1>3, WritingDoc
<1>5. p \in ChangePaths BY <1>3, <1>4, NextTodo
<1>6. ReportIsTrue(o, r, changes) BY <1>1, RunTyped
<1>7. PICK x \in ChangeRecords :
        /\ x = Emptied(o, "dead") /\ x.at = "dead" /\ x.kind = o.kind /\ x.told = <<>>
        /\ x.asked = o.asked /\ x.dry = o.dry /\ x.attempt = o.attempt
  BY GoneRun
<1>8. organized' = [organized EXCEPT ![r] = x]
  BY <1>1, <1>7 DEF DieWriting, Update, Gone, Emptied
<1>9. ReportIsTrue(x, r, changes) BY <1>6, <1>7 DEF ReportIsTrue, Unchanging
<1>10. PICK t, ex, c : t = tree' /\ ex = excused' /\ c = CutShort OBVIOUS
<1>11. /\ tree' = [tree EXCEPT ![p] = c] /\ UNCHANGED <<changes, edited>>
       /\ lastAt' = lastAt /\ ex = excused
  BY <1>1, <1>3, <1>10 DEF DieWriting
<1>12. /\ DOMAIN t = ChangePaths /\ t = [q \in ChangePaths |-> t[q]] /\ t[p] = c
       /\ \A q \in ChangePaths \ {p} : t[q] = tree[q]
  BY <1>5, <1>10, <1>11 DEF ChangesInv, ChangesTypeOK
<1>13. /\ x.kind = organized[r].kind /\ x.at \in {"move", "update", "dead"}
       /\ x.at = "update" => x.kind = "docs" /\ x.items # <<>>
       /\ c = CutShort /\ (Exposed(p, r) => c \in ex \cup {CutShort})
  BY <1>1, <1>7, <1>10
<1>14. PutBy(r, x, p, c, t, ex) BY <1>4, <1>9, <1>11, <1>12, <1>13 DEF PutBy
<1> QED BY <1>5, <1>8, <1>10, <1>11, <1>13, <1>14, PutKeeps

\* Somebody writes a file: the owner knows what was there, and what comes to a
\* target that was found free is excused.
LEMMA EditKeeps ==
  ASSUME ChangesInv, NEW p \in ChangePaths, EditFile(p)
  PROVE  ChangesInv'
<1>1. PICK c : c = Content("edit", edited, p) OBVIOUS
<1>2. c # NoFile
  <2>1. edited \in Nat BY DEF ChangesInv, ChangesTypeOK
  <2> QED BY <1>1, <2>1, ChangesAssumption DEF Content, Wordings
<1>3. PICK t, ex, was, last : t = tree' /\ ex = excused' /\ was = lastAt /\ last = lastAt'
  OBVIOUS
<1>4. /\ tree' = [tree EXCEPT ![p] = c]
      /\ excused' = excused \cup {tree[p]}
                      \cup (IF \E r \in ChangeRuns : AboutToFill(r, p) THEN {c} ELSE {})
      /\ edited' = edited + 1 /\ UNCHANGED <<organized, changes>> /\ Put(c, p)
  BY <1>1 DEF EditFile
<1>5. /\ last = [x \in DOMAIN was \cup {c} |-> IF x = c THEN p ELSE was[x]]
  BY <1>3, <1>4 DEF Put
<1>6. /\ DOMAIN t = ChangePaths /\ t = [q \in ChangePaths |-> t[q]] /\ t[p] = c
      /\ \A q \in ChangePaths \ {p} : t[q] = tree[q]
  BY <1>3, <1>4 DEF ChangesInv, ChangesTypeOK
<1>7. /\ excused \subseteq ex /\ tree[p] \in ex
      /\ \A r \in ChangeRuns : AboutToFill(r, p) => c \in ex
  BY <1>3, <1>4
<1>8. ChangesTypeOK'
  <2>1. (\A d \in DOMAIN last : last[d] \in ChangePaths) /\ NoFile \notin DOMAIN last
    BY <1>2, <1>3, <1>5 DEF ChangesInv, ChangesTypeOK
  <2>2. edited' \in Nat BY <1>4 DEF ChangesInv, ChangesTypeOK
  <2>3. organized' \in [ChangeRuns -> ChangeRecords] /\ changes' \subseteq JournalLines
    BY <1>4 DEF ChangesInv, ChangesTypeOK
  <2> QED BY <1>3, <1>6, <2>1, <2>2, <2>3 DEF ChangesTypeOK
<1>9. ASSUME NEW o \in ChangeRuns
      PROVE  MoveTrue(organized[o], o, tree, excused, changes)' /\ ReportIsTrue(organized[o], o, changes)'
  <2>1. PICK y \in ChangeRecords : y = organized[o] BY RunTyped
  <2>2. PICK now, spared, lines : now = tree /\ spared = excused /\ lines = changes
    OBVIOUS
  <2>3. MoveTrue(y, o, now, spared, lines) /\ ReportIsTrue(y, o, lines)
    BY <2>1, <2>2, RunTyped
  <2>4. ASSUME y.at \in {"journal", "rename"}
        PROVE  t[y.todo[1].target] \in ex \cup {NoFile, CutShort}
    <3>1. PICK q \in ChangePaths : q = y.todo[1].target
      <4>1. y.todo # <<>> BY <2>3, <2>4 DEF MoveTrue
      <4> QED BY <4>1, NextTodo
    <3>2. CASE q = p
      <4>1. AboutToFill(o, p) BY <2>1, <2>4, <3>1, <3>2 DEF AboutToFill
      <4> QED BY <1>6, <1>7, <3>1, <3>2, <4>1
    <3>3. CASE q # p
      <4>1. now[q] \in spared \cup {NoFile, CutShort} BY <2>3, <2>4, <3>1 DEF MoveTrue
      <4> QED BY <1>6, <1>7, <2>2, <3>1, <3>3, <4>1
    <3> QED BY <3>2, <3>3
  <2>5. lines \subseteq lines OBVIOUS
  <2>6. MoveTrue(y, o, t, ex, lines) BY <2>3, <2>4, <2>5, MoveStill
  <2>7. organized'[o] = y /\ tree' = t /\ excused' = ex /\ changes' = lines
    BY <1>3, <1>4, <2>1, <2>2
  <2> QED BY <2>3, <2>6, <2>7
<1>10. ASSUME NEW d \in DOMAIN lastAt' \ {CutShort} PROVE KeptAt(d)'
  <2>1. CASE d = c
    <3>1. lastAt'[d] = p /\ tree'[p] = d BY <1>3, <1>5, <1>6, <2>1
    <3> QED BY <3>1 DEF KeptAt
  <2>2. CASE d # c
    <3>1. PICK q : q = lastAt[d] OBVIOUS
    <3>2. d \in DOMAIN lastAt \ {CutShort} /\ lastAt'[d] = q
      BY <1>3, <1>5, <1>10, <2>2, <3>1
    <3>3. q \in ChangePaths BY <3>1, <3>2 DEF ChangesInv, ChangesTypeOK
    <3>4. tree[q] = d => tree'[q] = d \/ d \in ex BY <1>3, <1>6, <1>7, <3>3
    <3>5. PICK ch : ch = changes' /\ changes \subseteq ch BY <1>4
    <3>6. (\A o \in ChangeRuns : organized'[o].kind = organized[o].kind) /\ ex = excused'
      BY <1>3, <1>4
    <3> QED BY <1>7, <3>1, <3>2, <3>4, <3>5, <3>6, KeptOn
  <2> QED BY <2>1, <2>2
<1> QED BY <1>8, <1>9, <1>10 DEF ChangesInv

LEMMA ChangesStep == ChangesInv /\ [ChangesNext]_changeVars => ChangesInv'
<1> SUFFICES ASSUME ChangesInv, [ChangesNext]_changeVars PROVE ChangesInv' OBVIOUS
<1>1. CASE UNCHANGED changeVars
  BY <1>1 DEF changeVars, ChangesInv, ChangesTypeOK, MoveTrue, ReportIsTrue, TellsAll, KeptAt
<1>2. ASSUME NEW r \in ChangeRuns,
             StartChanges(r) \/ PrepareStep(r) \/ AskApplier(r) \/ BelieveMove(r) \/ TestMove(r)
               \/ JournalMove(r) \/ Rename(r) \/ MovesDone(r)
      PROVE  ChangesInv'
  BY <1>2, StartKeeps, PrepareKeeps, AskKeeps, BelieveKeeps, TestKeeps, JournalMoveKeeps,
     RenameKeeps, MovesDoneKeeps
<1>3. ASSUME NEW r \in ChangeRuns,
             Detect(r) \/ UpdateDoc(r) \/ UpdatesDone(r) \/ JournalDoc(r) \/ WriteDoc(r)
               \/ DieWriting(r) \/ DocsDone(r)
      PROVE  ChangesInv'
  BY <1>3, DetectKeeps, UpdateKeeps, UpdatesDoneKeeps, JournalDocKeeps, WriteDocKeeps,
     DieWritingKeeps, DocsDoneKeeps
<1>4. ASSUME NEW r \in ChangeRuns, ReportChanges(r) \/ Die(r) \/ ResumeOrganize(r)
      PROVE  ChangesInv'
  BY <1>4, ReportKeeps, DieKeeps, ResumeKeeps
<1>5. ASSUME NEW p \in ChangePaths, EditFile(p) PROVE ChangesInv' BY <1>5, EditKeeps
<1> QED BY <1>1, <1>2, <1>3, <1>4, <1>5 DEF ChangesNext

LEMMA ChangesImply == ChangesInv => FilesKept /\ ReportsComplete
<1> SUFFICES ASSUME ChangesInv PROVE FilesKept /\ ReportsComplete OBVIOUS
<1>1. ASSUME NEW c \in DOMAIN lastAt \ {CutShort}
      PROVE  \/ InTree(c)
             \/ c \in excused
             \/ \E l \in changes : organized[l.run].kind = "docs" /\ l.source = lastAt[c]
  BY DEF ChangesInv, ChangesTypeOK, KeptAt, InTree
<1>2. ASSUME NEW r \in ChangeRuns
      PROVE  LET lines == {l \in changes : l.run = r}
                 run == organized[r]
             IN  /\ run.asked => lines = {}
                 /\ run.at = "reported" /\ ~ run.dry =>
                      /\ \A l \in lines : Tells(r, l)
                      /\ \A i \in DOMAIN run.told :
                           run.told[i].success =>
                               Line(r, run.told[i].source, run.told[i].target) \in lines
  <2>1. ReportIsTrue(organized[r], r, changes) /\ organized[r] \in ChangeRecords
    BY RunTyped
  <2>2. organized[r].asked => \A l \in changes : l.run # r BY <2>1 DEF ReportIsTrue
  <2>3. ASSUME organized[r].at = "reported", ~organized[r].dry, NEW l \in changes, l.run = r
        PROVE  Tells(r, l)
    <3>1. organized[r].attempt = 1 BY <2>1, <2>3 DEF ReportIsTrue, ChangeRecords
    <3> QED BY <2>1, <2>3, <3>1 DEF ReportIsTrue, TellsAll, Tells
  <2>4. ASSUME organized[r].at = "reported", ~organized[r].dry,
               NEW i \in DOMAIN organized[r].told, organized[r].told[i].success
        PROVE  /\ Line(r, organized[r].told[i].source, organized[r].told[i].target) \in changes
               /\ Line(r, organized[r].told[i].source, organized[r].told[i].target).run = r
    BY <2>1, <2>4 DEF ReportIsTrue, Line
  <2> QED BY <2>2, <2>3, <2>4
<1> QED BY <1>1, <1>2 DEF FilesKept, ReportsComplete

----------------------------------------------------------------------------
\* FilesAreKept: whoever wrote a file finds it, at its path or where a
\* journalled move took it, unless its owner replaced it, the docs maintainer
\* rewrote it with a line that names it, or it came to the target of a move
\* after that was found free; for any number of runs, deaths and resumes.
THEOREM FilesAreKept == ChangesSpec => []FilesKept
<1>1. ChangesInit => ChangesInv BY ChangesStart
<1>2. ChangesInv /\ [ChangesNext]_changeVars => ChangesInv' BY ChangesStep
<1>3. ChangesInv => FilesKept BY ChangesImply
<1> QED BY <1>1, <1>2, <1>3, PTL DEF ChangesSpec

----------------------------------------------------------------------------
(* Every file is at the end of a chain of journalled moves.                *)
LEMMA LeadsOn ==
  ASSUME NEW p, NEW q, NEW lines, Leads(p, q, lines)
  PROVE  /\ \A more : lines \subseteq more => Leads(p, q, more)
         /\ \A l \in lines : l.source = q => Leads(p, l.target, lines)
BY DEF Leads

LEMMA TracedOn ==
  ASSUME NEW c, NEW p, NEW lines, NEW more, Traced(c, p, lines), lines \subseteq more
  PROVE  Traced(c, p, more)
<1>1. CASE c = CutShort
  <2>1. PICK l \in lines : l.source = l.target /\ Leads(l.source, p, lines)
    BY <1>1 DEF Traced
  <2>2. Leads(l.source, p, more) BY <2>1, LeadsOn
  <2> QED BY <1>1, <2>1, <2>2 DEF Traced
<1>2. CASE c # CutShort
  <2>1. Leads(c.at, p, lines) /\ (c.by = "rewritten" => Line(c.n, c.at, c.at) \in lines)
    BY <1>2 DEF Traced
  <2>2. Leads(c.at, p, more) BY <2>1, LeadsOn
  <2> QED BY <1>2, <2>1, <2>2 DEF Traced
<1> QED BY <1>1, <1>2

LEMMA TracedMoved ==
  ASSUME NEW c, NEW lines, NEW line \in lines, Traced(c, line.source, lines)
  PROVE  Traced(c, line.target, lines)
<1>1. CASE c = CutShort
  <2>1. PICK l \in lines : l.source = l.target /\ Leads(l.source, line.source, lines)
    BY <1>1 DEF Traced
  <2>2. Leads(l.source, line.target, lines) BY <2>1, LeadsOn
  <2> QED BY <1>1, <2>1, <2>2 DEF Traced
<1>2. CASE c # CutShort
  <2>1. Leads(c.at, line.source, lines) /\ (c.by = "rewritten" => Line(c.n, c.at, c.at) \in lines)
    BY <1>2 DEF Traced
  <2>2. Leads(c.at, line.target, lines) BY <2>1, LeadsOn
  <2> QED BY <1>2, <2>1, <2>2 DEF Traced
<1> QED BY <1>1, <1>2

\* A content that is written at p is traced, if a rewriting has its line.
LEMMA WrittenTraced ==
  ASSUME NEW by \in {"first", "edit", "rewritten"}, NEW n \in Nat \cup ChangeRuns,
         NEW p \in ChangePaths, NEW lines, by = "rewritten" => Line(n, p, p) \in lines
  PROVE  Traced(Content(by, n, p), p, lines)
<1>1. PICK c : c = Content(by, n, p) OBVIOUS
<1>2. c.at = p /\ c.by = by /\ c.n = n /\ c \in Wordings BY <1>1 DEF Content, Wordings
<1>3. c # CutShort BY <1>2, ChangesAssumption
<1>4. Leads(p, p, lines) BY DEF Leads
<1> QED BY <1>1, <1>2, <1>3, <1>4 DEF Traced

LEMMA TracesStart == ChangesInit => FilesTraced
<1> SUFFICES ASSUME ChangesInit, NEW p \in ChangePaths, tree[p] # NoFile
             PROVE  Traced(tree[p], p, changes)
  BY DEF FilesTraced
<1>1. tree[p] = Content("first", 0, p) BY DEF ChangesInit, First
<1>2. PICK by \in {"first", "edit", "rewritten"}, n \in Nat \cup ChangeRuns : by = "first" /\ n = 0
  OBVIOUS
<1>3. Traced(Content(by, n, p), p, changes) BY <1>2, WrittenTraced
<1> QED BY <1>1, <1>2, <1>3

\* Lines are only added, and what comes to a path is traced.
LEMMA TracesGrow ==
  ASSUME ChangesInv, FilesTraced, NEW t, NEW ch, tree' = t, changes' = ch, changes \subseteq ch,
         \A p \in ChangePaths : t[p] \in {NoFile, tree[p]} \/ Traced(t[p], p, ch)
  PROVE  FilesTraced'
<1>1. ASSUME NEW p \in ChangePaths, t[p] # NoFile PROVE Traced(t[p], p, ch)
  <2>1. CASE t[p] = tree[p]
    <3>1. PICK lines, c : lines = changes /\ c = tree[p] OBVIOUS
    <3>2. Traced(c, p, lines) /\ lines \subseteq ch BY <1>1, <2>1, <3>1 DEF FilesTraced
    <3>3. Traced(c, p, ch) BY <3>2, TracedOn
    <3> QED BY <2>1, <3>1, <3>3
  <2> QED BY <1>1, <2>1
<1> QED BY <1>1 DEF FilesTraced

LEMMA RenameTraces ==
  ASSUME ChangesInv, FilesTraced, NEW r \in ChangeRuns, Rename(r)
  PROVE  FilesTraced'
<1>1. PICK o \in ChangeRecords : o = organized[r] BY RunTyped
<1>2. MoveTrue(o, r, tree, excused, changes) /\ o.at = "rename"
  BY <1>1, RunTyped DEF Rename, AtChange
<1>3. o.todo # <<>> BY <1>2 DEF MoveTrue
<1>4. PICK source \in ChangePaths, target \in ChangePaths :
        source = o.todo[1].source /\ target = o.todo[1].target
  BY <1>3, NextTodo
<1>5. PICK t, lines, c, line : t = tree' /\ lines = changes /\ c = tree[source]
                               /\ line = Line(r, source, target)
  OBVIOUS
<1>6. line \in lines /\ line.source = source /\ line.target = target /\ changes' = lines
  BY <1>2, <1>4, <1>5 DEF MoveTrue, Line, Rename
<1>7. CASE UNCHANGED tree BY <1>5, <1>6, <1>7, TracesGrow
<1>8. CASE c # NoFile /\ tree' = [tree EXCEPT ![source] = NoFile, ![target] = c]
  <2>1. Traced(c, source, lines) BY <1>5, <1>8 DEF FilesTraced
  <2>2. Traced(c, target, lines) BY <1>6, <2>1, TracedMoved
  <2>3. \A p \in ChangePaths : t[p] \in {NoFile, tree[p]} \/ (p = target /\ t[p] = c)
    BY <1>5, <1>8 DEF ChangesInv, ChangesTypeOK
  <2>4. \A p \in ChangePaths : t[p] \in {NoFile, tree[p]} \/ Traced(t[p], p, lines)
    BY <2>2, <2>3
  <2> QED BY <1>5, <1>6, <2>4, TracesGrow
<1> QED BY <1>1, <1>4, <1>5, <1>7, <1>8 DEF Rename

LEMMA WriteTraces ==
  ASSUME ChangesInv, FilesTraced, NEW r \in ChangeRuns, WriteDoc(r) \/ DieWriting(r)
  PROVE  FilesTraced'
<1>1. PICK o \in ChangeRecords : o = organized[r] BY RunTyped
<1>2. AtChange(r, "write") BY DEF WriteDoc, DieWriting
<1>3. PICK p : p = o.todo[1].source OBVIOUS
<1>4. o.todo # <<>> /\ Line(r, p, p) \in changes BY <1>1, <1>2, <1>3, WritingDoc
<1>5. p \in ChangePaths BY <1>3, <1>4, NextTodo
<1>6. PICK t, lines : t = tree' /\ lines = changes OBVIOUS
<1>7. CASE WriteDoc(r)
  <2>1. tree' = [tree EXCEPT ![p] = Rewritten(r, p)] /\ changes' = lines
    BY <1>1, <1>3, <1>6, <1>7 DEF WriteDoc
  <2>2. PICK by \in {"first", "edit", "rewritten"}, n \in Nat \cup ChangeRuns : by = "rewritten" /\ n = r
    OBVIOUS
  <2>3. Traced(Content(by, n, p), p, lines) BY <1>4, <1>5, <1>6, <2>2, WrittenTraced
  <2>4. Traced(Rewritten(r, p), p, lines) BY <2>2, <2>3 DEF Rewritten
  <2>5. \A q \in ChangePaths : t[q] = tree[q] \/ (q = p /\ t[q] = Rewritten(r, p))
    BY <1>5, <1>6, <2>1 DEF ChangesInv, ChangesTypeOK
  <2>6. \A q \in ChangePaths : t[q] \in {NoFile, tree[q]} \/ Traced(t[q], q, lines)
    BY <2>4, <2>5
  <2> QED BY <1>6, <2>1, <2>6, TracesGrow
<1>8. CASE DieWriting(r)
  <2>1. tree' = [tree EXCEPT ![p] = CutShort] /\ changes' = lines
    BY <1>1, <1>3, <1>6, <1>8 DEF DieWriting
  <2>2. Traced(CutShort, p, lines)
    <3>1. PICK l \in lines : l.source = p /\ l.target = p BY <1>4, <1>6 DEF Line
    <3>2. Leads(l.source, p, lines) BY <3>1 DEF Leads
    <3> QED BY <3>1, <3>2 DEF Traced
  <2>3. \A q \in ChangePaths : t[q] = tree[q] \/ (q = p /\ t[q] = CutShort)
    BY <1>5, <1>6, <2>1 DEF ChangesInv, ChangesTypeOK
  <2>4. \A q \in ChangePaths : t[q] \in {NoFile, tree[q]} \/ Traced(t[q], q, lines)
    BY <2>2, <2>3
  <2> QED BY <1>6, <2>1, <2>4, TracesGrow
<1> QED BY <1>7, <1>8

LEMMA EditTraces ==
  ASSUME ChangesInv, FilesTraced, NEW p \in ChangePaths, EditFile(p)
  PROVE  FilesTraced'
<1>1. PICK t, lines, c : t = tree' /\ lines = changes /\ c = Content("edit", edited, p)
  OBVIOUS
<1>2. tree' = [tree EXCEPT ![p] = c] /\ changes' = lines BY <1>1 DEF EditFile
<1>3. PICK by \in {"first", "edit", "rewritten"}, n \in Nat \cup ChangeRuns : by = "edit" /\ n = edited
  BY DEF ChangesInv, ChangesTypeOK
<1>4. Traced(Content(by, n, p), p, lines) BY <1>3, WrittenTraced
<1>5. Traced(c, p, lines) BY <1>1, <1>3, <1>4
<1>6. \A q \in ChangePaths : t[q] = tree[q] \/ (q = p /\ t[q] = c)
  BY <1>1, <1>2 DEF ChangesInv, ChangesTypeOK
<1>7. \A q \in ChangePaths : t[q] \in {NoFile, tree[q]} \/ Traced(t[q], q, lines)
  BY <1>5, <1>6
<1> QED BY <1>1, <1>2, <1>7, TracesGrow

LEMMA TracesStep == ChangesInv /\ FilesTraced /\ [ChangesNext]_changeVars => FilesTraced'
<1> SUFFICES ASSUME ChangesInv, FilesTraced, [ChangesNext]_changeVars PROVE FilesTraced'
  OBVIOUS
<1>1. CASE tree' = tree /\ changes \subseteq changes'
  <2>1. PICK t, ch : t = tree' /\ ch = changes' /\ changes \subseteq ch BY <1>1
  <2>2. \A p \in ChangePaths : t[p] \in {NoFile, tree[p]} BY <1>1, <2>1
  <2> QED BY <2>1, <2>2, TracesGrow
<1>2. CASE UNCHANGED changeVars BY <1>1, <1>2 DEF changeVars
<1>3. ASSUME NEW r \in ChangeRuns,
             StartChanges(r) \/ PrepareStep(r) \/ AskApplier(r) \/ BelieveMove(r) \/ TestMove(r)
               \/ JournalMove(r) \/ Rename(r) \/ MovesDone(r)
      PROVE  FilesTraced'
  BY <1>1, <1>3, RenameTraces DEF StartChanges, PrepareStep, AskApplier, BelieveMove, TestMove,
     JournalMove, MovesDone, FilesRest
<1>4. ASSUME NEW r \in ChangeRuns,
             Detect(r) \/ UpdateDoc(r) \/ UpdatesDone(r) \/ JournalDoc(r) \/ WriteDoc(r)
               \/ DieWriting(r) \/ DocsDone(r)
      PROVE  FilesTraced'
  BY <1>1, <1>4, WriteTraces DEF Detect, UpdateDoc, UpdatesDone, JournalDoc, DocsDone, FilesRest
<1>5. ASSUME NEW r \in ChangeRuns, ReportChanges(r) \/ Die(r) \/ ResumeOrganize(r)
      PROVE  FilesTraced'
  BY <1>1, <1>5 DEF ReportChanges, Die, ResumeOrganize, FilesRest
<1>6. ASSUME NEW p \in ChangePaths, EditFile(p) PROVE FilesTraced' BY <1>6, EditTraces
<1> QED BY <1>2, <1>3, <1>4, <1>5, <1>6 DEF ChangesNext

\* ChangesAreAccounted: what became of every file and what the journal and the
\* reports say of it agree: a file is at the end of a chain of journalled moves
\* from where it was written, a report tells all that its run has journalled
\* and nothing else as done, and a dry run, resumed or not, changes nothing.
THEOREM ChangesAreAccounted == ChangesSpec => []ChangesAccounted
<1>1. ChangesInit => ChangesInv /\ FilesTraced BY ChangesStart, TracesStart
<1>2. (ChangesInv /\ FilesTraced) /\ [ChangesNext]_changeVars => (ChangesInv /\ FilesTraced)'
  BY ChangesStep, TracesStep
<1>3. ChangesInv /\ FilesTraced => ChangesAccounted BY ChangesImply DEF ChangesAccounted
<1> QED BY <1>1, <1>2, <1>3, PTL DEF ChangesSpec
=============================================================================
