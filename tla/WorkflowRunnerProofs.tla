------------------------- MODULE WorkflowRunnerProofs ------------------------
(***************************************************************************)
(* Proofs about WorkflowRunner: its types, the invariant IInv, and what it *)
(* implies of a run: the data of a step stays in its attempt, the budget   *)
(* is overshot by less than the pool has workers, a run ends with its      *)
(* verdict, the runner implements RunContract, and, when no parallel-safe  *)
(* step depends on another, dependencies settle first.                     *)
(*                                                                         *)
(* The ledger is only ever appended to, so the first lemmas say what one   *)
(* more entry (and the entries that open an attempt) do to what is read    *)
(* from it.  A step of _run_step is then described by where it takes the   *)
(* step of the workflow (Advances) and by what its entry does to the       *)
(* ledger (Logs): the parts of IInv follow from these two.                 *)
(***************************************************************************)
EXTENDS WorkflowRunner, FiniteSetTheorems, SequenceTheorems, WellFoundedInduction, TLAPS

----------------------------------------------------------------------------
(* The invariant.                                                          *)

\* The entries of a ledger.
Entries == [type : EventTypes, step : Steps \cup {NoStep}]

\* The attempt is under way.
Under == {"preflight", "group", "running", "complete", "fail", "diagnose", "raising"}

\* The verdict of the attempt has not been written.
Open == {"preflight", "group", "running", "complete", "fail"}

\* Nothing is logged of a step after it has settled.
SettledOnce ==
    \A i, j \in Positions :
        log[i].type \in Settling /\ log[j].step = log[i].step
          /\ log[j].type \in Settling \cup {"failed"} /\ log[i].step \in Steps => j <= i

\* Outside the group no step has been started.
Fresh ==
    main \notin {"running", "complete", "fail", "diagnose", "raising"} =>
        /\ todo = {} /\ pc = [s \in Steps |-> "waiting"] /\ result = Unknown
        /\ used = 0 /\ parallel = FALSE

\* Steps are under way only while the group runs.
Quiet == main # "running" => Running = {}

\* What the runner takes for done is settled in the ledger.
PriorIsSettled == \A s \in Steps : prior[s] = "ok" => s \in SettledSteps

\* Before the group starts, replay has found every step that is settled.
SettledIsPrior ==
    main \in {"preflight", "group"} => \A s \in SettledSteps : prior[s] = "ok"

\* Where a step of the group is tells its outcome so far.
Group ==
    main = "running" => \A s \in Steps :
        /\ s \in todo => pc[s] = "waiting" /\ s \notin SettledSteps
        /\ s \in Running => s \notin SettledSteps
        /\ pc[s] = "waiting" => s \in todo \/ prior[s] = "ok"
        /\ pc[s] = "done" => result[s] \in {"ok", "fail"}
        /\ pc[s] = "done" /\ result[s] = "ok" => s \in SettledSteps
        /\ pc[s] \in {"waiting", "begun", "invoke", "execute"} => result[s] = "none"
        /\ pc[s] \in {"record", "transition"} => result[s] # "none"

\* A run that is about to complete has settled every step.
AllSettled == main = "complete" => SettledSteps = Steps

\* Where run is tells the verdict that its ledger has.
VerdictKnown ==
    /\ main = "idle" => log = <<>>
    /\ main \in Open =>
         /\ Verdict = "open"
         /\ \A i \in Positions : log[i].type = "run_failed" => ~InAttempt(i)
    /\ main = "diagnose" => Verdict = "failed"
    /\ main = "raising" => Verdict \in {"open", "failed"}

\* The agent may be called for these, and no call has been counted.
Busy == {s \in Steps : pc[s] \in {"invoke", "execute", "record"}}

\* These were counted, and will be logged as completed.
Granted == {s \in Steps : pc[s] = "transition" /\ result[s] = "ok"}

\* Every completion was counted, and the calls that are not counted yet fit in
\* the limit and the workers of the pool.
Counted ==
    /\ main \in Under => Count("completed") + Cardinality(Granted) <= used
    /\ Count("completed") + Cardinality(Granted) < AgentLimit
    /\ used + Cardinality(Busy) <= AgentLimit + MaxWorkers - 1
    /\ Cardinality(Running) <= MaxWorkers

\* In one thread the counter is behind the ledger by the step under way only.
InOneThread ==
    /\ main \in {"preflight", "group"} => Count("invoked") = 0
    /\ main = "running" /\ ~parallel =>
         /\ \A s, t \in Running : s = t
         /\ Running # {} => Failed = {}
         /\ Count("invoked") <= AgentLimit
         /\ Running = {} /\ Failed = {} => Count("invoked") = used
         /\ \A s \in Steps :
              /\ pc[s] = "begun" => Count("invoked") = used
              /\ pc[s] = "invoke" => Count("invoked") = used /\ used < AgentLimit
              /\ pc[s] \in {"execute", "record"} => Count("invoked") = used + 1
              /\ pc[s] = "transition" /\ result[s] = "ok" => Count("invoked") = used

\* The inductive invariant.
IInv ==
    /\ TypeOK
    /\ SettledOnce /\ PriorIsSettled /\ SettledIsPrior /\ AllSettled
    /\ Fresh /\ Quiet /\ Group
    /\ VerdictKnown
    /\ Counted /\ InOneThread

----------------------------------------------------------------------------
\* Where the entry after the last one goes.
NewEntry == Len(log) + 1

----------------------------------------------------------------------------
(* The ledger.                                                             *)

\* A set of natural numbers that is not empty has a least element.
LEMMA LeastOf ==
  ASSUME NEW T \in SUBSET Nat, T # {}
  PROVE  \E x \in T : \A y \in T : ~(y < x)
<1> DEFINE R == OpToRel(<, Nat)
<1>1. IsWellFoundedOn(R, Nat) BY NatLessThanWellFounded
<1>2. \A x, y \in Nat : x < y => <<x, y>> \in R BY DEF OpToRel
<1> HIDE DEF R
<1>3. PICK x \in T : \A y \in T : ~(<<y, x>> \in R) BY <1>1, WFMin, Zenon
<1> QED BY <1>2, <1>3

\* A set of positions that is not empty has a last one.
LEMMA LastOf ==
  ASSUME NEW n \in Nat, NEW S \in SUBSET (1..n), S # {}
  PROVE  \E i \in S : \A j \in S : j <= i
<1> DEFINE T == {x \in Nat : n - x \in S}
<1>1. T \in SUBSET Nat /\ T # {}
  <2>1. PICK i \in S : i \in 1..n OBVIOUS
  <2>2. n - i \in Nat /\ n - (n - i) = i BY <2>1
  <2>3. n - i \in T BY <2>1, <2>2
  <2> QED BY <2>3
<1>2. PICK x \in T : \A y \in T : ~(y < x)
  <2> HIDE DEF T
  <2> QED BY <1>1, LeastOf
<1>3. n - x \in S OBVIOUS
<1>4. ASSUME NEW j \in S PROVE j <= n - x
  <2>1. n - j \in Nat /\ n - (n - j) = j OBVIOUS
  <2>2. ~(n - j < x) BY <1>2, <2>1
  <2> QED BY <2>2, <2>1
<1> QED BY <1>3, <1>4

\* What an entry that is appended leaves and what it adds.
LEMMA Appended ==
  ASSUME log \in Seq(Entries), NEW e \in Entries, log' = Append(log, e)
  PROVE  /\ log' \in Seq(Entries)
         /\ Len(log) \in Nat
         /\ Positions = 1..Len(log)
         /\ Len(log)' = Len(log) + 1
         /\ Positions' = Positions \cup {NewEntry} /\ NewEntry \notin Positions
         /\ \A i \in Positions : log'[i] = log[i] /\ i < NewEntry
         /\ log'[NewEntry] = e
BY DEF Positions, NewEntry

\* Only the settling of a step adds to the settled steps.
LEMMA SettledAfter ==
  ASSUME log \in Seq(Entries), NEW e \in Entries, log' = Append(log, e)
  PROVE  /\ e.type \notin Settling => SettledSteps' = SettledSteps
         /\ e.type \in Settling /\ e.step \in Steps =>
              SettledSteps' = SettledSteps \cup {e.step}
<1>1. ASSUME NEW s \in Steps
      PROVE SettledBefore(s, Len(log) + 1)' <=>
              SettledBefore(s, Len(log) + 1) \/ (e.step = s /\ e.type \in Settling)
  BY Appended DEF SettledBefore, Positions, NewEntry
<1> QED BY <1>1 DEF SettledSteps

\* The entries that decide the verdict.
Verdicts == {"initiated", "run_completed", "run_failed"}

\* The verdict that such an entry is.
VerdictOf(type) ==
    CASE type = "run_completed" -> "completed"
      [] type = "run_failed" -> "failed"
      [] OTHER -> "open"

\* Only those entries change the verdict.
LEMMA VerdictAfter ==
  ASSUME log \in Seq(Entries), NEW e \in Entries, log' = Append(log, e)
  PROVE  Verdict' = IF e.type \in Verdicts THEN VerdictOf(e.type) ELSE Verdict
<1> DEFINE at == {i \in Positions : log[i].type \in Verdicts}
           last == CHOOSE i \in at : \A j \in at : j <= i
<1>0. Verdict = IF at = {} THEN "none" ELSE VerdictOf(log[last].type)
  BY DEF Verdict, VerdictOf, Verdicts
<1>1. Verdict' = IF at' = {} THEN "none" ELSE VerdictOf(log'[last'].type)
  BY DEF Verdict, VerdictOf, Verdicts
<1>2. CASE e.type \in Verdicts
  <2>1. at' = at \cup {NewEntry} BY Appended, <1>2
  <2>2. \A j \in at : j < NewEntry BY Appended
  <2>3. NewEntry \in Nat /\ at \in SUBSET Nat BY Appended DEF NewEntry
  <2>4. last' = NewEntry
    <3> HIDE DEF at
    <3>1. NewEntry \in at' /\ \A j \in at' : j <= NewEntry BY <2>1, <2>2, <2>3
    <3>2. ASSUME NEW i \in at', \A j \in at' : j <= i PROVE i = NewEntry
      BY <3>1, <2>1, <2>2, <2>3, <3>2
    <3> QED BY <3>1, <3>2
  <2>5. log'[NewEntry] = e BY Appended
  <2>6. at' # {} BY <2>1
  <2> HIDE DEF at, last
  <2> QED BY <1>1, <2>4, <2>5, <2>6, <1>2
<1>3. CASE e.type \notin Verdicts
  <2>1. at' = at BY Appended, <1>3
  <2>2. CASE at = {} BY <2>1, <2>2, <1>0, <1>1, <1>3
  <2>3. CASE at # {}
    <3>1. at \in SUBSET (1..Len(log)) /\ Len(log) \in Nat BY Appended DEF Positions
    <3>2. last \in at
      <4> HIDE DEF at
      <4> QED BY <3>1, <2>3, LastOf
    <3>3. last' = last BY <2>1
    <3>4. log'[last] = log[last] BY <3>2, Appended
    <3> HIDE DEF at, last
    <3> QED BY <3>3, <3>4, <2>1, <2>3, <1>0, <1>1, <1>3
  <2> QED BY <2>2, <2>3
<1> QED BY <1>2, <1>3

\* An entry that starts no attempt belongs to the one it is in, and leaves the
\* others where they are.
LEMMA AttemptAfter ==
  ASSUME log \in Seq(Entries), NEW e \in Entries, log' = Append(log, e),
         e.type # "initiated"
  PROVE  /\ \A i \in Positions : InAttempt(i)' <=> InAttempt(i)
         /\ \A i \in Positions' \ Positions : InAttempt(i)'
BY Appended DEF InAttempt

\* The entries of the attempt can be counted.
LEMMA CountTypes ==
  ASSUME log \in Seq(Entries), NEW type
  PROVE  Count(type) \in Nat
<1> DEFINE S == {i \in Positions : InAttempt(i) /\ log[i].type = type}
<1>1. S \in SUBSET (1..Len(log)) /\ IsFiniteSet(1..Len(log))
  BY FS_Interval DEF Positions
<1>2. IsFiniteSet(S)
  <2> HIDE DEF S
  <2> QED BY <1>1, FS_Subset
<1> QED BY <1>2, FS_CardinalityType DEF Count

\* An entry that is appended is counted under its type.
LEMMA CountAfter ==
  ASSUME log \in Seq(Entries), NEW e \in Entries, log' = Append(log, e),
         e.type # "initiated", NEW type
  PROVE  Count(type)' = IF e.type = type THEN Count(type) + 1 ELSE Count(type)
<1> DEFINE S == {i \in Positions : InAttempt(i) /\ log[i].type = type}
<1>1. Count(type) = Cardinality(S) BY DEF Count
<1>2. Count(type)' = Cardinality(S') BY DEF Count
<1>3. S' = IF e.type = type THEN S \cup {NewEntry} ELSE S BY Appended, AttemptAfter
<1>4. S \in SUBSET (1..Len(log)) /\ IsFiniteSet(1..Len(log))
  BY FS_Interval DEF Positions
<1>5. NewEntry \notin S BY Appended
<1>6. IsFiniteSet(S)
  <2> HIDE DEF S
  <2> QED BY <1>4, FS_Subset
<1>7. Cardinality(S \cup {NewEntry}) = Cardinality(S) + 1
  <2> HIDE DEF S
  <2> QED BY <1>5, <1>6, FS_AddElement
<1> QED BY <1>1, <1>2, <1>3, <1>7

\* What an attempt that is started or resumed appends.
Opening(events) ==
    /\ events \in Seq(Entries) /\ events # <<>>
    /\ \A k \in 1..Len(events) :
         events[k].type \in {"initiated", "resumed"} /\ events[k].step = NoStep
    /\ events[Len(events)].type = "initiated"

\* What is left of the ledger by the entries that open an attempt.
LEMMA Opened ==
  ASSUME log \in Seq(Entries), NEW events, Opening(events), log' = log \o events
  PROVE  /\ log' \in Seq(Entries)
         /\ Len(log) \in Nat /\ Len(events) \in Nat \ {0}
         /\ Len(log)' = Len(log) + Len(events)
         /\ Positions = 1..Len(log) /\ Positions' = 1..(Len(log) + Len(events))
         /\ \A i \in Positions : log'[i] = log[i]
         /\ \A i \in Positions' \ Positions :
              log'[i].type \in {"initiated", "resumed"} /\ log'[i].step = NoStep
         /\ log'[Len(log) + Len(events)].type = "initiated"
<1>1. log' \in Seq(Entries) /\ Len(log) \in Nat /\ Len(events) \in Nat \ {0}
  BY DEF Opening
<1>2. Len(log)' = Len(log) + Len(events) BY DEF Opening
<1>3. ASSUME NEW i \in 1..(Len(log) + Len(events))
      PROVE  log'[i] = IF i <= Len(log) THEN log[i] ELSE events[i - Len(log)]
  BY DEF Opening
<1>4. Positions = 1..Len(log) /\ Positions' = 1..(Len(log) + Len(events))
  BY <1>2 DEF Positions
<1>5. \A i \in Positions : log'[i] = log[i] BY <1>1, <1>3, <1>4
<1>6. ASSUME NEW i \in Positions' \ Positions
      PROVE  log'[i] = events[i - Len(log)] /\ i - Len(log) \in 1..Len(events)
  BY <1>1, <1>3, <1>4
<1> QED BY <1>1, <1>2, <1>3, <1>4, <1>5, <1>6 DEF Opening

\* An attempt that is opened has no entry yet.
LEMMA NothingInAttempt ==
  ASSUME log \in Seq(Entries), NEW events, Opening(events), log' = log \o events
  PROVE  /\ \A i \in Positions' : ~InAttempt(i)'
         /\ \A type : Count(type)' = 0
<1> DEFINE n == Len(log) + Len(events)
<1>1. n \in Positions' /\ log'[n].type = "initiated" /\ \A i \in Positions' : ~(n < i)
  BY Opened
<1>2. \A i \in Positions' : ~InAttempt(i)' BY <1>1 DEF InAttempt
<1>3. ASSUME NEW type PROVE Count(type)' = 0
  <2> DEFINE S == {i \in Positions : InAttempt(i) /\ log[i].type = type}
  <2>1. S' = {} BY <1>2
  <2>2. Count(type)' = Cardinality(S') BY DEF Count
  <2> HIDE DEF S
  <2> QED BY <2>1, <2>2, FS_EmptySet
<1> QED BY <1>2, <1>3

\* Its verdict is open.
LEMMA VerdictOpened ==
  ASSUME log \in Seq(Entries), NEW events, Opening(events), log' = log \o events
  PROVE  Verdict' = "open"
<1> DEFINE at == {i \in Positions : log[i].type \in Verdicts}
           last == CHOOSE i \in at : \A j \in at : j <= i
           n == Len(log) + Len(events)
<1>1. Verdict' = IF at' = {} THEN "none" ELSE VerdictOf(log'[last'].type)
  BY DEF Verdict, VerdictOf, Verdicts
<1>2. n \in at' /\ \A j \in at' : j <= n BY Opened DEF Verdicts
<1>3. at' \in SUBSET Nat /\ n \in Nat BY Opened
<1>4. log'[n].type = "initiated" BY Opened
<1> HIDE DEF at, n
<1>5. \A i \in at' : (\A j \in at' : j <= i) => i = n BY <1>2, <1>3
<1>6. last' = n BY <1>2, <1>5
<1> HIDE DEF last
<1> QED BY <1>1, <1>2, <1>4, <1>6 DEF VerdictOf

\* Opening an attempt settles nothing.
LEMMA SettledOpened ==
  ASSUME log \in Seq(Entries), NEW events, Opening(events), log' = log \o events
  PROVE  SettledSteps' = SettledSteps
<1>1. ASSUME NEW s \in Steps
      PROVE SettledBefore(s, Len(log) + 1)' <=> SettledBefore(s, Len(log) + 1)
  <2>1. \A j \in Positions' : log'[j].type \in Settling => j \in Positions
    BY Opened DEF Settling
  <2>2. SettledBefore(s, Len(log) + 1)' <=>
          \E j \in Positions' : log'[j].step = s /\ log'[j].type \in Settling
    <3>1. (1..(Len(log) + 1 - 1))' = Positions' BY Opened DEF Positions
    <3> QED BY <3>1 DEF SettledBefore
  <2>3. SettledBefore(s, Len(log) + 1) <=>
          \E j \in Positions : log[j].step = s /\ log[j].type \in Settling
    BY Opened DEF SettledBefore
  <2>4. Positions \subseteq Positions' BY Opened
  <2> QED BY <2>1, <2>2, <2>3, <2>4, Opened
<1> QED BY <1>1 DEF SettledSteps

\* What was written stays as it was read.
LEMMA HistoryOpened ==
  ASSUME log \in Seq(Entries), NEW events, Opening(events), log' = log \o events,
         SettledOnce
  PROVE  SettledOnce'
<1>1. \A i \in Positions' : log'[i].type \in Settling \cup {"failed"} => i \in Positions
  BY Opened DEF Settling
<1>2. \A i \in Positions : log'[i] = log[i] BY Opened
<1> QED BY <1>1, <1>2 DEF SettledOnce

\* An entry about a step that has not settled keeps SettledOnce.
LEMMA SettledOnceAfter ==
  ASSUME log \in Seq(Entries), NEW e \in Entries, log' = Append(log, e), SettledOnce,
         e.type \in Settling \cup {"failed"} => e.step \notin SettledSteps
  PROVE  SettledOnce'
<1>1. ASSUME NEW i \in Positions, log[i].type \in Settling, log[i].step \in Steps
      PROVE log[i].step \in SettledSteps
  BY <1>1, Appended DEF SettledSteps, SettledBefore
<1>2. \A i, j \in Positions : log'[i] = log[i] /\ log'[j] = log[j] BY Appended
<1>3. \A n \in Positions' \ Positions : log'[n] = e /\ \A j \in Positions' : j <= n
  BY Appended DEF NewEntry
<1> QED BY <1>1, <1>2, <1>3 DEF SettledOnce

----------------------------------------------------------------------------
(* Types.                                                                  *)

\* What the runner appends are entries.
LEMMA EventsAreEntries ==
  /\ \A type \in EventTypes : RunEvent(type) \in Entries
  /\ \A type \in EventTypes, s \in Steps : Event(type, s) \in Entries
BY DEF Event, RunEvent, Entries

\* The events that the steps append, as entries of their type.
LEMMA EntryOf ==
  ASSUME NEW type \in EventTypes, NEW s \in Steps \cup {NoStep}
  PROVE  /\ Event(type, s) \in Entries
         /\ Event(type, s).type = type /\ Event(type, s).step = s
         /\ RunEvent(type) \in Entries
         /\ RunEvent(type).type = type /\ RunEvent(type).step = NoStep
BY DEF Event, RunEvent, Entries

\* Start and Resume open an attempt.
LEMMA OpeningEvents ==
  /\ Opening(<<RunEvent("initiated")>>)
  /\ Opening(<<RunEvent("resumed"), RunEvent("initiated")>>)
<1>1. /\ RunEvent("initiated") \in Entries /\ RunEvent("resumed") \in Entries
      /\ RunEvent("initiated").type = "initiated" /\ RunEvent("initiated").step = NoStep
      /\ RunEvent("resumed").type = "resumed" /\ RunEvent("resumed").step = NoStep
  BY EntryOf DEF EventTypes
<1> QED BY <1>1 DEF Opening

\* The type of the ledger, as the lemmas above take it.
LEMMA LogTypes == TypeOK => log \in Seq(Entries)
BY DEF TypeOK, Entries

\* The values of the locals before a run and after it.
LEMMA FirstTypes ==
  ASSUME RunnerAssumption
  PROVE  /\ Unknown \in [Steps -> Outcomes]
         /\ [s \in Steps |-> "waiting"] \in [Steps -> Locations]
         /\ [s \in Steps |-> 0] \in [Steps -> Nat]
         /\ \A s \in Steps : [r \in Steps |-> 0][s] < MaxIterations[s]
<1>1. Unknown \in [Steps -> Outcomes] BY DEF Unknown, Outcomes
<1>2. [s \in Steps |-> "waiting"] \in [Steps -> Locations] BY DEF Locations
<1>3. \A s \in Steps : 0 < MaxIterations[s] BY DEF RunnerAssumption
<1> QED BY <1>1, <1>2, <1>3

\* The locals keep their types when run returns.
LEMMA ReturnTypes ==
  ASSUME RunnerAssumption, NEW to, Return(to)
  PROVE  /\ stale' \in BOOLEAN /\ parallel' \in BOOLEAN /\ late' \in BOOLEAN
         /\ todo' \subseteq Steps
         /\ prior' \in [Steps -> Outcomes] /\ result' \in [Steps -> Outcomes]
         /\ pc' \in [Steps -> Locations]
         /\ tries' \in [Steps -> Nat] /\ \A s \in Steps : tries'[s] < MaxIterations[s]
         /\ used' \in Nat
BY FirstTypes DEF Return

\* Starting and resuming keep the types.
LEMMA BeginTypes ==
  ASSUME RunnerAssumption, TypeOK, NEW events, Opening(events),
         NEW outcomes \in [Steps -> Outcomes], Begin(events, outcomes)
  PROVE  TypeOK'
<1>1. log' \in Seq(Entries) BY Opened DEF Begin, TypeOK, Entries
<1> QED BY <1>1 DEF Begin, TypeOK, Entries, RunnerAssumption

\* The steps of run keep the types.
LEMMA DriveTypes ==
  ASSUME RunnerAssumption, TypeOK, Drive
  PROVE  TypeOK'
<1> USE RunnerAssumption
<1>0. \A type \in EventTypes : Append(log, RunEvent(type)) \in Seq(Entries)
  BY LogTypes, EventsAreEntries
<1>1. CASE Preflight
  <2>1. CASE main' = "group" /\ stale' \in StaleValues
                /\ UNCHANGED <<parallel, todo, prior, pc, tries, result, used, late>>
    <3>1. stale' \in BOOLEAN BY <2>1 DEF RunnerAssumption
    <3> QED BY <1>1, <2>1, <3>1 DEF Preflight, TypeOK
  <2>2. CASE Return("aborted")
    BY <1>1, <2>2, ReturnTypes DEF Preflight, TypeOK, Return, Over
  <2> QED BY <1>1, <2>1, <2>2 DEF Preflight
<1>2. CASE StartGroup BY <1>2 DEF StartGroup, TypeOK, Remaining
<1>3. CASE BeginStep BY <1>3 DEF BeginStep, TypeOK, Locations
<1>4. CASE EndGroup
  <2>1. log' \in Seq(Entries) BY <1>0, <1>4, LogTypes DEF EndGroup, EventTypes
  <2>2. prior' \in [Steps -> Outcomes]
    <3>1. \A s \in Steps : prior[s] \in Outcomes /\ result[s] \in Outcomes BY DEF TypeOK
    <3>2. prior' = [s \in Steps |-> IF result[s] = "none" THEN prior[s] ELSE result[s]]
      BY <1>4 DEF EndGroup
    <3> QED BY <3>1, <3>2
  <2> QED BY <1>4, <2>1, <2>2 DEF EndGroup, TypeOK, Entries
<1>5. CASE Complete
  <2>1. log' \in Seq(Entries) BY <1>0, <1>5 DEF Complete, EventTypes
  <2> QED BY <1>5, <2>1, ReturnTypes DEF Complete, TypeOK, Return, Over, Entries
<1>6. CASE Fail
  <2>1. log' \in Seq(Entries) BY <1>0, <1>6 DEF Fail, EventTypes
  <2> QED BY <1>6, <2>1 DEF Fail, TypeOK, locals, Entries
<1>7. CASE Diagnose
  <2>1. CASE Return("returned")
    BY <1>7, <2>1, ReturnTypes DEF Diagnose, TypeOK, Return, Over
  <2>2. CASE main' = "raising" /\ UNCHANGED locals
    BY <1>7, <2>2 DEF Diagnose, TypeOK, locals
  <2> QED BY <1>7, <2>1, <2>2 DEF Diagnose
<1>8. CASE ReportAndRaise
  <2>1. log' \in Seq(Entries) BY <1>0, <1>8 DEF ReportAndRaise, EventTypes
  <2> QED BY <1>8, <2>1, ReturnTypes DEF ReportAndRaise, TypeOK, Return, Over, Entries
<1> QED BY <1>1, <1>2, <1>3, <1>4, <1>5, <1>6, <1>7, <1>8 DEF Drive

\* A result is an outcome.
LEMMA FinishTypes ==
  ASSUME TypeOK, NEW s \in Steps, NEW outcome \in Outcomes, Finish(s, outcome)
  PROVE  /\ pc' \in [Steps -> Locations] /\ main' = main
         /\ prior' \in [Steps -> Outcomes] /\ result' \in [Steps -> Outcomes]
BY DEF Finish, TypeOK, Locations

\* So is what an exception leaves of it.
LEMMA RaiseTypes ==
  ASSUME TypeOK, NEW s \in Steps, Raise(s)
  PROVE  /\ pc' \in [Steps -> Locations] /\ main' \in {main, "raising"}
         /\ prior' \in [Steps -> Outcomes] /\ result' \in [Steps -> Outcomes]
BY DEF Raise, TypeOK, Locations, Outcomes

\* The steps of _run_step keep the types.
LEMMA StepTypes ==
  ASSUME RunnerAssumption, TypeOK, NEW s \in Steps, RunStep(s)
  PROVE  TypeOK'
<1> USE RunnerAssumption
<1>0. \A type \in EventTypes : Append(log, Event(type, s)) \in Seq(Entries)
  BY LogTypes, EventsAreEntries
<1>1. CASE Skip(s)
  <2>1. log' \in Seq(Entries) BY <1>0, <1>1 DEF Skip, EventTypes
  <2> QED BY <1>1, <2>1, FinishTypes DEF Skip, TypeOK, Outcomes, Entries
<1>2. CASE CheckBudget(s)
  <2>1. CASE Finish(s, "fail")
    BY <1>2, <2>1, FinishTypes DEF CheckBudget, TypeOK, Outcomes
  <2>2. CASE pc' = [pc EXCEPT ![s] = "invoke"] /\ UNCHANGED <<main, prior, result>>
    BY <1>2, <2>2 DEF CheckBudget, TypeOK, Locations
  <2> QED BY <1>2, <2>1, <2>2 DEF CheckBudget
<1>3. CASE Invoke(s)
  <2>1. log' \in Seq(Entries) BY <1>0, <1>3 DEF Invoke, EventTypes
  <2> QED BY <1>3, <2>1 DEF Invoke, Goto, TypeOK, Locations, Entries
<1>4. CASE ExecuteReturns(s)
  BY <1>4 DEF ExecuteReturns, Goto, TypeOK, Locations, Outcomes
<1>5. CASE ExecuteFails(s)
  <2>1. CASE RetriesLeft(s) /\ tries' = [tries EXCEPT ![s] = @ + 1] /\ UNCHANGED <<pc, result>>
    BY <1>5, <2>1 DEF ExecuteFails, RetriesLeft, TypeOK, RunnerAssumption
  <2>2. CASE Goto(s, "execute", "transition") /\ result' = [result EXCEPT ![s] = "fail"]
               /\ UNCHANGED tries
    BY <1>5, <2>2 DEF ExecuteFails, Goto, TypeOK, Locations, Outcomes
  <2> QED BY <1>5, <2>1, <2>2 DEF ExecuteFails
<1>6. CASE ExecuteHalts(s) BY <1>6, RaiseTypes DEF ExecuteHalts, TypeOK
<1>7. CASE Record(s)
  <2>0. used' \in Nat BY <1>7 DEF Record, Spent, TypeOK
  <2>1. CASE Raise(s) BY <1>7, <2>0, <2>1, RaiseTypes DEF Record, TypeOK
  <2>2. CASE pc' = [pc EXCEPT ![s] = "transition"] /\ UNCHANGED <<main, prior, result>>
    BY <1>7, <2>0, <2>2 DEF Record, TypeOK, Locations
  <2> QED BY <1>7, <2>1, <2>2 DEF Record
<1>8. CASE Transition(s)
  <2>1. log' \in Seq(Entries) BY <1>0, <1>8 DEF Transition, EventTypes
  <2>2. result[s] \in Outcomes BY DEF TypeOK
  <2> QED BY <1>8, <2>1, <2>2, FinishTypes DEF Transition, TypeOK, Entries
<1> QED BY <1>1, <1>2, <1>3, <1>4, <1>5, <1>6, <1>7, <1>8 DEF RunStep

\* Replay gives every step an outcome.
LEMMA ReplayedTypes == [s \in Steps |-> Replayed(s)] \in [Steps -> Outcomes]
BY DEF Replayed, Outcomes

\* Every step keeps the types.
LEMMA NextTypes ==
  ASSUME RunnerAssumption, TypeOK, Next
  PROVE  TypeOK'
<1> USE RunnerAssumption
<1>1. CASE Start
  <2>1. Unknown \in [Steps -> Outcomes] BY DEF Unknown, Outcomes
  <2> QED BY <1>1, <2>1, OpeningEvents, BeginTypes DEF Start
<1>2. CASE Resume BY <1>2, ReplayedTypes, OpeningEvents, BeginTypes DEF Resume
<1>3. CASE Crash BY <1>3, ReturnTypes DEF Crash, TypeOK, Return, Over
<1>4. CASE Expire BY <1>4 DEF Expire, TypeOK
<1> QED BY <1>1, <1>2, <1>3, <1>4, DriveTypes, StepTypes DEF Next

\* The types hold before a run.
LEMMA InitTypes ==
  ASSUME RunnerAssumption, Init
  PROVE  TypeOK
<1>1. log \in Seq([type : EventTypes, step : Steps \cup {NoStep}]) /\ runs \in 0..MaxRuns
  BY DEF Init, RunnerAssumption
<1> QED BY <1>1, FirstTypes DEF Init, TypeOK

\* Every variable has the type the code gives it.
THEOREM TypeCorrect == Spec => []TypeOK
<1>1. Init => TypeOK BY RunnerAssumption, InitTypes
<1>2. TypeOK /\ [Next]_vars => TypeOK'
  <2>1. ASSUME TypeOK, UNCHANGED vars PROVE TypeOK' BY <2>1 DEF vars, locals, TypeOK
  <2> QED BY <2>1, NextTypes, RunnerAssumption
<1> QED BY <1>1, <1>2, PTL DEF Spec

----------------------------------------------------------------------------
(* Sets of steps and how many are in them.                                 *)

\* The steps of a workflow are finitely many.
LEMMA StepsFinite ==
  ASSUME RunnerAssumption
  PROVE  /\ IsFiniteSet(Steps)
         /\ \A S \in SUBSET Steps : IsFiniteSet(S) /\ Cardinality(S) \in Nat
<1>1. Len(Order) \in Nat BY DEF RunnerAssumption
<1>2. IsFiniteSet(1..Len(Order)) BY <1>1, FS_Interval
<1>3. IsFiniteSet(Steps)
  <2> DEFINE f == [i \in 1..Len(Order) |-> Order[i]]
  <2>1. f \in Surjection(1..Len(Order), Steps) BY DEF Surjection, Steps
  <2> QED BY <2>1, <1>2, FS_Surjection
<1> QED BY <1>3, FS_Subset, FS_CardinalityType

\* How many steps are in a set with one more or one less.
LEMMA OneMore ==
  ASSUME RunnerAssumption, NEW S \in SUBSET Steps, NEW s \in Steps
  PROVE  /\ Cardinality(S) \in Nat
         /\ Cardinality(S \cup {s}) = Cardinality(S) + (IF s \in S THEN 0 ELSE 1)
         /\ Cardinality(S \ {s}) = Cardinality(S) - (IF s \in S THEN 1 ELSE 0)
<1>1. IsFiniteSet(S) /\ Cardinality(S) \in Nat BY StepsFinite
<1>2. Cardinality(S \cup {s}) = IF s \in S THEN Cardinality(S) ELSE Cardinality(S) + 1
  BY <1>1, FS_AddElement
<1>3. Cardinality(S \ {s}) = IF s \in S THEN Cardinality(S) - 1 ELSE Cardinality(S)
  BY <1>1, FS_RemoveElement
<1> QED BY <1>1, <1>2, <1>3

\* A step goes to another place in _run_step.
Moves(s, l, o) ==
    pc' = [pc EXCEPT ![s] = l] /\ result' = [result EXCEPT ![s] = o]

\* How often a step at l, with the outcome o, is in Busy, Granted and Running.
InBusy(l) == IF l \in {"invoke", "execute", "record"} THEN 1 ELSE 0

InGranted(l, o) == IF l = "transition" /\ o = "ok" THEN 1 ELSE 0

InRunning(l) == IF l \in {"waiting", "done"} THEN 0 ELSE 1

\* The steps under way can be counted.
LEMMA Counts ==
  ASSUME RunnerAssumption
  PROVE  /\ Cardinality(Running) \in Nat /\ Cardinality(Busy) \in Nat
         /\ Cardinality(Granted) \in Nat
<1>1. Running \in SUBSET Steps /\ Busy \in SUBSET Steps /\ Granted \in SUBSET Steps
  BY DEF Running, Busy, Granted
<1> QED BY <1>1, StepsFinite

\* How many are under way after one step moved.
LEMMA CountsAfter ==
  ASSUME RunnerAssumption, TypeOK, NEW s \in Steps, NEW l, NEW o, Moves(s, l, o)
  PROVE  /\ Cardinality(Running)' = Cardinality(Running) + InRunning(l) - InRunning(pc[s])
         /\ Cardinality(Busy)' = Cardinality(Busy) + InBusy(l) - InBusy(pc[s])
         /\ Cardinality(Granted)' =
              Cardinality(Granted) + InGranted(l, o) - InGranted(pc[s], result[s])
<1>0. /\ \A t \in Steps : pc'[t] = IF t = s THEN l ELSE pc[t]
      /\ \A t \in Steps : result'[t] = IF t = s THEN o ELSE result[t]
  BY DEF Moves, TypeOK
<1>1. Running \in SUBSET Steps /\ Busy \in SUBSET Steps /\ Granted \in SUBSET Steps
  BY DEF Running, Busy, Granted
<1>2. Running' = IF InRunning(l) = 1 THEN Running \cup {s} ELSE Running \ {s}
  BY <1>0 DEF Running, InRunning
<1>3. Busy' = IF InBusy(l) = 1 THEN Busy \cup {s} ELSE Busy \ {s}
  BY <1>0 DEF Busy, InBusy
<1>4. Granted' = IF InGranted(l, o) = 1 THEN Granted \cup {s} ELSE Granted \ {s}
  BY <1>0 DEF Granted, InGranted
<1>5. /\ s \in Running <=> InRunning(pc[s]) = 1
      /\ s \in Busy <=> InBusy(pc[s]) = 1
      /\ s \in Granted <=> InGranted(pc[s], result[s]) = 1
  BY DEF Running, Busy, Granted, InRunning, InBusy, InGranted
<1>6. /\ InRunning(l) \in {0, 1} /\ InRunning(pc[s]) \in {0, 1}
      /\ InBusy(l) \in {0, 1} /\ InBusy(pc[s]) \in {0, 1}
      /\ InGranted(l, o) \in {0, 1} /\ InGranted(pc[s], result[s]) \in {0, 1}
  BY DEF InRunning, InBusy, InGranted
<1>7. /\ Cardinality(Running \cup {s}) = Cardinality(Running) + (IF s \in Running THEN 0 ELSE 1)
      /\ Cardinality(Running \ {s}) = Cardinality(Running) - (IF s \in Running THEN 1 ELSE 0)
      /\ Cardinality(Running) \in Nat
  BY <1>1, OneMore
<1>8. /\ Cardinality(Busy \cup {s}) = Cardinality(Busy) + (IF s \in Busy THEN 0 ELSE 1)
      /\ Cardinality(Busy \ {s}) = Cardinality(Busy) - (IF s \in Busy THEN 1 ELSE 0)
      /\ Cardinality(Busy) \in Nat
  BY <1>1, OneMore
<1>9. /\ Cardinality(Granted \cup {s}) = Cardinality(Granted) + (IF s \in Granted THEN 0 ELSE 1)
      /\ Cardinality(Granted \ {s}) = Cardinality(Granted) - (IF s \in Granted THEN 1 ELSE 0)
      /\ Cardinality(Granted) \in Nat
  BY <1>1, OneMore
<1>a. Cardinality(Running)' = Cardinality(Running) + InRunning(l) - InRunning(pc[s])
  BY <1>2, <1>5, <1>6, <1>7
<1>b. Cardinality(Busy)' = Cardinality(Busy) + InBusy(l) - InBusy(pc[s])
  BY <1>3, <1>5, <1>6, <1>8
<1>c. Cardinality(Granted)' =
        Cardinality(Granted) + InGranted(l, o) - InGranted(pc[s], result[s])
  BY <1>4, <1>5, <1>6, <1>9
<1> QED BY <1>a, <1>b, <1>c

\* Before the group is started and after the attempt nothing is under way.
LEMMA NothingCountedNext ==
  ASSUME \A s \in Steps : pc'[s] = "waiting"
  PROVE  /\ Running' = {} /\ Busy' = {} /\ Granted' = {} /\ Failed' = {}
         /\ Cardinality(Running)' = 0 /\ Cardinality(Busy)' = 0 /\ Cardinality(Granted)' = 0
<1>1. Running' = {} /\ Busy' = {} /\ Granted' = {} /\ Failed' = {}
  BY DEF Running, Busy, Granted, Failed
<1>2. /\ Cardinality(Running)' = Cardinality({}) /\ Cardinality(Busy)' = Cardinality({})
      /\ Cardinality(Granted)' = Cardinality({})
  BY <1>1
<1> QED BY <1>1, <1>2, FS_EmptySet

\* A step that leaves the ledger alone.
LEMMA LogSame ==
  ASSUME log' = log
  PROVE  /\ Positions' = Positions /\ SettledSteps' = SettledSteps /\ Verdict' = Verdict
         /\ \A i \in Positions : InAttempt(i)' <=> InAttempt(i)
         /\ \A type : Count(type)' = Count(type)
         /\ SettledOnce' <=> SettledOnce
BY DEF Positions, SettledSteps, SettledBefore, Verdict, InAttempt, Count, SettledOnce

----------------------------------------------------------------------------
(* An attempt begins and ends.                                             *)

\* What replay finds done is what the ledger has settled.
LEMMA ReplayedSettled ==
  ASSUME RunnerAssumption, IInv, NEW s \in Steps
  PROVE  Replayed(s) = "ok" <=> s \in SettledSteps
<1> DEFINE at == {i \in 1..Len(log) :
                    log[i].step = s /\ log[i].type \in Settling \cup {"failed"}}
<1>0. log \in Seq(Entries) /\ Len(log) \in Nat BY LogTypes DEF IInv
<1>1. s \in SettledSteps <=> \E i \in at : log[i].type \in Settling
  BY <1>0 DEF SettledSteps, SettledBefore
<1>2. \A i \in at : log[i].type \in Settling => \A j \in at : j <= i
  BY DEF IInv, SettledOnce, Positions
<1>3. Replayed(s) = CASE at = {} -> "none"
          [] \E i \in at : (\A j \in at : j <= i) /\ log[i].type \in Settling -> "ok"
          [] OTHER -> "fail"
  BY DEF Replayed
<1> HIDE DEF at
<1> QED BY <1>1, <1>2, <1>3

\* An attempt begins with what is settled as its prior results.
LEMMA BeginKeeps ==
  ASSUME RunnerAssumption, IInv, main \in Over \cup {"idle"},
         NEW events, Opening(events),
         NEW outcomes \in [Steps -> Outcomes], Begin(events, outcomes),
         \A s \in Steps : outcomes[s] = "ok" <=> s \in SettledSteps
  PROVE  IInv'
<1>0. log \in Seq(Entries) /\ log' = log \o events BY LogTypes DEF IInv, Begin
<1>1. TypeOK' BY BeginTypes DEF IInv
<1>2. /\ main' = "preflight" /\ prior' = outcomes
      /\ UNCHANGED <<stale, parallel, todo, pc, tries, result, used, late>>
  BY DEF Begin
<1>3. /\ todo = {} /\ pc = [s \in Steps |-> "waiting"] /\ result = Unknown
      /\ used = 0 /\ parallel = FALSE
  BY DEF IInv, Fresh, Over
<1>4. SettledOnce' BY <1>0, HistoryOpened DEF IInv
<1>5. Fresh' BY <1>2, <1>3 DEF Fresh
<1>6. SettledSteps' = SettledSteps BY <1>0, SettledOpened
<1>7. PriorIsSettled' /\ SettledIsPrior'
  <2>1. SettledSteps \subseteq Steps BY DEF SettledSteps
  <2> QED BY <1>2, <1>6, <2>1 DEF PriorIsSettled, SettledIsPrior
<1>8. Group' /\ AllSettled' /\ InOneThread'
  <2>1. Count("invoked")' = 0 BY <1>0, NothingInAttempt
  <2> QED BY <1>2, <2>1 DEF Group, AllSettled, InOneThread
<1>9. VerdictKnown'
  BY <1>0, <1>2, VerdictOpened, NothingInAttempt DEF VerdictKnown, Open
<1>10. \A s \in Steps : pc'[s] = "waiting" BY <1>2, <1>3
<1>11. Quiet' BY <1>10, NothingCountedNext DEF Quiet
<1>12. Counted'
  <2>1. Count("completed")' = 0 BY <1>0, NothingInAttempt
  <2> QED BY <1>2, <1>3, <1>10, <2>1, NothingCountedNext DEF Counted, RunnerAssumption
<1> QED BY <1>1, <1>4, <1>5, <1>7, <1>8, <1>9, <1>11, <1>12 DEF IInv

\* The locals are gone, and at most a verdict was appended.
LEMMA ReturnKeeps ==
  ASSUME RunnerAssumption, IInv, TypeOK', NEW to \in Over, Return(to),
         \/ log' = log
         \/ \E type \in {"run_completed", "run_failed"} : log' = Append(log, RunEvent(type))
  PROVE  IInv'
<1>0. log \in Seq(Entries) BY LogTypes DEF IInv
<1>1. /\ main' = to /\ main' \in Over
      /\ todo' = {} /\ pc' = [s \in Steps |-> "waiting"] /\ result' = Unknown
      /\ used' = 0 /\ parallel' = FALSE /\ prior' = Unknown
  BY DEF Return
<1>2. /\ SettledOnce'
      /\ Count("completed")' = Count("completed")
  <2>1. CASE log' = log BY <2>1, LogSame DEF IInv
  <2>2. ASSUME NEW type \in {"run_completed", "run_failed"}, log' = Append(log, RunEvent(type))
        PROVE  /\ SettledOnce'
               /\ Count("completed")' = Count("completed")
    <3>1. /\ RunEvent(type) \in Entries /\ RunEvent(type).type = type
      BY EntryOf DEF EventTypes
    <3>2. type \notin Settling \cup {"failed", "completed", "initiated"} BY DEF Settling
    <3> QED BY <1>0, <2>2, <3>1, <3>2, SettledOnceAfter, CountAfter DEF IInv
  <2> QED BY <2>1, <2>2
<1>3. Fresh' BY <1>1 DEF Fresh
<1>4. /\ PriorIsSettled' /\ SettledIsPrior' /\ Group' /\ AllSettled' /\ InOneThread'
      /\ VerdictKnown'
  BY <1>1 DEF PriorIsSettled, SettledIsPrior, Group, AllSettled, InOneThread, VerdictKnown,
              Unknown, Over, Open
<1>5. \A s \in Steps : pc'[s] = "waiting" BY <1>1
<1>6. Quiet' BY <1>5, NothingCountedNext DEF Quiet
<1>7. Counted'
  <2>1. Count("completed") \in Nat /\ Count("completed") < AgentLimit
    BY <1>0, CountTypes, Counts DEF IInv, Counted, RunnerAssumption
  <2>2. main' \notin Under BY <1>1 DEF Over, Under
  <2> QED
    BY <1>1, <1>2, <1>5, <2>1, <2>2, NothingCountedNext DEF Counted, RunnerAssumption
<1> QED BY <1>2, <1>3, <1>4, <1>6, <1>7 DEF IInv

----------------------------------------------------------------------------
(* The group.                                                              *)

\* The preflight touches neither the ledger nor a step of the workflow.
LEMMA PreflightKeeps ==
  ASSUME RunnerAssumption, IInv, Preflight
  PROVE  IInv'
<1>0. TypeOK' BY DriveTypes DEF Drive, IInv
<1>1. CASE Return("aborted") BY <1>0, <1>1, ReturnKeeps DEF Preflight, Over
<1>2. CASE main' = "group" /\ UNCHANGED <<parallel, todo, prior, pc, tries, result, used, late>>
  <2>1. main = "preflight" /\ log' = log BY <1>2 DEF Preflight
  <2>2. Running' = Running /\ Busy' = Busy /\ Granted' = Granted /\ Failed' = Failed
    BY <1>2 DEF Running, Busy, Granted, Failed
  <2>3. Fresh' /\ Quiet' /\ PriorIsSettled' /\ SettledIsPrior' /\ Group' /\ AllSettled'
    BY <1>2, <2>1, <2>2, LogSame
       DEF IInv, Fresh, Quiet, PriorIsSettled, SettledIsPrior, Group, AllSettled
  <2>4. VerdictKnown' BY <1>2, <2>1, LogSame DEF IInv, VerdictKnown, Open
  <2>5. Counted' /\ InOneThread'
    BY <1>2, <2>1, <2>2, LogSame DEF IInv, Counted, InOneThread, Under
  <2> QED BY <1>0, <2>1, <2>3, <2>4, <2>5, LogSame DEF IInv
<1> QED BY <1>1, <1>2 DEF Preflight

\* The group starts with the steps that are not settled.
LEMMA StartGroupKeeps ==
  ASSUME RunnerAssumption, IInv, StartGroup
  PROVE  IInv'
<1>0. TypeOK' BY DriveTypes DEF Drive, IInv
<1>1. /\ main = "group" /\ log' = log
      /\ todo' = Remaining /\ main' = IF Remaining = {} THEN "complete" ELSE "running"
      /\ UNCHANGED <<log, runs, stale, prior, pc, tries, result, used, late>>
  BY DEF StartGroup
<1>2. pc = [s \in Steps |-> "waiting"] /\ result = Unknown /\ used = 0
  BY <1>1 DEF IInv, Fresh
<1>3. \A s \in Steps : pc'[s] = "waiting" /\ result'[s] = "none"
  BY <1>1, <1>2 DEF Unknown
<1>4. /\ Running' = {} /\ Cardinality(Running)' = 0 /\ Cardinality(Busy)' = 0
      /\ Cardinality(Granted)' = 0 /\ Failed' = {}
  BY <1>3, NothingCountedNext
<1>5. \A s \in Steps : prior[s] = "ok" <=> s \in SettledSteps
  BY <1>1 DEF IInv, PriorIsSettled, SettledIsPrior
<1>6. Fresh' /\ Quiet' /\ PriorIsSettled' /\ SettledIsPrior'
  BY <1>1, <1>4, <1>5, LogSame DEF Fresh, Quiet, PriorIsSettled, SettledIsPrior
<1>7. Group' BY <1>1, <1>3, <1>4, <1>5, LogSame DEF Group, Remaining
<1>8. AllSettled' BY <1>1, <1>5, LogSame DEF AllSettled, Remaining, SettledSteps
<1>9. VerdictKnown' BY <1>1, <1>3, LogSame DEF IInv, VerdictKnown, Open
<1>10. Counted'
  <2>1. Count("completed") \in Nat /\ Count("completed") <= 0
    BY <1>1, <1>2, LogTypes, CountTypes, Counts DEF IInv, Counted, Under
  <2> QED BY <1>1, <1>2, <1>4, <2>1, LogSame DEF Counted, RunnerAssumption
<1>11. InOneThread'
  <2>1. Count("invoked") = 0 BY <1>1 DEF IInv, InOneThread
  <2> QED BY <1>1, <1>2, <1>3, <1>4, <2>1, LogSame DEF InOneThread, RunnerAssumption
<1> QED BY <1>0, <1>1, <1>6, <1>7, <1>8, <1>9, <1>10, <1>11, LogSame DEF IInv

\* A step that begins takes a place among the workers.
LEMMA BeginStepKeeps ==
  ASSUME RunnerAssumption, IInv, BeginStep
  PROVE  IInv'
<1>0. TypeOK' BY DriveTypes DEF Drive, IInv
<1>1. /\ main = "running" /\ main' = main /\ log' = log
      /\ UNCHANGED <<log, runs, main, stale, parallel, prior, tries, result, used, late>>
      /\ ~Broken /\ Cardinality(Running) < Capacity
  BY DEF BeginStep
<1>2. PICK s \in todo : pc' = [pc EXCEPT ![s] = "begun"] /\ todo' = todo \ {s}
  BY DEF BeginStep
<1>3. /\ s \in Steps /\ pc[s] = "waiting" /\ s \notin SettledSteps /\ result[s] = "none"
      /\ pc \in [Steps -> Locations] /\ result \in [Steps -> Outcomes]
  BY <1>1 DEF IInv, TypeOK, Group
<1>4. Moves(s, "begun", result[s]) BY <1>1, <1>2, <1>3 DEF Moves
<1>5. /\ \A t \in Steps : pc'[t] = IF t = s THEN "begun" ELSE pc[t]
      /\ pc'[s] = "begun" /\ \A t \in Steps \ {s} : pc'[t] = pc[t]
  BY <1>2, <1>3
<1>6. Running' = Running \cup {s} /\ s \notin Running /\ Failed' = Failed
  BY <1>1, <1>3, <1>5 DEF Running, Failed
<1>7. /\ Cardinality(Running)' = Cardinality(Running) + 1
      /\ Cardinality(Busy)' = Cardinality(Busy)
      /\ Cardinality(Granted)' = Cardinality(Granted)
  <2>1. /\ InRunning("begun") = 1 /\ InRunning(pc[s]) = 0
        /\ InBusy("begun") = 0 /\ InBusy(pc[s]) = 0
        /\ InGranted("begun", result[s]) = 0 /\ InGranted(pc[s], result[s]) = 0
    BY <1>3 DEF InRunning, InBusy, InGranted
  <2>2. TypeOK BY DEF IInv
  <2> QED BY <1>3, <1>4, <2>1, <2>2, CountsAfter, Counts
<1>8. Fresh' /\ Quiet' /\ PriorIsSettled' /\ SettledIsPrior' /\ AllSettled'
  BY <1>1, LogSame DEF IInv, Fresh, Quiet, PriorIsSettled, SettledIsPrior, AllSettled
<1>9. Group'
  <2>1. SettledSteps' = SettledSteps BY <1>1, LogSame
  <2>2. ASSUME NEW t \in Steps
        PROVE /\ t \in todo' => pc'[t] = "waiting" /\ t \notin SettledSteps'
              /\ t \in Running' => t \notin SettledSteps'
              /\ pc'[t] = "waiting" => t \in todo' \/ prior'[t] = "ok"
              /\ pc'[t] = "done" => result'[t] \in {"ok", "fail"}
              /\ pc'[t] = "done" /\ result'[t] = "ok" => t \in SettledSteps'
              /\ pc'[t] \in {"waiting", "begun", "invoke", "execute"} => result'[t] = "none"
              /\ pc'[t] \in {"record", "transition"} => result'[t] # "none"
    <3>1. CASE t = s BY <1>1, <1>2, <1>3, <1>5, <2>1, <3>1
    <3>2. CASE t # s BY <1>1, <1>2, <1>5, <1>6, <2>1, <3>2 DEF IInv, Group
    <3> QED BY <3>1, <3>2
  <2> QED BY <2>2 DEF Group
<1>10. VerdictKnown' BY <1>1, LogSame DEF IInv, VerdictKnown, Open
<1>12. Counted'
  <2>1. Cardinality(Running) + 1 <= MaxWorkers
    BY <1>1, Counts DEF Capacity, RunnerAssumption
  <2> QED BY <1>1, <1>7, <2>1, LogSame DEF IInv, Counted
<1>13. InOneThread'
  <2>1. SUFFICES ASSUME ~parallel
                 PROVE  InOneThread'
    BY <1>1 DEF InOneThread
  <2>2. Running = {}
    <3>1. Cardinality(Running) = 0 BY <1>1, <2>1, Counts DEF Capacity
    <3>2. IsFiniteSet(Running) BY StepsFinite DEF Running
    <3> QED BY <3>1, <3>2, FS_EmptySet
  <2>3. Failed = {} BY <1>1, <2>1 DEF Broken
  <2>4. Count("invoked") = used BY <1>1, <2>1, <2>2, <2>3 DEF IInv, InOneThread
  <2>5. \A t \in Steps \ {s} : pc[t] \in {"waiting", "done"} BY <2>2 DEF Running
  <2>6. Count("invoked") <= AgentLimit BY <1>1, <2>1 DEF IInv, InOneThread
  <2>7. Count("invoked")' = Count("invoked") /\ main' = "running" /\ used' = used
    BY <1>1, LogSame
  <2>8. Running' = {s} /\ Failed' = {} BY <1>6, <2>2, <2>3
  <2> QED BY <1>5, <2>4, <2>5, <2>6, <2>7, <2>8 DEF InOneThread
<1> QED BY <1>0, <1>1, <1>8, <1>9, <1>10, <1>12, <1>13, LogSame DEF IInv

\* A group that ended well has settled every step.
LEMMA EndGroupKeeps ==
  ASSUME RunnerAssumption, IInv, EndGroup
  PROVE  IInv'
<1>0. TypeOK' /\ log \in Seq(Entries) BY DriveTypes, LogTypes DEF Drive, IInv
<1>1. /\ main = "running" /\ Running = {} /\ GroupOver
      /\ prior' = [s \in Steps |-> IF result[s] = "none" THEN prior[s] ELSE result[s]]
      /\ UNCHANGED <<runs, stale, parallel, todo, pc, tries, result, used, late>>
      /\ \/ AllSucceeded /\ log' = Append(log, RunEvent("checkpoint")) /\ main' = "complete"
         \/ ~AllSucceeded /\ log' = log /\ main' = "fail"
  BY DEF EndGroup
<1>2. /\ SettledSteps' = SettledSteps /\ Verdict' = Verdict
      /\ SettledOnce'
      /\ \A i \in Positions : log'[i] = log[i] /\ (InAttempt(i)' <=> InAttempt(i))
      /\ \A i \in Positions' \ Positions : log'[i].type = "checkpoint"
      /\ Positions \subseteq Positions'
      /\ Count("completed")' = Count("completed")
  <2>1. CASE log' = log BY <2>1, LogSame DEF IInv
  <2>2. CASE log' = Append(log, RunEvent("checkpoint"))
    <3> DEFINE e == RunEvent("checkpoint")
    <3>1. /\ e \in Entries /\ e.type = "checkpoint" BY EntryOf DEF EventTypes
    <3>2. "checkpoint" \notin Settling \cup Verdicts BY DEF Settling, Verdicts
    <3> HIDE DEF e
    <3>3. log' = Append(log, e) BY <2>2 DEF e
    <3>4. SettledSteps' = SettledSteps BY <1>0, <3>1, <3>2, <3>3, SettledAfter
    <3>5. Verdict' = Verdict BY <1>0, <3>1, <3>2, <3>3, VerdictAfter
    <3>6. SettledOnce' BY <1>0, <3>1, <3>2, <3>3, SettledOnceAfter DEF IInv
    <3>7. Count("completed")' = Count("completed") BY <1>0, <3>1, <3>3, CountAfter
    <3>8. \A i \in Positions : log'[i] = log[i] /\ (InAttempt(i)' <=> InAttempt(i))
      BY <1>0, <3>1, <3>3, Appended, AttemptAfter
    <3>9. /\ \A i \in Positions' \ Positions : log'[i].type = "checkpoint"
          /\ Positions \subseteq Positions'
      BY <1>0, <3>1, <3>3, Appended
    <3> QED BY <3>4, <3>5, <3>6, <3>7, <3>8, <3>9
  <2> QED BY <1>1, <2>1, <2>2
<1>3. Running' = Running /\ Busy' = Busy /\ Granted' = Granted /\ Failed' = Failed
  BY <1>1 DEF Running, Busy, Granted, Failed
<1>4. main' \in {"complete", "fail"} BY <1>1
<1>5. \A s \in Steps : pc[s] \in {"waiting", "done"} BY <1>1 DEF Running
<1>6. Fresh' /\ Quiet' /\ SettledIsPrior' /\ Group' /\ InOneThread'
  BY <1>1, <1>3, <1>4 DEF Fresh, Quiet, SettledIsPrior, Group, InOneThread
<1>7. PriorIsSettled'
  <2>1. ASSUME NEW s \in Steps, prior'[s] = "ok" PROVE s \in SettledSteps
    <3>1. CASE result[s] = "none" BY <1>1, <2>1, <3>1 DEF IInv, PriorIsSettled
    <3>2. CASE result[s] # "none" BY <1>1, <1>5, <2>1, <3>2 DEF IInv, Group
    <3> QED BY <3>1, <3>2
  <2> QED BY <1>2, <2>1 DEF PriorIsSettled
<1>8. AllSettled'
  <2>1. SUFFICES ASSUME AllSucceeded PROVE SettledSteps = Steps
    BY <1>1, <1>2 DEF AllSettled
  <2>2. Failed = {} /\ todo = {} BY <1>1, <2>1 DEF AllSucceeded, GroupOver, Broken
  <2>3. ASSUME NEW s \in Steps PROVE s \in SettledSteps
    <3>1. CASE pc[s] = "waiting" BY <1>1, <2>2, <3>1 DEF IInv, Group, PriorIsSettled
    <3>2. CASE pc[s] = "done" BY <1>1, <2>2, <3>2 DEF IInv, Group, Failed
    <3> QED BY <1>5, <3>1, <3>2
  <2> QED BY <2>3 DEF SettledSteps
<1>9. VerdictKnown' BY <1>1, <1>2, <1>4 DEF IInv, VerdictKnown, Open
<1>11. Counted' BY <1>1, <1>2, <1>3, <1>4 DEF IInv, Counted, Under
<1> QED BY <1>0, <1>2, <1>6, <1>7, <1>8, <1>9, <1>11 DEF IInv

----------------------------------------------------------------------------
(* The end of the attempt.                                                 *)

\* The run completes.
LEMMA CompleteKeeps ==
  ASSUME RunnerAssumption, IInv, Complete
  PROVE  IInv'
<1>0. TypeOK' BY DriveTypes DEF Drive, IInv
<1> QED BY <1>0, ReturnKeeps DEF Complete, Over

\* The except block of run reports the failure and raises.
LEMMA ReportAndRaiseKeeps ==
  ASSUME RunnerAssumption, IInv, ReportAndRaise
  PROVE  IInv'
<1>0. TypeOK' BY DriveTypes DEF Drive, IInv
<1> QED BY <1>0, ReturnKeeps DEF ReportAndRaise, Over

\* The process dies: its ledger stays.
LEMMA CrashKeeps ==
  ASSUME RunnerAssumption, IInv, Crash
  PROVE  IInv'
<1>0. TypeOK' BY NextTypes DEF Next, IInv
<1> QED BY <1>0, ReturnKeeps DEF Crash, Over

\* The failure of the group is reported.
LEMMA FailKeeps ==
  ASSUME RunnerAssumption, IInv, Fail
  PROVE  IInv'
<1>0. TypeOK' /\ log \in Seq(Entries) BY DriveTypes, LogTypes DEF Drive, IInv
<1>1. /\ main = "fail" /\ main' = "diagnose"
      /\ UNCHANGED <<stale, parallel, todo, prior, pc, tries, result, used, late>>
  BY DEF Fail, locals
<1> DEFINE e == RunEvent("run_failed")
<1>2. /\ log' = Append(log, e) /\ e \in Entries /\ e.type = "run_failed"
  BY EntryOf DEF Fail, EventTypes
<1>3. "run_failed" \notin Settling /\ "run_failed" \in Verdicts
  BY DEF Settling, Verdicts
<1> HIDE DEF e
<1>4. SettledSteps' = SettledSteps BY <1>0, <1>2, <1>3, SettledAfter
<1>5. Verdict' = "failed" BY <1>0, <1>2, <1>3, VerdictAfter DEF VerdictOf
<1>6. SettledOnce' BY <1>0, <1>2, <1>3, SettledOnceAfter DEF IInv
<1>7. Count("completed")' = Count("completed") BY <1>0, <1>2, CountAfter
<1>8. Running' = Running /\ Busy' = Busy /\ Granted' = Granted
  BY <1>1 DEF Running, Busy, Granted
<1>9. \A s \in Steps : pc[s] \in {"waiting", "done"} BY <1>1 DEF IInv, Quiet, Running
<1>10. /\ Fresh' /\ Quiet' /\ PriorIsSettled' /\ SettledIsPrior' /\ Group' /\ AllSettled'
       /\ InOneThread'
  BY <1>1, <1>4, <1>8
     DEF IInv, Fresh, Quiet, PriorIsSettled, SettledIsPrior, Group, AllSettled, InOneThread
<1>11. VerdictKnown' BY <1>1, <1>5, <1>9 DEF VerdictKnown, Open
<1>12. Counted' BY <1>1, <1>7, <1>8 DEF IInv, Counted, Under
<1> QED BY <1>0, <1>6, <1>10, <1>11, <1>12 DEF IInv

\* The diagnostics are written, or fail to be.
LEMMA DiagnoseKeeps ==
  ASSUME RunnerAssumption, IInv, Diagnose
  PROVE  IInv'
<1>0. TypeOK' BY DriveTypes DEF Drive, IInv
<1>1. CASE Return("returned") BY <1>0, <1>1, ReturnKeeps DEF Diagnose, Over
<1>2. CASE main' = "raising" /\ UNCHANGED locals
  <2>1. /\ main = "diagnose" /\ log' = log
        /\ UNCHANGED <<stale, parallel, todo, prior, pc, tries, result, used, late>>
    BY <1>2 DEF Diagnose, locals
  <2>2. Running' = Running /\ Busy' = Busy /\ Granted' = Granted
    BY <2>1 DEF Running, Busy, Granted
  <2>3. /\ Fresh' /\ Quiet' /\ PriorIsSettled' /\ SettledIsPrior' /\ Group' /\ AllSettled'
        /\ InOneThread'
    BY <1>2, <2>1, <2>2, LogSame
       DEF IInv, Fresh, Quiet, PriorIsSettled, SettledIsPrior, Group, AllSettled, InOneThread
  <2>4. VerdictKnown' BY <1>2, <2>1, LogSame DEF IInv, VerdictKnown, Open
  <2>5. Counted' BY <1>2, <2>1, <2>2, LogSame DEF IInv, Counted, Under
  <2> QED BY <1>0, <2>1, <2>3, <2>4, <2>5, LogSame DEF IInv
<1> QED BY <1>1, <1>2 DEF Diagnose

\* Time passes.
LEMMA ExpireKeeps ==
  ASSUME RunnerAssumption, IInv, Expire
  PROVE  IInv'
<1>0. TypeOK' BY NextTypes DEF Next, IInv
<1>1. /\ log' = log
      /\ UNCHANGED <<log, runs, main, stale, parallel, todo, prior, pc, tries, result, used>>
  BY DEF Expire
<1>2. Running' = Running /\ Busy' = Busy /\ Granted' = Granted /\ Failed' = Failed
  BY <1>1 DEF Running, Busy, Granted, Failed
<1>3. Fresh' /\ Quiet' /\ PriorIsSettled' /\ SettledIsPrior' /\ Group' /\ AllSettled'
  BY <1>1, <1>2, LogSame
     DEF IInv, Fresh, Quiet, PriorIsSettled, SettledIsPrior, Group, AllSettled
<1>4. VerdictKnown' BY <1>1, LogSame DEF IInv, VerdictKnown, Open
<1>5. Counted' /\ InOneThread'
  BY <1>1, <1>2, LogSame DEF IInv, Counted, InOneThread, Under
<1> QED BY <1>0, <1>1, <1>3, <1>4, <1>5, LogSame DEF IInv

----------------------------------------------------------------------------
(* _run_step.                                                              *)

\* A step that is under way goes to l, with the outcome o so far.
Advances(s, l, o) ==
    /\ s \in Running /\ Moves(s, l, o)
    /\ l \in Locations \ {"waiting", "begun"} /\ o \in Outcomes
    /\ l \in {"invoke", "execute"} => o = "none"
    /\ l \in {"record", "transition"} => o # "none"
    /\ UNCHANGED <<runs, stale, parallel, todo>>
    /\ \/ /\ main' = main
          /\ l = "done" => o # "none"
       \/ main' = "raising" /\ ~parallel /\ l = "done"
    /\ \/ prior' = prior
       \/ l = "done" /\ prior' = [prior EXCEPT ![s] = o]

\* The ledger after it: only a step that is done well is settled.
Logs(s, l, o) ==
    /\ SettledSteps' = IF l = "done" /\ o = "ok" THEN SettledSteps \cup {s} ELSE SettledSteps
    /\ SettledOnce' /\ Verdict' = Verdict
    /\ Positions \subseteq Positions'
    /\ \A i \in Positions : log'[i] = log[i] /\ (InAttempt(i)' <=> InAttempt(i))
    /\ \A i \in Positions' \ Positions : log'[i].type \notin Verdicts

\* What is known of a step under way.
LEMMA UnderWay ==
  ASSUME IInv, NEW s \in Running
  PROVE  /\ main = "running" /\ s \in Steps /\ s \notin SettledSteps
         /\ pc[s] \in {"begun", "invoke", "execute", "record", "transition"}
         /\ pc[s] \in {"begun", "invoke", "execute"} => result[s] = "none"
         /\ pc[s] \in {"record", "transition"} => result[s] \in {"ok", "fail"}
<1>1. main = "running" BY DEF IInv, Quiet
<1>2. s \in Steps /\ pc[s] \in Locations \ {"waiting", "done"} /\ result[s] \in Outcomes
  BY DEF IInv, TypeOK, Running
<1> QED BY <1>1, <1>2 DEF IInv, Group, Locations, Outcomes

\* What Advances and Logs give, but for the counters.
LEMMA AdvanceKeeps ==
  ASSUME RunnerAssumption, IInv, NEW s, NEW l, NEW o, Advances(s, l, o), Logs(s, l, o)
  PROVE  /\ Fresh' /\ Quiet' /\ PriorIsSettled' /\ SettledIsPrior' /\ Group' /\ AllSettled'
         /\ VerdictKnown'
<1>0. s \in Running BY DEF Advances
<1>1. /\ main = "running" /\ s \in Steps /\ s \notin SettledSteps
      /\ pc[s] # "waiting" /\ pc[s] # "done"
  BY <1>0, UnderWay
<1>2. main' = "running" \/ main' = "raising" BY <1>1 DEF Advances
<1>3. /\ \A t \in Steps \ {s} : pc'[t] = pc[t] /\ result'[t] = result[t]
      /\ pc'[s] = l /\ result'[s] = o
  BY <1>1 DEF Advances, Moves, IInv, TypeOK
<1>4. \A t \in Steps \ {s} : prior'[t] = prior[t] BY <1>1 DEF Advances, IInv, TypeOK
<1>5. prior'[s] = prior[s] \/ (l = "done" /\ prior'[s] = o)
  BY <1>1 DEF Advances, IInv, TypeOK
<1>6. Fresh' /\ SettledIsPrior' /\ AllSettled'
  BY <1>2 DEF Fresh, SettledIsPrior, AllSettled
<1>7. Quiet'
  <2>1. SUFFICES ASSUME main' # "running" PROVE Running' = {} BY DEF Quiet
  <2>2. ~parallel /\ l = "done" BY <1>1, <2>1 DEF Advances
  <2>3. \A t \in Running : t = s BY <1>0, <1>1, <2>2 DEF IInv, InOneThread
  <2>4. \A t \in Steps : pc'[t] \in {"waiting", "done"} BY <1>3, <2>2, <2>3 DEF Running
  <2> QED BY <2>4 DEF Running
<1>8. SettledSteps' = IF l = "done" /\ o = "ok" THEN SettledSteps \cup {s} ELSE SettledSteps
  BY DEF Logs
<1>9. PriorIsSettled'
  <2>1. ASSUME NEW t \in Steps, prior'[t] = "ok" PROVE t \in SettledSteps'
    BY <1>4, <1>5, <1>8, <2>1 DEF IInv, PriorIsSettled
  <2> QED BY <2>1 DEF PriorIsSettled
<1>10. Group'
  <2>1. SUFFICES ASSUME main' = "running" PROVE Group' BY DEF Group
  <2>2. todo' = todo /\ s \notin todo BY <1>1 DEF Advances, IInv, Group
  <2>3. l = "done" => o # "none" BY <2>1, <1>1 DEF Advances
  <2>4. /\ l # "waiting" /\ l # "begun" /\ o \in Outcomes
        /\ l \in {"invoke", "execute"} => o = "none"
        /\ l \in {"record", "transition"} => o # "none"
    BY DEF Advances
  <2>5. /\ l # "done" => s \notin SettledSteps'
        /\ l = "done" /\ o = "ok" => s \in SettledSteps'
        /\ \A t \in Steps \ {s} : t \in SettledSteps' <=> t \in SettledSteps
    BY <1>1, <1>8
  <2>6. /\ s \in Running' <=> l # "done"
        /\ \A t \in Steps \ {s} : t \in Running' <=> t \in Running
    BY <1>1, <1>3, <2>4 DEF Running
  <2>7. ASSUME NEW t \in Steps
        PROVE /\ t \in todo' => pc'[t] = "waiting" /\ t \notin SettledSteps'
              /\ t \in Running' => t \notin SettledSteps'
              /\ pc'[t] = "waiting" => t \in todo' \/ prior'[t] = "ok"
              /\ pc'[t] = "done" => result'[t] \in {"ok", "fail"}
              /\ pc'[t] = "done" /\ result'[t] = "ok" => t \in SettledSteps'
              /\ pc'[t] \in {"waiting", "begun", "invoke", "execute"} => result'[t] = "none"
              /\ pc'[t] \in {"record", "transition"} => result'[t] # "none"
    <3>1. CASE t = s BY <1>3, <2>2, <2>3, <2>4, <2>5, <2>6, <3>1 DEF Outcomes
    <3>2. CASE t # s BY <1>1, <1>3, <1>4, <2>2, <2>5, <2>6, <3>2 DEF IInv, Group
    <3> QED BY <3>1, <3>2
  <2> QED BY <2>7 DEF Group
<1>11. VerdictKnown' BY <1>1, <1>2 DEF IInv, VerdictKnown, Open, Logs, Verdicts
<1> QED BY <1>6, <1>7, <1>9, <1>10, <1>11

\* The counters after a step that is no call of the agent, after the check that
\* lets one pass, and after the record of one.
LEMMA CountedAfter ==
  ASSUME RunnerAssumption, IInv, NEW s, NEW l, NEW o, Advances(s, l, o),
         \/ /\ used' = used
            /\ Count("completed")' + InGranted(l, o) <=
                 Count("completed") + InGranted(pc[s], result[s])
            /\ InBusy(l) <= InBusy(pc[s])
         \/ /\ used' = used /\ used < AgentLimit
            /\ Count("completed")' = Count("completed")
            /\ pc[s] = "begun" /\ l = "invoke"
         \/ /\ used' = used + 1
            /\ Count("completed")' = Count("completed")
            /\ pc[s] = "record"
            /\ l = "done" \/ (l = "transition" /\ used + 1 < AgentLimit),
         Count("completed")' \in Nat
  PROVE  Counted'
<1>1. s \in Running /\ main = "running" /\ s \in Steps /\ pc[s] # "waiting" /\ pc[s] # "done"
  BY UnderWay DEF Advances
<1>2. main' \in Under /\ main \in Under BY <1>1 DEF Advances, Under
<1>3. /\ Cardinality(Running)' = Cardinality(Running) + InRunning(l) - InRunning(pc[s])
      /\ Cardinality(Busy)' = Cardinality(Busy) + InBusy(l) - InBusy(pc[s])
      /\ Cardinality(Granted)' =
           Cardinality(Granted) + InGranted(l, o) - InGranted(pc[s], result[s])
  BY <1>1, CountsAfter DEF IInv, Advances
<1>4. /\ Cardinality(Running) \in Nat /\ Cardinality(Busy) \in Nat
      /\ Cardinality(Granted) \in Nat /\ Count("completed") \in Nat /\ used \in Nat
      /\ AgentLimit \in Nat /\ MaxWorkers \in Nat
  BY Counts, LogTypes, CountTypes DEF IInv, TypeOK, RunnerAssumption
<1>5. /\ InRunning(l) \in {0, 1} /\ InRunning(pc[s]) = 1
      /\ InBusy(l) \in {0, 1} /\ InBusy(pc[s]) \in {0, 1}
      /\ InGranted(l, o) \in {0, 1} /\ InGranted(pc[s], result[s]) \in {0, 1}
  BY <1>1 DEF InRunning, InBusy, InGranted
<1>6. /\ Count("completed") + Cardinality(Granted) <= used
      /\ Count("completed") + Cardinality(Granted) < AgentLimit
      /\ used + Cardinality(Busy) <= AgentLimit + MaxWorkers - 1
      /\ Cardinality(Running) <= MaxWorkers
  BY <1>2 DEF IInv, Counted
<1>7. CASE /\ used' = used
           /\ Count("completed")' + InGranted(l, o) <=
                Count("completed") + InGranted(pc[s], result[s])
           /\ InBusy(l) <= InBusy(pc[s])
  <2>1. /\ Count("completed")' + Cardinality(Granted)' <=
             Count("completed") + Cardinality(Granted)
        /\ Cardinality(Busy)' <= Cardinality(Busy)
        /\ Cardinality(Running)' <= Cardinality(Running)
        /\ Cardinality(Busy)' \in Int /\ Cardinality(Running)' \in Int
        /\ Cardinality(Granted)' \in Int
    BY <1>3, <1>4, <1>5, <1>7
  <2>2. used' = used BY <1>7
  <2> QED BY <1>2, <1>4, <1>6, <2>1, <2>2 DEF Counted
<1>8. CASE /\ used' = used /\ used < AgentLimit
           /\ Count("completed")' = Count("completed")
           /\ pc[s] = "begun" /\ l = "invoke"
  <2>1. InGranted(l, o) = 0 /\ InGranted(pc[s], result[s]) = 0
        /\ InBusy(l) = 1 /\ InBusy(pc[s]) = 0
    BY <1>8 DEF InGranted, InBusy
  <2>2. Cardinality(Busy) + 1 <= Cardinality(Running)
    <3>1. Busy \in SUBSET Steps /\ s \notin Busy /\ Busy \cup {s} \in SUBSET Running
      BY <1>1, <1>8 DEF Busy, Running
    <3>2. Cardinality(Busy \cup {s}) = Cardinality(Busy) + 1 BY <1>1, <3>1, OneMore
    <3>3. IsFiniteSet(Running) BY StepsFinite DEF Running
    <3> QED BY <3>1, <3>2, <3>3, FS_Subset
  <2> QED BY <1>2, <1>3, <1>4, <1>5, <1>6, <1>8, <2>1, <2>2 DEF Counted
<1>9. CASE /\ used' = used + 1
           /\ Count("completed")' = Count("completed")
           /\ pc[s] = "record"
           /\ l = "done" \/ (l = "transition" /\ used + 1 < AgentLimit)
  <2>1. /\ InGranted(pc[s], result[s]) = 0 /\ InBusy(l) = 0 /\ InBusy(pc[s]) = 1
        /\ l = "done" => InGranted(l, o) = 0
    BY <1>9 DEF InGranted, InBusy
  <2>2. /\ Cardinality(Granted)' = Cardinality(Granted) + InGranted(l, o)
        /\ Cardinality(Busy)' = Cardinality(Busy) - 1
        /\ Cardinality(Running)' <= Cardinality(Running)
    BY <1>3, <1>4, <1>5, <2>1
  <2>3. /\ Count("completed") + Cardinality(Granted)' <= used + 1
        /\ Count("completed") + Cardinality(Granted)' < AgentLimit
    <3>1. CASE l = "done" BY <1>4, <1>6, <2>1, <2>2, <3>1
    <3>2. CASE used + 1 < AgentLimit BY <1>4, <1>5, <1>6, <2>2, <3>2
    <3> QED BY <1>9, <3>1, <3>2
  <2>4. used + 1 + Cardinality(Busy)' <= AgentLimit + MaxWorkers - 1 BY <1>4, <1>6, <2>2
  <2>5. Cardinality(Running)' <= MaxWorkers BY <1>3, <1>4, <1>5, <1>6
  <2>6. used' = used + 1 /\ Count("completed")' = Count("completed") BY <1>9
  <2> QED BY <2>3, <2>4, <2>5, <2>6 DEF Counted
<1> QED BY <1>7, <1>8, <1>9

\* The sequential loop after a step: either it was no invocation, or Count says
\* so; nothing else is under way.
LEMMA InOneThreadAfter ==
  ASSUME RunnerAssumption, IInv, NEW s, NEW l, NEW o, Advances(s, l, o),
         main' = "running" /\ ~parallel =>
           /\ Count("invoked")' <= AgentLimit
           /\ l = "done" /\ o = "ok" => Count("invoked")' = used'
           /\ l = "invoke" => Count("invoked")' = used' /\ used' < AgentLimit
           /\ l \in {"execute", "record"} => Count("invoked")' = used' + 1
           /\ l = "transition" /\ o = "ok" => Count("invoked")' = used'
  PROVE  InOneThread'
<1>1. s \in Running /\ main = "running" /\ s \in Steps /\ pc[s] # "waiting" /\ pc[s] # "done"
  BY UnderWay DEF Advances
<1>2. /\ \A t \in Steps \ {s} : pc'[t] = pc[t] /\ result'[t] = result[t]
      /\ pc'[s] = l /\ result'[s] = o
  BY <1>1 DEF Advances, Moves, IInv, TypeOK
<1>3. main' \in {"running", "raising"} /\ parallel' = parallel BY <1>1 DEF Advances
<1>4. SUFFICES ASSUME main' = "running", ~parallel PROVE InOneThread'
  BY <1>3 DEF InOneThread
<1>5. (\A t \in Running : t = s) /\ Failed = {} BY <1>1, <1>4 DEF IInv, InOneThread
<1>6. \A t \in Steps \ {s} : pc'[t] \in {"waiting", "done"} BY <1>2, <1>5 DEF Running
<1>7. \A t \in Running' : t = s BY <1>6 DEF Running
<1>8. \A t \in Steps \ {s} : t \notin Failed' BY <1>2, <1>5 DEF Failed
<1>9. l # "waiting" /\ l # "begun" /\ (l = "done" => o \in {"ok", "fail"})
  BY <1>1, <1>4 DEF Advances, Outcomes
<1>10. Running' # {} => Failed' = {}
  <2>1. SUFFICES ASSUME Running' # {} PROVE s \notin Failed' BY <1>8 DEF Failed
  <2>2. l # "done" BY <1>2, <1>7, <2>1 DEF Running
  <2> QED BY <1>2, <2>2 DEF Failed
<1>11. Running' = {} /\ Failed' = {} => l = "done" /\ o = "ok"
  <2>1. SUFFICES ASSUME Running' = {}, Failed' = {} PROVE l = "done" /\ o = "ok" OBVIOUS
  <2>2. l = "done" BY <1>1, <1>2, <1>9, <2>1 DEF Running
  <2> QED BY <1>1, <1>2, <1>9, <2>1, <2>2 DEF Failed
<1> QED BY <1>2, <1>3, <1>4, <1>6, <1>7, <1>9, <1>10, <1>11 DEF InOneThread

\* What an entry about a step leaves of the ledger.
LEMMA LogsAfter ==
  ASSUME RunnerAssumption, IInv, NEW s \in Running, NEW l, NEW o,
         NEW type \in {"skipped", "invoked", "completed", "failed"},
         log' = Append(log, Event(type, s)),
         l = "done" /\ o = "ok" <=> type \in Settling
  PROVE  /\ Logs(s, l, o)
         /\ Count("completed")' =
              IF type = "completed" THEN Count("completed") + 1 ELSE Count("completed")
         /\ Count("invoked")' =
              IF type = "invoked" THEN Count("invoked") + 1 ELSE Count("invoked")
<1> DEFINE e == Event(type, s)
<1>0. log \in Seq(Entries) /\ s \in Steps /\ s \notin SettledSteps
  BY LogTypes, UnderWay DEF IInv
<1>1. e \in Entries /\ e.type = type /\ e.step = s BY <1>0, EntryOf DEF EventTypes
<1>2. type \notin Verdicts /\ type # "initiated" BY DEF Verdicts
<1>3. log' = Append(log, e) OBVIOUS
<1> HIDE DEF e
<1>4. SettledSteps' = IF l = "done" /\ o = "ok" THEN SettledSteps \cup {s} ELSE SettledSteps
  BY <1>0, <1>1, <1>3, SettledAfter
<1>5. Verdict' = Verdict BY <1>0, <1>1, <1>2, <1>3, VerdictAfter
<1>6. SettledOnce' BY <1>0, <1>1, <1>3, SettledOnceAfter DEF IInv
<1>8. /\ Positions \subseteq Positions'
      /\ \A i \in Positions : log'[i] = log[i] /\ (InAttempt(i)' <=> InAttempt(i))
  BY <1>0, <1>1, <1>2, <1>3, Appended, AttemptAfter
<1>9. \A i \in Positions' \ Positions : log'[i].type \notin Verdicts
  BY <1>0, <1>1, <1>2, <1>3, Appended
<1>10. /\ Count("completed") \in Nat /\ Count("invoked") \in Nat
       /\ Count("completed")' = IF type = "completed" THEN Count("completed") + 1
                                                     ELSE Count("completed")
       /\ Count("invoked")' = IF type = "invoked" THEN Count("invoked") + 1
                                                 ELSE Count("invoked")
  <2>1. \A t : Count(t)' = IF e.type = t THEN Count(t) + 1 ELSE Count(t)
    BY <1>0, <1>1, <1>2, <1>3, CountAfter
  <2>2. Count("completed") \in Nat /\ Count("invoked") \in Nat BY <1>0, CountTypes
  <2> QED BY <2>1, <2>2, <1>1
<1>11. Logs(s, l, o) BY <1>4, <1>5, <1>6, <1>8, <1>9 DEF Logs
<1> QED BY <1>10, <1>11

\* The four entries that a step may append.
LEMMA LogsEach ==
  ASSUME RunnerAssumption, IInv, NEW s \in Running
  PROVE  /\ log' = Append(log, Event("skipped", s)) =>
              /\ Logs(s, "done", "ok") /\ Count("completed")' = Count("completed")
              /\ Count("invoked")' = Count("invoked")
         /\ log' = Append(log, Event("invoked", s)) =>
              /\ Logs(s, "execute", "none") /\ Count("completed")' = Count("completed")
              /\ Count("invoked")' = Count("invoked") + 1
         /\ log' = Append(log, Event("failed", s)) =>
              /\ Logs(s, "done", "fail") /\ Count("completed")' = Count("completed")
              /\ Count("invoked")' = Count("invoked")
         /\ log' = Append(log, Event("completed", s)) =>
              /\ Logs(s, "done", "ok") /\ Count("completed")' = Count("completed") + 1
              /\ Count("invoked")' = Count("invoked")
<1>1. ASSUME NEW type \in {"skipped", "invoked", "completed", "failed"}, NEW l, NEW o,
             log' = Append(log, Event(type, s)),
             (l = "done" /\ o = "ok") <=> type \in {"skipped", "completed"}
      PROVE  /\ Logs(s, l, o)
             /\ Count("completed")' =
                  IF type = "completed" THEN Count("completed") + 1 ELSE Count("completed")
             /\ Count("invoked")' =
                  IF type = "invoked" THEN Count("invoked") + 1 ELSE Count("invoked")
  <2>1. type \in Settling <=> type \in {"skipped", "completed"} BY DEF Settling
  <2> QED BY <1>1, <2>1, LogsAfter
<1>2. log' = Append(log, Event("skipped", s)) =>
        /\ Logs(s, "done", "ok") /\ Count("completed")' = Count("completed")
        /\ Count("invoked")' = Count("invoked")
  BY <1>1
<1>3. log' = Append(log, Event("invoked", s)) =>
        /\ Logs(s, "execute", "none") /\ Count("completed")' = Count("completed")
        /\ Count("invoked")' = Count("invoked") + 1
  BY <1>1
<1>4. log' = Append(log, Event("failed", s)) =>
        /\ Logs(s, "done", "fail") /\ Count("completed")' = Count("completed")
        /\ Count("invoked")' = Count("invoked")
  BY <1>1
<1>5. log' = Append(log, Event("completed", s)) =>
        /\ Logs(s, "done", "ok") /\ Count("completed")' = Count("completed") + 1
        /\ Count("invoked")' = Count("invoked")
  BY <1>1
<1> QED BY <1>2, <1>3, <1>4, <1>5

\* A step that logs nothing settles nothing.
LEMMA LogsNothing ==
  ASSUME IInv, log' = log, NEW s, NEW l, NEW o, ~(l = "done" /\ o = "ok")
  PROVE  Logs(s, l, o)
BY LogSame DEF Logs, IInv

\* The parts of the invariant for one step of _run_step.
LEMMA StepKeepsIt ==
  ASSUME RunnerAssumption, IInv, TypeOK', NEW s, NEW l, NEW o,
         Advances(s, l, o), Logs(s, l, o), Counted', InOneThread'
  PROVE  IInv'
BY AdvanceKeeps DEF IInv, Logs

\* The types of the counters.
LEMMA CountsOfLog ==
  ASSUME IInv
  PROVE  Count("completed") \in Nat /\ Count("invoked") \in Nat /\ used \in Nat
BY LogTypes, CountTypes DEF IInv, TypeOK

\* What is known of the sequential loop while s is under way.
LEMMA Sequential ==
  ASSUME IInv, NEW s \in Running, ~parallel
  PROVE  /\ Count("invoked") <= AgentLimit
         /\ pc[s] = "begun" => Count("invoked") = used
         /\ pc[s] = "invoke" => Count("invoked") = used /\ used < AgentLimit
         /\ pc[s] \in {"execute", "record"} => Count("invoked") = used + 1
         /\ pc[s] = "transition" /\ result[s] = "ok" => Count("invoked") = used
BY UnderWay DEF IInv, InOneThread

\* A step that returns its result is done.
LEMMA FinishAdvances ==
  ASSUME IInv, NEW s \in Running, NEW outcome \in {"ok", "fail"}, Finish(s, outcome),
         UNCHANGED <<runs, stale, parallel, todo>>
  PROVE  Advances(s, "done", outcome)
BY DEF Finish, Advances, Moves, Locations, Outcomes

\* A step that raises is done; outside the pool run raises too.
LEMMA RaiseAdvances ==
  ASSUME IInv, NEW s \in Running, Raise(s), UNCHANGED <<runs, stale, parallel, todo>>
  PROVE  \/ parallel /\ Advances(s, "done", "fail")
         \/ ~parallel /\ main' = "raising" /\ Advances(s, "done", "none")
BY DEF Raise, Advances, Moves, Locations, Outcomes, IInv, TypeOK

\* result is left as it is.
LEMMA SameResult ==
  ASSUME IInv, NEW s \in Running, NEW l, NEW o, o = result[s],
         pc' = [pc EXCEPT ![s] = l], result' = result
  PROVE  Moves(s, l, o)
BY UnderWay DEF Moves, IInv, TypeOK

\* What a step counts for, by where it is.
LEMMA Weights ==
  /\ InBusy("begun") = 0 /\ InBusy("transition") = 0 /\ InBusy("done") = 0
  /\ InBusy("invoke") = 1 /\ InBusy("execute") = 1 /\ InBusy("record") = 1
  /\ \A o : /\ InGranted("begun", o) = 0 /\ InGranted("invoke", o) = 0
            /\ InGranted("execute", o) = 0 /\ InGranted("record", o) = 0
            /\ InGranted("done", o) = 0
  /\ InGranted("transition", "ok") = 1 /\ InGranted("transition", "fail") = 0
BY DEF InBusy, InGranted

\* A step that changes no counter, and does not make it more.
LEMMA CountedStill ==
  ASSUME RunnerAssumption, IInv, NEW s, NEW l, NEW o, NEW p, NEW q, Advances(s, l, o),
         p = pc[s], q = result[s], used' = used,
         Count("completed")' = Count("completed"),
         InGranted(l, o) <= InGranted(p, q), InBusy(l) <= InBusy(p)
  PROVE  Counted'
<1>1. /\ Count("completed") \in Nat /\ InGranted(l, o) \in Nat
      /\ InGranted(p, q) \in Nat
  BY CountsOfLog DEF InGranted
<1>2. Count("completed")' + InGranted(l, o) <= Count("completed") + InGranted(pc[s], result[s])
  BY <1>1
<1>3. InBusy(l) <= InBusy(pc[s]) /\ Count("completed")' \in Nat BY <1>1
<1> QED BY <1>2, <1>3, CountedAfter

\* A step whose condition does not hold is settled at once.
LEMMA SkipKeeps ==
  ASSUME RunnerAssumption, IInv, NEW s \in Steps, Skip(s)
  PROVE  IInv'
<1>0. TypeOK' BY StepTypes DEF RunStep, IInv
<1>1. /\ pc[s] = "begun" /\ s \in Running /\ log' = Append(log, Event("skipped", s))
      /\ Finish(s, "ok") /\ UNCHANGED <<runs, stale, parallel, todo, tries, used, late>>
  BY DEF Skip, Running
<1>2. Advances(s, "done", "ok") BY <1>1, FinishAdvances
<1>3. /\ Logs(s, "done", "ok")
      /\ Count("completed")' = Count("completed") /\ Count("invoked")' = Count("invoked")
  BY <1>1, LogsEach
<1>5. Counted'
  <2>1. /\ InGranted("done", "ok") <= InGranted("begun", result[s])
        /\ InBusy("done") <= InBusy("begun")
    BY DEF InGranted, InBusy
  <2>2. used' = used /\ pc[s] = "begun" BY <1>1
  <2> QED BY <1>2, <1>3, <2>1, <2>2, CountedStill
<1>6. InOneThread' BY <1>1, <1>2, <1>3, InOneThreadAfter, Sequential
<1> QED BY <1>0, <1>2, <1>3, <1>5, <1>6, StepKeepsIt

\* The check that fails a step, or lets its agent be called.
LEMMA CheckBudgetKeeps ==
  ASSUME RunnerAssumption, IInv, NEW s \in Steps, CheckBudget(s)
  PROVE  IInv'
<1>0. TypeOK' BY StepTypes DEF RunStep, IInv
<1>1. /\ pc[s] = "begun" /\ s \in Running /\ log' = log
      /\ UNCHANGED <<log, runs, stale, parallel, todo, tries, used, late>>
  BY DEF CheckBudget, Running
<1>2. Count("completed")' = Count("completed") /\ Count("invoked")' = Count("invoked")
  BY <1>1, LogSame
<1>3. CASE Finish(s, "fail")
  <2>1. Advances(s, "done", "fail") BY <1>1, <1>3, FinishAdvances
  <2>2. Logs(s, "done", "fail") BY <1>1, LogsNothing
  <2>4. Counted'
    <3>1. pc[s] = "begun" /\ result[s] = "none" /\ used' = used BY <1>1, UnderWay
    <3>2. /\ InGranted("done", "fail") <= InGranted("begun", "none")
          /\ InBusy("done") <= InBusy("begun")
      BY DEF InGranted, InBusy
    <3> QED BY <1>2, <2>1, <3>1, <3>2, CountedStill
  <2>5. InOneThread' BY <1>1, <1>2, <2>1, InOneThreadAfter, Sequential
  <2> QED BY <1>0, <2>1, <2>2, <2>4, <2>5, StepKeepsIt
<1>4. CASE /\ ~Exceeded /\ pc' = [pc EXCEPT ![s] = "invoke"]
           /\ UNCHANGED <<main, prior, result>>
  <2>1. result[s] = "none" BY <1>1, UnderWay
  <2>2. Advances(s, "invoke", "none")
    <3>1. Moves(s, "invoke", "none") BY <1>1, <1>4, <2>1, SameResult
    <3> QED BY <1>1, <1>4, <3>1 DEF Advances, Locations, Outcomes
  <2>3. Logs(s, "invoke", "none") BY <1>1, LogsNothing
  <2>5. used < AgentLimit BY <1>4, CountsOfLog DEF Exceeded, RunnerAssumption
  <2>6. Counted' BY <1>1, <1>2, <2>2, <2>5, CountedAfter, CountsOfLog
  <2>7. InOneThread' BY <1>1, <1>2, <2>2, <2>5, InOneThreadAfter, Sequential
  <2> QED BY <1>0, <2>2, <2>3, <2>6, <2>7, StepKeepsIt
<1> QED BY <1>3, <1>4 DEF CheckBudget

\* AGENT_INVOKED is logged before the counter moves.
LEMMA InvokeKeeps ==
  ASSUME RunnerAssumption, IInv, NEW s \in Steps, Invoke(s)
  PROVE  IInv'
<1>0. TypeOK' BY StepTypes DEF RunStep, IInv
<1>1. /\ pc[s] = "invoke" /\ s \in Running /\ log' = Append(log, Event("invoked", s))
      /\ pc' = [pc EXCEPT ![s] = "execute"]
      /\ UNCHANGED <<runs, main, stale, parallel, todo, prior, tries, result, used, late>>
  BY DEF Invoke, Goto, Running
<1>2. result[s] = "none" BY <1>1, UnderWay
<1>3. Advances(s, "execute", "none")
  <2>1. Moves(s, "execute", "none") BY <1>1, <1>2, SameResult
  <2> QED BY <1>1, <2>1 DEF Advances, Locations, Outcomes
<1>4. /\ Logs(s, "execute", "none")
      /\ Count("completed")' = Count("completed") /\ Count("invoked")' = Count("invoked") + 1
  BY <1>1, LogsEach
<1>6. Counted'
  <2>1. pc[s] = "invoke" /\ result[s] = "none" /\ used' = used BY <1>1, <1>2
  <2>2. /\ InGranted("execute", "none") <= InGranted("invoke", "none")
        /\ InBusy("execute") <= InBusy("invoke")
    BY DEF InGranted, InBusy
  <2> QED BY <1>3, <1>4, <2>1, <2>2, CountedStill
<1>7. InOneThread'
  <2>1. ~parallel => Count("invoked")' = used' + 1 /\ Count("invoked")' <= AgentLimit
    BY <1>1, <1>4, Sequential, CountsOfLog DEF RunnerAssumption
  <2> QED BY <1>3, <2>1, InOneThreadAfter
<1> QED BY <1>0, <1>3, <1>4, <1>6, <1>7, StepKeepsIt

\* The agent returns.
LEMMA ExecuteReturnsKeeps ==
  ASSUME RunnerAssumption, IInv, NEW s \in Steps, ExecuteReturns(s)
  PROVE  IInv'
<1>0. TypeOK' BY StepTypes DEF RunStep, IInv
<1>1. /\ pc[s] = "execute" /\ s \in Running /\ log' = log
      /\ pc' = [pc EXCEPT ![s] = "record"]
      /\ UNCHANGED <<log, runs, main, stale, parallel, todo, prior, tries, used, late>>
  BY DEF ExecuteReturns, Goto, Running
<1>2. PICK o \in {"ok", "fail"} :
        result' = [result EXCEPT ![s] = o]
  BY DEF ExecuteReturns
<1>3. Advances(s, "record", o) BY <1>1, <1>2 DEF Advances, Moves, Locations, Outcomes
<1>4. /\ Logs(s, "record", o)
      /\ Count("completed")' = Count("completed") /\ Count("invoked")' = Count("invoked")
  BY <1>1, LogsNothing, LogSame
<1>6. Counted'
  <2>1. pc[s] = "execute" /\ result[s] = "none" /\ used' = used BY <1>1, UnderWay
  <2>2. /\ InGranted("record", o) <= InGranted("execute", "none")
        /\ InBusy("record") <= InBusy("execute")
    BY DEF InGranted, InBusy
  <2> QED BY <1>3, <1>4, <2>1, <2>2, CountedStill
<1>7. InOneThread' BY <1>1, <1>3, <1>4, InOneThreadAfter, Sequential
<1> QED BY <1>0, <1>3, <1>4, <1>6, <1>7, StepKeepsIt

\* The agent is tried again, or given up.
LEMMA ExecuteFailsKeeps ==
  ASSUME RunnerAssumption, IInv, NEW s \in Steps, ExecuteFails(s)
  PROVE  IInv'
<1>0. TypeOK' BY StepTypes DEF RunStep, IInv
<1>1. /\ pc[s] = "execute" /\ s \in Running /\ log' = log
      /\ UNCHANGED <<log, runs, main, stale, parallel, todo, prior, used, late>>
  BY DEF ExecuteFails, Running
<1>2. CASE UNCHANGED <<pc, result>>
  <2>1. result[s] = "none" BY <1>1, UnderWay
  <2>2. Advances(s, "execute", "none")
    <3>1. pc' = [pc EXCEPT ![s] = "execute"] BY <1>0, <1>1, <1>2 DEF TypeOK, IInv
    <3>2. Moves(s, "execute", "none") BY <1>1, <1>2, <2>1, <3>1, SameResult
    <3> QED BY <1>1, <1>2, <3>2 DEF Advances, Locations, Outcomes
  <2>3. /\ Logs(s, "execute", "none")
        /\ Count("completed")' = Count("completed") /\ Count("invoked")' = Count("invoked")
    BY <1>1, LogsNothing, LogSame
  <2>5. Counted'
    <3>1. pc[s] = "execute" /\ result[s] = "none" /\ used' = used BY <1>1, <2>1
    <3>2. /\ InGranted("execute", "none") <= InGranted("execute", "none")
          /\ InBusy("execute") <= InBusy("execute")
      BY DEF InGranted, InBusy
    <3> QED BY <2>2, <2>3, <3>1, <3>2, CountedStill
  <2>6. InOneThread' BY <1>1, <2>2, <2>3, InOneThreadAfter, Sequential
  <2> QED BY <1>0, <2>2, <2>3, <2>5, <2>6, StepKeepsIt
<1>3. CASE Goto(s, "execute", "transition") /\ result' = [result EXCEPT ![s] = "fail"]
  <2>1. Advances(s, "transition", "fail")
    BY <1>1, <1>3 DEF Advances, Moves, Goto, Locations, Outcomes
  <2>2. /\ Logs(s, "transition", "fail")
        /\ Count("completed")' = Count("completed") /\ Count("invoked")' = Count("invoked")
    BY <1>1, LogsNothing, LogSame
  <2>4. Counted'
    <3>1. pc[s] = "execute" /\ result[s] = "none" /\ used' = used BY <1>1, UnderWay
    <3>2. /\ InGranted("transition", "fail") <= InGranted("execute", "none")
          /\ InBusy("transition") <= InBusy("execute")
      BY DEF InGranted, InBusy
    <3> QED BY <2>1, <2>2, <3>1, <3>2, CountedStill
  <2>5. InOneThread' BY <1>1, <2>1, <2>2, InOneThreadAfter, Sequential
  <2> QED BY <1>0, <2>1, <2>2, <2>4, <2>5, StepKeepsIt
<1> QED BY <1>2, <1>3 DEF ExecuteFails

\* A step that raises, with u invocations counted.
LEMMA RaiseKeeps ==
  ASSUME RunnerAssumption, IInv, TypeOK', NEW s \in Running, Raise(s),
         UNCHANGED <<log, runs, stale, parallel, todo>>,
         \/ pc[s] = "execute" /\ used' = used
         \/ pc[s] = "record" /\ used' = used + 1
  PROVE  IInv'
<1>1. PICK o \in {"fail", "none"} :
        /\ Advances(s, "done", o)
        /\ main' = "running" => parallel
  BY RaiseAdvances
<1>2. log' = log OBVIOUS
<1>3. /\ Logs(s, "done", o)
      /\ Count("completed")' = Count("completed") /\ Count("invoked")' = Count("invoked")
  BY <1>1, <1>2, LogsNothing, LogSame
<1>5. Counted' BY <1>1, <1>3, CountedAfter, CountsOfLog DEF InGranted, InBusy
<1>6. InOneThread' BY <1>1, InOneThreadAfter
<1> QED BY <1>1, <1>3, <1>5, <1>6, StepKeepsIt

\* An error that halts.
LEMMA ExecuteHaltsKeeps ==
  ASSUME RunnerAssumption, IInv, NEW s \in Steps, ExecuteHalts(s)
  PROVE  IInv'
<1>0. TypeOK' BY StepTypes DEF RunStep, IInv
<1> QED BY <1>0, RaiseKeeps DEF ExecuteHalts, Running

\* The invocation is counted, and the count may raise.
LEMMA RecordKeeps ==
  ASSUME RunnerAssumption, IInv, NEW s \in Steps, Record(s)
  PROVE  IInv'
<1>0. TypeOK' BY StepTypes DEF RunStep, IInv
<1>1. /\ pc[s] = "record" /\ s \in Running /\ log' = log /\ used' = used + 1
      /\ UNCHANGED <<log, runs, stale, parallel, todo, tries, late>>
  BY DEF Record, Spent, Running
<1>2. CASE Raise(s) BY <1>0, <1>1, <1>2, RaiseKeeps
<1>3. CASE /\ Spent < AgentLimit /\ pc' = [pc EXCEPT ![s] = "transition"]
           /\ UNCHANGED <<main, prior, result>>
  <2>1. result[s] \in {"ok", "fail"} BY <1>1, UnderWay
  <2>2. Advances(s, "transition", result[s])
    BY <1>1, <1>3, <2>1, SameResult DEF Advances, Locations, Outcomes
  <2>3. /\ Logs(s, "transition", result[s])
        /\ Count("completed")' = Count("completed") /\ Count("invoked")' = Count("invoked")
    BY <1>1, LogsNothing, LogSame
  <2>5. Counted' BY <1>1, <1>3, <2>2, <2>3, CountedAfter, CountsOfLog DEF Spent
  <2>6. InOneThread' BY <1>1, <2>2, <2>3, InOneThreadAfter, Sequential
  <2> QED BY <1>0, <2>2, <2>3, <2>5, <2>6, StepKeepsIt
<1> QED BY <1>2, <1>3 DEF Record

\* The outcome is logged.
LEMMA TransitionKeeps ==
  ASSUME RunnerAssumption, IInv, NEW s \in Steps, Transition(s)
  PROVE  IInv'
<1>0. TypeOK' BY StepTypes DEF RunStep, IInv
<1> DEFINE type == IF result[s] = "ok" THEN "completed" ELSE "failed"
<1>1. /\ pc[s] = "transition" /\ s \in Running /\ log' = Append(log, Event(type, s))
      /\ Finish(s, result[s]) /\ UNCHANGED <<runs, stale, parallel, todo, tries, used, late>>
  BY DEF Transition, Running
<1>2. result[s] \in {"ok", "fail"} BY <1>1, UnderWay
<1>3. Advances(s, "done", result[s]) BY <1>1, <1>2, FinishAdvances
<1>4. PICK o \in {"ok", "fail"} : o = result[s] BY <1>2
<1>5. CASE o = "ok"
  <2>1. log' = Append(log, Event("completed", s)) /\ Advances(s, "done", "ok")
    BY <1>1, <1>3, <1>4, <1>5
  <2>3. /\ Logs(s, "done", "ok")
        /\ Count("completed")' = Count("completed") + 1 /\ Count("invoked")' = Count("invoked")
    BY <1>1, <2>1, LogsEach
  <2>5. Counted'
    <3>1. /\ InGranted("done", "ok") = 0 /\ InGranted(pc[s], result[s]) = 1
          /\ InBusy("done") <= InBusy(pc[s])
      BY <1>1, <1>4, <1>5, Weights
    <3>2. /\ Count("completed")' + InGranted("done", "ok") <=
               Count("completed") + InGranted(pc[s], result[s])
          /\ Count("completed")' \in Nat /\ used' = used
      BY <1>1, <2>3, <3>1, CountsOfLog
    <3> QED BY <2>1, <3>1, <3>2, CountedAfter
  <2>6. InOneThread' BY <1>1, <1>4, <1>5, <2>1, <2>3, InOneThreadAfter, Sequential
  <2> QED BY <1>0, <2>1, <2>3, <2>5, <2>6, StepKeepsIt
<1>6. CASE o = "fail"
  <2>1. log' = Append(log, Event("failed", s)) /\ Advances(s, "done", "fail")
    BY <1>1, <1>3, <1>4, <1>6
  <2>2. /\ Logs(s, "done", "fail")
        /\ Count("completed")' = Count("completed") /\ Count("invoked")' = Count("invoked")
    BY <1>1, <2>1, LogsEach
  <2>4. Counted'
    <3>1. pc[s] = "transition" /\ result[s] = "fail" /\ used' = used BY <1>1, <1>4, <1>6
    <3>2. /\ InGranted("done", "fail") <= InGranted("transition", "fail")
          /\ InBusy("done") <= InBusy("transition")
      BY DEF InGranted, InBusy
    <3> QED BY <2>1, <2>2, <3>1, <3>2, CountedStill
  <2>5. InOneThread' BY <1>1, <2>1, <2>2, InOneThreadAfter, Sequential
  <2> QED BY <1>0, <2>1, <2>2, <2>4, <2>5, StepKeepsIt
<1> QED BY <1>5, <1>6

----------------------------------------------------------------------------
(* The invariant.                                                          *)

\* Before a run.
LEMMA InitKeeps ==
  ASSUME RunnerAssumption, Init
  PROVE  IInv
<1>1. TypeOK BY InitTypes
<1>2. /\ log = <<>> /\ main = "idle" /\ pc = [s \in Steps |-> "waiting"] /\ result = Unknown
      /\ todo = {} /\ used = 0 /\ parallel = FALSE /\ prior = Unknown
  BY DEF Init
<1>3. Positions = {} /\ SettledSteps = {}
  BY <1>2 DEF Positions, SettledSteps, SettledBefore
<1>4. SettledOnce BY <1>3 DEF SettledOnce
<1>5. Fresh /\ SettledIsPrior /\ Group /\ AllSettled /\ VerdictKnown /\ InOneThread
  BY <1>2, <1>3 DEF Fresh, SettledIsPrior, Group, AllSettled, VerdictKnown, InOneThread, Open
<1>6. PriorIsSettled BY <1>2 DEF PriorIsSettled, Unknown
<1>7. Running = {} /\ Busy = {} /\ Granted = {} BY <1>2 DEF Running, Busy, Granted
<1>8. Quiet BY <1>2, <1>7 DEF Quiet
<1>9. Counted
  <2>1. Count("completed") = 0 BY <1>3, FS_EmptySet DEF Count
  <2>2. Cardinality(Running) = 0 /\ Cardinality(Busy) = 0 /\ Cardinality(Granted) = 0
    BY <1>7, FS_EmptySet
  <2> QED BY <1>2, <2>1, <2>2 DEF Counted, RunnerAssumption
<1> QED BY <1>1, <1>4, <1>5, <1>6, <1>8, <1>9 DEF IInv

\* A run that starts has an empty ledger.
LEMMA StartKeeps ==
  ASSUME RunnerAssumption, IInv, Start
  PROVE  IInv'
<1>1. Unknown \in [Steps -> Outcomes] /\ \A s \in Steps : Unknown[s] = "none"
  BY DEF Unknown, Outcomes
<1>2. main = "idle" /\ log = <<>> BY DEF Start, IInv, VerdictKnown
<1>3. SettledSteps = {} BY <1>2 DEF SettledSteps, SettledBefore
<1>4. Opening(<<RunEvent("initiated")>>) BY OpeningEvents
<1> QED BY <1>1, <1>2, <1>3, <1>4, BeginKeeps DEF Start

\* A run that is resumed has the outcomes that replay finds.
LEMMA ResumeKeeps ==
  ASSUME RunnerAssumption, IInv, Resume
  PROVE  IInv'
<1> DEFINE outcomes == [s \in Steps |-> Replayed(s)]
<1>1. outcomes \in [Steps -> Outcomes] BY ReplayedTypes
<1>2. \A s \in Steps : outcomes[s] = "ok" <=> s \in SettledSteps BY ReplayedSettled
<1>3. Opening(<<RunEvent("resumed"), RunEvent("initiated")>>) BY OpeningEvents
<1>4. main \in Over /\ Begin(<<RunEvent("resumed"), RunEvent("initiated")>>, outcomes)
  BY DEF Resume
<1> HIDE DEF outcomes
<1> QED BY <1>1, <1>2, <1>3, <1>4, BeginKeeps

\* The steps of run.
LEMMA DriveKeeps ==
  ASSUME RunnerAssumption, IInv, Drive
  PROVE  IInv'
BY PreflightKeeps, StartGroupKeeps, BeginStepKeeps, EndGroupKeeps, CompleteKeeps, FailKeeps,
   DiagnoseKeeps, ReportAndRaiseKeeps DEF Drive

\* The steps of _run_step.
LEMMA RunStepKeeps ==
  ASSUME RunnerAssumption, IInv, NEW s \in Steps, RunStep(s)
  PROVE  IInv'
BY SkipKeeps, CheckBudgetKeeps, InvokeKeeps, ExecuteReturnsKeeps, ExecuteFailsKeeps,
   ExecuteHaltsKeeps, RecordKeeps, TransitionKeeps DEF RunStep

\* A step of something else.
LEMMA StutterKeeps ==
  ASSUME IInv, UNCHANGED vars
  PROVE  IInv'
<1>1. /\ log' = log
      /\ UNCHANGED <<runs, main, stale, parallel, todo, prior, pc, tries, result, used, late>>
  BY DEF vars, locals
<1>2. Running' = Running /\ Busy' = Busy /\ Granted' = Granted /\ Failed' = Failed
  BY <1>1 DEF Running, Busy, Granted, Failed
<1>3. TypeOK' BY <1>1 DEF IInv, TypeOK
<1>4. SettledOnce' BY <1>1, LogSame DEF IInv
<1>5. Fresh' /\ Quiet' /\ PriorIsSettled' /\ SettledIsPrior' /\ Group' /\ AllSettled'
  BY <1>1, <1>2, LogSame
     DEF IInv, Fresh, Quiet, PriorIsSettled, SettledIsPrior, Group, AllSettled
<1>6. VerdictKnown' BY <1>1, LogSame DEF IInv, VerdictKnown
<1>7. Counted' /\ InOneThread' BY <1>1, <1>2, LogSame DEF IInv, Counted, InOneThread
<1> QED BY <1>3, <1>4, <1>5, <1>6, <1>7 DEF IInv

\* Every step keeps the invariant.
LEMMA NextKeeps ==
  ASSUME RunnerAssumption, IInv, [Next]_vars
  PROVE  IInv'
BY StartKeeps, ResumeKeeps, CrashKeeps, ExpireKeeps, DriveKeeps, RunStepKeeps, StutterKeeps
   DEF Next

\* IInv holds in every state of a run that is started, resumed, killed and timed
\* out in any order, for every workflow, limit and pool (WorkflowRunner.run).
THEOREM Invariant == Spec => []IInv
<1>1. Init => IInv BY RunnerAssumption, InitKeeps
<1>2. IInv /\ [Next]_vars => IInv' BY RunnerAssumption, NextKeeps
<1> QED BY <1>1, <1>2, PTL DEF Spec

----------------------------------------------------------------------------
(* What follows from it.                                                   *)

\* The pool exceeds max_agent_invocations by less than it has workers, and the
\* sequential loop never does (StepBudgetEnforcer under WorkflowRunner).
THEOREM Overshoot == Spec => []OvershootBounded
<1>1. IInv => OvershootBounded
  <2> SUFFICES ASSUME IInv PROVE OvershootBounded OBVIOUS
  <2>1. /\ log \in Seq(Entries) /\ used \in Nat /\ AgentLimit \in Nat /\ MaxWorkers \in Nat
    BY RunnerAssumption, LogTypes DEF IInv, TypeOK, RunnerAssumption
  <2>2. Count("completed") \in Nat /\ Cardinality(Granted) \in Nat /\ Cardinality(Busy) \in Nat
    BY <2>1, CountTypes, RunnerAssumption, Counts DEF IInv
  <2>3. used <= AgentLimit + MaxWorkers - 1 /\ Count("completed") < AgentLimit
    BY <2>1, <2>2 DEF IInv, Counted
  <2>4. main = "running" /\ ~parallel => Count("invoked") <= AgentLimit
    BY DEF IInv, InOneThread
  <2> QED BY <2>3, <2>4 DEF OvershootBounded
<1> QED BY <1>1, Invariant, PTL

----------------------------------------------------------------------------
(* The refinement.                                                         *)

\* An entry that is neither a verdict nor the settling of a step is a stutter.
LEMMA Unseen ==
  ASSUME IInv, NEW e \in Entries, log' = Append(log, e),
         e.type \notin Settling \cup Verdicts
  PROVE  UNCHANGED <<SettledSteps, Verdict>>
<1>1. log \in Seq(Entries) BY LogTypes DEF IInv
<1> QED BY <1>1, SettledAfter, VerdictAfter

\* A step that settles is one of the contract.
LEMMA Settles ==
  ASSUME IInv, NEW s \in Running, NEW type \in Settling,
         log' = Append(log, Event(type, s))
  PROVE  Contract!Settle(s)
<1> DEFINE e == Event(type, s)
<1>1. log \in Seq(Entries) /\ s \in Steps /\ s \notin SettledSteps
  BY LogTypes, UnderWay DEF IInv
<1>2. e \in Entries /\ e.type = type /\ e.step = s /\ log' = Append(log, e)
  BY <1>1, EntryOf DEF EventTypes, Settling
<1>3. type \notin Verdicts BY DEF Settling, Verdicts
<1>4. Verdict = "open" BY UnderWay DEF IInv, VerdictKnown, Open
<1> HIDE DEF e
<1>5. SettledSteps' = SettledSteps \cup {s} BY <1>1, <1>2, SettledAfter
<1>6. Verdict' = Verdict BY <1>1, <1>2, <1>3, VerdictAfter
<1> QED BY <1>1, <1>4, <1>5, <1>6 DEF Contract!Settle

\* So is a verdict.
LEMMA Ends ==
  ASSUME IInv, NEW type \in {"run_completed", "run_failed"},
         log' = Append(log, RunEvent(type))
  PROVE  SettledSteps' = SettledSteps /\ Verdict' = VerdictOf(type)
<1> DEFINE e == RunEvent(type)
<1>1. log \in Seq(Entries) BY LogTypes DEF IInv
<1>2. e \in Entries /\ e.type = type /\ log' = Append(log, e) BY EntryOf DEF EventTypes
<1>3. type \in Verdicts /\ type \notin Settling BY DEF Settling, Verdicts
<1> HIDE DEF e
<1> QED BY <1>1, <1>2, <1>3, SettledAfter, VerdictAfter

\* A step of _run_step settles its step or changes nothing the contract sees.
LEMMA StepSimulates ==
  ASSUME RunnerAssumption, IInv, NEW s \in Steps, RunStep(s)
  PROVE  [Contract!Next]_(Contract!vars)
<1>1. CASE log' = log BY <1>1, LogSame DEF Contract!vars
<1>2. CASE Skip(s)
  <2>1. s \in Running /\ log' = Append(log, Event("skipped", s)) /\ "skipped" \in Settling
    BY <1>2 DEF Skip, Running, Settling
  <2> QED BY <2>1, Settles DEF Contract!Next
<1>3. CASE Invoke(s)
  <2>1. log' = Append(log, Event("invoked", s)) BY <1>3 DEF Invoke
  <2>2. Event("invoked", s) \in Entries /\ Event("invoked", s).type = "invoked"
    BY EntryOf DEF EventTypes
  <2>3. "invoked" \notin Settling \cup Verdicts BY DEF Settling, Verdicts
  <2> QED BY <2>1, <2>2, <2>3, Unseen DEF Contract!vars
<1>4. CASE Transition(s)
  <2>1. s \in Running BY <1>4 DEF Transition, Running
  <2>2. CASE log' = Append(log, Event("completed", s))
    <3>1. "completed" \in Settling BY DEF Settling
    <3> QED BY <2>1, <2>2, <3>1, Settles DEF Contract!Next
  <2>3. CASE log' = Append(log, Event("failed", s))
    <3>1. Event("failed", s) \in Entries /\ Event("failed", s).type = "failed"
      BY EntryOf DEF EventTypes
    <3>2. "failed" \notin Settling \cup Verdicts BY DEF Settling, Verdicts
    <3> QED BY <2>3, <3>1, <3>2, Unseen DEF Contract!vars
  <2> QED BY <1>4, <2>2, <2>3 DEF Transition
<1> QED BY <1>1, <1>2, <1>3, <1>4
     DEF RunStep, CheckBudget, ExecuteReturns, ExecuteFails, ExecuteHalts, Record

\* A step of run is Complete, Fail or nothing.
LEMMA DriveSimulates ==
  ASSUME RunnerAssumption, IInv, Drive
  PROVE  [Contract!Next]_(Contract!vars)
<1>1. CASE log' = log BY <1>1, LogSame DEF Contract!vars
<1>2. CASE EndGroup /\ log' = Append(log, RunEvent("checkpoint"))
  <2>1. RunEvent("checkpoint") \in Entries /\ RunEvent("checkpoint").type = "checkpoint"
    BY EntryOf DEF EventTypes
  <2>2. "checkpoint" \notin Settling \cup Verdicts BY DEF Settling, Verdicts
  <2> QED BY <1>2, <2>1, <2>2, Unseen DEF Contract!vars
<1>3. CASE Complete
  <2>1. SettledSteps = Steps /\ Verdict = "open"
    BY <1>3 DEF Complete, IInv, AllSettled, VerdictKnown, Open
  <2>2. SettledSteps' = SettledSteps /\ Verdict' = "completed"
    BY <1>3, Ends DEF Complete, VerdictOf
  <2> QED BY <2>1, <2>2 DEF Contract!Complete, Contract!Next
<1>4. CASE Fail \/ ReportAndRaise
  <2>1. Verdict \in {"open", "failed"}
    BY <1>4 DEF Fail, ReportAndRaise, IInv, VerdictKnown, Open
  <2>2. SettledSteps' = SettledSteps /\ Verdict' = "failed"
    BY <1>4, Ends DEF Fail, ReportAndRaise, VerdictOf
  <2> QED BY <2>1, <2>2 DEF Contract!Fail, Contract!Next, Contract!vars
<1> QED
  BY <1>1, <1>2, <1>3, <1>4 DEF Drive, Preflight, StartGroup, BeginStep, EndGroup, Diagnose

\* Starting and resuming open the run.
LEMMA BeginSimulates ==
  ASSUME IInv, NEW events, Opening(events), log' = log \o events
  PROVE  Contract!Next
<1>1. log \in Seq(Entries) BY LogTypes DEF IInv
<1> QED BY <1>1, SettledOpened, VerdictOpened DEF Contract!Open, Contract!Next

\* Every step is one of the contract, or a stutter.
LEMMA NextSimulates ==
  ASSUME RunnerAssumption, IInv, [Next]_vars
  PROVE  [Contract!Next]_(Contract!vars)
<1>1. CASE Start BY <1>1, OpeningEvents, BeginSimulates DEF Start, Begin
<1>2. CASE Resume BY <1>2, OpeningEvents, BeginSimulates DEF Resume, Begin
<1>3. CASE log' = log BY <1>3, LogSame DEF Contract!vars
<1>4. CASE Drive BY <1>4, DriveSimulates
<1>5. CASE \E s \in Steps : RunStep(s) BY <1>5, StepSimulates
<1> QED BY <1>1, <1>2, <1>3, <1>4, <1>5 DEF Next, Crash, Expire, vars

\* The runner implements RunContract: across crashes and resumes no step settles
\* twice, and RUN_COMPLETED is logged only when every step has settled.
THEOREM Refinement == Spec => KeepsContract
<1>1. Init => Contract!Init
  BY DEF Init, Contract!Init, SettledSteps, SettledBefore, Verdict, Positions
<1>2. IInv /\ [Next]_vars => [Contract!Next]_(Contract!vars)
  BY RunnerAssumption, NextSimulates
<1> QED BY <1>1, <1>2, Invariant, PTL DEF Spec, KeepsContract, Contract!Spec

----------------------------------------------------------------------------
(* The verdict.                                                            *)

\* The status tells the last verdict, unless an earlier attempt failed.
Told ==
    \/ SummaryStatus = Verdict
    \/ \E i \in Positions : log[i].type = "run_failed" /\ ~InAttempt(i)

\* What build_run_summary derives from the verdicts of a ledger.
LEMMA StatusNext ==
  ASSUME log' \in Seq(Entries)
  PROVE  /\ (\E i \in Positions' : log'[i].type = "run_failed") => SummaryStatus' = "failed"
         /\ /\ \A i \in Positions' : log'[i].type # "run_failed"
            /\ \E i \in Positions' : log'[i].type = "run_completed"
            => SummaryStatus' = "completed"
BY DEF SummaryStatus, Positions

\* A ledger whose last verdict is a failure has the entry of one.
LEMMA FailedIsThere ==
  ASSUME log \in Seq(Entries), Verdict = "failed"
  PROVE  \E i \in Positions : log[i].type = "run_failed"
<1> DEFINE at == {i \in Positions : log[i].type \in Verdicts}
           last == CHOOSE i \in at : \A j \in at : j <= i
<1>1. Verdict = IF at = {} THEN "none" ELSE VerdictOf(log[last].type)
  BY DEF Verdict, VerdictOf, Verdicts
<1>2. at # {} BY <1>1
<1>3. at \in SUBSET (1..Len(log)) /\ Len(log) \in Nat BY DEF Positions
<1>4. last \in at
  <2> HIDE DEF at
  <2> QED BY <1>2, <1>3, LastOf
<1>5. VerdictOf(log[last].type) = "failed" BY <1>1, <1>2
<1>6. log[last].type = "run_failed"
  <2> HIDE DEF last
  <2> QED BY <1>5 DEF VerdictOf
<1> QED BY <1>4, <1>6

\* After the entry that ends the run, the summary tells it.
LEMMA EndIsTold ==
  ASSUME IInv, NEW type \in {"run_completed", "run_failed"},
         log' = Append(log, RunEvent(type)),
         type = "run_completed" =>
           \A i \in Positions : log[i].type = "run_failed" => ~InAttempt(i)
  PROVE  Verdict' \in {"completed", "failed"} /\ Told'
<1> DEFINE e == RunEvent(type)
<1>1. log \in Seq(Entries) BY LogTypes DEF IInv
<1>2. e \in Entries /\ e.type = type /\ log' = Append(log, e) /\ type # "initiated"
  BY EntryOf DEF EventTypes
<1> HIDE DEF e
<1>3. Verdict' = VerdictOf(type) BY Ends
<1>4. /\ log' \in Seq(Entries) /\ Positions' = Positions \cup {NewEntry} /\ log'[NewEntry] = e
      /\ \A i \in Positions : log'[i] = log[i] /\ (InAttempt(i)' <=> InAttempt(i))
  BY <1>1, <1>2, Appended, AttemptAfter
<1>5. CASE type = "run_failed"
  <2>1. \E i \in Positions' : log'[i].type = "run_failed" BY <1>2, <1>4, <1>5
  <2>2. SummaryStatus' = "failed" BY <1>4, <2>1, StatusNext
  <2> QED BY <1>3, <1>5, <2>2 DEF Told, VerdictOf
<1>6. CASE type = "run_completed"
  <2>1. CASE \E i \in Positions : log[i].type = "run_failed"
    <3>1. \E i \in Positions : log[i].type = "run_failed" /\ ~InAttempt(i) BY <1>6, <2>1
    <3>2. \E i \in Positions' : log'[i].type = "run_failed" /\ ~InAttempt(i)'
      BY <1>4, <3>1
    <3> QED BY <1>3, <1>6, <3>2 DEF Told, VerdictOf
  <2>2. CASE \A i \in Positions : log[i].type # "run_failed"
    <3>1. /\ \A i \in Positions' : log'[i].type # "run_failed"
          /\ \E i \in Positions' : log'[i].type = "run_completed"
      BY <1>2, <1>4, <1>6, <2>2
    <3>2. SummaryStatus' = "completed" BY <1>4, <3>1, StatusNext
    <3> QED BY <1>3, <1>6, <3>2 DEF Told, VerdictOf
  <2> QED BY <2>1, <2>2
<1> QED BY <1>5, <1>6

\* run returns or raises only after an entry that the summary tells.
LEMMA DriveTells ==
  ASSUME RunnerAssumption, IInv, Drive, main' \in {"returned", "raised"}
  PROVE  Verdict' \in {"completed", "failed"} /\ Told'
<1>1. log \in Seq(Entries) BY LogTypes DEF IInv
<1>2. CASE Complete BY <1>2, EndIsTold DEF Complete, IInv, VerdictKnown, Open
<1>3. CASE ReportAndRaise BY <1>3, EndIsTold DEF ReportAndRaise
<1>4. CASE Diagnose
  <2>1. Verdict = "failed" /\ log' = log BY <1>4 DEF Diagnose, IInv, VerdictKnown
  <2>2. Verdict' = "failed" /\ Positions' = Positions BY <2>1, LogSame
  <2>3. \E i \in Positions' : log'[i].type = "run_failed"
    BY <1>1, <2>1, <2>2, FailedIsThere
  <2>4. SummaryStatus' = "failed" BY <1>1, <2>1, <2>3, StatusNext
  <2> QED BY <2>2, <2>4 DEF Told
<1>5. CASE Preflight \/ StartGroup \/ BeginStep \/ EndGroup \/ Fail
  BY <1>5 DEF Preflight, StartGroup, BeginStep, EndGroup, Fail, Return
<1> QED BY <1>2, <1>3, <1>4, <1>5 DEF Drive

\* Nothing else returns or raises.
LEMMA OthersTell ==
  ASSUME RunnerAssumption, IInv,
         Start \/ Resume \/ Crash \/ Expire \/ \E s \in Steps : RunStep(s)
  PROVE  main' \notin {"returned", "raised"}
<1>1. CASE Start \/ Resume \/ Crash \/ Expire
  BY <1>1 DEF Start, Resume, Begin, Crash, Return, Expire
<1>2. ASSUME NEW s \in Steps, RunStep(s) PROVE main' \notin {"returned", "raised"}
  <2>1. s \in Running
    BY <1>2 DEF RunStep, Skip, CheckBudget, Invoke, ExecuteReturns, ExecuteFails, ExecuteHalts,
                Record, Transition, Goto, Running
  <2>2. main = "running" BY <2>1, UnderWay
  <2>3. main' = main \/ main' = "raising"
    BY <1>2 DEF RunStep, Skip, CheckBudget, Invoke, ExecuteReturns, ExecuteFails, ExecuteHalts,
                Record, Transition, Finish, Raise
  <2> QED BY <2>2, <2>3
<1> QED BY <1>1, <1>2

\* When run returns or raises, the ledger has its verdict, and the summary tells
\* it unless an earlier attempt failed.
THEOREM VerdictTold == Spec => []EndsWithVerdict
<1>1. Init => EndsWithVerdict BY DEF Init, EndsWithVerdict
<1>2. IInv /\ EndsWithVerdict /\ [Next]_vars => EndsWithVerdict'
  <2> SUFFICES ASSUME IInv, EndsWithVerdict, [Next]_vars PROVE EndsWithVerdict' OBVIOUS
  <2>1. EndsWithVerdict <=>
          (main \in {"returned", "raised"} => Verdict \in {"completed", "failed"} /\ Told)
    BY DEF EndsWithVerdict, Told
  <2>2. EndsWithVerdict' <=>
          (main' \in {"returned", "raised"} => Verdict' \in {"completed", "failed"} /\ Told')
    BY DEF EndsWithVerdict, Told
  <2>3. CASE UNCHANGED vars
    <3>1. log' = log /\ main' = main BY <2>3 DEF vars
    <3>2. SummaryStatus' = SummaryStatus BY <3>1 DEF SummaryStatus
    <3>3. Told => Told' BY <3>1, <3>2, LogSame DEF Told
    <3> QED BY <2>1, <2>2, <3>1, <3>3, LogSame
  <2>4. CASE Drive BY <2>2, <2>4, RunnerAssumption, DriveTells
  <2>5. CASE Start \/ Resume \/ Crash \/ Expire \/ \E s \in Steps : RunStep(s)
    BY <2>2, <2>5, RunnerAssumption, OthersTell
  <2> QED BY <2>3, <2>4, <2>5 DEF Next
<1> QED BY <1>1, <1>2, Invariant, PTL DEF Spec
----------------------------------------------------------------------------
(* Dependencies.                                                           *)

\* Steps come after those they depend on, and no step that may run in the pool
\* depends on another such step.
Apart ==
    /\ \A i \in 1..Len(Order) : \A d \in DependsOn[Order[i]] \cap Steps :
         \E k \in 1..(i - 1) : Order[k] = d
    /\ \A s \in ParallelSafe : DependsOn[s] \cap ParallelSafe = {}

\* The steps that s depends on have settled.
Ready(s) == DependsOn[s] \cap Steps \subseteq SettledSteps

\* Steps under way are ready, and in the pool those that are left are.
ReadyInGroup ==
    main = "running" =>
        /\ \A s \in Running : Ready(s)
        /\ parallel => \A s \in todo : Ready(s)

\* A settled step stays settled.
LEMMA SettledStay ==
  ASSUME RunnerAssumption, IInv, [Next]_vars
  PROVE  SettledSteps \subseteq SettledSteps'
<1>1. [Contract!Next]_(Contract!vars) BY NextSimulates
<1> QED
  BY <1>1 DEF Contract!Next, Contract!Open, Contract!Fail, Contract!Complete, Contract!Settle,
              Contract!vars

\* What is appended leaves what had settled before every earlier entry.
LEMMA InvokedReady ==
  ASSUME log \in Seq(Entries), NEW e \in Entries, log' = Append(log, e),
         DependenciesSettleFirst, e.type = "invoked" => Ready(e.step)
  PROVE  DependenciesSettleFirst'
<1>1. /\ Positions = 1..Len(log) /\ Len(log) \in Nat
      /\ Positions' = Positions \cup {NewEntry} /\ NewEntry = Len(log) + 1
      /\ \A i \in Positions : log'[i] = log[i]
      /\ log'[NewEntry] = e
  BY Appended DEF NewEntry
<1>2. \A d : SettledBefore(d, Len(log) + 1) =>
        \E j \in 1..Len(log) : log'[j].step = d /\ log'[j].type \in Settling
  BY <1>1 DEF SettledBefore
<1>3. ASSUME NEW i \in Positions', log'[i].type = "invoked",
             NEW d \in DependsOn[log'[i].step] \cap Steps
      PROVE  \E j \in 1..(i - 1) : log'[j].step = d /\ log'[j].type \in Settling
  <2>1. CASE i \in Positions
    <3>1. SettledBefore(d, i) BY <1>1, <1>3, <2>1 DEF DependenciesSettleFirst
    <3> QED BY <1>1, <2>1, <3>1 DEF SettledBefore
  <2>2. CASE i = NewEntry
    <3>1. d \in SettledSteps BY <1>1, <1>3, <2>2 DEF Ready
    <3>2. 1..(i - 1) = 1..Len(log) BY <1>1, <2>2
    <3>3. SettledBefore(d, Len(log) + 1) BY <1>1, <3>1 DEF SettledSteps
    <3> QED BY <1>2, <3>2, <3>3
  <2> QED BY <1>1, <2>1, <2>2
<1> QED BY <1>3 DEF DependenciesSettleFirst, SettledBefore

\* What opens an attempt invokes nothing.
LEMMA OpenedReady ==
  ASSUME log \in Seq(Entries), NEW events, Opening(events), log' = log \o events,
         DependenciesSettleFirst
  PROVE  DependenciesSettleFirst'
<1>1. \A i \in Positions' : log'[i].type = "invoked" => i \in Positions BY Opened
<1>2. ASSUME NEW i \in Positions, log'[i].type = "invoked",
             NEW d \in DependsOn[log'[i].step] \cap Steps
      PROVE  \E j \in 1..(i - 1) : log'[j].step = d /\ log'[j].type \in Settling
  <2>1. \A j \in 1..i : log'[j] = log[j] BY Opened
  <2>2. i \in 1..i /\ \A j \in 1..(i - 1) : j \in 1..i BY Opened
  <2>3. SettledBefore(d, i) BY <1>2, <2>1, <2>2 DEF DependenciesSettleFirst
  <2> QED BY <2>1, <2>2, <2>3 DEF SettledBefore
<1>3. ASSUME NEW i \in Positions', log'[i].type = "invoked",
             NEW d \in DependsOn[log'[i].step] \cap Steps
      PROVE  \E j \in 1..(i - 1) : log'[j].step = d /\ log'[j].type \in Settling
  BY <1>1, <1>2, <1>3
<1> QED BY <1>3 DEF DependenciesSettleFirst, SettledBefore

\* The first of the steps left is ready.
LEMMA ForemostReady ==
  ASSUME RunnerAssumption, Apart, IInv, ReadyInGroup, BeginStep,
         NEW s \in todo, Foremost(s)
  PROVE  Ready(s)
<1>1. main = "running" /\ Cardinality(Running) < Capacity /\ ~Broken BY DEF BeginStep
<1>2. CASE parallel BY <1>1, <1>2 DEF ReadyInGroup
<1>3. CASE ~parallel
  <2>1. Running = {} /\ Failed = {}
    <3>1. Failed = {} BY <1>1, <1>3 DEF Broken
    <3>2. Cardinality(Running) = 0 /\ IsFiniteSet(Running)
      <4>1. IsFiniteSet(Running) /\ Running \in SUBSET Steps BY StepsFinite DEF Running
      <4>2. Cardinality(Running) \in Nat BY <4>1, FS_CardinalityType
      <4> QED BY <1>1, <1>3, <4>1, <4>2 DEF Capacity
    <3> QED BY <3>1, <3>2, FS_EmptySet
  <2>2. PICK i \in 1..Len(Order) : Order[i] = s /\ \A j \in 1..(i - 1) : Order[j] \notin todo
    BY DEF Foremost
  <2>3. ASSUME NEW d \in DependsOn[s] \cap Steps PROVE d \in SettledSteps
    <3>1. d \notin todo BY <2>2, <2>3 DEF Apart
    <3>2. pc[d] \in {"waiting", "done"} BY <2>1, <2>3 DEF Running
    <3>3. CASE pc[d] = "waiting"
      BY <1>1, <2>3, <3>1, <3>3 DEF IInv, Group, PriorIsSettled
    <3>4. CASE pc[d] = "done" BY <1>1, <2>1, <2>3, <3>4 DEF IInv, Group, Failed
    <3> QED BY <3>2, <3>3, <3>4
  <2> QED BY <2>3 DEF Ready
<1> QED BY <1>2, <1>3

\* The steps left in a pool depend on steps that may not run in it.
LEMMA PoolReady ==
  ASSUME RunnerAssumption, Apart, IInv, StartGroup, parallel', NEW s \in todo'
  PROVE  Ready(s)
<1>1. s \in Remaining /\ Remaining \subseteq ParallelSafe BY DEF StartGroup
<1>2. ASSUME NEW d \in DependsOn[s] \cap Steps PROVE d \in SettledSteps
  <2>1. d \notin Remaining BY <1>1, <1>2 DEF Apart
  <2> QED BY <1>2, <2>1 DEF Remaining, IInv, PriorIsSettled
<1> QED BY <1>2 DEF Ready

\* Steps become under way when they are ready, and stay ready.
LEMMA ReadyInGroupKept ==
  ASSUME RunnerAssumption, Apart, IInv, ReadyInGroup, [Next]_vars
  PROVE  ReadyInGroup'
<1>1. SettledSteps \subseteq SettledSteps' BY SettledStay
<1>2. \A s : Ready(s) => Ready(s)' BY <1>1 DEF Ready
<1>3. CASE main' # "running" BY <1>3 DEF ReadyInGroup
<1>4. CASE /\ main = "running" /\ main' = "running" /\ UNCHANGED <<parallel, todo>>
           /\ Running' \subseteq Running
  BY <1>2, <1>4 DEF ReadyInGroup
<1>5. CASE StartGroup
  <2>1. Running' = {} BY <1>5 DEF StartGroup, IInv, Fresh, Running
  <2> QED BY <1>2, <1>5, <2>1, PoolReady DEF ReadyInGroup
<1>6. CASE BeginStep
  <2>1. PICK s \in todo : Foremost(s) /\ pc' = [pc EXCEPT ![s] = "begun"] /\ todo' = todo \ {s}
    BY <1>6 DEF BeginStep
  <2>2. Ready(s) BY <1>6, <2>1, ForemostReady
  <2>3. main = "running" /\ UNCHANGED parallel BY <1>6 DEF BeginStep
  <2>4. \A t \in Running' : t = s \/ t \in Running BY <2>1 DEF Running, IInv, TypeOK
  <2> QED BY <1>2, <2>1, <2>2, <2>3, <2>4 DEF ReadyInGroup
<1>7. CASE \E s \in Steps : RunStep(s)
  <2>1. PICK s \in Steps : RunStep(s) BY <1>7
  <2>2. s \in Running
    BY <2>1 DEF RunStep, Skip, CheckBudget, Invoke, ExecuteReturns, ExecuteFails, ExecuteHalts,
                Record, Transition, Goto, Running
  <2>3. \A t \in Steps \ {s} : pc'[t] = pc[t]
    BY <2>1 DEF RunStep, Skip, CheckBudget, Invoke, ExecuteReturns, ExecuteFails, ExecuteHalts,
                Record, Transition, Goto, Finish, Raise, IInv, TypeOK
  <2>4. Running' \subseteq Running BY <2>2, <2>3 DEF Running
  <2>5. UNCHANGED <<parallel, todo>>
    BY <2>1 DEF RunStep, Skip, CheckBudget, Invoke, ExecuteReturns, ExecuteFails, ExecuteHalts,
                Record, Transition
  <2>6. main = "running" BY <2>2, UnderWay
  <2> QED BY <1>3, <1>4, <2>4, <2>5, <2>6
<1>8. CASE Expire \/ UNCHANGED vars
  <2>1. UNCHANGED <<main, parallel, todo, pc>> BY <1>8 DEF Expire, vars, locals
  <2>2. Running' = Running BY <2>1 DEF Running
  <2> QED BY <1>3, <1>4, <2>1, <2>2
<1>9. CASE \/ Start \/ Resume \/ Crash \/ Preflight \/ EndGroup \/ Complete \/ Fail
           \/ Diagnose \/ ReportAndRaise
  <2>1. main' # "running"
    BY <1>9 DEF Start, Resume, Begin, Crash, Return, Preflight, EndGroup, Complete, Fail,
                Diagnose, ReportAndRaise, Over
  <2> QED BY <1>3, <2>1
<1> QED BY <1>5, <1>6, <1>7, <1>8, <1>9 DEF Next, Drive

\* Only steps under way are invoked.
LEMMA DependenciesKept ==
  ASSUME RunnerAssumption, IInv, ReadyInGroup, DependenciesSettleFirst, [Next]_vars
  PROVE  DependenciesSettleFirst'
<1>1. log \in Seq(Entries) BY LogTypes DEF IInv
<1>2. CASE log' = log BY <1>2 DEF DependenciesSettleFirst, SettledBefore, Positions
<1>3. ASSUME NEW type \in EventTypes \ {"invoked"}, NEW s \in Steps \cup {NoStep},
             log' = Append(log, Event(type, s))
      PROVE  DependenciesSettleFirst'
  <2> DEFINE e == Event(type, s)
  <2>1. e \in Entries /\ e.type = type /\ log' = Append(log, e) BY <1>3, EntryOf
  <2> HIDE DEF e
  <2> QED BY <1>1, <1>3, <2>1, InvokedReady
<1>4. ASSUME NEW s \in Steps, Invoke(s) PROVE DependenciesSettleFirst'
  <2> DEFINE e == Event("invoked", s)
  <2>1. e \in Entries /\ e.step = s /\ log' = Append(log, e)
    BY <1>4, EntryOf DEF Invoke, EventTypes
  <2>2. s \in Running BY <1>4 DEF Invoke, Goto, Running
  <2>3. Ready(s) BY <2>2, UnderWay DEF ReadyInGroup
  <2> HIDE DEF e
  <2> QED BY <1>1, <2>1, <2>3, InvokedReady
<1>5. CASE Start \/ Resume
  BY <1>1, <1>5, OpeningEvents, OpenedReady DEF Start, Resume, Begin
<1>6. CASE Crash \/ Expire \/ UNCHANGED vars BY <1>2, <1>6 DEF Crash, Expire, vars
<1>7. CASE Drive
  <2>1. \A type : RunEvent(type) = Event(type, NoStep) BY DEF RunEvent
  <2>2. \/ log' = log
        \/ \E type \in {"checkpoint", "run_completed", "run_failed"} :
             log' = Append(log, RunEvent(type))
    BY <1>7 DEF Drive, Preflight, StartGroup, BeginStep, EndGroup, Complete, Fail, Diagnose,
                ReportAndRaise
  <2> QED BY <1>2, <1>3, <2>1, <2>2 DEF EventTypes
<1>8. ASSUME NEW s \in Steps, RunStep(s) PROVE DependenciesSettleFirst'
  <2>1. \/ log' = log \/ Invoke(s)
        \/ \E type \in {"skipped", "completed", "failed"} : log' = Append(log, Event(type, s))
    BY <1>8 DEF RunStep, Skip, CheckBudget, ExecuteReturns, ExecuteFails, ExecuteHalts,
                Record, Transition
  <2> QED BY <1>2, <1>3, <1>4, <2>1 DEF EventTypes
<1> QED BY <1>5, <1>6, <1>7, <1>8 DEF Next

\* When no parallel-safe step depends on another one, an agent is invoked only
\* after the steps its step depends on have settled, however the run is resumed
\* (WorkflowRunner._execute_group and _run_sequential_group): what
\* ExecutionDAG.parallel_groups gets wrong is that case alone.
THEOREM DependenciesInOrder == Apart => (Spec => []DependenciesSettleFirst)
<1> SUFFICES ASSUME Apart PROVE Spec => []DependenciesSettleFirst OBVIOUS
<1>1. Init => ReadyInGroup /\ DependenciesSettleFirst
  BY DEF Init, ReadyInGroup, DependenciesSettleFirst, Positions
<1>2. IInv /\ ReadyInGroup /\ DependenciesSettleFirst /\ [Next]_vars
        => ReadyInGroup' /\ DependenciesSettleFirst'
  BY RunnerAssumption, ReadyInGroupKept, DependenciesKept
<1> QED BY <1>1, <1>2, Invariant, PTL DEF Spec
=============================================================================
