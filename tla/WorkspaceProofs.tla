-------------------------- MODULE WorkspaceProofs -------------------------
(***************************************************************************)
(* What holds of the parts of MCWorkspace: of ExecutionDag for every graph *)
(* of every size, of what the tools do, BrowserSessions and CheckCommands, *)
(* for any calls, commands and processes, of the generated context,        *)
(* ContextOps, for any sources, run directories and calls, and of the      *)
(* errors of models, ModelCalls, for any errors, adapters and routed       *)
(* calls.  Its memories are the matter of MemoryProofs.                    *)
(*                                                                         *)
(* OrderIsTopological is not inductive: that a queued step has all its     *)
(* dependencies in the order follows from its in-degree being zero, so     *)
(* DagInv says what an in-degree counts (Degrees), in the middle of the    *)
(* inner loop of topological_order as well, and that a step with in-degree *)
(* zero is not decremented again, which rests on order and queue being     *)
(* free of repetitions (NoRepeats).                                        *)
(* GraphJudgedRightly needs no induction over the graph: Path says that    *)
(* the frames of the search are a path along the dependencies, SearchSound *)
(* that the steps whose visit has ended depend on each other only and have *)
(* no cycle, and Queued that a step with in-degree zero is not forgotten.  *)
(*                                                                         *)
(* Of browsers, ManagersAre says in whose hands each of them is while it   *)
(* is open; of commands, ChecksInv says what the records, the output files *)
(* and the processes left behind have to do with each other.  Of the       *)
(* context, LockTrue says what a lock proves when the hashes it lists are  *)
(* found again (an edit writes what was never there before), Knows and     *)
(* StagedTrue that of what a run has read and staged, AloneTrue how far a  *)
(* run that nobody disturbs has come.  Of errors, LastWords says what a    *)
(* run has kept of the one that ended it, and Judged what the step made of *)
(* the last request; of the routing, MarksTrue and WalksOn say what the    *)
(* cache and a call know of the models that failed, and Explained who took *)
(* a mark that was read too late.                                          *)
(***************************************************************************)
EXTENDS Functions, MCWorkspace, SequenceTheorems, FiniteSetTheorems,
        WellFoundedInduction, TLAPS

----------------------------------------------------------------------------
(* ExecutionDag.                                                           *)
Building == {"validate", "search", "rejected"}
Sorting == {"collect", "sort", "relax"}

\* The inner loop has not reached s, so its in-degree does not account for
\* the step that was just taken.
Behind(s) == phase = "relax" /\ \E j \in at..Len(StepSeq) : StepSeq[j] = s

\* The steps in the order that the in-degree of s accounts for.
Counted(s) ==
    {order[i] : i \in 1..(IF Behind(s) THEN Len(order) - 1 ELSE Len(order))}

DagTypes ==
    /\ dependsOn \in [Steps -> Seq(Names)]
    /\ phase \in Building \cup Sorting \cup {"group", "done"}
    /\ at \in Nat \ {0}
    /\ visited \subseteq Steps
    /\ stack \in Seq([step : Steps, next : Nat \ {0}])
    /\ inDegree \in [Steps -> Nat]
    /\ queue \in Seq(Steps) /\ order \in Seq(Steps)
    /\ groups \in Seq(Seq(Steps)) /\ current \in Seq(Steps)
    /\ seen \subseteq Steps

\* What has not been started is empty.
Untouched ==
    /\ phase \in Building => queue = <<>>
    /\ phase \in Building \cup {"collect"} => order = <<>>
    /\ phase \notin {"group", "done"} =>
           groups = <<>> /\ current = <<>> /\ seen = {}
    /\ phase = "search" => WellDefined
    /\ phase = "relax" => order # <<>>
    /\ phase = "collect" =>
           Elements(queue) \subseteq {StepSeq[j] : j \in 1..(at - 1)}

Degrees ==
    phase \in Sorting =>
        \A s \in Steps :
            inDegree[s] = Len(dependsOn[s]) - Cardinality(Deps(s) \cap Counted(s))

ZeroOnceQueued ==
    phase \in Sorting =>
        \A s \in Elements(queue) \cup Elements(order) : inDegree[s] = 0

NoRepeats ==
    /\ \A i, j \in 1..Len(order) : order[i] = order[j] => i = j
    /\ \A i, j \in 1..Len(queue) : queue[i] = queue[j] => i = j
    /\ Elements(queue) \cap Elements(order) = {}

Topological ==
    \A i \in 1..Len(order) :
        Elements(dependsOn[order[i]]) \subseteq {order[j] : j \in 1..(i - 1)}

Grouping ==
    /\ phase = "group" =>
         /\ groups = <<>>
         /\ at <= Len(order) + 1
         /\ Len(current) = at - 1
         /\ \A i \in 1..(at - 1) : current[i] = order[i]
         /\ seen = {order[i] : i \in 1..(at - 1)}
    /\ OneGroup

DagInv ==
    /\ DagTypes /\ Untouched /\ Degrees /\ ZeroOnceQueued /\ NoRepeats
    /\ Topological /\ Grouping

\* A list has at least as many entries as elements.
LEMMA ElementsBound ==
    ASSUME NEW S, NEW list \in Seq(S)
    PROVE  /\ IsFiniteSet(Elements(list))
           /\ Cardinality(Elements(list)) \in Nat
           /\ Cardinality(Elements(list)) <= Len(list)
<1>1. PICK n \in Nat : n = Len(list) OBVIOUS
<1>2. PICK elements : elements = Elements(list) OBVIOUS
<1>3. list \in Surjection(1..n, elements) BY <1>1, <1>2 DEF Surjection, Elements
<1>4. ExistsSurjection(1..n, elements) BY <1>3 DEF ExistsSurjection
<1>5. IsFiniteSet(elements) BY <1>4, FS_NatSurjection
<1>6. Cardinality(elements) <= n BY <1>4, FS_SurjCardinalityBound
<1> QED BY <1>1, <1>2, <1>5, <1>6, FS_CardinalityType

\* Appending adds one element, at the end.
LEMMA AppendElements ==
    ASSUME NEW S, NEW list \in Seq(S), NEW x \in S
    PROVE  /\ Append(list, x) \in Seq(S)
           /\ Len(Append(list, x)) = Len(list) + 1
           /\ \A i \in 1..Len(list) : Append(list, x)[i] = list[i]
           /\ Append(list, x)[Len(list) + 1] = x
           /\ Elements(Append(list, x)) = Elements(list) \cup {x}
  BY DEF Elements

\* The head and the tail of a list hold its elements.
LEMMA HeadTailElements ==
    ASSUME NEW S, NEW list \in Seq(S), list # <<>>
    PROVE  /\ Head(list) \in S /\ Head(list) = list[1]
           /\ Tail(list) \in Seq(S)
           /\ Len(list) \in Nat \ {0}
           /\ Len(Tail(list)) = Len(list) - 1
           /\ \A i \in 1..Len(Tail(list)) : Tail(list)[i] = list[i + 1]
           /\ Elements(list) = {Head(list)} \cup Elements(Tail(list))
<1>1. /\ Head(list) \in S /\ Head(list) = list[1]
      /\ Tail(list) \in Seq(S)
      /\ Len(list) \in Nat \ {0}
      /\ Len(Tail(list)) = Len(list) - 1
      /\ \A i \in 1..Len(Tail(list)) : Tail(list)[i] = list[i + 1]
  BY HeadTailProperties
<1>2. Elements(list) \subseteq {Head(list)} \cup Elements(Tail(list))
  <2> SUFFICES ASSUME NEW i \in 1..Len(list), i # 1
               PROVE  list[i] \in Elements(Tail(list))
    BY <1>1 DEF Elements
  <2>1. i - 1 \in 1..Len(Tail(list)) /\ (i - 1) + 1 = i BY <1>1
  <2>2. Tail(list)[i - 1] = list[i] BY <1>1, <2>1
  <2> QED BY <2>1, <2>2 DEF Elements
<1>3. {Head(list)} \cup Elements(Tail(list)) \subseteq Elements(list)
  BY <1>1 DEF Elements
<1> QED BY <1>1, <1>2, <1>3

\* A step whose in-degree is zero has every dependency counted.
LEMMA ZeroMeansCounted ==
    ASSUME DagTypes, Degrees, phase \in Sorting,
           NEW s \in Steps, inDegree[s] = 0
    PROVE  Deps(s) \subseteq Counted(s)
<1>1. /\ IsFiniteSet(Deps(s))
      /\ Cardinality(Deps(s)) \in Nat
      /\ Cardinality(Deps(s)) <= Len(dependsOn[s])
  BY ElementsBound DEF DagTypes, Deps
<1>2. /\ Cardinality(Deps(s) \cap Counted(s)) <= Cardinality(Deps(s))
      /\ Cardinality(Deps(s)) = Cardinality(Deps(s) \cap Counted(s))
           => Deps(s) = Deps(s) \cap Counted(s)
      /\ IsFiniteSet(Deps(s) \cap Counted(s))
  BY <1>1, FS_Subset
<1>3. Cardinality(Deps(s) \cap Counted(s)) \in Nat BY <1>2, FS_CardinalityType
<1>4. Len(dependsOn[s]) \in Nat BY DEF DagTypes
<1>5. Len(dependsOn[s]) = Cardinality(Deps(s) \cap Counted(s))
  <2>1. 0 = Len(dependsOn[s]) - Cardinality(Deps(s) \cap Counted(s)) BY DEF Degrees
  <2> QED BY <2>1, <1>3, <1>4
<1> QED BY <1>1, <1>2, <1>3, <1>4, <1>5

\* Nothing is claimed of the order and the groups before they are built.
LEMMA EarlyInv == DagTypes /\ Untouched /\ phase \in Building => DagInv
<1> SUFFICES ASSUME DagTypes, Untouched, phase \in Building PROVE DagInv OBVIOUS
<1>1. phase \notin Sorting \cup {"group", "done"} BY DEF Building, Sorting
<1>2. queue = <<>> /\ order = <<>> BY DEF Untouched
<1>3. Degrees /\ ZeroOnceQueued /\ Grouping
  BY ONLY <1>1 DEF Degrees, ZeroOnceQueued, Grouping, OneGroup
<1>4. NoRepeats /\ Topological BY ONLY <1>2 DEF NoRepeats, Topological, Elements
<1> QED BY <1>3, <1>4 DEF DagInv

LEMMA InitInv == DagInit => DagInv
<1> SUFFICES ASSUME DagInit PROVE DagInv OBVIOUS
<1>1. DagTypes BY DagAssumption DEF DagInit, DagTypes, Sorting, Building
<1>2. Untouched /\ phase \in Building BY DEF DagInit, Untouched, Building
<1> QED BY <1>1, <1>2, EarlyInv

LEMMA ValidateTypes ==
    ASSUME DagInv, UndefinedDependency \/ DependenciesDefined
    PROVE  DagTypes'
  BY DEF UndefinedDependency, DependenciesDefined, DagInv, DagTypes, Building,
         Sorting, search, sort, cut

LEMMA SearchTypes ==
    ASSUME DagInv, VisitRoot \/ LookAtDependency \/ LeaveVisit
    PROVE  DagTypes'
<1>1. CASE VisitRoot
  <2>1. StepSeq[at] \in Steps /\ at + 1 \in Nat \ {0}
    BY <1>1 DEF VisitRoot, DagInv, DagTypes, Steps
  <2>2. <<Frame(StepSeq[at])>> \in Seq([step : Steps, next : Nat \ {0}])
    BY <2>1 DEF Frame
  <2> QED BY <1>1, <2>1, <2>2
       DEF VisitRoot, DagInv, DagTypes, Building, Sorting, search, sort, cut
<1>2. CASE LookAtDependency
  <2> DEFINE dep == dependsOn[Top.step][Top.next]
  <2>1. /\ Top \in [step : Steps, next : Nat \ {0}]
        /\ Len(stack) \in 1..Len(stack)
    <3>1. stack \in Seq([step : Steps, next : Nat \ {0}]) /\ stack # <<>>
      BY <1>2 DEF LookAtDependency, DagInv, DagTypes
    <3>2. ASSUME NEW R, NEW list \in Seq(R), list # <<>>
          PROVE  list[Len(list)] \in R /\ Len(list) \in 1..Len(list)
      BY <3>2
    <3> QED BY ONLY <3>1, <3>2 DEF Top
  <2>2. stack[Len(stack)].next + 1 \in Nat \ {0} BY <2>1 DEF Top
  <2> DEFINE F == [step : Steps, next : Nat \ {0}]
             moved == [Top EXCEPT !.next = @ + 1]
  <2>a. moved \in F BY <2>1, <2>2 DEF Top
  <2>b. Advanced = [stack EXCEPT ![Len(stack)] = moved] BY DEF Advanced, Top
  <2>c. stack \in Seq(F) BY DEF DagInv, DagTypes
  <2> HIDE DEF F, moved
  <2>3. Advanced \in Seq(F) BY <2>1, <2>a, <2>b, <2>c
  <2> USE DEF F
  <2>4. CASE dep \notin visited
    <3>1. /\ dependsOn[Top.step] \in Seq(Names)
          /\ Deps(Top.step) \subseteq Steps
      BY <1>2, <2>1 DEF LookAtDependency, DagInv, DagTypes, Untouched, WellDefined
    <3>2. Top.next \in 1..Len(dependsOn[Top.step])
      BY <1>2, <2>1, <3>1 DEF LookAtDependency
    <3>3. dep \in Steps BY <3>1, <3>2 DEF Deps, Elements
    <3>4. Append(Advanced, Frame(dep)) \in Seq([step : Steps, next : Nat \ {0}])
      BY <2>3, <3>3 DEF Frame
    <3> QED BY <1>2, <2>4, <3>3, <3>4
         DEF LookAtDependency, DagInv, DagTypes, Building, Sorting, sort, cut
  <2>5. CASE dep \in visited BY <1>2, <2>3, <2>5
       DEF LookAtDependency, DagInv, DagTypes, Building, Sorting, search, sort, cut
  <2> QED BY <2>4, <2>5
<1>3. CASE LeaveVisit
  <2> DEFINE F == [step : Steps, next : Nat \ {0}]
  <2>1. stack \in Seq(F) BY DEF DagInv, DagTypes
  <2> HIDE DEF F
  <2>2. SubSeq(stack, 1, Len(stack) - 1) \in Seq(F) BY <2>1, SubSeqProperties
  <2> QED
    BY <1>3, <2>2 DEF F, LeaveVisit, DagInv, DagTypes, Building, Sorting, sort, cut
<1> QED BY <1>1, <1>2, <1>3

\* The constructor touches neither the order nor the groups.
LEMMA ConstructorInv ==
    ASSUME DagInv,
           \/ UndefinedDependency \/ DependenciesDefined
           \/ VisitRoot \/ LookAtDependency \/ LeaveVisit
    PROVE  DagInv'
<1>1. DagTypes' BY ValidateTypes, SearchTypes
<1>2. /\ phase \in {"validate", "search"}
      /\ phase' \in Building
      /\ UNCHANGED <<dependsOn, sort, cut>>
      /\ phase = "search" => phase' \in {"search", "rejected"}
      /\ phase' = "search" /\ phase = "validate" => WellDefined
  BY DEF UndefinedDependency, DependenciesDefined, VisitRoot, LookAtDependency,
         LeaveVisit, Building, WellDefined, search
<1>3. Untouched' BY ONLY <1>2, DagInv
     DEF DagInv, Untouched, Building, sort, cut, WellDefined, Deps, Elements
<1>4. (DagTypes /\ Untouched /\ phase \in Building => DagInv)' BY EarlyInv, PTL
<1> QED BY <1>1, <1>2, <1>3, <1>4

----------------------------------------------------------------------------
(* topological_order.                                                      *)

\* While the inner loop is not running every in-degree is up to date.
LEMMA AllCounted ==
    ASSUME phase # "relax" \/ at > Len(StepSeq), DagTypes, NEW s
    PROVE  Counted(s) = Elements(order)
<1>1. ~Behind(s) BY DagAssumption DEF Behind, DagTypes
<1> QED BY <1>1 DEF Counted, Elements

\* Topological is about order and dependsOn only.
LEMMA TopologicalStays ==
    ASSUME Topological, order' = order, dependsOn' = dependsOn
    PROVE  Topological'
  BY DEF Topological

LEMMA StartSortInv == ASSUME DagInv, StartSort PROVE DagInv'
<1>1. /\ phase = "search" /\ phase' = "collect" /\ at' = 1
      /\ order = <<>> /\ queue = <<>>
      /\ UNCHANGED <<dependsOn, visited, stack, queue, order, cut>>
      /\ inDegree' = [s \in Steps |-> DegreeOf(s)]
  BY DEF StartSort, DagInv, Untouched, Building, search
<1>2. DagTypes'
  BY ONLY <1>1, DagInv DEF DagInv, DagTypes, Sorting, Building, DegreeOf, cut
<1>3. Untouched' BY ONLY <1>1, DagInv DEF DagInv, Untouched, Building, Elements, cut
<1>4. Degrees'
  <2> SUFFICES ASSUME NEW s \in Steps
               PROVE  inDegree'[s] = Len(dependsOn'[s])
                                       - Cardinality((Deps(s) \cap Counted(s))')
    BY DEF Degrees
  <2>1. Counted(s)' = {} BY ONLY <1>1 DEF Counted, Behind
  <2>2. Cardinality((Deps(s) \cap Counted(s))') = 0 BY <2>1, FS_EmptySet
  <2>3. Len(dependsOn[s]) \in Nat BY DEF DagInv, DagTypes
  <2> QED BY <1>1, <2>2, <2>3 DEF DegreeOf
<1>5. (ZeroOnceQueued /\ NoRepeats /\ Topological)'
  BY ONLY <1>1 DEF ZeroOnceQueued, NoRepeats, Topological, Elements
<1>6. Grouping' BY ONLY <1>1 DEF Grouping, OneGroup
<1> QED BY <1>2, <1>3, <1>4, <1>5, <1>6 DEF DagInv

LEMMA CollectRootInv == ASSUME DagInv, CollectRoot PROVE DagInv'
<1> DEFINE s == StepSeq[at]
<1>1. /\ phase = "collect" /\ phase' = "collect" /\ at' = at + 1
      /\ at \in 1..Len(StepSeq) /\ s \in Steps
      /\ order = <<>>
      /\ UNCHANGED <<dependsOn, visited, stack, inDegree, order, cut>>
      /\ queue \in Seq(Steps)
      /\ queue' = IF inDegree[s] = 0 THEN Append(queue, s) ELSE queue
  BY DEF CollectRoot, DagInv, DagTypes, Untouched, Building, search, Steps
<1>2. queue' = queue
      \/ /\ queue' = Append(queue, s)
         /\ queue' \in Seq(Steps)
         /\ Len(queue') = Len(queue) + 1
         /\ \A i \in 1..Len(queue) : queue'[i] = queue[i]
         /\ queue'[Len(queue) + 1] = s
         /\ Elements(queue') = Elements(queue) \cup {s}
         /\ inDegree[s] = 0
  BY <1>1, AppendElements
<1>3. s \notin {StepSeq[j] : j \in 1..(at - 1)} BY <1>1, DagAssumption
<1> HIDE DEF s
<1>4. DagTypes' BY ONLY <1>1, <1>2, DagInv DEF DagInv, DagTypes, Sorting, Building, cut
<1>5. Untouched'
  <2>1. Elements(queue)' \subseteq {StepSeq[j] : j \in 1..at}
    <3>1. Elements(queue)' = Elements(queue') BY DEF Elements
    <3> QED BY <1>1, <1>2, <3>1 DEF DagInv, Untouched, s
  <2>2. at' - 1 = at BY <1>1
  <2> QED BY ONLY <1>1, <2>1, <2>2, DagInv DEF DagInv, Untouched, Building, cut
<1>6. Degrees'
  <2> SUFFICES ASSUME NEW u \in Steps
               PROVE  inDegree'[u] = Len(dependsOn'[u])
                                       - Cardinality((Deps(u) \cap Counted(u))')
    BY DEF Degrees
  <2>1. (Deps(u) \cap Counted(u))' = Deps(u) \cap Counted(u)
    BY ONLY <1>1 DEF Deps, Counted, Behind, Elements
  <2> QED BY <1>1, <2>1 DEF DagInv, Degrees, Sorting
<1>7. ZeroOnceQueued'
  BY ONLY <1>1, <1>2, DagInv DEF DagInv, ZeroOnceQueued, Sorting, Elements
<1>8. NoRepeats'
  <2>1. s \notin Elements(queue) BY <1>1, <1>3 DEF DagInv, Untouched
  <2> QED BY ONLY <1>1, <1>2, <2>1, DagInv DEF DagInv, NoRepeats, Elements
<1>9. (Topological /\ Grouping)' BY ONLY <1>1 DEF Topological, Grouping, OneGroup
<1> QED BY <1>4, <1>5, <1>6, <1>7, <1>8, <1>9 DEF DagInv

LEMMA TakeStepInv == ASSUME DagInv, TakeStep PROVE DagInv'
<1> DEFINE sid == Head(queue)
<1>1. /\ phase \in Sorting
      /\ phase # "relax" \/ at > Len(StepSeq)
      /\ phase' = "relax" /\ at' = 1
      /\ UNCHANGED <<dependsOn, visited, stack, inDegree, cut>>
      /\ order' = Append(order, sid) /\ queue' = Tail(queue)
      /\ queue # <<>> /\ queue \in Seq(Steps) /\ order \in Seq(Steps)
  BY DEF TakeStep, DagInv, DagTypes, Sorting, search
<1>2. /\ sid \in Steps /\ sid = queue[1]
      /\ Tail(queue) \in Seq(Steps)
      /\ Len(queue) \in Nat \ {0}
      /\ Len(Tail(queue)) = Len(queue) - 1
      /\ \A i \in 1..Len(Tail(queue)) : Tail(queue)[i] = queue[i + 1]
      /\ Elements(queue) = {sid} \cup Elements(Tail(queue))
  BY <1>1, HeadTailElements
<1> HIDE DEF sid
<1>3. /\ order' \in Seq(Steps)
      /\ Len(order) \in Nat
      /\ Len(order') = Len(order) + 1
      /\ \A i \in 1..Len(order) : order'[i] = order[i]
      /\ order'[Len(order) + 1] = sid
      /\ Elements(order') = Elements(order) \cup {sid}
  BY <1>1, <1>2, AppendElements
<1>4. DagTypes'
  BY ONLY <1>1, <1>2, <1>3, DagInv DEF DagInv, DagTypes, Sorting, Building, cut
<1>5. Untouched'
  <2>1. order' # <<>> BY <1>3
  <2>2. groups = <<>> /\ current = <<>> /\ seen = {}
    BY <1>1 DEF DagInv, Untouched, Sorting
  <2> QED BY ONLY <1>1, <2>1, <2>2 DEF Untouched, Building, cut
<1>6. Degrees'
  <2> SUFFICES ASSUME NEW s \in Steps
               PROVE  inDegree'[s] = Len(dependsOn'[s])
                                       - Cardinality((Deps(s) \cap Counted(s))')
    BY DEF Degrees
  <2>1. Behind(s)' BY <1>1, DagAssumption DEF Behind, Steps
  <2>2. Counted(s)' = Elements(order) BY ONLY <1>3, <2>1 DEF Counted, Elements
  <2>3. Counted(s) = Elements(order) BY <1>1, AllCounted DEF DagInv
  <2>4. (Deps(s) \cap Counted(s))' = Deps(s) \cap Counted(s)
    BY <1>1, <2>2, <2>3 DEF Deps, Elements
  <2> QED BY <1>1, <2>4 DEF DagInv, Degrees
<1>7. inDegree[sid] = 0 /\ sid \notin Elements(order)
  BY <1>1, <1>2 DEF DagInv, ZeroOnceQueued, NoRepeats
<1>8. ZeroOnceQueued'
  <2>1. \A s \in Elements(queue') \cup Elements(order') : inDegree'[s] = 0
    BY <1>1, <1>2, <1>3, <1>7 DEF DagInv, ZeroOnceQueued
  <2> QED BY <2>1 DEF ZeroOnceQueued, Elements
<1>9. NoRepeats'
  <2>1. sid \notin Elements(Tail(queue))
    <3> SUFFICES ASSUME NEW i \in 1..Len(Tail(queue)), Tail(queue)[i] = sid
                 PROVE  FALSE
      BY DEF Elements
    <3>1. queue[i + 1] = queue[1] /\ i + 1 \in 1..Len(queue) /\ 1 \in 1..Len(queue)
      BY <1>2
    <3> QED BY <3>1 DEF DagInv, NoRepeats
  <2>2. \A i, j \in 1..Len(queue') : queue'[i] = queue'[j] => i = j
    <3> SUFFICES ASSUME NEW i \in 1..Len(Tail(queue)),
                        NEW j \in 1..Len(Tail(queue)),
                        Tail(queue)[i] = Tail(queue)[j]
                 PROVE  i = j
      BY <1>1
    <3>1. /\ i + 1 \in 1..Len(queue) /\ j + 1 \in 1..Len(queue)
          /\ queue[i + 1] = queue[j + 1]
      BY <1>2
    <3>2. i + 1 = j + 1 BY <3>1 DEF DagInv, NoRepeats
    <3> QED BY <1>2, <3>2
  <2>3. \A i, j \in 1..Len(order') : order'[i] = order'[j] => i = j
    <3>1. \A i \in 1..Len(order) : order[i] # sid BY <1>7 DEF Elements
    <3>2. \A i, j \in 1..Len(order) : order[i] = order[j] => i = j
      BY DEF DagInv, NoRepeats
    <3> QED BY ONLY <1>3, <3>1, <3>2
  <2>4. Elements(queue') \cap Elements(order') = {}
    BY <1>1, <1>2, <1>3, <2>1 DEF DagInv, NoRepeats
  <2> QED BY <2>2, <2>3, <2>4 DEF NoRepeats, Elements
<1>10. Topological'
  <2>1. Elements(dependsOn[sid]) \subseteq Elements(order)
    <3>1. DagTypes /\ Degrees BY DEF DagInv
    <3>2. Deps(sid) \subseteq Counted(sid)
      BY ONLY <1>1, <1>2, <1>7, <3>1, ZeroMeansCounted
    <3>3. Counted(sid) = Elements(order) BY ONLY <1>1, <3>1, AllCounted, DagAssumption
    <3> QED BY ONLY <3>2, <3>3 DEF Deps
  <2> SUFFICES ASSUME NEW i \in 1..Len(order')
               PROVE  Elements(dependsOn[order'[i]])
                        \subseteq {order'[j] : j \in 1..(i - 1)}
    BY <1>1 DEF Topological
  <2>2. \A j \in 1..(i - 1) : order'[j] = order[j] BY <1>3
  <2>3. {order'[j] : j \in 1..(i - 1)} = {order[j] : j \in 1..(i - 1)} BY <2>2
  <2>4. CASE i = Len(order) + 1
    <3>1. Elements(order) = {order[j] : j \in 1..(i - 1)} /\ order'[i] = sid
      BY <1>3, <2>4 DEF Elements
    <3> QED BY <2>1, <2>3, <3>1
  <2>5. CASE i \in 1..Len(order)
    <3>1. Elements(dependsOn[order[i]]) \subseteq {order[j] : j \in 1..(i - 1)}
      BY <2>5 DEF DagInv, Topological
    <3> QED BY <1>3, <2>3, <2>5, <3>1
  <2> QED BY <1>3, <2>4, <2>5
<1>11. Grouping' BY ONLY <1>1 DEF Grouping, OneGroup
<1> QED BY <1>4, <1>5, <1>6, <1>8, <1>9, <1>10, <1>11 DEF DagInv

LEMMA RelaxStepInv == ASSUME DagInv, RelaxStep PROVE DagInv'
<1>a. at \in 1..Len(StepSeq) /\ StepSeq[at] \in Steps
  BY DEF RelaxStep, DagInv, DagTypes, Steps
<1>b. PICK s \in Steps : s = StepSeq[at] BY <1>a
<1>c. PICK n : n = Len(order) OBVIOUS
<1>d. PICK sid : sid = order[n] OBVIOUS
<1>1. /\ phase = "relax" /\ phase' = "relax" /\ at' = at + 1
      /\ at \in 1..Len(StepSeq) /\ s \in Steps
      /\ UNCHANGED <<dependsOn, visited, stack, order, cut>>
      /\ queue \in Seq(Steps) /\ order \in Seq(Steps)
      /\ inDegree \in [Steps -> Nat]
      /\ n \in Nat \ {0}
  BY <1>a, <1>b, <1>c DEF RelaxStep, DagInv, DagTypes, Untouched, search
<1>2. /\ sid \in Deps(s) => /\ inDegree' = [inDegree EXCEPT ![s] = @ - 1]
                            /\ queue' = IF inDegree[s] - 1 = 0
                                        THEN Append(queue, s) ELSE queue
      /\ sid \notin Deps(s) => inDegree' = inDegree /\ queue' = queue
  BY <1>b, <1>c, <1>d DEF RelaxStep, Dependent, NowReady
<1>3. \A u \in Steps : /\ Behind(u)' <=> Behind(u) /\ u # s
                       /\ Behind(s)
  BY <1>1, <1>b, DagAssumption DEF Behind
<1>4. /\ Counted(s) = {order[i] : i \in 1..(n - 1)}
      /\ Counted(s)' = Elements(order)
      /\ \A u \in Steps \ {s} : Counted(u)' = Counted(u)
  BY <1>1, <1>c, <1>3 DEF Counted, Elements
<1>5. /\ Counted(s)' = Counted(s) \cup {sid}
      /\ sid \notin Counted(s)
      /\ sid \in Elements(order)
  <2>1. n = Len(order) /\ n \in Nat \ {0} /\ sid = order[n] BY <1>1, <1>c, <1>d
  <2>2. 1..n = 1..(n - 1) \cup {n} BY <2>1
  <2>3. Counted(s)' = Counted(s) \cup {sid} /\ sid \in Elements(order)
    BY ONLY <1>4, <2>1, <2>2 DEF Elements
  <2>4. \A i \in 1..(n - 1) : order[i] # order[n] BY <2>1 DEF DagInv, NoRepeats
  <2> QED BY <1>4, <2>1, <2>3, <2>4
<1>6. \A u : Deps(u)' = Deps(u) BY <1>1 DEF Deps, Elements
<1>7. inDegree[s] = 0 => sid \notin Deps(s)
  BY <1>1, <1>5, ZeroMeansCounted DEF DagInv, Sorting
<1>8. inDegree'[s] = Len(dependsOn'[s]) - Cardinality((Deps(s) \cap Counted(s))')
  <2>1. /\ IsFiniteSet(Deps(s) \cap Counted(s))
        /\ Cardinality(Deps(s) \cap Counted(s)) \in Nat
    <3>1. IsFiniteSet(Deps(s)) BY <1>1, ElementsBound DEF DagInv, DagTypes, Deps
    <3> QED BY <3>1, FS_Subset, FS_CardinalityType
  <2>2. inDegree[s] = Len(dependsOn[s]) - Cardinality(Deps(s) \cap Counted(s))
    BY <1>1 DEF DagInv, Degrees, Sorting
  <2>3. Len(dependsOn[s]) \in Nat /\ dependsOn' = dependsOn BY <1>1 DEF DagInv, DagTypes
  <2>4. CASE sid \in Deps(s)
    <3>1. (Deps(s) \cap Counted(s))' = (Deps(s) \cap Counted(s)) \cup {sid}
      BY <1>5, <1>6, <2>4
    <3>2. Cardinality((Deps(s) \cap Counted(s))')
            = Cardinality(Deps(s) \cap Counted(s)) + 1
      BY <1>5, <2>1, <3>1, FS_AddElement
    <3>3. inDegree'[s] = inDegree[s] - 1 BY <1>1, <1>2, <2>4
    <3> QED BY <2>1, <2>2, <2>3, <3>2, <3>3
  <2>5. CASE sid \notin Deps(s)
    <3>1. (Deps(s) \cap Counted(s))' = Deps(s) \cap Counted(s) BY <1>5, <1>6, <2>5
    <3> QED BY <1>2, <2>2, <2>3, <2>5, <3>1
  <2> QED BY <2>4, <2>5
<1>9. /\ inDegree' \in [Steps -> Nat]
      /\ \A u \in Steps \ {s} : inDegree'[u] = inDegree[u]
      /\ inDegree[s] = 0 => inDegree'[s] = 0
  BY <1>1, <1>2, <1>7
<1>10. queue' = queue
       \/ /\ queue' = Append(queue, s)
          /\ queue' \in Seq(Steps)
          /\ Len(queue') = Len(queue) + 1
          /\ \A i \in 1..Len(queue) : queue'[i] = queue[i]
          /\ queue'[Len(queue) + 1] = s
          /\ Elements(queue') = Elements(queue) \cup {s}
          /\ inDegree[s] # 0 /\ inDegree'[s] = 0
  <2>1. CASE sid \in Deps(s) /\ inDegree[s] - 1 = 0
    <3>1. queue' = Append(queue, s) /\ inDegree'[s] = 0 /\ inDegree[s] # 0
      BY <1>1, <1>2, <2>1
    <3> QED BY <1>1, <3>1, AppendElements
  <2>2. CASE ~(sid \in Deps(s) /\ inDegree[s] - 1 = 0) BY <1>2, <2>2
  <2> QED BY <2>1, <2>2
<1>11. DagTypes'
  BY ONLY <1>1, <1>9, <1>10, DagInv DEF DagInv, DagTypes, Sorting, Building, cut
<1>12. Untouched' BY ONLY <1>1, DagInv DEF DagInv, Untouched, Building, cut
<1>13. Degrees'
  <2>1. \A u \in Steps \ {s} :
           inDegree'[u] = Len(dependsOn'[u]) - Cardinality((Deps(u) \cap Counted(u))')
    BY <1>1, <1>4, <1>6, <1>9 DEF DagInv, Degrees, Sorting
  <2> QED BY <1>8, <2>1 DEF Degrees
<1>14. \A u \in Elements(queue) \cup Elements(order) :
          u \in Steps /\ inDegree[u] = 0
  <2>1. queue \in Seq(Steps) /\ order \in Seq(Steps) /\ phase \in Sorting
    BY <1>1 DEF Sorting
  <2> QED BY <2>1 DEF DagInv, ZeroOnceQueued, Elements
<1>15. ZeroOnceQueued'
  <2>1. \A u \in Elements(queue') \cup Elements(order) : inDegree'[u] = 0
    BY <1>9, <1>10, <1>14
  <2> QED BY <1>1, <2>1 DEF ZeroOnceQueued, Elements
<1>16. NoRepeats'
  <2>1. CASE queue' = queue BY ONLY <1>1, <2>1, DagInv DEF DagInv, NoRepeats
  <2>2. CASE queue' # queue
    <3>1. s \notin Elements(queue) \cup Elements(order) BY <1>10, <1>14, <2>2
    <3>2. \A i, j \in 1..Len(queue') : queue'[i] = queue'[j] => i = j
      <4>1. \A i \in 1..Len(queue) : queue[i] # s BY <3>1 DEF Elements
      <4>2. \A i, j \in 1..Len(queue) : queue[i] = queue[j] => i = j
        BY DEF DagInv, NoRepeats
      <4>3. Len(queue) \in Nat BY <1>1
      <4> QED BY ONLY <1>10, <2>2, <4>1, <4>2, <4>3
    <3>3. Elements(queue') \cap Elements(order') = {}
      BY <1>1, <1>10, <2>2, <3>1 DEF DagInv, NoRepeats
    <3> QED BY <1>1, <3>2, <3>3 DEF DagInv, NoRepeats, Elements
  <2> QED BY <2>1, <2>2
<1>17. Topological' BY <1>1, TopologicalStays DEF DagInv
<1>18. Grouping' BY ONLY <1>1 DEF Grouping, OneGroup
<1> QED BY <1>11, <1>12, <1>13, <1>15, <1>16, <1>17, <1>18 DEF DagInv

LEMMA EndRelaxInv == ASSUME DagInv, EndRelax PROVE DagInv'
<1>1. /\ phase = "relax" /\ at > Len(StepSeq) /\ phase' = "sort"
      /\ UNCHANGED <<dependsOn, at, visited, stack, inDegree, queue, order, cut>>
  BY DEF EndRelax, search, sort
<1>2. DagTypes' BY ONLY <1>1, DagInv DEF DagInv, DagTypes, Sorting, Building, cut
<1>3. Untouched' BY ONLY <1>1, DagInv DEF DagInv, Untouched, Building, cut
<1>4. Degrees'
  <2>1. \A s : ~Behind(s)' BY ONLY <1>1 DEF Behind
  <2>2. \A s : Counted(s)' = Elements(order) BY ONLY <1>1, <2>1 DEF Counted, Elements
  <2>3. \A s : Counted(s) = Elements(order) BY <1>1, AllCounted DEF DagInv
  <2> QED BY <1>1, <2>2, <2>3 DEF DagInv, Degrees, Sorting, Deps, Elements
<1>5. (ZeroOnceQueued /\ NoRepeats)'
  BY ONLY <1>1, DagInv DEF DagInv, ZeroOnceQueued, NoRepeats, Sorting, Elements
<1>6. Topological' BY <1>1, TopologicalStays DEF DagInv
<1>7. Grouping' BY ONLY <1>1 DEF Grouping, OneGroup
<1> QED BY <1>2, <1>3, <1>4, <1>5, <1>6, <1>7 DEF DagInv

----------------------------------------------------------------------------
(* parallel_groups.                                                        *)

LEMMA StartGroupsInv == ASSUME DagInv, StartGroups PROVE DagInv'
<1>1. /\ phase \in {"collect", "sort"} /\ phase' = "group" /\ at' = 1
      /\ UNCHANGED <<dependsOn, visited, stack, inDegree, queue, order, cut>>
  BY DEF StartGroups, search, sort
<1>2. DagTypes' BY ONLY <1>1, DagInv DEF DagInv, DagTypes, Sorting, Building, cut
<1>3. Untouched' BY ONLY <1>1 DEF Untouched, Building
<1>4. (Degrees /\ ZeroOnceQueued)' BY ONLY <1>1 DEF Degrees, ZeroOnceQueued, Sorting
<1>5. NoRepeats' BY ONLY <1>1, DagInv DEF DagInv, NoRepeats
<1>6. Topological' BY <1>1, TopologicalStays DEF DagInv
<1>7. Grouping'
  <2>1. /\ groups' = <<>> /\ current' = <<>> /\ seen' = {} /\ at' = 1
        /\ Len(order') \in Nat /\ phase' = "group"
    BY <1>1 DEF DagInv, Untouched, DagTypes, cut
  <2> QED BY ONLY <2>1 DEF Grouping, OneGroup
<1> QED BY <1>2, <1>3, <1>4, <1>5, <1>6, <1>7 DEF DagInv

LEMMA PlaceStepInv == ASSUME DagInv, PlaceStep PROVE DagInv'
<1>1. /\ phase = "group" /\ phase' = "group" /\ at' = at + 1
      /\ at \in 1..Len(order)
      /\ UNCHANGED <<dependsOn, visited, stack, inDegree, queue, order>>
      /\ order \in Seq(Steps) /\ current \in Seq(Steps)
      /\ order[at] \in Steps
  BY DEF PlaceStep, DagInv, DagTypes, search, sort
<1>2. /\ groups = <<>>
      /\ Len(current) = at - 1
      /\ \A i \in 1..(at - 1) : current[i] = order[i]
      /\ seen = {order[i] : i \in 1..(at - 1)}
  BY <1>1 DEF DagInv, Grouping
<1>3. Deps(order[at]) \subseteq seen BY <1>1, <1>2 DEF DagInv, Topological, Deps
<1>4. /\ groups' = groups
      /\ current' = Append(current, order[at])
      /\ seen' = seen \cup {order[at]}
  BY <1>3 DEF PlaceStep, Seen
<1>5. /\ current' \in Seq(Steps)
      /\ Len(current') = Len(current) + 1
      /\ \A i \in 1..Len(current) : current'[i] = current[i]
      /\ current'[Len(current) + 1] = order[at]
  BY <1>1, <1>4, AppendElements
<1>6. DagTypes'
  <2>1. seen' \subseteq Steps /\ at' \in Nat \ {0} BY <1>1, <1>4 DEF DagInv, DagTypes
  <2>2. groups' \in Seq(Seq(Steps)) /\ current' \in Seq(Steps)
    BY <1>4, <1>5 DEF DagInv, DagTypes
  <2> QED BY ONLY <1>1, <2>1, <2>2, DagInv DEF DagInv, DagTypes, Sorting, Building
<1>7. Untouched' BY ONLY <1>1 DEF Untouched, Building
<1>8. (Degrees /\ ZeroOnceQueued)' BY ONLY <1>1 DEF Degrees, ZeroOnceQueued, Sorting
<1>9. NoRepeats' BY ONLY <1>1, DagInv DEF DagInv, NoRepeats
<1>10. Topological' BY <1>1, TopologicalStays DEF DagInv
<1>11. Grouping'
  <2>1. groups' = <<>> /\ at' <= Len(order') + 1 /\ Len(current') = at' - 1
    BY <1>1, <1>2, <1>4, <1>5
  <2>2. \A i \in 1..(at' - 1) : current'[i] = order'[i] BY <1>1, <1>2, <1>5
  <2>3. seen' = {order'[i] : i \in 1..(at' - 1)}
    <3>1. 1..(at' - 1) = 1..(at - 1) \cup {at} BY <1>1
    <3> QED BY <1>1, <1>2, <1>4, <3>1
  <2> QED BY <1>1, <2>1, <2>2, <2>3 DEF Grouping, OneGroup
<1> QED BY <1>6, <1>7, <1>8, <1>9, <1>10, <1>11 DEF DagInv

LEMMA EndGroupsInv == ASSUME DagInv, EndGroups PROVE DagInv'
<1>1. /\ phase = "group" /\ phase' = "done" /\ at > Len(order)
      /\ UNCHANGED <<dependsOn, at, visited, stack, inDegree, queue, order>>
      /\ UNCHANGED <<current, seen>>
      /\ order \in Seq(Steps) /\ current \in Seq(Steps) /\ at \in Nat
  BY DEF EndGroups, DagInv, DagTypes, search, sort
<1>2. /\ groups = <<>>
      /\ at <= Len(order) + 1
      /\ Len(current) = at - 1
      /\ \A i \in 1..(at - 1) : current[i] = order[i]
  BY <1>1 DEF DagInv, Grouping
<1>3. current = order
  <2>1. Len(current) = Len(order) /\ Len(order) \in Nat BY <1>1, <1>2
  <2>2. \A i \in 1..Len(order) : current[i] = order[i] BY <1>1, <1>2
  <2> QED BY ONLY <1>1, <2>1, <2>2
<1>4. groups' = IF order = <<>> THEN <<>> ELSE <<order>>
  BY <1>2, <1>3 DEF EndGroups, Flushed
<1>5. groups' \in Seq(Seq(Steps)) BY <1>1, <1>4
<1>6. DagTypes' BY ONLY <1>1, <1>5, DagInv DEF DagInv, DagTypes, Sorting, Building
<1>7. Untouched' BY ONLY <1>1 DEF Untouched, Building
<1>8. (Degrees /\ ZeroOnceQueued)' BY ONLY <1>1 DEF Degrees, ZeroOnceQueued, Sorting
<1>9. NoRepeats' BY ONLY <1>1, DagInv DEF DagInv, NoRepeats
<1>10. Topological' BY <1>1, TopologicalStays DEF DagInv
<1>11. Grouping' BY ONLY <1>1, <1>4 DEF Grouping, OneGroup
<1> QED BY <1>6, <1>7, <1>8, <1>9, <1>10, <1>11 DEF DagInv

----------------------------------------------------------------------------
LEMMA StutterInv == ASSUME DagInv, UNCHANGED dagVars PROVE DagInv'
<1>1. UNCHANGED <<dependsOn, phase, at, visited, stack, inDegree, queue, order,
                  groups, current, seen>>
  BY DEF dagVars, search, sort, cut
<1>2. (DagTypes /\ Untouched)'
  BY ONLY <1>1, DagInv DEF DagInv, DagTypes, Untouched, WellDefined, Deps
<1>3. (Degrees /\ ZeroOnceQueued)'
  BY ONLY <1>1, DagInv DEF DagInv, Degrees, ZeroOnceQueued, Counted, Behind, Deps
<1>4. (NoRepeats /\ Topological)' BY <1>1, TopologicalStays DEF DagInv, NoRepeats
<1>5. Grouping' BY ONLY <1>1, DagInv DEF DagInv, Grouping, OneGroup
<1> QED BY <1>2, <1>3, <1>4, <1>5 DEF DagInv

LEMMA StepInv == DagInv /\ [DagNext]_dagVars => DagInv'
BY ConstructorInv, StartSortInv, CollectRootInv, TakeStepInv, RelaxStepInv,
   EndRelaxInv, StartGroupsInv, PlaceStepInv, EndGroupsInv, StutterInv
   DEF DagNext

\* DagInv holds in every reachable state.
THEOREM InvHolds == Safety => []DagInv
BY InitInv, StepInv, PTL DEF Safety

\* Every variable of ExecutionDAG keeps the type the code gives it; that no
\* in-degree of topological_order becomes negative is part of it.
THEOREM TypeCorrect == Safety => []TypeOK
<1>1. DagInv => TypeOK BY DEF DagInv, DagTypes, TypeOK, Building, Sorting
<1> QED BY <1>1, InvHolds, PTL

\* The order built by topological_order never has a step before a step it
\* depends on, and has no step twice, for every graph of every size.
THEOREM TopologicalOrder == Safety => []OrderIsTopological
<1>1. DagInv => OrderIsTopological
  BY DEF DagInv, Topological, NoRepeats, OrderIsTopological, Deps
<1> QED BY <1>1, InvHolds, PTL

\* parallel_groups returns all ordered steps as one group for every graph: no
\* dependency between two steps ever puts them into different groups.
THEOREM AlwaysOneGroup == Safety => []OneGroup
<1>1. DagInv => OneGroup BY DEF DagInv, Grouping
<1> QED BY <1>1, InvHolds, PTL

----------------------------------------------------------------------------
(* _check_cycles.                                                          *)

\* The steps whose visit has ended.
Finished == visited \ RecStack

\* Of every set of steps of S one depends on none of the others.
WellFounded(S) == \A T \in SUBSET S : T # {} => \E s \in T : Deps(s) \cap T = {}

\* The frames are a path along the dependencies, none of them twice, and each
\* has come past dependencies whose visit has ended, but for the one that is
\* being visited on its behalf.
Path ==
    \A i \in 1..Len(stack) :
      /\ stack[i].step \in visited
      /\ stack[i].next <= Len(dependsOn[stack[i].step]) + 1
      /\ \A j \in 1..Len(stack) : stack[j].step = stack[i].step => j = i
      /\ i < Len(stack) =>
           /\ stack[i].next >= 2
           /\ dependsOn[stack[i].step][stack[i].next - 1] = stack[i + 1].step
      /\ \A k \in 1..(stack[i].next - 1) :
           \/ dependsOn[stack[i].step][k] \in Finished
           \/ i < Len(stack) /\ k = stack[i].next - 1

SearchSound ==
    /\ phase = "search" =>
         /\ Path
         /\ \A s \in Finished : Deps(s) \subseteq Finished
         /\ WellFounded(Finished)
         /\ \A i \in 1..(at - 1) : i <= Len(StepSeq) => StepSeq[i] \in visited
    /\ phase = "validate" => visited = {} /\ stack = <<>> /\ at = 1
    /\ RejectsExactlyBadGraphs

\* A step whose visit ends is added to those whose visit has ended.
LEMMA FinishedGrows ==
    ASSUME NEW F, NEW t, t \notin F, \A s \in F : Deps(s) \subseteq F,
           WellFounded(F), Deps(t) \subseteq F
    PROVE  /\ \A s \in F \cup {t} : Deps(s) \subseteq F \cup {t}
           /\ WellFounded(F \cup {t})
<1>1. \A s \in F \cup {t} : Deps(s) \subseteq F \cup {t} OBVIOUS
<1>2. ASSUME NEW T \in SUBSET (F \cup {t}), T # {}
      PROVE  \E s \in T : Deps(s) \cap T = {}
  <2>1. CASE T \cap F = {}
    <3>1. T = {t} BY <1>2, <2>1
    <3> QED BY <3>1
  <2>2. CASE T \cap F # {}
    <3>1. PICK s \in T \cap F : Deps(s) \cap (T \cap F) = {} BY <2>2 DEF WellFounded
    <3>2. Deps(s) \subseteq F BY <3>1
    <3> QED BY <3>1, <3>2
  <2> QED BY <2>1, <2>2
<1> QED BY <1>1, <1>2 DEF WellFounded

\* A dependency on a step of the path closes a cycle.
LEMMA CycleFound ==
    ASSUME DagTypes, Path, WellDefined, stack # <<>>,
           Top.next <= Len(dependsOn[Top.step]),
           dependsOn[Top.step][Top.next] \in RecStack
    PROVE  ~ Acyclic
<1>1. PICK n : n = Len(stack) OBVIOUS
<1>2. n \in Nat /\ n >= 1 /\ stack \in Seq([step : Steps, next : Nat \ {0}])
  BY <1>1 DEF DagTypes
<1>3. \A i \in 1..n : stack[i].step \in Steps /\ stack[i].next \in Nat \ {0}
  <2> DEFINE F == [step : Steps, next : Nat \ {0}]
  <2>1. stack \in Seq(F) BY <1>2
  <2> HIDE DEF F
  <2>2. \A i \in 1..n : stack[i] \in F BY <1>1, <2>1
  <2> QED BY <2>2 DEF F
<1>4. PICK i \in 1..n : stack[i].step = dependsOn[Top.step][Top.next]
  BY <1>1 DEF RecStack
<1> DEFINE S == {stack[j].step : j \in i..n}
<1>6. S \in SUBSET Steps /\ stack[i].step \in S BY <1>2, <1>3
<1>7. ASSUME NEW j \in i..n
      PROVE  Deps(stack[j].step) \cap S # {}
  <2>1. dependsOn[stack[j].step] \in Seq(Names) BY <1>2, <1>3 DEF DagTypes
  <2>2. CASE j = n
    <3>1. Top = stack[j] BY <1>1, <2>2 DEF Top
    <3>2. Top.next \in 1..Len(dependsOn[Top.step]) BY <1>2, <1>3, <2>1, <3>1
    <3>3. stack[i].step \in Deps(stack[j].step) BY <1>4, <3>1, <3>2 DEF Deps, Elements
    <3> QED BY <1>6, <3>3
  <2>3. CASE j # n
    <3>1. j < n /\ j \in 1..n BY <1>2, <2>3
    <3>2. /\ stack[j].next >= 2 /\ stack[j].next <= Len(dependsOn[stack[j].step]) + 1
          /\ dependsOn[stack[j].step][stack[j].next - 1] = stack[j + 1].step
      BY <1>1, <3>1 DEF Path
    <3>3. stack[j].next - 1 \in 1..Len(dependsOn[stack[j].step])
      BY <1>3, <2>1, <3>1, <3>2
    <3>4. stack[j + 1].step \in Deps(stack[j].step) BY <3>2, <3>3 DEF Deps, Elements
    <3>5. j + 1 \in i..n BY <1>2, <3>1
    <3> QED BY <3>4, <3>5
  <2> QED BY <2>2, <2>3
<1>8. \A s \in S : Deps(s) \cap S # {} BY <1>7
<1> QED BY <1>6, <1>8 DEF Acyclic

LEMMA FrameTypes ==
    ASSUME DagTypes
    PROVE  /\ Len(stack) \in Nat
           /\ \A i \in 1..Len(stack) :
                /\ stack[i].step \in Steps /\ stack[i].next \in Nat \ {0}
                /\ stack[i] = [step |-> stack[i].step, next |-> stack[i].next]
                /\ Len(dependsOn[stack[i].step]) \in Nat
<1> DEFINE F == [step : Steps, next : Nat \ {0}]
<1>1. stack \in Seq(F) BY DEF DagTypes
<1> HIDE DEF F
<1>2. Len(stack) \in Nat /\ \A i \in 1..Len(stack) : stack[i] \in F BY <1>1
<1>3. \A i \in 1..Len(stack) :
        /\ stack[i].step \in Steps /\ stack[i].next \in Nat \ {0}
        /\ stack[i] = [step |-> stack[i].step, next |-> stack[i].next]
  BY <1>2 DEF F
<1>4. \A s \in Steps : Len(dependsOn[s]) \in Nat BY DEF DagTypes
<1> QED BY <1>2, <1>3, <1>4

\* What is true of the steps whose visit has ended stays so as long as they are
\* the same.
LEMMA FinishedStays ==
    ASSUME NEW F, F = Finished', UNCHANGED dependsOn, WellFounded(F),
           \A s \in F : Deps(s) \subseteq F
    PROVE  (WellFounded(Finished) /\ \A s \in Finished : Deps(s) \subseteq Finished)'
<1>0. \A s : Deps(s)' = Deps(s) BY DEF Deps, Elements
<1>1. WellFounded(F)' BY <1>0 DEF WellFounded
<1>2. \A s \in F : Deps(s)' \subseteq F BY <1>0
<1>3. (F = Finished)' OBVIOUS
<1> QED BY <1>1, <1>2, <1>3 DEF WellFounded

LEMMA VisitRootSound ==
    ASSUME DagTypes, SearchSound, VisitRoot PROVE SearchSound'
<1>1. /\ phase = "search" /\ phase' = "search" /\ stack = <<>> /\ at' = at + 1
      /\ at \in 1..Len(StepSeq) /\ UNCHANGED dependsOn
  BY DEF VisitRoot, DagTypes
<1>2. RecStack = {} /\ Finished = visited
  <2>1. Len(stack) = 0 BY <1>1
  <2> QED BY <2>1 DEF RecStack, Finished
<1>3. PICK node : node = StepSeq[at] OBVIOUS
<1>4. PICK F : F = Finished OBVIOUS
<1>5. /\ \/ /\ node \notin visited /\ visited' = visited \cup {node}
            /\ stack' = <<[step |-> node, next |-> 1]>>
         \/ node \in visited /\ visited' = visited /\ stack' = stack
  BY <1>3 DEF VisitRoot, search, Frame
<1>6. node \in Steps /\ Len(dependsOn[node]) \in Nat
  <2>1. node \in Steps BY <1>1, <1>3 DEF Steps
  <2>2. \A s \in Steps : Len(dependsOn[s]) \in Nat BY DEF DagTypes
  <2> QED BY <2>1, <2>2
<1>7. Path' /\ Finished' = F
  <2>1. CASE node \notin visited
    <3>1. /\ visited' = visited \cup {node} /\ Len(stack') = 1
          /\ stack'[1].step = node /\ stack'[1].next = 1
      BY <1>5, <2>1
    <3>2. RecStack' = {node} BY <3>1 DEF RecStack
    <3>3. Finished' = F BY <1>2, <1>4, <2>1, <3>1, <3>2 DEF Finished
    <3>4. Path' BY ONLY <1>1, <1>6, <3>1 DEF Path
    <3> QED BY <3>3, <3>4
  <2>2. CASE node \in visited
    <3>1. visited' = visited /\ stack' = stack /\ Len(stack') = 0 BY <1>1, <1>5, <2>2
    <3> QED BY <1>4, <3>1 DEF Path, Finished, RecStack
  <2> QED BY <2>1, <2>2
<1>8. (WellFounded(Finished) /\ \A s \in Finished : Deps(s) \subseteq Finished)'
  BY <1>1, <1>4, <1>7, FinishedStays DEF SearchSound
<1>9. \A i \in 1..(at' - 1) : i <= Len(StepSeq) => StepSeq[i] \in visited'
  <2>1. node \in visited' /\ visited \subseteq visited' BY <1>5
  <2> SUFFICES ASSUME NEW i \in 1..(at' - 1), i <= Len(StepSeq)
               PROVE  StepSeq[i] \in visited'
    OBVIOUS
  <2>2. i = at \/ i \in 1..(at - 1) BY <1>1
  <2>3. i \in 1..(at - 1) => StepSeq[i] \in visited BY <1>1 DEF SearchSound
  <2> QED BY <1>3, <2>1, <2>2, <2>3
<1>10. RejectsExactlyBadGraphs' BY <1>1 DEF RejectsExactlyBadGraphs
<1> QED BY <1>1, <1>7, <1>8, <1>9, <1>10 DEF SearchSound

\* The frame at the top comes past one dependency.
LEMMA AdvancedIs ==
    ASSUME DagTypes, stack # <<>>
    PROVE  /\ Advanced \in Seq([step : Steps, next : Nat \ {0}])
           /\ Len(Advanced) = Len(stack)
           /\ \A i \in 1..Len(stack) :
                /\ Advanced[i].step = stack[i].step
                /\ Advanced[i].next = IF i = Len(stack) THEN stack[i].next + 1
                                      ELSE stack[i].next
<1> DEFINE n == Len(stack)
<1>1. n \in Nat /\ n \in 1..n BY DEF DagTypes
<1>2. PICK t : t = [stack[n] EXCEPT !.next = @ + 1] OBVIOUS
<1>3. Advanced = [stack EXCEPT ![n] = t] BY <1>2 DEF Advanced
<1>4. t.step = stack[n].step /\ t.next = stack[n].next + 1 BY <1>1, <1>2, FrameTypes
<1>5. DOMAIN stack = 1..n BY DEF DagTypes
<1>6. DOMAIN Advanced = 1..n /\ Len(Advanced) = n
  <2>1. Advanced = [i \in 1..n |-> IF i = n THEN t ELSE stack[i]] BY <1>3, <1>5
  <2> HIDE DEF n
  <2> QED BY <1>1, <2>1
<1>7. \A i \in 1..n : Advanced[i] = IF i = n THEN t ELSE stack[i] BY <1>3, <1>5
<1>8. Advanced \in Seq([step : Steps, next : Nat \ {0}])
  <2> DEFINE R == [step : Steps, next : Nat \ {0}]
  <2>1. t \in R
    <3>1. PICK a \in Steps, b \in Nat \ {0} : stack[n] = [step |-> a, next |-> b]
      BY <1>1, FrameTypes
    <3>2. t = [step |-> a, next |-> b + 1] BY <1>2, <3>1
    <3> QED BY <3>2
  <2>2. stack \in Seq(R) BY DEF DagTypes
  <2> HIDE DEF R
  <2>3. Advanced \in Seq(R) BY <1>1, <1>3, <2>1, <2>2
  <2> QED BY <2>3 DEF R
<1> QED BY <1>4, <1>6, <1>7, <1>8

LEMMA LookSound ==
    ASSUME DagTypes, WellDefined, SearchSound, LookAtDependency PROVE SearchSound'
<1>1. /\ phase = "search" /\ stack # <<>> /\ Top.next <= Len(dependsOn[Top.step])
      /\ UNCHANGED <<dependsOn, at>>
  BY DEF LookAtDependency
<1>2. PICK n : n = Len(stack) OBVIOUS
<1>3. n \in Nat /\ n \in 1..n /\ Top = stack[n] BY <1>1, <1>2 DEF DagTypes, Top
<1>4. PICK dep : dep = dependsOn[Top.step][Top.next] OBVIOUS
<1>5. PICK F : F = Finished OBVIOUS
<1>6. /\ Path /\ \A s \in F : Deps(s) \subseteq F
      /\ WellFounded(F)
      /\ \A i \in 1..(at - 1) : i <= Len(StepSeq) => StepSeq[i] \in visited
  BY <1>1, <1>5 DEF SearchSound
<1>7. \A i \in 1..n :
        /\ stack[i].step \in Steps /\ stack[i].next \in Nat \ {0}
        /\ Len(dependsOn[stack[i].step]) \in Nat
  BY <1>2, FrameTypes
<1>8. /\ Len(Advanced) = n
      /\ \A i \in 1..n :
           /\ Advanced[i].step = stack[i].step
           /\ Advanced[i].next = IF i = n THEN stack[i].next + 1 ELSE stack[i].next
  BY <1>1, <1>2, AdvancedIs
<1>12. dep \in Steps
  <2>1. Top.next \in 1..Len(dependsOn[Top.step]) BY <1>1, <1>3, <1>7
  <2>2. dep \in Deps(Top.step) BY <1>4, <2>1 DEF Deps, Elements
  <2> QED BY <1>3, <1>7, <2>2 DEF WellDefined
<1>9. CASE dep \notin visited
  <2>1. visited' = visited \cup {dep} /\ stack' = Append(Advanced, Frame(dep)) /\ phase' = phase
    BY <1>4, <1>9 DEF LookAtDependency
  <2>2. /\ Len(stack') = n + 1 /\ stack'[n + 1].step = dep /\ stack'[n + 1].next = 1
        /\ \A i \in 1..n : stack'[i] = Advanced[i]
    <3>1. PICK f : f = Frame(dep) OBVIOUS
    <3>2. f.step = dep /\ f.next = 1 BY <3>1 DEF Frame
    <3> DEFINE R == [step : Steps, next : Nat \ {0}]
    <3>3. Advanced \in Seq(R) /\ f \in R BY <1>1, <1>12, <3>1, AdvancedIs DEF Frame
    <3> HIDE DEF R
    <3> QED BY <1>3, <1>8, <2>1, <3>1, <3>2, <3>3, AppendProperties
  <2>3. \A i \in 1..(n + 1) :
          /\ stack'[i].step = IF i = n + 1 THEN dep ELSE stack[i].step
          /\ stack'[i].next = IF i = n + 1 THEN 1
                              ELSE IF i = n THEN stack[i].next + 1 ELSE stack[i].next
    BY <1>3, <1>8, <2>2
  <2>4. RecStack' = RecStack \cup {dep} BY <1>2, <1>3, <2>2, <2>3 DEF RecStack
  <2>5. Finished' = F BY <1>5, <1>9, <2>1, <2>4 DEF Finished
  <2>6. dep \notin RecStack BY <1>2, <1>6, <1>9 DEF Path, RecStack
  <2>7. ASSUME NEW i \in 1..(n + 1)
        PROVE  /\ stack'[i].step \in visited'
               /\ stack'[i].next <= Len(dependsOn[stack'[i].step]) + 1
               /\ \A j \in 1..(n + 1) : stack'[j].step = stack'[i].step => j = i
               /\ i < n + 1 =>
                    /\ stack'[i].next >= 2
                    /\ dependsOn[stack'[i].step][stack'[i].next - 1] = stack'[i + 1].step
               /\ \A k \in 1..(stack'[i].next - 1) :
                    \/ dependsOn[stack'[i].step][k] \in F
                    \/ i < n + 1 /\ k = stack'[i].next - 1
    <3>1. CASE i = n + 1
      <4>1. \A j \in 1..n : stack[j].step # dep BY <1>2, <2>6 DEF RecStack
      <4>2. stack'[i].step = dep /\ stack'[i].next = 1 BY <2>3, <3>1
      <4>3. \A j \in 1..(n + 1) : stack'[j].step = stack'[i].step => j = i
        BY <1>3, <2>3, <3>1, <4>1, <4>2
      <4>4. Len(dependsOn[dep]) \in Nat BY <1>12 DEF DagTypes
      <4>5. stack'[i].step \in visited' BY <2>1, <4>2
      <4>6. stack'[i].next <= Len(dependsOn[stack'[i].step]) + 1 BY ONLY <4>2, <4>4
      <4>7. ~ (i < n + 1) /\ 1..(stack'[i].next - 1) = {} BY <1>3, <3>1, <4>2
      <4> QED BY ONLY <4>3, <4>5, <4>6, <4>7
    <3>2. CASE i = n
      <4>1. stack'[i].step = Top.step /\ stack'[i].next = Top.next + 1
        BY <1>3, <2>3, <3>2
      <4>2. stack'[i + 1].step = dep BY <2>2, <3>2
      <4>3. /\ Top.step \in visited
            /\ \A j \in 1..n : stack[j].step = Top.step => j = n
            /\ \A k \in 1..(Top.next - 1) : dependsOn[Top.step][k] \in F
        BY <1>2, <1>3, <1>5, <1>6 DEF Path
      <4>4. Top.step # dep BY <1>2, <1>3, <2>6 DEF RecStack
      <4>5. \A j \in 1..(n + 1) : stack'[j].step = stack'[i].step => j = i
        BY <1>3, <2>3, <3>2, <4>1, <4>3, <4>4
      <4>6. Top.next \in Nat \ {0} /\ Len(dependsOn[Top.step]) \in Nat BY <1>3, <1>7
      <4>7. stack'[i].step \in visited' BY <2>1, <4>1, <4>3
      <4>8. stack'[i].next <= Len(dependsOn[stack'[i].step]) + 1 /\ stack'[i].next >= 2
        BY ONLY <1>1, <4>1, <4>6
      <4>9. stack'[i].next - 1 = Top.next BY ONLY <4>1, <4>6
      <4>10. dependsOn[stack'[i].step][stack'[i].next - 1] = stack'[i + 1].step
        BY <1>4, <4>1, <4>2, <4>9
      <4>11. \A k \in 1..(stack'[i].next - 1) :
               \/ dependsOn[stack'[i].step][k] \in F
               \/ i < n + 1 /\ k = stack'[i].next - 1
        <5> SUFFICES ASSUME NEW k \in 1..Top.next, k # Top.next
                     PROVE  dependsOn[Top.step][k] \in F
          BY <1>3, <3>2, <4>1, <4>9
        <5>1. k \in 1..(Top.next - 1) BY <4>6
        <5> QED BY <4>3, <5>1
      <4> QED BY ONLY <4>5, <4>7, <4>8, <4>10, <4>11
    <3>3. CASE i \in 1..n /\ i # n
      <4>1. stack'[i].step = stack[i].step /\ stack'[i].next = stack[i].next
        BY <1>3, <2>3, <3>3
      <4>2. stack'[i + 1].step = stack[i + 1].step BY <1>3, <2>3, <3>3
      <4>3. stack[i].step # dep BY <1>2, <2>6, <3>3 DEF RecStack
      <4>4. /\ stack[i].step \in visited
            /\ stack[i].next <= Len(dependsOn[stack[i].step]) + 1
            /\ \A j \in 1..n : stack[j].step = stack[i].step => j = i
            /\ stack[i].next >= 2
            /\ dependsOn[stack[i].step][stack[i].next - 1] = stack[i + 1].step
            /\ \A k \in 1..(stack[i].next - 1) :
                 \/ dependsOn[stack[i].step][k] \in F
                 \/ k = stack[i].next - 1
        BY <1>2, <1>3, <1>5, <1>6, <3>3 DEF Path
      <4>5. \A j \in 1..(n + 1) : stack'[j].step = stack'[i].step => j = i
        BY <1>3, <2>3, <4>1, <4>3, <4>4
      <4>6. i < n + 1 BY <1>3, <3>3
      <4>7. stack'[i].step \in visited' BY <2>1, <4>1, <4>4
      <4>8. dependsOn[stack'[i].step] = dependsOn[stack[i].step] BY <4>1
      <4> QED BY <4>1, <4>2, <4>4, <4>5, <4>6, <4>7, <4>8
    <3> QED BY <1>3, <3>1, <3>2, <3>3
  <2>8. Path' BY <1>1, <2>2, <2>5, <2>7 DEF Path
  <2>9. (WellFounded(Finished) /\ \A s \in Finished : Deps(s) \subseteq Finished)'
    BY <1>1, <1>6, <2>5, FinishedStays
  <2>10. RejectsExactlyBadGraphs' BY <1>1, <2>1 DEF RejectsExactlyBadGraphs
  <2> QED BY <1>1, <1>6, <2>1, <2>8, <2>9, <2>10 DEF SearchSound
<1>10. CASE dep \in visited /\ dep \notin RecStack
  <2>1. visited' = visited /\ stack' = Advanced /\ phase' = phase
    BY <1>4, <1>10 DEF LookAtDependency
  <2>2. Len(stack') = n BY <1>8, <2>1
  <2>3. \A i \in 1..n :
          /\ stack'[i].step = stack[i].step
          /\ stack'[i].next = IF i = n THEN stack[i].next + 1 ELSE stack[i].next
    BY <1>8, <2>1
  <2>4. RecStack' = RecStack BY <1>2, <2>2, <2>3 DEF RecStack
  <2>5. Finished' = F /\ dep \in F BY <1>5, <1>10, <2>1, <2>4 DEF Finished
  <2>7. ASSUME NEW i \in 1..n
        PROVE  /\ stack'[i].step \in visited'
               /\ stack'[i].next <= Len(dependsOn[stack'[i].step]) + 1
               /\ \A j \in 1..n : stack'[j].step = stack'[i].step => j = i
               /\ i < n =>
                    /\ stack'[i].next >= 2
                    /\ dependsOn[stack'[i].step][stack'[i].next - 1] = stack'[i + 1].step
               /\ \A k \in 1..(stack'[i].next - 1) :
                    \/ dependsOn[stack'[i].step][k] \in F
                    \/ i < n /\ k = stack'[i].next - 1
    <3>1. /\ stack[i].step \in visited
          /\ stack[i].next <= Len(dependsOn[stack[i].step]) + 1
          /\ \A j \in 1..n : stack[j].step = stack[i].step => j = i
          /\ i < n =>
               /\ stack[i].next >= 2
               /\ dependsOn[stack[i].step][stack[i].next - 1] = stack[i + 1].step
          /\ \A k \in 1..(stack[i].next - 1) :
               \/ dependsOn[stack[i].step][k] \in F
               \/ i < n /\ k = stack[i].next - 1
      BY <1>2, <1>5, <1>6 DEF Path
    <3>2. \A j \in 1..n : stack'[j].step = stack'[i].step => j = i BY <2>3, <3>1
    <3>3. CASE i = n
      <4>1. stack'[i].step = Top.step /\ stack'[i].next = Top.next + 1
        BY <1>3, <2>3, <3>3
      <4>2. Top.next \in Nat \ {0} /\ Len(dependsOn[Top.step]) \in Nat BY <1>3, <1>7
      <4> QED BY <1>1, <1>3, <1>4, <2>1, <2>5, <3>1, <3>2, <3>3, <4>1, <4>2
    <3>4. CASE i # n
      <4>1. stack'[i].step = stack[i].step /\ stack'[i].next = stack[i].next
        BY <2>3, <3>4
      <4>2. i < n /\ stack'[i + 1].step = stack[i + 1].step BY <1>3, <2>3, <3>4
      <4> QED BY <2>1, <3>1, <3>2, <4>1, <4>2
    <3> QED BY <3>3, <3>4
  <2>8. Path' BY <1>1, <2>2, <2>5, <2>7 DEF Path
  <2>9. (WellFounded(Finished) /\ \A s \in Finished : Deps(s) \subseteq Finished)'
    BY <1>1, <1>6, <2>5, FinishedStays
  <2>10. RejectsExactlyBadGraphs' BY <1>1, <2>1 DEF RejectsExactlyBadGraphs
  <2> QED BY <1>1, <1>6, <2>1, <2>8, <2>9, <2>10 DEF SearchSound
<1>11. CASE dep \in visited /\ dep \in RecStack
  <2>1. phase' = "rejected" BY <1>4, <1>11 DEF LookAtDependency
  <2>2. ~ Acyclic BY <1>1, <1>4, <1>6, <1>11, CycleFound
  <2>3. (~ Acyclic)'
    <3>1. \A s : Deps(s)' = Deps(s) BY <1>1 DEF Deps, Elements
    <3> QED BY <2>2, <3>1 DEF Acyclic
  <2> QED BY <2>1, <2>3 DEF SearchSound, RejectsExactlyBadGraphs
<1> QED BY <1>9, <1>10, <1>11

LEMMA LeaveSound ==
    ASSUME DagTypes, SearchSound, LeaveVisit PROVE SearchSound'
<1>1. /\ phase = "search" /\ phase' = "search" /\ stack # <<>>
      /\ Top.next > Len(dependsOn[Top.step])
      /\ stack' = SubSeq(stack, 1, Len(stack) - 1)
      /\ UNCHANGED <<dependsOn, at, visited>>
  BY DEF LeaveVisit
<1>2. PICK n : n = Len(stack) OBVIOUS
<1>3. n \in Nat /\ n \in 1..n /\ Top = stack[n] BY <1>1, <1>2 DEF DagTypes, Top
<1>4. PICK t : t = Top.step OBVIOUS
<1>5. PICK F : F = Finished OBVIOUS
<1>6. /\ Path /\ \A s \in F : Deps(s) \subseteq F
      /\ WellFounded(F)
      /\ \A i \in 1..(at - 1) : i <= Len(StepSeq) => StepSeq[i] \in visited
  BY <1>1, <1>5 DEF SearchSound
<1>7. \A i \in 1..n :
        /\ stack[i].step \in Steps /\ stack[i].next \in Nat \ {0}
        /\ Len(dependsOn[stack[i].step]) \in Nat
  BY <1>2, FrameTypes
<1>8. Len(stack') = n - 1 /\ \A i \in 1..(n - 1) : stack'[i] = stack[i]
  <2> DEFINE R == [step : Steps, next : Nat \ {0}]
  <2>1. stack \in Seq(R) BY DEF DagTypes
  <2> HIDE DEF R
  <2>2. n - 1 \in 0..n BY <1>3
  <2> QED BY <1>1, <1>2, <1>3, <2>1, <2>2, SubSeqProperties
<1>9. \A j \in 1..n : stack[j].step = t => j = n BY <1>2, <1>3, <1>4, <1>6 DEF Path
<1>10. RecStack = RecStack' \cup {t} /\ t \notin RecStack'
  <2>1. RecStack = {stack[i].step : i \in 1..n} BY <1>2 DEF RecStack
  <2>2. RecStack' = {stack[i].step : i \in 1..(n - 1)} BY <1>8 DEF RecStack
  <2>3. 1..n = 1..(n - 1) \cup {n} BY <1>3
  <2>4. t \notin RecStack' BY <1>3, <1>9, <2>2
  <2> QED BY <1>3, <1>4, <2>1, <2>2, <2>3, <2>4
<1>11. t \in visited /\ t \notin F
  BY <1>2, <1>3, <1>4, <1>5, <1>6, <1>10 DEF Path, Finished
<1>12. PICK G : G = F \cup {t} OBVIOUS
<1>13. Finished' = G BY <1>1, <1>5, <1>10, <1>11, <1>12 DEF Finished
<1>14. Deps(t) \subseteq F
  <2> SUFFICES ASSUME NEW k \in 1..Len(dependsOn[t]) PROVE dependsOn[t][k] \in F
    BY DEF Deps, Elements
  <2>1. k \in 1..(stack[n].next - 1) BY <1>1, <1>3, <1>4, <1>7
  <2> QED BY <1>2, <1>3, <1>4, <1>5, <1>6, <2>1 DEF Path
<1>15. (\A s \in G : Deps(s) \subseteq G) /\ WellFounded(G)
  BY <1>6, <1>11, <1>12, <1>14, FinishedGrows
<1>16. (WellFounded(Finished) /\ \A s \in Finished : Deps(s) \subseteq Finished)'
  BY <1>1, <1>13, <1>15, FinishedStays
<1>17. ASSUME NEW i \in 1..(n - 1)
       PROVE  /\ stack[i].step \in visited
              /\ stack[i].next <= Len(dependsOn[stack[i].step]) + 1
              /\ \A j \in 1..(n - 1) : stack[j].step = stack[i].step => j = i
              /\ i < n - 1 =>
                   /\ stack[i].next >= 2
                   /\ dependsOn[stack[i].step][stack[i].next - 1] = stack[i + 1].step
              /\ \A k \in 1..(stack[i].next - 1) :
                   \/ dependsOn[stack[i].step][k] \in G
                   \/ i < n - 1 /\ k = stack[i].next - 1
  <2>1. i \in 1..n /\ i < n BY <1>3
  <2>2. /\ stack[i].step \in visited
        /\ stack[i].next <= Len(dependsOn[stack[i].step]) + 1
        /\ \A j \in 1..n : stack[j].step = stack[i].step => j = i
        /\ stack[i].next >= 2
        /\ dependsOn[stack[i].step][stack[i].next - 1] = stack[i + 1].step
        /\ \A k \in 1..(stack[i].next - 1) :
             \/ dependsOn[stack[i].step][k] \in F
             \/ k = stack[i].next - 1
    BY <1>2, <1>5, <1>6, <2>1 DEF Path
  <2>3. i = n - 1 => stack[i + 1].step = t BY <1>3, <1>4
  <2>4. i = n - 1 \/ i < n - 1 BY <1>3
  <2>5. \A j \in 1..(n - 1) : j \in 1..n BY <1>3
  <2> QED BY <1>12, <2>2, <2>3, <2>4, <2>5
<1>18. Path'
  <2>1. \A i \in 1..(n - 1) : i < n - 1 => i + 1 \in 1..(n - 1) BY <1>3
  <2> QED BY <1>1, <1>8, <1>13, <1>17, <2>1 DEF Path
<1>19. RejectsExactlyBadGraphs' BY <1>1 DEF RejectsExactlyBadGraphs
<1> QED BY <1>1, <1>6, <1>16, <1>18, <1>19 DEF SearchSound

LEMMA ValidateSound ==
    ASSUME SearchSound, UndefinedDependency \/ DependenciesDefined PROVE SearchSound'
<1>1. CASE UndefinedDependency
  <2>1. phase' = "rejected" /\ UNCHANGED dependsOn /\ ~ WellDefined
    BY <1>1 DEF UndefinedDependency, WellDefined
  <2>2. (~ WellDefined)' BY <2>1 DEF WellDefined, Deps, Elements
  <2> QED BY <2>1, <2>2 DEF SearchSound, RejectsExactlyBadGraphs
<1>2. CASE DependenciesDefined
  <2>1. /\ phase' = "search" /\ visited' = {} /\ stack' = <<>> /\ at' = 1
    BY <1>2 DEF DependenciesDefined, SearchSound, search
  <2>2. Len(stack') = 0 /\ Finished' = {} BY <2>1 DEF Finished
  <2>3. Path' /\ (WellFounded(Finished))' /\ (\A s \in Finished : Deps(s) \subseteq Finished)'
    BY <2>2 DEF Path, WellFounded
  <2> QED BY <2>1, <2>3 DEF SearchSound, RejectsExactlyBadGraphs
<1> QED BY <1>1, <1>2

\* When every root has been visited and no visit is left, every visit has ended.
LEMMA SearchEnds ==
    ASSUME DagTypes, WellDefined, SearchSound, phase = "search", stack = <<>>,
           at > Len(StepSeq)
    PROVE  Acyclic
<1>1. RecStack = {}
  <2>1. Len(stack) = 0 OBVIOUS
  <2> QED BY <2>1 DEF RecStack
<1>2. Steps \subseteq visited
  <2> SUFFICES ASSUME NEW i \in 1..Len(StepSeq) PROVE StepSeq[i] \in visited
    BY DEF Steps
  <2>1. Len(StepSeq) \in Nat /\ at \in Nat BY DagAssumption DEF DagTypes
  <2>2. i \in 1..(at - 1) /\ i <= Len(StepSeq) BY <2>1
  <2> QED BY <2>2 DEF SearchSound
<1>3. Steps \subseteq Finished BY <1>1, <1>2 DEF Finished
<1>4. WellFounded(Finished) BY DEF SearchSound
<1> QED BY <1>3, <1>4 DEF WellFounded, Acyclic

----------------------------------------------------------------------------
(* What is left out of the order.                                          *)

\* The loop that fills the queue has still to come to s.
Ahead(s) == phase = "collect" /\ \E j \in at..Len(StepSeq) : StepSeq[j] = s

\* A step with in-degree zero is in the queue or in the order.
Queued ==
    phase \in Sorting =>
        \A s \in Steps : inDegree[s] = 0 /\ ~ Ahead(s) =>
            s \in Elements(queue) \cup Elements(order)

LEMMA StartSortQueues == ASSUME StartSort PROVE Queued'
<1>1. phase' = "collect" /\ at' = 1 BY DEF StartSort
<1>2. ASSUME NEW s \in Steps PROVE Ahead(s)'
  <2>1. PICK j \in 1..Len(StepSeq) : StepSeq[j] = s BY DEF Steps
  <2>2. j \in at'..Len(StepSeq) BY <1>1, <2>1
  <2> QED BY <1>1, <2>1, <2>2 DEF Ahead
<1> QED BY <1>2 DEF Queued

LEMMA CollectQueues == ASSUME DagTypes, Queued, CollectRoot PROVE Queued'
<1>1. /\ phase = "collect" /\ phase' = "collect" /\ at \in 1..Len(StepSeq) /\ at' = at + 1
      /\ UNCHANGED <<inDegree, order>>
      /\ queue' = IF inDegree[StepSeq[at]] = 0 THEN Append(queue, StepSeq[at]) ELSE queue
      /\ queue \in Seq(Steps) /\ StepSeq[at] \in Steps
  BY DEF CollectRoot, DagTypes, Steps
<1>2. PICK u \in Steps : u = StepSeq[at] BY <1>1
<1>3. /\ inDegree[u] = 0 => Elements(queue') = Elements(queue) \cup {u}
      /\ inDegree[u] # 0 => queue' = queue
  BY <1>1, <1>2, AppendElements
<1>4. ASSUME NEW s \in Steps, inDegree[s] = 0, ~ Ahead(s)'
      PROVE  s \in Elements(queue') \cup Elements(order)
  <2>1. CASE s = u BY <1>3, <1>4, <2>1
  <2>2. CASE s # u
    <3>1. ~ Ahead(s)
      <4> SUFFICES ASSUME NEW j \in at..Len(StepSeq), StepSeq[j] = s PROVE FALSE
        BY DEF Ahead
      <4>1. j # at BY <1>2, <2>2
      <4>2. j \in at'..Len(StepSeq) BY <1>1, <4>1
      <4> QED BY <1>1, <1>4, <4>2 DEF Ahead
    <3>2. s \in Elements(queue) \cup Elements(order)
      BY <1>1, <1>4, <3>1 DEF Queued, Sorting
    <3> QED BY <1>3, <3>2
  <2> QED BY <2>1, <2>2
<1>5. Elements(queue)' = Elements(queue') /\ Elements(order)' = Elements(order)
  BY <1>1 DEF Elements
<1> QED BY <1>1, <1>4, <1>5 DEF Queued

LEMMA TakeQueues == ASSUME DagTypes, Queued, TakeStep PROVE Queued'
<1>1. /\ phase \in {"collect", "sort"}
      /\ phase = "collect" => at > Len(StepSeq)
      /\ phase' = "relax" /\ UNCHANGED inDegree
      /\ queue # <<>> /\ queue \in Seq(Steps) /\ order \in Seq(Steps)
      /\ order' = Append(order, Head(queue)) /\ queue' = Tail(queue)
  BY DEF TakeStep, DagTypes
<1>2. /\ Head(queue) \in Steps
      /\ Elements(queue) = {Head(queue)} \cup Elements(queue')
  BY <1>1, HeadTailElements
<1>3. Elements(order') = Elements(order) \cup {Head(queue)}
  BY <1>1, <1>2, AppendElements
<1>4. \A s : ~ Ahead(s)
  <2>1. at \in Nat /\ Len(StepSeq) \in Nat BY DagAssumption DEF DagTypes
  <2> QED BY <1>1, <2>1 DEF Ahead
<1>5. \A s \in Steps : inDegree[s] = 0 => s \in Elements(queue) \cup Elements(order)
  <2>1. phase \in Sorting BY <1>1 DEF Sorting
  <2> QED BY <1>4, <2>1 DEF Queued
<1>6. Elements(queue)' = Elements(queue') /\ Elements(order)' = Elements(order')
  BY DEF Elements
<1> QED BY <1>1, <1>2, <1>3, <1>5, <1>6 DEF Queued

LEMMA RelaxQueues == ASSUME DagTypes, Queued, RelaxStep PROVE Queued'
<1>1. /\ phase = "relax" /\ phase' = "relax" /\ at \in 1..Len(StepSeq)
      /\ UNCHANGED order
      /\ queue \in Seq(Steps) /\ StepSeq[at] \in Steps
      /\ inDegree \in [Steps -> Nat]
  <2>1. /\ phase = "relax" /\ phase' = "relax" /\ at \in 1..Len(StepSeq)
        /\ UNCHANGED order
    BY DEF RelaxStep, DagTypes
  <2>2. queue \in Seq(Steps) /\ inDegree \in [Steps -> Nat] BY DEF DagTypes
  <2>3. StepSeq[at] \in Steps BY <2>1 DEF Steps
  <2> QED BY <2>1, <2>2, <2>3
<1>2. PICK u \in Steps : u = StepSeq[at] BY <1>1
<1>3. \/ /\ inDegree' = [inDegree EXCEPT ![u] = @ - 1]
         /\ queue' = IF inDegree[u] - 1 = 0 THEN Append(queue, u) ELSE queue
      \/ inDegree' = inDegree /\ queue' = queue
  BY <1>2 DEF RelaxStep, NowReady
<1>4. Elements(queue) \subseteq Elements(queue')
  <2>1. queue' = Append(queue, u) \/ queue' = queue BY <1>3
  <2>2. Elements(Append(queue, u)) = Elements(queue) \cup {u} BY <1>1, AppendElements
  <2> QED BY <2>1, <2>2
<1>5. ASSUME NEW s \in Steps, inDegree'[s] = 0
      PROVE  s \in Elements(queue') \cup Elements(order)
  <2>1. CASE inDegree[s] = 0
    <3>1. s \in Elements(queue) \cup Elements(order)
      BY <1>1, <2>1 DEF Queued, Ahead, Sorting
    <3> QED BY <1>4, <3>1
  <2>2. CASE inDegree[s] # 0
    <3>1. s = u /\ inDegree[u] - 1 = 0 /\ queue' = Append(queue, u)
      BY <1>1, <1>3, <1>5, <2>2
    <3> QED BY <1>1, <3>1, AppendElements
  <2> QED BY <2>1, <2>2
<1>6. Elements(queue)' = Elements(queue') /\ Elements(order)' = Elements(order)
  BY <1>1 DEF Elements
<1> QED BY <1>1, <1>5, <1>6 DEF Queued

LEMMA EndRelaxQueues == ASSUME Queued, EndRelax PROVE Queued'
<1>1. phase = "relax" /\ phase' = "sort" /\ UNCHANGED <<inDegree, queue, order>>
  BY DEF EndRelax, sort
<1>2. \A s \in Steps : inDegree[s] = 0 => s \in Elements(queue) \cup Elements(order)
  BY <1>1 DEF Queued, Ahead, Sorting
<1> QED BY <1>1, <1>2 DEF Queued, Elements

\* When the queue has run empty the order holds the steps that need no step
\* which lists a dependency twice.
LEMMA LeftOut ==
    ASSUME DagInv, Queued, WellDefined, Acyclic, phase \in {"collect", "sort"},
           phase = "collect" => at > Len(StepSeq), queue = <<>>
    PROVE  Elements(order) = {s \in Steps : \A x \in Needs(s) : ~ ListsTwice(x)}
<1>1. PICK O : O = Elements(order) OBVIOUS
<1>2. O \in SUBSET Steps
  <2>1. order \in Seq(Steps) BY DEF DagInv, DagTypes
  <2> QED BY <1>1, <2>1 DEF Elements
<1>3. \A s \in O : Deps(s) \subseteq O
  <2> SUFFICES ASSUME NEW i \in 1..Len(order) PROVE Deps(order[i]) \subseteq O
    BY <1>1 DEF Elements
  <2>1. Deps(order[i]) \subseteq {order[j] : j \in 1..(i - 1)}
    BY DEF DagInv, Topological, Deps
  <2>2. {order[j] : j \in 1..(i - 1)} \subseteq O BY <1>1 DEF Elements
  <2> QED BY <2>1, <2>2
<1>4. \A s \in Steps : /\ inDegree[s] = Len(dependsOn[s]) - Cardinality(Deps(s) \cap O)
                       /\ Cardinality(Deps(s)) \in Nat /\ Len(dependsOn[s]) \in Nat
  <2> SUFFICES ASSUME NEW s \in Steps
               PROVE  /\ inDegree[s] = Len(dependsOn[s]) - Cardinality(Deps(s) \cap O)
                      /\ Cardinality(Deps(s)) \in Nat /\ Len(dependsOn[s]) \in Nat
    OBVIOUS
  <2>1. Counted(s) = O BY <1>1, AllCounted DEF DagInv
  <2>2. dependsOn[s] \in Seq(Names) BY DEF DagInv, DagTypes
  <2>3. Cardinality(Deps(s)) \in Nat BY <2>2, ElementsBound DEF Deps
  <2> QED BY <2>1, <2>2, <2>3 DEF DagInv, Degrees, Sorting
<1>5. \A s \in O : ~ ListsTwice(s)
  <2> SUFFICES ASSUME NEW s \in O PROVE Cardinality(Deps(s)) = Len(dependsOn[s])
    BY DEF ListsTwice
  <2>1. inDegree[s] = 0 BY <1>1 DEF DagInv, ZeroOnceQueued, Sorting
  <2>2. Deps(s) \cap O = Deps(s) BY <1>3
  <2>3. 0 = Len(dependsOn[s]) - Cardinality(Deps(s)) BY <1>2, <1>4, <2>1, <2>2
  <2>4. PICK a \in Nat, b \in Nat : a = Len(dependsOn[s]) /\ b = Cardinality(Deps(s))
    BY <1>2, <1>4
  <2>5. 0 = a - b BY ONLY <2>3, <2>4
  <2>6. a = b BY ONLY <2>5
  <2> QED BY ONLY <2>4, <2>6
<1>6. \A s \in O : Needs(s) \subseteq O BY <1>2, <1>3 DEF Needs
<1> DEFINE G == {s \in Steps : \A x \in Needs(s) : ~ ListsTwice(x)}
<1>7. \A s \in Steps : s \in Needs(s) BY DEF Needs
<1>8. \A s \in G : Deps(s) \subseteq G
  <2> SUFFICES ASSUME NEW s \in G, NEW d \in Deps(s) PROVE d \in G OBVIOUS
  <2>1. d \in Steps BY DEF WellDefined
  <2>2. Needs(d) \subseteq Needs(s) BY DEF Needs
  <2> QED BY <2>1, <2>2
<1>9. \A s \in G : Cardinality(Deps(s)) = Len(dependsOn[s]) BY <1>7 DEF ListsTwice
<1>10. G \in SUBSET Steps OBVIOUS
<1>11. O \subseteq G BY <1>2, <1>5, <1>6
<1> HIDE DEF G
<1>12. ASSUME G \ O # {} PROVE FALSE
  <2>1. PICK s \in G \ O : Deps(s) \cap (G \ O) = {} BY <1>10, <1>12 DEF Acyclic
  <2>2. Deps(s) \cap O = Deps(s) BY <1>8, <2>1
  <2>3. inDegree[s] = 0 BY <1>4, <1>9, <1>10, <2>1, <2>2
  <2>4. ~ Ahead(s) BY DagAssumption DEF Ahead, DagInv, DagTypes
  <2>5. Elements(queue) = {} BY DEF Elements
  <2> QED BY <1>1, <1>10, <2>1, <2>3, <2>4, <2>5 DEF Queued, Sorting
<1> QED BY <1>1, <1>11, <1>12 DEF G

\* DagInv, and what the search and the order stand for.
GraphInv == DagInv /\ SearchSound /\ Queued /\ DropsOnlyDoubleDependents

LEMMA GraphBegins == DagInit => GraphInv
<1> SUFFICES ASSUME DagInit PROVE GraphInv OBVIOUS
<1>1. phase = "validate" /\ visited = {} /\ stack = <<>> /\ at = 1 BY DEF DagInit
<1>2. SearchSound /\ Queued /\ DropsOnlyDoubleDependents
  BY <1>1 DEF SearchSound, RejectsExactlyBadGraphs, Queued, Sorting, DropsOnlyDoubleDependents
<1> QED BY <1>2, InitInv DEF GraphInv

\* What is claimed of the end of the search does not depend on what follows.
LEMMA JudgedStays ==
    ASSUME SearchSound, phase \notin {"validate", "search", "rejected"},
           phase' \notin {"validate", "search", "rejected"}, UNCHANGED dependsOn
    PROVE  SearchSound'
<1>1. WellDefined /\ Acyclic BY DEF SearchSound, RejectsExactlyBadGraphs
<1>2. \A s : Deps(s)' = Deps(s) BY DEF Deps, Elements
<1>3. WellDefined' /\ Acyclic' BY <1>1, <1>2 DEF WellDefined, Acyclic
<1> QED BY <1>3 DEF SearchSound, RejectsExactlyBadGraphs

LEMMA DroppedStays ==
    ASSUME DropsOnlyDoubleDependents, phase \in {"group", "done"},
           UNCHANGED <<dependsOn, order>>
    PROVE  DropsOnlyDoubleDependents'
<1>1. \A s : Deps(s)' = Deps(s) BY DEF Deps, Elements
<1>2. \A s : Needs(s)' = Needs(s) BY <1>1 DEF Needs
<1>3. \A s : ListsTwice(s)' = ListsTwice(s) BY <1>1 DEF ListsTwice
<1>4. Elements(order)' = Elements(order) BY DEF Elements
<1>5. Elements(order) = {s \in Steps : \A x \in Needs(s) : ~ ListsTwice(x)}
  BY DEF DropsOnlyDoubleDependents
<1> QED BY <1>2, <1>3, <1>4, <1>5 DEF DropsOnlyDoubleDependents

LEMMA GraphKept == GraphInv /\ [DagNext]_dagVars => GraphInv'
<1> SUFFICES ASSUME GraphInv, [DagNext]_dagVars PROVE GraphInv' OBVIOUS
<1>1. DagInv /\ DagTypes /\ SearchSound /\ Queued /\ DropsOnlyDoubleDependents
  BY DEF GraphInv, DagInv
<1>2. DagInv' BY <1>1, StepInv
<1>3. phase = "search" => WellDefined BY <1>1 DEF DagInv, Untouched
<1>4. CASE UndefinedDependency \/ DependenciesDefined \/ VisitRoot
           \/ LookAtDependency \/ LeaveVisit
  <2>1. SearchSound'
    BY <1>1, <1>3, <1>4, ValidateSound, VisitRootSound, LookSound, LeaveSound
       DEF LookAtDependency
  <2>2. phase' \in {"search", "rejected"}
    BY <1>4 DEF UndefinedDependency, DependenciesDefined, VisitRoot, LookAtDependency, LeaveVisit
  <2> QED BY <1>2, <2>1, <2>2 DEF GraphInv, Queued, DropsOnlyDoubleDependents, Sorting
<1>5. CASE StartSort
  <2>1. /\ phase = "search" /\ phase' = "collect" /\ UNCHANGED dependsOn
        /\ stack = <<>> /\ at > Len(StepSeq)
    BY <1>5 DEF StartSort
  <2>2. WellDefined /\ Acyclic BY <1>1, <1>3, <2>1, SearchEnds
  <2>3. \A s : Deps(s)' = Deps(s) BY <2>1 DEF Deps, Elements
  <2>4. WellDefined' /\ Acyclic' BY <2>2, <2>3 DEF WellDefined, Acyclic
  <2>5. SearchSound' BY <2>1, <2>4 DEF SearchSound, RejectsExactlyBadGraphs
  <2> QED
    BY <1>2, <1>5, <2>1, <2>5, StartSortQueues DEF GraphInv, DropsOnlyDoubleDependents
<1>6. CASE CollectRoot \/ TakeStep \/ RelaxStep \/ EndRelax
  <2>1. /\ phase \in Sorting /\ phase' \in Sorting /\ UNCHANGED dependsOn
    BY <1>6 DEF CollectRoot, TakeStep, RelaxStep, EndRelax, Sorting
  <2>2. Queued' BY <1>1, <1>6, CollectQueues, TakeQueues, RelaxQueues, EndRelaxQueues
  <2>3. SearchSound' BY <1>1, <2>1, JudgedStays DEF Sorting
  <2> QED BY <1>2, <2>1, <2>2, <2>3 DEF GraphInv, DropsOnlyDoubleDependents, Sorting
<1>7. CASE StartGroups
  <2>1. /\ phase \in {"collect", "sort"}
        /\ phase = "collect" => at > Len(StepSeq)
        /\ queue = <<>> /\ phase' = "group" /\ UNCHANGED <<dependsOn, order>>
    BY <1>7 DEF StartGroups, sort
  <2>2. WellDefined /\ Acyclic BY <1>1, <2>1 DEF SearchSound, RejectsExactlyBadGraphs
  <2>3. Elements(order) = {s \in Steps : \A x \in Needs(s) : ~ ListsTwice(x)}
    BY <1>1, <2>1, <2>2, LeftOut
  <2>4. \A s : Deps(s)' = Deps(s) BY <2>1 DEF Deps, Elements
  <2>5. \A s : Needs(s)' = Needs(s) BY <2>4 DEF Needs
  <2>6. \A s : ListsTwice(s)' = ListsTwice(s) BY <2>1, <2>4 DEF ListsTwice
  <2>7. Elements(order)' = Elements(order) BY <2>1 DEF Elements
  <2>8. DropsOnlyDoubleDependents'
    BY <2>3, <2>5, <2>6, <2>7 DEF DropsOnlyDoubleDependents
  <2>9. SearchSound' BY <1>1, <2>1, JudgedStays
  <2> QED BY <1>2, <2>1, <2>8, <2>9 DEF GraphInv, Queued, Sorting
<1>8. CASE PlaceStep \/ EndGroups
  <2>1. /\ phase = "group" /\ phase' \in {"group", "done"}
        /\ UNCHANGED <<dependsOn, order>>
    BY <1>8 DEF PlaceStep, EndGroups, sort
  <2>2. SearchSound' /\ DropsOnlyDoubleDependents'
    BY <1>1, <2>1, JudgedStays, DroppedStays
  <2> QED BY <1>2, <2>1, <2>2 DEF GraphInv, Queued, Sorting
<1>9. CASE UNCHANGED dagVars
  <2>1. UNCHANGED <<dependsOn, phase, at, visited, stack, inDegree, queue, order>>
    BY <1>9 DEF dagVars, search, sort
  <2>2. \A s : Deps(s)' = Deps(s) BY <2>1 DEF Deps, Elements
  <2>3. SearchSound'
    <3>1. WellDefined' = WellDefined /\ Acyclic' = Acyclic
      BY <2>2 DEF WellDefined, Acyclic
    <3>2. Path' = Path /\ Finished' = Finished BY <2>1 DEF Path, Finished, RecStack
    <3>3. \A S : WellFounded(S)' = WellFounded(S) BY <2>2 DEF WellFounded
    <3> QED
      BY <1>1, <2>1, <2>2, <3>1, <3>2, <3>3 DEF SearchSound, RejectsExactlyBadGraphs
  <2>4. Queued' BY <1>1, <2>1 DEF Queued, Ahead, Elements
  <2>5. DropsOnlyDoubleDependents'
    BY <1>1, <2>1, DroppedStays DEF DropsOnlyDoubleDependents
  <2> QED BY <1>2, <2>3, <2>4, <2>5 DEF GraphInv
<1> QED BY <1>4, <1>5, <1>6, <1>7, <1>8, <1>9 DEF DagNext

\* GraphJudgedRightly: for every graph of every size, the constructor raises on
\* exactly the graphs that have an undefined dependency or a cycle, and the
\* order leaves out exactly the steps that need one whose list names a
\* dependency twice.
THEOREM GraphsAreJudged == Safety => []GraphJudgedRightly
<1>1. GraphInv => GraphJudgedRightly BY DEF GraphInv, SearchSound, GraphJudgedRightly
<1>2. Safety => []GraphInv BY GraphBegins, GraphKept, PTL DEF Safety
<1> QED BY <1>1, <1>2, PTL

----------------------------------------------------------------------------
(* BrowserSessions.  There have been n + 1 managers, and the last one is the  *)
(* current one.                                                              *)
ToolPlaces ==
    {"new", "open", "store", "use", "close", "fetch", "page", "pop", "ok", "error"}

ToolStates(n) ==
    [at : ToolPlaces, kind : BrowserKinds \cup {"sync"}, op : BrowserOps \cup {"navigate"},
     session : BrowserCalls \cup {NoBrowser}, table : 0..n,
     browser : BrowserCalls \cup {NoBrowser}]

BrowserTypes(n) ==
    /\ browser \in [BrowserCalls -> {"none", "open", "closed"}]
    /\ tables \in [0..n -> SUBSET BrowserCalls]
    /\ tool \in [BrowserCalls -> ToolStates(n)]

\* What is in a table is a session whose call has returned, and in no other.
SessionsApart(n) ==
    /\ \A g \in 0..n : \A b \in tables[g] : tool[b].at = "ok"
    /\ \A g, h \in 0..n : g # h => tables[g] \cap tables[h] = {}

\* What a call is about to close no table has any more.
ClosingOnly(n, c) ==
    /\ tool[c].at \in {"store", "use", "close"} => tool[c].browser \in BrowserCalls
    /\ tool[c].at = "store" => tool[c].browser = c /\ browser[c] = "open"
    /\ tool[c].at = "close" =>
         /\ tool[c].browser = c \/ tool[tool[c].browser].at = "ok"
         /\ \A g \in 0..n : tool[c].browser \notin tables[g]

\* The calls that will store or close an open browser, or have launched it
\* and are using it: a page that another call uses is not in its hands.
Keepers(b) ==
    {c \in BrowserCalls : /\ tool[c].browser = b
                          /\ \/ tool[c].at = "close"
                             \/ tool[c].at \in {"store", "use"} /\ b = c}

BrowserKept(n, b) ==
    /\ browser[b] = "open" =>
         b \in tables[n] \/ b \in abandoned \/ \E c \in BrowserCalls : c \in Keepers(b)
    /\ b \in tables[n] => browser[b] = "open"

ManagersAre(n) ==
    /\ BrowserTypes(n) /\ SessionsApart(n)
    /\ \A c \in BrowserCalls : ClosingOnly(n, c)
    /\ \A b \in BrowserCalls : BrowserKept(n, b)

\* A call that goes on.
LEMMA ToolStateMoves ==
  ASSUME NEW n, NEW r \in ToolStates(n), NEW place \in ToolPlaces
  PROVE  /\ [r EXCEPT !.at = place] \in ToolStates(n)
         /\ [r EXCEPT !.at = place].at = place /\ [r EXCEPT !.at = place].browser = r.browser
BY DEF ToolStates

LEMMA ToolStateIs ==
  ASSUME NEW n, BrowserTypes(n), NEW c \in BrowserCalls
  PROVE  /\ tool[c] \in ToolStates(n) /\ tool[c].table \in 0..n
         /\ tool[c].browser \in BrowserCalls \cup {NoBrowser}
<1>1. tool[c] \in ToolStates(n) BY DEF BrowserTypes
<1> QED BY <1>1 DEF ToolStates

\* One call goes on.
LEMMA ToolGoes ==
  ASSUME NEW n, BrowserTypes(n), NEW c \in BrowserCalls,
         NEW place \in ToolPlaces, tool' = [tool EXCEPT ![c].at = place]
  PROVE  /\ tool' \in [BrowserCalls -> ToolStates(n)]
         /\ tool'[c].at = place /\ tool'[c].browser = tool[c].browser
         /\ \A d \in BrowserCalls \ {c} : tool'[d] = tool[d]
<1>1. PICK old, r : old = tool[c] /\ r = [old EXCEPT !.at = place] OBVIOUS
<1>2. old \in ToolStates(n) BY <1>1, ToolStateIs
<1>3. r \in ToolStates(n) /\ r.at = place /\ r.browser = old.browser
  BY <1>1, <1>2, ToolStateMoves
<1>4. tool' = [tool EXCEPT ![c] = r] BY <1>1
<1> QED BY <1>1, <1>3, <1>4 DEF BrowserTypes

BrowserInv == \E n \in Nat : ManagersAre(n)

LEMMA CurrentIs ==
  ASSUME NEW n \in Nat, DOMAIN tables = 0..n
  PROVE  Current = n
<1>1. n \in DOMAIN tables /\ \A h \in DOMAIN tables : h <= n OBVIOUS
<1>2. \A g \in DOMAIN tables : (\A h \in DOMAIN tables : h <= g) => g = n BY <1>1
<1> QED BY <1>1, <1>2 DEF Current

LEMMA BrowsersStart == BrowserInit => BrowserInv
<1> SUFFICES ASSUME BrowserInit PROVE ManagersAre(0) BY DEF BrowserInv
<1>1. 0..0 = {0} OBVIOUS
<1>2. tables = [g \in 0..0 |-> {}] BY <1>1 DEF BrowserInit
<1>3. BrowserTypes(0)
  <2>1. tool \in [BrowserCalls -> ToolStates(0)]
    BY <1>1 DEF BrowserInit, ToolStates, ToolPlaces
  <2> QED BY <1>2, <2>1 DEF BrowserInit, BrowserTypes
<1>4. SessionsApart(0) /\ \A g \in 0..0 : tables[g] = {} BY <1>2 DEF SessionsApart
<1>5. \A c \in BrowserCalls : ClosingOnly(0, c) /\ BrowserKept(0, c)
  BY <1>2 DEF BrowserInit, ClosingOnly, BrowserKept
<1> QED BY <1>3, <1>4, <1>5 DEF ManagersAre

LEMMA BrowsersHold == BrowserInv => BrowsersAccounted
<1> SUFFICES ASSUME NEW n \in Nat, ManagersAre(n) PROVE BrowsersAccounted
  BY DEF BrowserInv
<1>1. Current = n /\ tables[n] \subseteq BrowserCalls
  BY CurrentIs DEF ManagersAre, BrowserTypes
<1>2. ASSUME NEW b \in BrowserCalls, browser[b] = "open"
      PROVE  b \in tables[Current] \cup InHand \cup abandoned
  <2>1. ASSUME NEW c \in BrowserCalls, c \in Keepers(b) PROVE b \in InHand
    BY <2>1 DEF Keepers, InHand
  <2> QED BY <1>1, <1>2, <2>1 DEF ManagersAre, BrowserKept
<1> QED BY <1>1, <1>2 DEF BrowsersAccounted, ManagersAre, BrowserKept

----------------------------------------------------------------------------
\* A call that changes only its own record, and leaves the browsers and the
\* tables alone.
LEMMA ToolMoves ==
  ASSUME NEW n \in Nat, ManagersAre(n), NEW c \in BrowserCalls,
         UNCHANGED <<browser, tables>>, abandoned \subseteq abandoned',
         tool' \in [BrowserCalls -> ToolStates(n)],
         \A d \in BrowserCalls \ {c} : tool'[d] = tool[d],
         tool[c].at # "ok",
         tool'[c].at # "store",
         tool'[c].at = "use" => tool'[c].browser \in BrowserCalls,
         tool'[c].at = "close" => tool'[c].browser = c,
         \A b \in BrowserCalls : c \in Keepers(b) => c \in Keepers(b)' \/ b \in abandoned'
  PROVE  ManagersAre(n)'
<1>1. BrowserTypes(n)' BY DEF ManagersAre, BrowserTypes
<1>2. SessionsApart(n)'
  <2>1. ASSUME NEW g \in 0..n, NEW b \in tables[g] PROVE tool'[b].at = "ok"
    <3>1. b \in BrowserCalls /\ tool[b].at = "ok"
      BY DEF ManagersAre, SessionsApart, BrowserTypes
    <3> QED BY <3>1
  <2> QED BY <2>1 DEF ManagersAre, SessionsApart
<1>3. ASSUME NEW d \in BrowserCalls PROVE ClosingOnly(n, d)'
  <2>1. ClosingOnly(n, d) BY DEF ManagersAre
  <2>2. CASE d = c
    <3>1. \A g \in 0..n : c \notin tables[g] BY DEF ManagersAre, SessionsApart
    <3> QED BY <2>2, <3>1 DEF ClosingOnly
  <2>3. CASE d # c
    <3>1. tool'[d] = tool[d] BY <2>3
    <3>2. tool[d].at = "close" /\ tool[d].browser # d => tool[d].browser # c
      BY <2>1 DEF ClosingOnly
    <3>3. tool[d].at = "close" => tool[d].browser \in BrowserCalls
      BY <2>1 DEF ClosingOnly
    <3> QED BY <2>1, <3>1, <3>2, <3>3 DEF ClosingOnly
  <2> QED BY <2>2, <2>3
<1>4. ASSUME NEW b \in BrowserCalls PROVE BrowserKept(n, b)'
  <2>1. BrowserKept(n, b) BY DEF ManagersAre
  <2>2. ASSUME NEW d \in BrowserCalls, d \in Keepers(b)
        PROVE  d \in Keepers(b)' \/ b \in abandoned'
    <3>1. CASE d = c BY <2>2, <3>1
    <3>2. CASE d # c BY <2>2, <3>2 DEF Keepers
    <3> QED BY <3>1, <3>2
  <2> QED BY <2>1, <2>2 DEF BrowserKept
<1> QED BY <1>1, <1>2, <1>3, <1>4 DEF ManagersAre

\* Calls that begin, fail, look for a page, use one, or do without a browser.
LEMMA CallsKeep ==
  ASSUME NEW n \in Nat, ManagersAre(n), NEW c \in BrowserCalls,
         \/ \E kind \in BrowserKinds, op \in BrowserOps, session \in KnownSessions \cup {NoBrowser} :
              InvokeBrowser(c, kind, op, session)
         \/ RefuseBrowser(c) \/ OpenFails(c) \/ FindPage(c) \/ Use(c) \/ Fetch(c)
  PROVE  ManagersAre(n)'
<1>0. BrowserTypes(n) /\ SessionsApart(n) /\ ClosingOnly(n, c) /\ Current = n
  BY CurrentIs DEF ManagersAre, BrowserTypes
<1>1. CASE RefuseBrowser(c) \/ Fetch(c)
  <2>1. PICK end \in {"ok", "error"} : tool' = [tool EXCEPT ![c].at = end]
    BY <1>1 DEF RefuseBrowser, Fetch, GoTo
  <2>2. UNCHANGED <<browser, tables, abandoned>> /\ tool[c].at \in {"new", "fetch"}
    BY <1>1 DEF RefuseBrowser, Fetch
  <2>3. end \in ToolPlaces BY DEF ToolPlaces
  <2>4. \A b \in BrowserCalls : c \notin Keepers(b) BY <2>2 DEF Keepers
  <2> QED BY <1>0, <2>1, <2>2, <2>3, <2>4, ToolGoes, ToolMoves
<1>2. CASE OpenFails(c)
  <2>1. /\ tool' = [tool EXCEPT ![c].at = "error"] /\ abandoned' = abandoned \cup {c}
        /\ UNCHANGED <<browser, tables>> /\ tool[c].at = "store"
    BY <1>2 DEF OpenFails, GoTo
  <2>2. \A b \in BrowserCalls : c \in Keepers(b) => b \in abandoned'
    BY <1>0, <2>1 DEF Keepers
  <2>3. "error" \in ToolPlaces BY DEF ToolPlaces
  <2>4. /\ tool' \in [BrowserCalls -> ToolStates(n)] /\ tool'[c].at = "error"
        /\ \A d \in BrowserCalls \ {c} : tool'[d] = tool[d]
    BY <1>0, <2>1, <2>3, ToolGoes
  <2> QED BY <2>1, <2>2, <2>4, ToolMoves
<1>3. ASSUME NEW kind \in BrowserKinds, NEW op \in BrowserOps,
             NEW session \in KnownSessions \cup {NoBrowser},
             InvokeBrowser(c, kind, op, session)
      PROVE  ManagersAre(n)'
  <2>1. PICK d : d = Dispatched(kind, op, session) OBVIOUS
  <2>2. d \in {"open", "pop", "page", "fetch"} BY <2>1 DEF Dispatched, SessionOps
  <2>3. tool' = [tool EXCEPT ![c] =
          [at |-> d, kind |-> kind, op |-> op,
           session |-> session, table |-> n, browser |-> NoBrowser]]
    BY <1>0, <1>3, <2>1 DEF InvokeBrowser
  <2>4. UNCHANGED <<browser, tables, abandoned>> /\ tool[c].at = "new"
    BY <1>3 DEF InvokeBrowser
  <2>5. session \in BrowserCalls \cup {NoBrowser} BY DEF KnownSessions
  <2>6. tool' \in [BrowserCalls -> ToolStates(n)]
    <3>1. PICK r : r = [at |-> d, kind |-> kind, op |-> op,
                        session |-> session, table |-> n, browser |-> NoBrowser]
      OBVIOUS
    <3>2. r \in ToolStates(n) BY <2>2, <2>5, <3>1 DEF ToolStates, ToolPlaces
    <3> QED BY <1>0, <2>3, <3>1, <3>2 DEF BrowserTypes
  <2>7. tool'[c].at \notin {"store", "use", "close"} /\ \A e \in BrowserCalls \ {c} : tool'[e] = tool[e]
    BY <1>0, <2>2, <2>3 DEF BrowserTypes
  <2>8. \A b \in BrowserCalls : c \notin Keepers(b) BY <2>4 DEF Keepers
  <2> QED BY <2>4, <2>6, <2>7, <2>8, ToolMoves
<1>4. CASE FindPage(c)
  <2>1. PICK s : s = tool[c].session OBVIOUS
  <2>2. UNCHANGED <<browser, tables, abandoned>> /\ tool[c].at = "page"
    BY <1>4 DEF FindPage
  <2>3. \A b \in BrowserCalls : c \notin Keepers(b) BY <2>2 DEF Keepers
  <2>4. CASE s \in tables[tool[c].table]
    <3>1. s \in BrowserCalls
      <4>1. tool[c].table \in 0..n BY <1>0, ToolStateIs
      <4> QED BY <1>0, <2>4, <4>1 DEF BrowserTypes
    <3>2. PICK old, r : old = tool[c] /\ r = [old EXCEPT !.at = "use", !.browser = s]
      OBVIOUS
    <3>3. tool' = [tool EXCEPT ![c] = r]
      BY <1>0, <1>4, <2>1, <2>4, <3>2 DEF FindPage, BrowserTypes
    <3>4. /\ r \in ToolStates(n)
          /\ r.at = "use" /\ r.browser = s
      <4>1. old \in ToolStates(n) /\ "use" \in ToolPlaces
        BY <1>0, <3>2, ToolStateIs DEF ToolPlaces
      <4> QED BY <3>1, <3>2, <4>1 DEF ToolStates
    <3> QED BY <1>0, <2>2, <2>3, <3>1, <3>3, <3>4, ToolMoves DEF BrowserTypes
  <2>5. CASE s \notin tables[tool[c].table]
    <3>1. tool' = [tool EXCEPT ![c].at = "error"] BY <1>4, <2>1, <2>5 DEF FindPage
    <3>2. /\ tool' \in [BrowserCalls -> ToolStates(n)] /\ tool'[c].at = "error"
          /\ \A d \in BrowserCalls \ {c} : tool'[d] = tool[d]
      <4>1. "error" \in ToolPlaces BY DEF ToolPlaces
      <4> QED BY <1>0, <3>1, <4>1, ToolGoes
    <3> QED BY <2>2, <2>3, <3>2, ToolMoves
  <2> QED BY <2>4, <2>5
<1>5. CASE Use(c)
  <2>1. PICK own : own = (tool[c].browser = c) OBVIOUS
  <2>2. UNCHANGED <<browser, tables>> /\ tool[c].at = "use" /\ abandoned \subseteq abandoned'
    BY <1>5 DEF Use
  <2>3. CASE tool[c].browser = c /\ ClosesItsOwn(c)
    <3>1. tool' = [tool EXCEPT ![c].at = "close"] BY <1>5, <2>3 DEF Use, GoTo
    <3>2. /\ tool' \in [BrowserCalls -> ToolStates(n)] /\ tool'[c].at = "close"
          /\ \A d \in BrowserCalls \ {c} : tool'[d] = tool[d]
          /\ tool'[c].browser = c
      <4>1. "close" \in ToolPlaces BY DEF ToolPlaces
      <4> QED BY <1>0, <2>3, <3>1, <4>1, ToolGoes
    <3>3. \A b \in BrowserCalls : c \in Keepers(b) => c \in Keepers(b)'
      BY <2>3, <3>2 DEF Keepers
    <3> QED BY <2>2, <3>2, <3>3, ToolMoves
  <2>4. CASE ~(tool[c].browser = c /\ ClosesItsOwn(c))
    <3>1. PICK end \in {"ok", "error"} : tool' = [tool EXCEPT ![c].at = end]
      BY <1>5, <2>4 DEF Use, GoTo
    <3>2. \A b \in BrowserCalls : c \in Keepers(b) => b \in abandoned'
      BY <1>5, <2>2, <2>4 DEF Use, Keepers
    <3>3. /\ tool' \in [BrowserCalls -> ToolStates(n)] /\ tool'[c].at = end
          /\ \A d \in BrowserCalls \ {c} : tool'[d] = tool[d]
      <4>1. end \in ToolPlaces BY DEF ToolPlaces
      <4> QED BY <1>0, <3>1, <4>1, ToolGoes
    <3> QED BY <2>2, <3>2, <3>3, ToolMoves
  <2> QED BY <2>3, <2>4
<1> QED BY <1>1, <1>2, <1>3, <1>4, <1>5

LEMMA OpenBrowserKeeps ==
  ASSUME NEW n \in Nat, ManagersAre(n), NEW c \in BrowserCalls, Open(c)
  PROVE  ManagersAre(n)'
<1>0. BrowserTypes(n) /\ SessionsApart(n) BY DEF ManagersAre
<1>1. UNCHANGED <<tables, abandoned>> /\ tool[c].at = "open" BY DEF Open
<1>2. CASE GoTo(c, "error") /\ UNCHANGED browser
  <2>1. "error" \in ToolPlaces /\ tool' = [tool EXCEPT ![c].at = "error"]
    BY <1>2 DEF ToolPlaces, GoTo
  <2>2. /\ tool' \in [BrowserCalls -> ToolStates(n)] /\ tool'[c].at = "error"
        /\ \A d \in BrowserCalls \ {c} : tool'[d] = tool[d]
    BY <1>0, <2>1, ToolGoes
  <2>3. \A b \in BrowserCalls : c \notin Keepers(b) BY <1>1 DEF Keepers
  <2> QED BY <1>1, <1>2, <2>2, <2>3, ToolMoves
<1>3. CASE /\ browser' = [browser EXCEPT ![c] = "open"]
           /\ tool' = [tool EXCEPT ![c].browser = c,
                        ![c].at = IF tool[c].op = "create_session" THEN "store" ELSE "use"]
  <2>1. PICK place, old, r :
          /\ place = (IF tool[c].op = "create_session" THEN "store" ELSE "use")
          /\ old = tool[c] /\ r = [old EXCEPT !.at = place, !.browser = c]
    OBVIOUS
  <2>2. tool' = [tool EXCEPT ![c] = r] BY <1>0, <1>3, <2>1 DEF BrowserTypes
  <2>3. /\ r \in ToolStates(n)
        /\ r.at \in {"store", "use"} /\ r.browser = c
    <3>1. old \in ToolStates(n) /\ place \in {"store", "use"} /\ place \in ToolPlaces
      BY <1>0, <2>1, ToolStateIs DEF ToolPlaces
    <3> QED BY <2>1, <3>1 DEF ToolStates
  <2>4. /\ BrowserTypes(n)' /\ tool'[c] = r /\ browser'[c] = "open"
        /\ \A d \in BrowserCalls \ {c} : tool'[d] = tool[d] /\ browser'[d] = browser[d]
    <3>1. /\ tool' \in [BrowserCalls -> ToolStates(n)] /\ tool'[c] = r
          /\ \A d \in BrowserCalls \ {c} : tool'[d] = tool[d]
      BY <1>0, <2>2, <2>3 DEF BrowserTypes
    <3>2. /\ browser' \in [BrowserCalls -> {"none", "open", "closed"}] /\ browser'[c] = "open"
          /\ \A d \in BrowserCalls \ {c} : browser'[d] = browser[d]
      BY <1>0, <1>3 DEF BrowserTypes
    <3> QED BY <1>0, <1>1, <3>1, <3>2 DEF BrowserTypes
  <2>5. SessionsApart(n)' /\ \A g \in 0..n : c \notin tables[g]
    BY <1>0, <1>1, <2>4 DEF SessionsApart, BrowserTypes
  <2>6. ASSUME NEW d \in BrowserCalls PROVE ClosingOnly(n, d)'
    <3>1. ClosingOnly(n, d) BY DEF ManagersAre
    <3>2. CASE d = c BY <2>3, <2>4, <3>2 DEF ClosingOnly
    <3>3. CASE d # c
      <4>1. tool'[d] = tool[d] /\ browser'[d] = browser[d] BY <2>4, <3>3
      <4>2. tool[d].at = "close" => tool[d].browser # c
        BY <1>1, <3>1, <3>3 DEF ClosingOnly
      <4> QED BY <1>1, <2>4, <3>1, <4>1, <4>2 DEF ClosingOnly
    <3> QED BY <3>2, <3>3
  <2>7. ASSUME NEW b \in BrowserCalls PROVE BrowserKept(n, b)'
    <3>1. CASE b = c
      <4>1. c \in Keepers(c)' BY <2>3, <2>4 DEF Keepers
      <4> QED BY <2>4, <3>1, <4>1 DEF BrowserKept
    <3>2. CASE b # c
      <4>1. BrowserKept(n, b) /\ browser'[b] = browser[b] BY <2>4, <3>2 DEF ManagersAre
      <4>2. \A d \in BrowserCalls : d \in Keepers(b) => d \in Keepers(b)'
        BY <1>1, <2>4 DEF Keepers
      <4> QED BY <1>1, <4>1, <4>2 DEF BrowserKept
    <3> QED BY <3>1, <3>2
  <2> QED BY <2>4, <2>5, <2>6, <2>7 DEF ManagersAre
<1> QED BY <1>2, <1>3 DEF Open

LEMMA StoreKeeps ==
  ASSUME NEW n \in Nat, ManagersAre(n), NEW c \in BrowserCalls, StoreSession(c)
  PROVE  ManagersAre(n)'
<1>0. BrowserTypes(n) /\ SessionsApart(n) /\ ClosingOnly(n, c) /\ Current = n
  BY CurrentIs DEF ManagersAre, BrowserTypes
<1>1. PICK t : t = tool[c].table /\ t \in 0..n BY <1>0, ToolStateIs
<1>2. /\ tool[c].at = "store" /\ UNCHANGED browser
      /\ tables' = [tables EXCEPT ![t] = @ \cup {c}]
      /\ abandoned' = IF t = n THEN abandoned ELSE abandoned \cup {c}
      /\ tool' = [tool EXCEPT ![c].at = "ok"]
  BY <1>0, <1>1 DEF StoreSession, GoTo
<1>3. /\ BrowserTypes(n)' /\ tool'[c].at = "ok" /\ tool'[c].browser = tool[c].browser
      /\ \A d \in BrowserCalls \ {c} : tool'[d] = tool[d]
      /\ \A g \in 0..n : tables'[g] = IF g = t THEN tables[g] \cup {c} ELSE tables[g]
  <2>1. "ok" \in ToolPlaces BY DEF ToolPlaces
  <2>2. /\ tool' \in [BrowserCalls -> ToolStates(n)] /\ tool'[c].at = "ok"
        /\ tool'[c].browser = tool[c].browser
        /\ \A d \in BrowserCalls \ {c} : tool'[d] = tool[d]
    BY <1>0, <1>2, <2>1, ToolGoes
  <2>3. /\ tables' \in [0..n -> SUBSET BrowserCalls]
        /\ \A g \in 0..n : tables'[g] = IF g = t THEN tables[g] \cup {c} ELSE tables[g]
    BY <1>0, <1>2 DEF BrowserTypes
  <2> QED BY <1>0, <1>2, <2>2, <2>3 DEF BrowserTypes
<1>4. \A g \in 0..n : c \notin tables[g] BY <1>0, <1>2 DEF SessionsApart
<1>5. SessionsApart(n)'
  <2>1. ASSUME NEW g \in 0..n, NEW b \in tables'[g] PROVE tool'[b].at = "ok"
    BY <1>0, <1>3 DEF SessionsApart, BrowserTypes
  <2>2. ASSUME NEW g \in 0..n, NEW h \in 0..n, g # h PROVE tables'[g] \cap tables'[h] = {}
    <3>1. tables[g] \cap tables[h] = {} /\ c \notin tables[g] /\ c \notin tables[h]
      BY <1>0, <1>4, <2>2 DEF SessionsApart
    <3> QED BY <1>3, <2>2, <3>1
  <2> QED BY <2>1, <2>2 DEF SessionsApart
<1>6. ASSUME NEW d \in BrowserCalls PROVE ClosingOnly(n, d)'
  <2>1. ClosingOnly(n, d) BY DEF ManagersAre
  <2>2. CASE d = c BY <1>3, <2>2 DEF ClosingOnly
  <2>3. CASE d # c
    <3>1. tool'[d] = tool[d] /\ browser'[d] = browser[d] BY <1>2, <1>3, <2>3
    <3>2. tool[d].at = "close" => tool[d].browser # c
      BY <1>2, <2>1, <2>3 DEF ClosingOnly
    <3> QED BY <1>3, <2>1, <3>1, <3>2 DEF ClosingOnly
  <2> QED BY <2>2, <2>3
<1>7. ASSUME NEW b \in BrowserCalls PROVE BrowserKept(n, b)'
  <2>1. BrowserKept(n, b) /\ n \in 0..n BY DEF ManagersAre
  <2>2. CASE b = c BY <1>0, <1>2, <1>3, <2>1, <2>2 DEF BrowserKept, ClosingOnly
  <2>3. CASE b # c
    <3>1. \A d \in BrowserCalls : d \in Keepers(b) => d \in Keepers(b)'
      BY <1>0, <1>2, <1>3, <2>3 DEF Keepers, ClosingOnly
    <3> QED BY <1>2, <1>3, <2>1, <2>3, <3>1 DEF BrowserKept
  <2> QED BY <2>2, <2>3
<1> QED BY <1>3, <1>5, <1>6, <1>7 DEF ManagersAre

\* What is to be closed is closed or abandoned.
LEMMA ClosingSome ==
  ASSUME NEW n, BrowserTypes(n), NEW gone, \E left \in SUBSET gone : Close(gone, left)
  PROVE  /\ browser' \in [BrowserCalls -> {"none", "open", "closed"}]
         /\ \A b \in BrowserCalls :
              browser'[b] = browser[b] \/ (b \in gone /\ browser'[b] = "closed")
         /\ abandoned \subseteq abandoned'
         /\ \A b \in BrowserCalls \cap gone : browser'[b] = "closed" \/ b \in abandoned'
<1>1. PICK left \in SUBSET gone : browser' = Closed(browser, gone \ left)
                                /\ abandoned' = abandoned \cup left
  BY DEF Close
<1> QED BY <1>1 DEF BrowserTypes, Closed

LEMMA CloseOwnKeeps ==
  ASSUME NEW n \in Nat, ManagersAre(n), NEW c \in BrowserCalls, CloseOwn(c)
  PROVE  ManagersAre(n)'
<1>0. BrowserTypes(n) /\ SessionsApart(n) /\ ClosingOnly(n, c) BY DEF ManagersAre
<1>1. PICK gone : gone = tool[c].browser OBVIOUS
<1>2. /\ tool[c].at = "close" /\ UNCHANGED tables
      /\ \E left \in SUBSET {gone} : Close({gone}, left)
      /\ tool' = [tool EXCEPT ![c].at = "ok"]
      /\ gone \in BrowserCalls /\ \A g \in 0..n : gone \notin tables[g]
  BY <1>0, <1>1 DEF CloseOwn, GoTo, ClosingOnly
<1>3. /\ \A b \in BrowserCalls :
           browser'[b] = browser[b] \/ (b = gone /\ browser'[b] = "closed")
      /\ browser' \in [BrowserCalls -> {"none", "open", "closed"}]
      /\ abandoned \subseteq abandoned'
      /\ browser'[gone] = "closed" \/ gone \in abandoned'
  BY <1>0, <1>2, ClosingSome
<1>4. /\ BrowserTypes(n)' /\ tool'[c].at = "ok" /\ tool'[c].browser = tool[c].browser
      /\ \A d \in BrowserCalls \ {c} : tool'[d] = tool[d]
  <2>1. "ok" \in ToolPlaces BY DEF ToolPlaces
  <2> QED BY <1>0, <1>2, <1>3, <2>1, ToolGoes DEF BrowserTypes
<1>5. SessionsApart(n)' BY <1>0, <1>2, <1>4 DEF SessionsApart, BrowserTypes
<1>6. ASSUME NEW d \in BrowserCalls PROVE ClosingOnly(n, d)'
  <2>1. ClosingOnly(n, d) BY DEF ManagersAre
  <2>2. CASE d = c BY <1>4, <2>2 DEF ClosingOnly
  <2>3. CASE d # c
    <3>1. tool[d].at = "store" => gone # d BY <1>0, <1>1, <1>2, <2>3 DEF ClosingOnly
    <3>2. tool'[d] = tool[d] BY <1>4, <2>3
    <3> QED BY <1>2, <1>3, <1>4, <2>1, <3>1, <3>2 DEF ClosingOnly
  <2> QED BY <2>2, <2>3
<1>7. ASSUME NEW b \in BrowserCalls PROVE BrowserKept(n, b)'
  <2>1. BrowserKept(n, b) /\ n \in 0..n BY DEF ManagersAre
  <2>2. CASE b = gone BY <1>2, <1>3, <2>1, <2>2 DEF BrowserKept
  <2>3. CASE b # gone
    <3>1. \A d \in BrowserCalls : d \in Keepers(b) => d \in Keepers(b)'
      BY <1>1, <1>4, <2>3 DEF Keepers
    <3> QED BY <1>2, <1>3, <2>1, <2>3, <3>1 DEF BrowserKept
  <2> QED BY <2>2, <2>3
<1> QED BY <1>4, <1>5, <1>6, <1>7 DEF ManagersAre

LEMMA PopKeeps ==
  ASSUME NEW n \in Nat, ManagersAre(n), NEW c \in BrowserCalls, PopSession(c)
  PROVE  ManagersAre(n)'
<1>0. BrowserTypes(n) /\ SessionsApart(n) /\ ClosingOnly(n, c) BY DEF ManagersAre
<1>1. PICK t, s, old : t = tool[c].table /\ s = tool[c].session /\ old = tool[c] /\ t \in 0..n
  BY <1>0, ToolStateIs
<1>2. /\ tool[c].at = "pop" /\ UNCHANGED <<browser, abandoned>>
      /\ tables' = [tables EXCEPT ![t] = @ \ {s}]
  BY <1>1 DEF PopSession
<1>3. /\ tables' \in [0..n -> SUBSET BrowserCalls]
      /\ \A g \in 0..n : tables'[g] = IF g = t THEN tables[g] \ {s} ELSE tables[g]
  BY <1>0, <1>2 DEF BrowserTypes
<1>4. PICK place, b0, r :
        /\ place = (IF s \in tables[t] THEN "close" ELSE "ok")
        /\ b0 = (IF s \in tables[t] THEN s ELSE tool[c].browser)
        /\ r = [old EXCEPT !.at = place, !.browser = b0]
  OBVIOUS
<1>5. b0 \in BrowserCalls \cup {NoBrowser} /\ place \in {"close", "ok"} /\ old \in ToolStates(n)
  <2>1. s \in tables[t] => s \in BrowserCalls BY <1>0, <1>1 DEF BrowserTypes
  <2> QED BY <1>0, <1>1, <1>4, <2>1, ToolStateIs
<1>6. tool' = [tool EXCEPT ![c] = r]
  <2>1. CASE s \in tables[t] BY <1>0, <1>1, <1>4, <2>1 DEF PopSession, BrowserTypes
  <2>2. CASE s \notin tables[t] BY <1>0, <1>1, <1>4, <2>2 DEF PopSession, BrowserTypes
  <2> QED BY <2>1, <2>2
<1>7. /\ r \in ToolStates(n)
      /\ r.at = place /\ r.browser = b0
  <2>1. place \in ToolPlaces BY <1>5 DEF ToolPlaces
  <2> QED BY <1>4, <1>5, <2>1 DEF ToolStates
<1>8. /\ BrowserTypes(n)' /\ tool'[c] = r
      /\ \A d \in BrowserCalls \ {c} : tool'[d] = tool[d]
  BY <1>0, <1>2, <1>3, <1>6, <1>7 DEF BrowserTypes
<1>9. \A g \in 0..n : c \notin tables[g] BY <1>0, <1>2 DEF SessionsApart
<1>10. SessionsApart(n)'
  <2>1. ASSUME NEW g \in 0..n, NEW b \in tables'[g] PROVE tool'[b].at = "ok"
    <3>1. b \in tables[g] /\ b \in BrowserCalls BY <1>0, <1>3 DEF BrowserTypes
    <3> QED BY <1>0, <1>8, <1>9, <3>1 DEF SessionsApart
  <2>2. ASSUME NEW g \in 0..n, NEW h \in 0..n, g # h PROVE tables'[g] \cap tables'[h] = {}
    BY <1>0, <1>3, <2>2 DEF SessionsApart
  <2> QED BY <2>1, <2>2 DEF SessionsApart
<1>11. ASSUME NEW d \in BrowserCalls PROVE ClosingOnly(n, d)'
  <2>1. ClosingOnly(n, d) BY DEF ManagersAre
  <2>2. CASE d = c
    <3>1. CASE s \in tables[t]
      <4>1. s \in BrowserCalls /\ s # c /\ tool[s].at = "ok"
        BY <1>0, <1>1, <1>9, <3>1 DEF SessionsApart, BrowserTypes
      <4>2. \A g \in 0..n : s \notin tables'[g]
        <5>1. ASSUME NEW g \in 0..n, g # t PROVE s \notin tables[g]
          BY <1>0, <1>1, <3>1, <5>1 DEF SessionsApart
        <5> QED BY <1>3, <5>1
      <4>3. tool'[s].at = "ok" /\ tool'[d].at = "close" /\ tool'[d].browser = s
        BY <1>4, <1>7, <1>8, <2>2, <3>1, <4>1
      <4> QED BY <4>1, <4>2, <4>3 DEF ClosingOnly
    <3>2. CASE s \notin tables[t] BY <1>4, <1>7, <1>8, <2>2, <3>2 DEF ClosingOnly
    <3> QED BY <3>1, <3>2
  <2>3. CASE d # c
    <3>1. tool'[d] = tool[d] BY <1>8, <2>3
    <3>2. tool[d].at = "close" => tool[d].browser # c /\ tool[d].browser \in BrowserCalls
      BY <1>2, <2>1, <2>3 DEF ClosingOnly
    <3> QED BY <1>2, <1>3, <1>8, <2>1, <3>1, <3>2 DEF ClosingOnly
  <2> QED BY <2>2, <2>3
<1>12. ASSUME NEW b \in BrowserCalls PROVE BrowserKept(n, b)'
  <2>1. BrowserKept(n, b) /\ n \in 0..n BY DEF ManagersAre
  <2>2. \A d \in BrowserCalls : d \in Keepers(b) => d \in Keepers(b)'
    BY <1>2, <1>8 DEF Keepers
  <2>3. b \in tables[n] => b \in tables'[n] \/ c \in Keepers(b)'
    <3>1. CASE b \in tables[n] /\ b \notin tables'[n]
      <4>1. b = s /\ s \in tables[t] BY <1>3, <2>1, <3>1
      <4> QED BY <1>4, <1>7, <1>8, <4>1 DEF Keepers
    <3> QED BY <3>1
  <2>4. b \in tables'[n] => b \in tables[n] BY <1>3
  <2> QED BY <1>2, <2>1, <2>2, <2>3, <2>4 DEF BrowserKept
<1> QED BY <1>8, <1>10, <1>11, <1>12 DEF ManagersAre

LEMMA CloseAllKeeps ==
  ASSUME NEW n \in Nat, ManagersAre(n), CloseAll
  PROVE  ManagersAre(n)'
<1>0. BrowserTypes(n) /\ SessionsApart(n) /\ Current = n /\ n \in 0..n
  BY CurrentIs DEF ManagersAre, BrowserTypes
<1>1. /\ UNCHANGED tool /\ \E left \in SUBSET tables[n] : Close(tables[n], left)
      /\ tables' = [tables EXCEPT ![n] = {}]
  BY <1>0 DEF CloseAll
<1>2. /\ browser' \in [BrowserCalls -> {"none", "open", "closed"}]
      /\ \A b \in BrowserCalls :
           browser'[b] = browser[b] \/ (b \in tables[n] /\ browser'[b] = "closed")
      /\ abandoned \subseteq abandoned'
      /\ \A b \in BrowserCalls \cap tables[n] : browser'[b] = "closed" \/ b \in abandoned'
  BY <1>0, <1>1, ClosingSome
<1>3. /\ tables' \in [0..n -> SUBSET BrowserCalls]
      /\ \A g \in 0..n : tables'[g] = IF g = n THEN {} ELSE tables[g]
  BY <1>0, <1>1 DEF BrowserTypes
<1>4. BrowserTypes(n)' BY <1>0, <1>1, <1>2, <1>3 DEF BrowserTypes
<1>5. SessionsApart(n)' BY <1>0, <1>1, <1>3 DEF SessionsApart
<1>6. ASSUME NEW d \in BrowserCalls PROVE ClosingOnly(n, d)'
  BY <1>0, <1>1, <1>2, <1>3 DEF ManagersAre, ClosingOnly, SessionsApart
<1>7. ASSUME NEW b \in BrowserCalls PROVE BrowserKept(n, b)'
  BY <1>0, <1>1, <1>2, <1>3 DEF ManagersAre, BrowserKept, Keepers
<1> QED BY <1>4, <1>5, <1>6, <1>7 DEF ManagersAre

\* The next manager is the current one, and has nothing.
LEMMA ResetKeeps ==
  ASSUME NEW n \in Nat, ManagersAre(n), NEW c \in BrowserCalls, Reset(c)
  PROVE  ManagersAre(n + 1)'
<1>0. BrowserTypes(n) /\ SessionsApart(n) /\ Current = n /\ n \in 0..n /\ DOMAIN tables = 0..n
  BY CurrentIs DEF ManagersAre, BrowserTypes
<1>1. PICK m : m = n + 1 OBVIOUS
<1>2. m \in Nat /\ 0..m = 0..n \cup {m} /\ m \notin 0..n /\ m # n BY <1>1
<1>3. /\ \E left \in SUBSET tables[n] : Close(tables[n], left)
      /\ tables' = [g \in 0..m |-> IF g \in 0..n \ {n} THEN tables[g] ELSE {}]
      /\ tool' = [tool EXCEPT ![c].at = "ok"] /\ tool[c].at = "new"
  BY <1>0, <1>1, <1>2 DEF Reset, GoTo
<1>4. /\ browser' \in [BrowserCalls -> {"none", "open", "closed"}]
      /\ \A b \in BrowserCalls :
           browser'[b] = browser[b] \/ (b \in tables[n] /\ browser'[b] = "closed")
      /\ abandoned \subseteq abandoned'
      /\ \A b \in BrowserCalls \cap tables[n] : browser'[b] = "closed" \/ b \in abandoned'
  BY <1>0, <1>3, ClosingSome
<1>5. /\ tables' \in [0..m -> SUBSET BrowserCalls]
      /\ \A g \in 0..m : tables'[g] = {} \/ (g \in 0..n \ {n} /\ tables'[g] = tables[g])
      /\ tables'[m] = {}
  BY <1>0, <1>2, <1>3 DEF BrowserTypes
<1>6. /\ BrowserTypes(m)' /\ tool'[c].at = "ok"
      /\ \A d \in BrowserCalls \ {c} : tool'[d] = tool[d]
  <2>1. "ok" \in ToolPlaces BY DEF ToolPlaces
  <2>2. /\ tool' \in [BrowserCalls -> ToolStates(n)] /\ tool'[c].at = "ok"
        /\ \A d \in BrowserCalls \ {c} : tool'[d] = tool[d]
    BY <1>0, <1>3, <2>1, ToolGoes
  <2>3. ToolStates(n) \subseteq ToolStates(m) BY <1>2 DEF ToolStates
  <2> QED BY <1>4, <1>5, <2>2, <2>3 DEF BrowserTypes
<1>7. SessionsApart(m)' BY <1>0, <1>5, <1>6 DEF SessionsApart, BrowserTypes
<1>8. ASSUME NEW d \in BrowserCalls PROVE ClosingOnly(m, d)'
  <2>1. ClosingOnly(n, d) BY DEF ManagersAre
  <2>2. CASE d = c BY <1>6, <2>2 DEF ClosingOnly
  <2>3. CASE d # c
    <3>1. tool'[d] = tool[d] BY <1>6, <2>3
    <3>2. tool[d].at = "close" => tool[d].browser # c
      BY <1>3, <2>1, <2>3 DEF ClosingOnly
    <3>3. tool[d].at = "store" => d \notin tables[n] BY <1>0 DEF SessionsApart
    <3> QED BY <1>4, <1>5, <1>6, <2>1, <3>1, <3>2, <3>3 DEF ClosingOnly
  <2> QED BY <2>2, <2>3
<1>9. ASSUME NEW b \in BrowserCalls PROVE BrowserKept(m, b)'
  <2>1. BrowserKept(n, b) BY DEF ManagersAre
  <2>2. \A d \in BrowserCalls : d \in Keepers(b) => d \in Keepers(b)'
    BY <1>3, <1>6 DEF Keepers
  <2> QED BY <1>3, <1>4, <1>5, <2>1, <2>2 DEF BrowserKept
<1> QED BY <1>1, <1>6, <1>7, <1>8, <1>9 DEF ManagersAre

LEMMA BrowsersStep == BrowserInv /\ [BrowserNext]_browserVars => BrowserInv'
<1> SUFFICES ASSUME NEW n \in Nat, ManagersAre(n), [BrowserNext]_browserVars
             PROVE  BrowserInv'
  BY DEF BrowserInv
<1>1. ASSUME ManagersAre(n)' PROVE BrowserInv' BY <1>1 DEF BrowserInv
<1>2. ASSUME NEW c \in BrowserCalls,
             \/ \E kind \in BrowserKinds, op \in BrowserOps,
                   session \in KnownSessions \cup {NoBrowser} : InvokeBrowser(c, kind, op, session)
             \/ RefuseBrowser(c) \/ Open(c) \/ OpenFails(c) \/ StoreSession(c) \/ FindPage(c)
             \/ Use(c) \/ CloseOwn(c) \/ Fetch(c) \/ PopSession(c) \/ Reset(c)
      PROVE  BrowserInv'
  <2>1. CASE Reset(c)
    <3>1. ManagersAre(n + 1)' /\ n + 1 \in Nat BY <2>1, ResetKeeps
    <3> QED BY <3>1 DEF BrowserInv
  <2> QED
    BY <1>1, <1>2, <2>1, CallsKeep, OpenBrowserKeeps, StoreKeeps, CloseOwnKeeps, PopKeeps
<1>3. CASE CloseAll BY <1>1, <1>3, CloseAllKeeps
<1>4. CASE UNCHANGED browserVars
  BY <1>1, <1>4 DEF browserVars, ManagersAre, BrowserTypes, SessionsApart, ClosingOnly,
     BrowserKept, Keepers
<1> QED BY <1>2, <1>3, <1>4 DEF BrowserNext

----------------------------------------------------------------------------
(* CheckCommands.                                                          *)
Ends == {"refused", "unstarted", "zero", "nonzero", "killed", "late", "unread"}

\* The records of a check that ended in one of these ways.
CheckRecords == {[status |-> StatusOf(end), end |-> end] : end \in Ends}

CheckPlaces ==
    {"working", "checking", "starting", "running", "writing", "noting", "judging", "reported",
     "over", "crashed"}

\* A round has begun: its records are the last.
InRound == checkAt \notin {"working", "reported", "over", "crashed"}

Round == records[Len(records)]

RanIn(round) == {n \in DOMAIN round : round[n].end \in {"zero", "nonzero"}}

CheckTypes ==
    /\ checkAt \in CheckPlaces
    /\ command \in CommandKinds
    /\ child \in {"none", "alive", "zero", "nonzero", "killed"}
    /\ records \in Seq(Seq(CheckRecords)) /\ others \subseteq RecordStatuses
    /\ helpers \subseteq [of : Nat \X Nat, piped : BOOLEAN]
    /\ toolCalls \in Seq([of : Nat \X Nat, file : Nat])
    /\ DOMAIN outputs \subseteq Nat /\ outputs \in [DOMAIN outputs -> Nat \X Nat]

\* Where the run is, and what has become of the command.
CheckPlaced ==
    /\ InRound => records # <<>>
    /\ checkAt \in {"working", "checking", "starting", "judging", "reported"} => child = "none"
    /\ checkAt = "running" => child \in {"alive", "zero", "nonzero"}
    /\ checkAt \in {"writing", "noting"} => child \in {"zero", "nonzero"}
    /\ child = "alive" => checkAt \in {"running", "crashed"}
    /\ checkAt \in {"starting", "running"} \/ child = "alive" => ~CommandRefused(command)

\* The file a tool call names was last written by its command or by a later
\* round; within a round, the number of a file is larger every time.
OutputsTold ==
    \A i \in DOMAIN toolCalls :
        LET call == toolCalls[i] IN
        /\ call.file \in DOMAIN outputs
        /\ outputs[call.file] = call.of \/ outputs[call.file][1] > call.of[1]
        /\ call.of[1] <= Len(records)
        /\ call.of[1] = Len(records) => call.file < FileNumber

AboutToNote == checkAt = "noting" => FileNumber \in DOMAIN outputs /\ outputs[FileNumber] = Id

\* A process that holds its output is of a command that has been given up, or
\* of the one at hand; and then the run waits for it, or is no more.
HelperTrue(h) ==
    /\ h.of[1] \in DOMAIN records /\ h.of[2] \in 1 .. Len(records[h.of[1]]) + 1
    /\ h.piped /\ IsRecorded(h.of) => EndOf(h.of) \in {"killed", "late"}
    /\ h.piped /\ h.of = Id => checkAt \in {"running", "over", "crashed"}

ChecksInv ==
    /\ CheckTypes /\ CheckPlaced /\ OutputsTold /\ AboutToNote
    /\ \A h \in helpers : HelperTrue(h)

----------------------------------------------------------------------------
\* Who may run: all four places allow it.
LEMMA Allowed ==
  ASSUME NEW c \in CommandKinds, ~CommandRefused(c)
  PROVE  /\ c.class = "safe" /\ c.word \in SafeCommands
         /\ ~c.denied /\ c.argument = "plain"
<1>1. ~Blocked(c) /\ ~EngineDenies(c) /\ ~ToolRefuses(c) /\ ~SandboxRefuses(c)
  BY DEF CommandRefused
<1>2. c.class = "safe" /\ c.word # Absent /\ c.argument # "forbidden"
  BY <1>1 DEF Blocked, ToolRefuses, SandboxRefuses
<1>3. /\ c \in [class : {"safe", "unsafe"},
                word : {"pytest", "Pytest", "make"}, denied : BOOLEAN,
                argument : {"plain", "forbidden"}]
  BY <1>2 DEF CommandKinds, Nothing
<1>4. PICK word : word = IF c.denied THEN "sudo" ELSE c.word OBVIOUS
<1>5. Evaluate(CodingConfig, CodingContext, Call("shell.execute", "invoke", Absent, word)) # "deny"
  BY <1>1, <1>4 DEF EngineDenies
<1>6. ~Refuses(CodingConfig, CodingContext, Call("shell.execute", "invoke", Absent, word))
  BY <1>5 DEF Evaluate
<1>7. ~CommandRefuses(CodingConfig, Call("shell.execute", "invoke", Absent, word))
  BY <1>6 DEF Refuses
<1>8. word \in SafeCommands /\ word # "sudo"
  <2>1. word # Absent BY <1>3, <1>4 DEF Absent
  <2> QED
    BY <1>7, <2>1 DEF CommandRefuses, CodingConfig, PolicyConfig, Call, SafeCommands
<1> QED BY <1>2, <1>3, <1>4, <1>8

\* How many commands ran among some checks, and what one more adds to them.
LEMMA RanFinite ==
  ASSUME NEW checks \in Seq(CheckRecords)
  PROVE  IsFiniteSet(RanIn(checks)) /\ Cardinality(RanIn(checks)) \in Nat
<1>1. Len(checks) \in Nat /\ DOMAIN checks = 1 .. Len(checks) BY LenProperties
<1>2. IsFiniteSet(1 .. Len(checks)) /\ RanIn(checks) \in SUBSET (1 .. Len(checks))
  BY <1>1, FS_Interval DEF RanIn
<1>3. IsFiniteSet(RanIn(checks)) BY <1>2, FS_Subset
<1> QED BY <1>3, FS_CardinalityType

LEMMA RanAfter ==
  ASSUME NEW checks \in Seq(CheckRecords), NEW x \in CheckRecords
  PROVE  /\ Append(checks, x) \in Seq(CheckRecords)
         /\ Cardinality(RanIn(Append(checks, x))) =
              IF x.end \in {"zero", "nonzero"} THEN Cardinality(RanIn(checks)) + 1
                                               ELSE Cardinality(RanIn(checks))
<1>1. /\ Len(checks) \in Nat /\ DOMAIN checks = 1 .. Len(checks)
      /\ Append(checks, x) \in Seq(CheckRecords) /\ Len(Append(checks, x)) = Len(checks) + 1
      /\ \A i \in 1 .. Len(checks) : Append(checks, x)[i] = checks[i]
      /\ Append(checks, x)[Len(checks) + 1] = x
  BY LenProperties, AppendProperties
<1>2. PICK longer, last : longer = Append(checks, x) /\ last = Len(checks) + 1 OBVIOUS
<1>3. /\ DOMAIN longer = DOMAIN checks \cup {last} /\ last \notin DOMAIN checks
      /\ longer[last] = x /\ \A i \in DOMAIN checks : longer[i] = checks[i]
  BY <1>1, <1>2
<1>4. CASE x.end \in {"zero", "nonzero"}
  <2>1. RanIn(longer) = RanIn(checks) \cup {last} /\ last \notin RanIn(checks)
    BY <1>3, <1>4 DEF RanIn
  <2>2. Cardinality(RanIn(checks) \cup {last}) = Cardinality(RanIn(checks)) + 1
    BY <2>1, RanFinite, FS_AddElement
  <2> QED BY <1>1, <1>2, <1>4, <2>1, <2>2
<1>5. CASE x.end \notin {"zero", "nonzero"}
  <2>1. RanIn(longer) = RanIn(checks) BY <1>3, <1>5 DEF RanIn
  <2> QED BY <1>1, <1>2, <1>5, <2>1
<1> QED BY <1>4, <1>5

\* A check that ended.
LEMMA RecordIs ==
  ASSUME CheckTypes, NEW r \in DOMAIN records, NEW n \in DOMAIN records[r]
  PROVE  /\ records[r][n].status = "passed" <=> records[r][n].end = "zero"
         /\ records[r][n].status = "failed" <=> records[r][n].end = "nonzero"
         /\ records[r][n].status \in RecordStatuses
<1>1. records \in Seq(Seq(CheckRecords)) /\ DOMAIN records = 1 .. Len(records)
  BY LenProperties DEF CheckTypes
<1>2. records[r] \in Seq(CheckRecords) BY <1>1, ElementOfSeq
<1>3. DOMAIN records[r] = 1 .. Len(records[r]) BY <1>2, LenProperties
<1>4. PICK c \in CheckRecords : c = records[r][n] BY <1>2, <1>3, ElementOfSeq
<1>5. /\ c.status = "passed" <=> c.end = "zero"
      /\ c.status = "failed" <=> c.end = "nonzero"
      /\ c.status \in RecordStatuses
  BY DEF CheckRecords, StatusOf, Ends, RecordStatuses
<1> QED BY <1>4, <1>5

\* The summary says failed or passed for what failed or passed.
LEMMA SummaryTells ==
  ASSUME CheckTypes
  PROVE  LET failed == EndedWith("nonzero") \/ "failed" \in others
             passed == EndedWith("zero") \/ "passed" \in others
         IN  /\ VerificationSummary = "failed" <=> failed
             /\ VerificationSummary = "passed" <=> passed /\ ~failed
<1>1. \A r \in DOMAIN records : \A n \in DOMAIN records[r] :
        /\ records[r][n].status = "passed" <=> records[r][n].end = "zero"
        /\ records[r][n].status = "failed" <=> records[r][n].end = "nonzero"
  BY RecordIs
<1> QED BY <1>1 DEF VerificationSummary, EndedWith

\* The round at hand.
LEMMA RoundIs ==
  ASSUME CheckTypes, records # <<>>
  PROVE  /\ Len(records) \in Nat \ {0} /\ DOMAIN records = 1 .. Len(records)
         /\ Len(records) \in DOMAIN records
         /\ Round \in Seq(CheckRecords) /\ Len(Round) \in Nat /\ DOMAIN Round = 1 .. Len(Round)
         /\ Id = <<Len(records), Len(Round) + 1>>
         /\ FileNumber = Cardinality(RanIn(Round)) + 1 /\ FileNumber \in Nat
<1>1. records \in Seq(Seq(CheckRecords)) BY DEF CheckTypes
<1>2. Len(records) \in Nat \ {0} /\ DOMAIN records = 1 .. Len(records)
  BY <1>1, LenProperties, EmptySeq
<1>3. Round \in Seq(CheckRecords) BY <1>1, <1>2, ElementOfSeq DEF Round
<1>4. Len(Round) \in Nat /\ DOMAIN Round = 1 .. Len(Round) BY <1>3, LenProperties
<1>5. FileNumber = Cardinality(RanIn(Round)) + 1 BY DEF FileNumber, RanIn, Round
<1>6. Cardinality(RanIn(Round)) \in Nat BY <1>3, RanFinite
<1> QED BY <1>2, <1>3, <1>4, <1>5, <1>6 DEF Id, Round

\* A round begins.
LEMMA RoundBegins ==
  ASSUME CheckTypes, records' = Append(records, <<>>)
  PROVE  /\ records' \in Seq(Seq(CheckRecords)) /\ records' # <<>>
         /\ Len(records) \in Nat /\ Len(records') = Len(records) + 1
         /\ DOMAIN records = 1 .. Len(records)
         /\ \A r \in DOMAIN records : r \in DOMAIN records' /\ records'[r] = records[r]
         /\ Id' = <<Len(records) + 1, 1>>
<1>1. records \in Seq(Seq(CheckRecords)) BY DEF CheckTypes
<1>2. <<>> \in Seq(CheckRecords) OBVIOUS
<1>3. PICK none : none = <<>> /\ none \in Seq(CheckRecords) BY <1>2
<1>4. records' = Append(records, none) BY <1>3
<1>5. Len(records) \in Nat /\ DOMAIN records = 1 .. Len(records) BY <1>1, LenProperties
<1>6. /\ records' \in Seq(Seq(CheckRecords)) /\ Len(records') = Len(records) + 1
      /\ \A r \in 1 .. Len(records) : records'[r] = records[r]
      /\ records'[Len(records) + 1] = none
  BY <1>1, <1>3, <1>4, AppendProperties
<1>7. DOMAIN records' = 1 .. Len(records') BY <1>6, LenProperties
<1>8. records' # <<>> BY <1>5, <1>6, <1>7
<1>9. Len(none) = 0 BY <1>3, EmptySeq
<1>10. Id' = <<Len(records'), Len(records'[Len(records')]) + 1>> BY DEF Id
<1>11. records'[Len(records')] = none BY <1>6
<1> QED BY <1>5, <1>6, <1>7, <1>8, <1>9, <1>10, <1>11

\* A check of the round has come to an end.
LEMMA CheckRecorded ==
  ASSUME CheckTypes, records # <<>>, NEW end \in Ends,
         records' = [records EXCEPT ![Len(records)] =
                       Append(@, [status |-> StatusOf(end), end |-> end])]
  PROVE  /\ records' \in Seq(Seq(CheckRecords)) /\ records' # <<>>
         /\ Len(records') = Len(records) /\ DOMAIN records' = DOMAIN records
         /\ \A r \in DOMAIN records : r # Len(records) => records'[r] = records[r]
         /\ DOMAIN Round' = 1 .. Len(Round) + 1 /\ Len(Round') = Len(Round) + 1
         /\ \A n \in 1 .. Len(Round) : Round'[n] = Round[n]
         /\ Round'[Len(Round) + 1].end = end
         /\ Id' = <<Len(records), Len(Round) + 2>>
         /\ FileNumber' = IF end \in {"zero", "nonzero"} THEN FileNumber + 1 ELSE FileNumber
<1>1. /\ Len(records) \in Nat \ {0} /\ DOMAIN records = 1 .. Len(records)
      /\ Len(records) \in DOMAIN records
      /\ Round \in Seq(CheckRecords) /\ Len(Round) \in Nat /\ DOMAIN Round = 1 .. Len(Round)
      /\ FileNumber = Cardinality(RanIn(Round)) + 1
  BY RoundIs
<1>2. PICK last, x : last = Len(records) /\ x = [status |-> StatusOf(end), end |-> end]
  OBVIOUS
<1>3. x \in CheckRecords /\ x.end = end BY <1>2 DEF CheckRecords
<1>4. PICK old : old = Round OBVIOUS
<1>5. PICK longer : longer = Append(old, x) OBVIOUS
<1>6. records' = [records EXCEPT ![last] = longer] BY <1>2, <1>4, <1>5 DEF Round
<1>7. /\ longer \in Seq(CheckRecords) /\ Len(longer) = Len(old) + 1
      /\ \A n \in 1 .. Len(old) : longer[n] = old[n]
      /\ longer[Len(old) + 1] = x
  BY <1>1, <1>3, <1>4, <1>5, AppendProperties
<1>8. DOMAIN longer = 1 .. Len(old) + 1 BY <1>7, LenProperties
<1>9. Cardinality(RanIn(longer)) = IF end \in {"zero", "nonzero"} THEN Cardinality(RanIn(old)) + 1
                                                                  ELSE Cardinality(RanIn(old))
  BY <1>1, <1>3, <1>4, <1>5, RanAfter
<1>10. records \in Seq(Seq(CheckRecords)) BY DEF CheckTypes
<1>11. records' \in Seq(Seq(CheckRecords)) /\ Len(records') = Len(records)
  BY <1>1, <1>2, <1>6, <1>7, <1>10, ExceptSeq
<1>12. DOMAIN records' = DOMAIN records BY <1>6
<1>13. /\ records'[last] = longer
       /\ \A r \in DOMAIN records : r # last => records'[r] = records[r]
  BY <1>1, <1>2, <1>6
<1>14. Round' = longer BY <1>2, <1>11, <1>13 DEF Round
<1>15. FileNumber' = Cardinality(RanIn(longer)) + 1
  <2>1. FileNumber' = Cardinality({n \in DOMAIN records'[Len(records')] :
                           records'[Len(records')][n].end \in {"zero", "nonzero"}}) + 1
    BY DEF FileNumber
  <2>2. records'[Len(records')] = longer BY <1>2, <1>11, <1>13
  <2> QED BY <2>1, <2>2 DEF RanIn
<1>16. Id' = <<Len(records'), Len(Round') + 1>> BY DEF Id, Round
<1>17. FileNumber' = IF end \in {"zero", "nonzero"} THEN FileNumber + 1 ELSE FileNumber
  <2>1. Cardinality(RanIn(old)) \in Nat BY <1>1, <1>4, RanFinite
  <2> QED BY <1>1, <1>4, <1>9, <1>15, <2>1
<1>18. records' # <<>> BY <1>1, <1>12
<1> QED
  BY <1>1, <1>2, <1>3, <1>4, <1>7, <1>8, <1>11, <1>12, <1>13, <1>14, <1>16, <1>17, <1>18

LEMMA ToolCallIs ==
  ASSUME CheckTypes, NEW i \in DOMAIN toolCalls
  PROVE  toolCalls[i].of[1] \in Nat /\ toolCalls[i].file \in Nat
<1>1. toolCalls \in Seq([of : Nat \X Nat, file : Nat]) BY DEF CheckTypes
<1>2. DOMAIN toolCalls = 1 .. Len(toolCalls) BY <1>1, LenProperties
<1>3. toolCalls[i] \in [of : Nat \X Nat, file : Nat] BY <1>1, <1>2, ElementOfSeq
<1>4. PICK id : id = toolCalls[i].of OBVIOUS
<1>5. id \in Nat \X Nat BY <1>3, <1>4
<1> QED BY <1>3, <1>4, <1>5

\* A step that records nothing changes nothing but where the run is.
LEMMA NothingRecorded ==
  ASSUME ChecksInv, UNCHANGED <<records, helpers, outputs, toolCalls>>,
         checkAt' \in {"running", "over", "crashed"}
           \/ checkAt \notin {"running", "over", "crashed"} \/ ~OutputHeld,
         checkAt' # "noting"
  PROVE  /\ OutputsTold' /\ AboutToNote' /\ \A h \in helpers' : HelperTrue(h)'
<1>1. OutputsTold' BY DEF ChecksInv, OutputsTold, FileNumber
<1>2. AboutToNote' BY DEF AboutToNote
<1>3. ASSUME NEW h \in helpers PROVE HelperTrue(h)'
  <2>1. HelperTrue(h) BY <1>3 DEF ChecksInv
  <2>2. h.piped /\ h.of = Id => checkAt' \in {"running", "over", "crashed"}
    BY <1>3, <2>1 DEF HelperTrue, OutputHeld
  <2> QED BY <2>1, <2>2 DEF HelperTrue, IsRecorded, EndOf, Id
<1> QED BY <1>1, <1>2, <1>3

\* A check that has ended without output: whoever holds its output is of a
\* command that was given up.
LEMMA WithoutOutput ==
  ASSUME ChecksInv, records # <<>>, NEW end \in Ends,
         records' = [records EXCEPT ![Len(records)] =
                       Append(@, [status |-> StatusOf(end), end |-> end])],
         UNCHANGED <<helpers, outputs>>, checkAt' # "noting",
         OutputHeld => end \in {"killed", "late"}
  PROVE  /\ toolCalls' = toolCalls => OutputsTold'
         /\ AboutToNote' /\ \A h \in helpers' : HelperTrue(h)'
<1>1. /\ Len(records) \in Nat \ {0} /\ DOMAIN records = 1 .. Len(records)
      /\ Round \in Seq(CheckRecords) /\ Len(Round) \in Nat /\ DOMAIN Round = 1 .. Len(Round)
      /\ Id = <<Len(records), Len(Round) + 1>> /\ FileNumber \in Nat
  BY RoundIs DEF ChecksInv
<1>2. /\ Len(records') = Len(records) /\ DOMAIN records' = DOMAIN records
      /\ \A r \in DOMAIN records : r # Len(records) => records'[r] = records[r]
      /\ DOMAIN Round' = 1 .. Len(Round) + 1 /\ Len(Round') = Len(Round) + 1
      /\ \A n \in 1 .. Len(Round) : Round'[n] = Round[n]
      /\ Round'[Len(Round) + 1].end = end
      /\ Id' = <<Len(records), Len(Round) + 2>>
      /\ FileNumber' = IF end \in {"zero", "nonzero"} THEN FileNumber + 1 ELSE FileNumber
  BY CheckRecorded DEF ChecksInv
<1>3. ASSUME toolCalls' = toolCalls PROVE OutputsTold'
  <2>1. FileNumber' \in Nat /\ FileNumber' >= FileNumber BY <1>1, <1>2
  <2>2. ASSUME NEW i \in DOMAIN toolCalls
        PROVE  /\ toolCalls[i].file \in DOMAIN outputs
               /\ outputs[toolCalls[i].file] = toolCalls[i].of
                    \/ outputs[toolCalls[i].file][1] > toolCalls[i].of[1]
               /\ toolCalls[i].of[1] <= Len(records)
               /\ toolCalls[i].of[1] = Len(records) => toolCalls[i].file < FileNumber'
    <3>1. toolCalls[i].file \in Nat BY <2>2, ToolCallIs DEF ChecksInv
    <3>2. toolCalls[i].of[1] = Len(records) => toolCalls[i].file < FileNumber
      BY <2>2 DEF ChecksInv, OutputsTold
    <3>3. toolCalls[i].of[1] = Len(records) => toolCalls[i].file < FileNumber'
      BY <1>1, <2>1, <3>1, <3>2
    <3> QED BY <2>2, <3>3 DEF ChecksInv, OutputsTold
  <2> QED BY <1>2, <1>3, <2>2 DEF OutputsTold
<1>4. AboutToNote' BY DEF AboutToNote
<1>5. ASSUME NEW h \in helpers PROVE HelperTrue(h)'
  <2>1. HelperTrue(h) /\ h.of \in Nat \X Nat BY <1>5 DEF ChecksInv, CheckTypes
  <2>2. PICK r \in Nat, n \in Nat : h.of = <<r, n>> BY <2>1
  <2>3. /\ r \in DOMAIN records /\ n \in 1 .. Len(records[r]) + 1
        /\ h.piped /\ n \in DOMAIN records[r] => records[r][n].end \in {"killed", "late"}
    BY <2>1, <2>2 DEF HelperTrue, IsRecorded, EndOf
  <2>4. SUFFICES /\ r \in DOMAIN records' /\ n \in 1 .. Len(records'[r]) + 1
                 /\ h.piped /\ n \in DOMAIN records'[r] =>
                      records'[r][n].end \in {"killed", "late"}
                 /\ h.of # Id'
    BY <2>2 DEF HelperTrue, IsRecorded, EndOf
  <2>5. CASE r # Len(records)
    <3>1. records'[r] = records[r] BY <1>2, <2>3, <2>5
    <3>2. h.of # Id' BY <1>2, <2>2, <2>5
    <3> QED BY <1>2, <2>3, <3>1, <3>2
  <2>6. CASE r = Len(records)
    <3>1. records[r] = Round /\ records'[r] = Round' BY <1>2, <2>6 DEF Round
    <3>2. n \in 1 .. Len(Round) + 1 BY <2>3, <3>1
    <3>3. n # Len(Round) + 2 BY <1>1, <3>2
    <3>4. h.of # Id'
      <4>1. PICK next : next = Len(Round) + 2 OBVIOUS
      <4>2. Id' = <<Len(records), next>> /\ n # next BY <1>2, <3>3, <4>1
      <4> QED BY <2>2, <4>2
    <3>5. n \in 1 .. Len(Round') + 1 BY <1>1, <1>2, <3>2
    <3>6. CASE n = Len(Round) + 1
      <4>1. h.of = Id BY <1>1, <2>2, <2>6, <3>6
      <4>2. h.piped => end \in {"killed", "late"} BY <1>5, <4>1 DEF OutputHeld
      <4> QED BY <1>2, <2>3, <3>1, <3>4, <3>5, <3>6, <4>2
    <3>7. CASE n \in 1 .. Len(Round)
      <4>1. Round'[n] = Round[n] /\ n \in DOMAIN Round BY <1>1, <1>2, <3>7
      <4> QED BY <1>2, <2>3, <3>1, <3>4, <3>5, <4>1
    <3>8. n = Len(Round) + 1 \/ n \in 1 .. Len(Round) BY <1>1, <3>2
    <3> QED BY <3>6, <3>7, <3>8
  <2> QED BY <2>5, <2>6
<1> QED BY <1>3, <1>4, <1>5

----------------------------------------------------------------------------
LEMMA ChecksStart ==
  ASSUME ChecksInit
  PROVE  ChecksInv
<1>1. records \in Seq(Seq(CheckRecords)) /\ toolCalls \in Seq([of : Nat \X Nat, file : Nat])
  BY DEF ChecksInit
<1>2. DOMAIN outputs = {} /\ DOMAIN toolCalls = {} BY DEF ChecksInit
<1>3. CheckTypes BY <1>1, <1>2 DEF ChecksInit, CheckTypes, CheckPlaces, CommandKinds
<1>4. CheckPlaced BY DEF ChecksInit, CheckPlaced, InRound
<1>5. OutputsTold /\ AboutToNote /\ \A h \in helpers : HelperTrue(h)
  BY <1>2 DEF ChecksInit, OutputsTold, AboutToNote
<1> QED BY <1>3, <1>4, <1>5 DEF ChecksInv

LEMMA ChecksHold ==
  ASSUME ChecksInv, UNCHANGED checkVars
  PROVE  ChecksInv'
<1>1. /\ checkAt' = checkAt /\ command' = command /\ child' = child /\ helpers' = helpers
      /\ records' = records /\ others' = others
      /\ outputs' = outputs /\ toolCalls' = toolCalls
  BY DEF checkVars
<1>2. CheckTypes' /\ CheckPlaced'
  BY <1>1 DEF ChecksInv, CheckTypes, CheckPlaced, InRound
<1>3. OutputsTold' /\ AboutToNote'
  BY <1>1 DEF ChecksInv, OutputsTold, AboutToNote, FileNumber, Id
<1>4. ASSUME NEW h \in helpers PROVE HelperTrue(h)'
  BY <1>1, <1>4 DEF ChecksInv, HelperTrue, IsRecorded, EndOf, Id
<1> QED BY <1>1, <1>2, <1>3, <1>4 DEF ChecksInv

LEMMA BeginChecksStep ==
  ASSUME ChecksInv, NEW noTests \in BOOLEAN, BeginChecks(noTests)
  PROVE  ChecksInv'
<1>1. /\ checkAt = "working" /\ checkAt' \in {"judging", "checking"}
      /\ records' = Append(records, <<>>)
      /\ command' = command /\ child' = child /\ helpers' = helpers
      /\ outputs' = outputs /\ toolCalls' = toolCalls
  BY DEF BeginChecks
<1>0. others' \subseteq RecordStatuses BY DEF BeginChecks, RecordStatuses, ChecksInv, CheckTypes
<1>2. /\ records' \in Seq(Seq(CheckRecords)) /\ records' # <<>>
      /\ Len(records) \in Nat /\ Len(records') = Len(records) + 1
      /\ DOMAIN records = 1 .. Len(records)
      /\ \A r \in DOMAIN records : r \in DOMAIN records' /\ records'[r] = records[r]
      /\ Id' = <<Len(records) + 1, 1>>
  BY <1>1, RoundBegins DEF ChecksInv
<1>3. CheckTypes' BY <1>0, <1>1, <1>2 DEF ChecksInv, CheckTypes, CheckPlaces
<1>4. child = "none" BY <1>1 DEF ChecksInv, CheckPlaced
<1>5. CheckPlaced' BY <1>1, <1>2, <1>4 DEF CheckPlaced
<1>6. OutputsTold'
  <2>1. ASSUME NEW i \in DOMAIN toolCalls
        PROVE  /\ toolCalls[i].file \in DOMAIN outputs
               /\ outputs[toolCalls[i].file] = toolCalls[i].of
                    \/ outputs[toolCalls[i].file][1] > toolCalls[i].of[1]
               /\ toolCalls[i].of[1] < Len(records')
    <3>1. toolCalls[i].of[1] \in Nat BY <2>1, ToolCallIs DEF ChecksInv
    <3>2. toolCalls[i].of[1] <= Len(records) BY <2>1 DEF ChecksInv, OutputsTold
    <3>3. toolCalls[i].of[1] < Len(records') BY <1>2, <3>1, <3>2
    <3> QED BY <2>1, <3>3 DEF ChecksInv, OutputsTold
  <2>2. ASSUME NEW i \in DOMAIN toolCalls
        PROVE toolCalls[i].of[1] <= Len(records') /\ toolCalls[i].of[1] # Len(records')
    <3>1. toolCalls[i].of[1] \in Nat BY <2>2, ToolCallIs DEF ChecksInv
    <3> QED BY <1>2, <2>1, <2>2, <3>1
  <2> QED BY <1>1, <2>1, <2>2 DEF OutputsTold
<1>7. AboutToNote' BY <1>1 DEF AboutToNote
<1>8. ASSUME NEW h \in helpers PROVE HelperTrue(h)'
  <2>1. HelperTrue(h) /\ h.of \in Nat \X Nat BY <1>8 DEF ChecksInv, CheckTypes
  <2>2. PICK r \in Nat, n \in Nat : h.of = <<r, n>> BY <2>1
  <2>3. /\ r \in DOMAIN records /\ n \in 1 .. Len(records[r]) + 1
        /\ h.piped /\ n \in DOMAIN records[r] => records[r][n].end \in {"killed", "late"}
    BY <2>1, <2>2 DEF HelperTrue, IsRecorded, EndOf
  <2>4. r \in DOMAIN records' /\ records'[r] = records[r] /\ r # Len(records) + 1
    <3>1. r # Len(records) + 1 BY <1>2, <2>3
    <3> QED BY <1>2, <2>3, <3>1
  <2>5. h.of # Id'
    <3>1. PICK next : next = Len(records) + 1 OBVIOUS
    <3>2. Id' = <<next, 1>> /\ r # next BY <1>2, <2>4, <3>1
    <3> QED BY <2>2, <3>2
  <2> QED BY <2>2, <2>3, <2>4, <2>5 DEF HelperTrue, IsRecorded, EndOf
<1> QED BY <1>1, <1>3, <1>5, <1>6, <1>7, <1>8 DEF ChecksInv

\* A step that records nothing, or a check without output.
StillTyped ==
    /\ checkAt' \in CheckPlaces /\ child' \in {"none", "alive", "zero", "nonzero", "killed"}
    /\ command' \in CommandKinds /\ others' \subseteq RecordStatuses
    /\ UNCHANGED <<helpers, outputs, toolCalls>>

LEMMA QuietStep ==
  ASSUME ChecksInv, StillTyped, UNCHANGED records,
         checkAt' \in {"running", "over", "crashed"}
           \/ checkAt \notin {"running", "over", "crashed"} \/ ~OutputHeld,
         checkAt' # "noting", CheckPlaced'
  PROVE  ChecksInv'
<1>1. CheckTypes' BY DEF ChecksInv, CheckTypes, StillTyped
<1>2. OutputsTold' /\ AboutToNote' /\ \A h \in helpers' : HelperTrue(h)'
  BY NothingRecorded DEF StillTyped
<1> QED BY <1>1, <1>2 DEF ChecksInv

LEMMA RecordingStep ==
  ASSUME ChecksInv, StillTyped, InRound, NEW end \in Ends,
         records' = [records EXCEPT ![Len(records)] =
                       Append(@, [status |-> StatusOf(end), end |-> end])],
         OutputHeld => end \in {"killed", "late"},
         checkAt' = "checking", child' = "none"
  PROVE  ChecksInv'
<1>1. records # <<>> BY DEF ChecksInv, CheckPlaced
<1>2. records' \in Seq(Seq(CheckRecords)) /\ records' # <<>>
  BY <1>1, CheckRecorded DEF ChecksInv
<1>3. CheckTypes' BY <1>2 DEF ChecksInv, CheckTypes, StillTyped
<1>4. CheckPlaced' BY <1>2 DEF CheckPlaced
<1>5. OutputsTold' /\ AboutToNote' /\ \A h \in helpers' : HelperTrue(h)'
  BY <1>1, WithoutOutput DEF StillTyped
<1> QED BY <1>3, <1>4, <1>5 DEF ChecksInv

\* Nobody holds the output of a command that has not started.
LEMMA NotHeld ==
  ASSUME ChecksInv, checkAt \notin {"running", "over", "crashed"}
  PROVE  ~OutputHeld
BY DEF ChecksInv, HelperTrue, OutputHeld

LEMMA ReachCommandStep ==
  ASSUME ChecksInv, ReachCommand
  PROVE  ChecksInv'
<1>1. /\ checkAt = "checking" /\ child' = child /\ helpers' = helpers
      /\ outputs' = outputs /\ toolCalls' = toolCalls /\ others' \subseteq RecordStatuses
  BY DEF ReachCommand, ChecksInv, CheckTypes
<1>2. child = "none" /\ InRound /\ records # <<>>
  BY <1>1 DEF ChecksInv, CheckPlaced, InRound
<1>3. PICK c \in CommandKinds :
         \/ CommandRefused(c) /\ Recorded("refused") /\ UNCHANGED <<checkAt, command>>
         \/ ~CommandRefused(c) /\ command' = c /\ checkAt' = "starting" /\ UNCHANGED records
  BY DEF ReachCommand
<1>4. ~OutputHeld BY <1>1, NotHeld
<1>5. CASE Recorded("refused") /\ UNCHANGED <<checkAt, command>>
  <2>1. StillTyped
    BY <1>1, <1>2, <1>5 DEF StillTyped, CheckPlaces, ChecksInv, CheckTypes
  <2>2. records' = [records EXCEPT ![Len(records)] =
                      Append(@, [status |-> StatusOf("refused"), end |-> "refused"])]
    BY <1>5 DEF Recorded
  <2>3. "refused" \in Ends BY DEF Ends
  <2> QED BY <1>1, <1>2, <1>4, <1>5, <2>1, <2>2, <2>3, RecordingStep
<1>6. CASE ~CommandRefused(c) /\ command' = c /\ checkAt' = "starting" /\ UNCHANGED records
  <2>1. StillTyped BY <1>1, <1>2, <1>6 DEF StillTyped, CheckPlaces
  <2>2. CheckPlaced' BY <1>1, <1>2, <1>6 DEF CheckPlaced
  <2> QED BY <1>1, <1>4, <1>6, <2>1, <2>2, QuietStep
<1> QED BY <1>3, <1>5, <1>6

LEMMA StartCommandStep ==
  ASSUME ChecksInv, StartCommand
  PROVE  ChecksInv'
<1>1. /\ checkAt = "starting" /\ helpers' = helpers /\ command' = command
      /\ outputs' = outputs /\ toolCalls' = toolCalls /\ others' \subseteq RecordStatuses
  BY DEF StartCommand, ChecksInv, CheckTypes
<1>2. child = "none" /\ InRound /\ records # <<>> /\ command \in CommandKinds
  BY <1>1 DEF ChecksInv, CheckPlaced, CheckTypes, InRound
<1>3. ~OutputHeld /\ ~CommandRefused(command)
  BY <1>1, NotHeld DEF ChecksInv, CheckPlaced
<1>4. CASE child' = "alive" /\ checkAt' = "running" /\ UNCHANGED records
  <2>1. StillTyped BY <1>1, <1>2, <1>4 DEF StillTyped, CheckPlaces
  <2>2. CheckPlaced' BY <1>1, <1>2, <1>3, <1>4 DEF CheckPlaced
  <2> QED BY <1>1, <1>3, <1>4, <2>1, <2>2, QuietStep
<1>5. CASE Recorded("unstarted") /\ checkAt' = "checking" /\ UNCHANGED child
  <2>1. StillTyped BY <1>1, <1>2, <1>5 DEF StillTyped, CheckPlaces
  <2>2. records' = [records EXCEPT ![Len(records)] =
                      Append(@, [status |-> StatusOf("unstarted"), end |-> "unstarted"])]
    BY <1>5 DEF Recorded
  <2>3. "unstarted" \in Ends BY DEF Ends
  <2> QED BY <1>1, <1>2, <1>3, <1>5, <2>1, <2>2, <2>3, RecordingStep
<1> QED BY <1>4, <1>5 DEF StartCommand

LEMMA CommandDoneStep ==
  ASSUME ChecksInv, CommandDone
  PROVE  ChecksInv'
<1>1. /\ checkAt = "running" /\ child \in {"zero", "nonzero"} /\ ~OutputHeld
      /\ helpers' = helpers /\ command' = command
      /\ outputs' = outputs /\ toolCalls' = toolCalls /\ others' \subseteq RecordStatuses
  BY DEF CommandDone, ChecksInv, CheckTypes
<1>2. InRound /\ records # <<>> /\ command \in CommandKinds
  BY <1>1 DEF ChecksInv, CheckPlaced, CheckTypes, InRound
<1>3. CASE checkAt' = "writing" /\ UNCHANGED <<records, child>>
  <2>1. StillTyped BY <1>1, <1>2, <1>3 DEF StillTyped, CheckPlaces
  <2>2. CheckPlaced' BY <1>1, <1>2, <1>3 DEF CheckPlaced
  <2> QED BY <1>1, <1>3, <2>1, <2>2, QuietStep
<1>4. CASE checkAt' = "checking" /\ child' = "none" /\ Recorded("unread")
  <2>1. StillTyped BY <1>1, <1>2, <1>4 DEF StillTyped, CheckPlaces
  <2>2. records' = [records EXCEPT ![Len(records)] =
                      Append(@, [status |-> StatusOf("unread"), end |-> "unread"])]
    BY <1>4 DEF Recorded
  <2>3. "unread" \in Ends BY DEF Ends
  <2> QED BY <1>1, <1>2, <1>4, <2>1, <2>2, <2>3, RecordingStep
<1> QED BY <1>3, <1>4 DEF CommandDone

LEMMA CommandTimesOutStep ==
  ASSUME ChecksInv, CommandTimesOut
  PROVE  ChecksInv'
<1>1. /\ checkAt = "running" /\ checkAt' = "checking" /\ child' = "none"
      /\ helpers' = helpers /\ command' = command
      /\ outputs' = outputs /\ toolCalls' = toolCalls /\ others' \subseteq RecordStatuses
  BY DEF CommandTimesOut, ChecksInv, CheckTypes
<1>2. InRound /\ records # <<>> /\ command \in CommandKinds
  BY <1>1 DEF ChecksInv, CheckPlaced, CheckTypes, InRound
<1>3. PICK end \in {"killed", "late"} : end = IF child = "alive" THEN "killed" ELSE "late"
  OBVIOUS
<1>4. records' = [records EXCEPT ![Len(records)] =
                      Append(@, [status |-> StatusOf(end), end |-> end])]
  BY <1>3 DEF CommandTimesOut, Recorded
<1>5. StillTyped BY <1>1, <1>2 DEF StillTyped, CheckPlaces
<1>6. end \in Ends BY DEF Ends
<1> QED BY <1>1, <1>2, <1>4, <1>5, <1>6, RecordingStep

LEMMA WriteOutputStep ==
  ASSUME ChecksInv, WriteOutput
  PROVE  ChecksInv'
<1>1. /\ checkAt = "writing" /\ checkAt' = "noting" /\ child' = child
      /\ helpers' = helpers /\ command' = command
      /\ records' = records /\ toolCalls' = toolCalls /\ others' = others
  BY DEF WriteOutput
<1>2. InRound /\ records # <<>> /\ command \in CommandKinds /\ child \in {"zero", "nonzero"}
  BY <1>1 DEF ChecksInv, CheckPlaced, CheckTypes, InRound
<1>3. /\ Len(records) \in Nat \ {0} /\ Len(Round) \in Nat
      /\ Id = <<Len(records), Len(Round) + 1>> /\ FileNumber \in Nat
  BY <1>2, RoundIs DEF ChecksInv
<1>4. PICK id, file : id = Id /\ file = FileNumber OBVIOUS
<1>5. id \in Nat \X Nat /\ id[1] = Len(records) /\ file \in Nat BY <1>3, <1>4
<1>6. outputs' = [f \in DOMAIN outputs \cup {file} |-> IF f = file THEN id ELSE outputs[f]]
  BY <1>4 DEF WriteOutput
<1>7. /\ DOMAIN outputs' = DOMAIN outputs \cup {file} /\ outputs'[file] = id
      /\ \A f \in DOMAIN outputs : f # file => outputs'[f] = outputs[f]
  BY <1>6
<1>8. DOMAIN outputs' \subseteq Nat /\ outputs' \in [DOMAIN outputs' -> Nat \X Nat]
  <2>1. DOMAIN outputs \subseteq Nat /\ outputs \in [DOMAIN outputs -> Nat \X Nat]
    BY DEF ChecksInv, CheckTypes
  <2>2. DOMAIN outputs' \subseteq Nat BY <1>5, <1>7, <2>1
  <2>3. outputs' \in [DOMAIN outputs \cup {file} -> Nat \X Nat] BY <1>5, <1>6, <2>1
  <2> QED BY <1>7, <2>2, <2>3
<1>9. CheckTypes' BY <1>1, <1>8 DEF ChecksInv, CheckTypes, CheckPlaces
<1>10. CheckPlaced' BY <1>1, <1>2 DEF CheckPlaced
<1>11. Id' = id /\ FileNumber' = file BY <1>1, <1>4 DEF Id, FileNumber
<1>12. AboutToNote' BY <1>7, <1>11 DEF AboutToNote
<1>13. OutputsTold'
  <2>1. ASSUME NEW i \in DOMAIN toolCalls
        PROVE  /\ toolCalls[i].file \in DOMAIN outputs'
               /\ outputs'[toolCalls[i].file] = toolCalls[i].of
                    \/ outputs'[toolCalls[i].file][1] > toolCalls[i].of[1]
               /\ toolCalls[i].of[1] <= Len(records)
               /\ toolCalls[i].of[1] = Len(records) => toolCalls[i].file < file
    <3>1. toolCalls[i].of[1] \in Nat /\ toolCalls[i].file \in Nat
      BY <2>1, ToolCallIs DEF ChecksInv
    <3>2. /\ toolCalls[i].file \in DOMAIN outputs
          /\ outputs[toolCalls[i].file] = toolCalls[i].of
               \/ outputs[toolCalls[i].file][1] > toolCalls[i].of[1]
          /\ toolCalls[i].of[1] <= Len(records)
          /\ toolCalls[i].of[1] = Len(records) => toolCalls[i].file < file
      BY <1>4, <2>1 DEF ChecksInv, OutputsTold
    <3>3. CASE toolCalls[i].file = file
      <4>1. toolCalls[i].of[1] # Len(records) BY <1>5, <3>1, <3>2, <3>3
      <4>2. id[1] > toolCalls[i].of[1] BY <1>3, <1>5, <3>1, <3>2, <4>1
      <4> QED BY <1>7, <3>2, <3>3, <4>2
    <3>4. CASE toolCalls[i].file # file BY <1>7, <3>2, <3>4
    <3> QED BY <3>3, <3>4
  <2> QED BY <1>1, <1>11, <2>1 DEF OutputsTold
<1>14. ASSUME NEW h \in helpers PROVE HelperTrue(h)'
  <2>1. ~(h.piped /\ h.of = Id) BY <1>1, <1>14, NotHeld DEF OutputHeld
  <2>2. h.of[1] \in DOMAIN records' /\ h.of[2] \in 1 .. Len(records'[h.of[1]]) + 1
    BY <1>1, <1>14 DEF ChecksInv, HelperTrue
  <2>3. h.piped /\ IsRecorded(h.of)' => EndOf(h.of)' \in {"killed", "late"}
    BY <1>1, <1>14 DEF ChecksInv, HelperTrue, IsRecorded, EndOf
  <2> QED BY <1>4, <1>11, <2>1, <2>2, <2>3 DEF HelperTrue
<1> QED BY <1>1, <1>9, <1>10, <1>12, <1>13, <1>14 DEF ChecksInv

LEMMA NoteCommandStep ==
  ASSUME ChecksInv, NoteCommand
  PROVE  ChecksInv'
<1>1. /\ checkAt = "noting" /\ checkAt' = "checking" /\ child' = "none"
      /\ helpers' = helpers /\ command' = command /\ outputs' = outputs /\ others' = others
  BY DEF NoteCommand
<1>2. InRound /\ records # <<>> /\ command \in CommandKinds /\ child \in {"zero", "nonzero"}
  BY <1>1 DEF ChecksInv, CheckPlaced, CheckTypes, InRound
<1>3. /\ Len(records) \in Nat \ {0} /\ Len(Round) \in Nat
      /\ Id = <<Len(records), Len(Round) + 1>> /\ FileNumber \in Nat
  BY <1>2, RoundIs DEF ChecksInv
<1>4. PICK end \in {"zero", "nonzero"} : end = child BY <1>2
<1>5. records' = [records EXCEPT ![Len(records)] =
                      Append(@, [status |-> StatusOf(end), end |-> end])]
  BY <1>4 DEF NoteCommand, Recorded
<1>6. end \in Ends BY DEF Ends
<1>7. ~OutputHeld BY <1>1, NotHeld
<1>8. /\ records' \in Seq(Seq(CheckRecords)) /\ records' # <<>>
      /\ Len(records') = Len(records) /\ FileNumber' = FileNumber + 1
  BY <1>2, <1>5, <1>6, CheckRecorded DEF ChecksInv
<1>9. PICK id, file : id = Id /\ file = FileNumber OBVIOUS
<1>10. id \in Nat \X Nat /\ id[1] = Len(records) /\ file \in Nat BY <1>3, <1>9
<1>11. PICK call : call = [of |-> id, file |-> file] OBVIOUS
<1>12. call \in [of : Nat \X Nat, file : Nat] /\ call.of = id /\ call.file = file
  BY <1>10, <1>11
<1>13. toolCalls' = Append(toolCalls, call) BY <1>9, <1>11 DEF NoteCommand
<1>14. /\ toolCalls \in Seq([of : Nat \X Nat, file : Nat]) BY DEF ChecksInv, CheckTypes
<1>15. /\ Len(toolCalls) \in Nat /\ DOMAIN toolCalls = 1 .. Len(toolCalls)
       /\ toolCalls' \in Seq([of : Nat \X Nat, file : Nat])
       /\ Len(toolCalls') = Len(toolCalls) + 1
       /\ \A i \in 1 .. Len(toolCalls) : toolCalls'[i] = toolCalls[i]
       /\ toolCalls'[Len(toolCalls) + 1] = call
  BY <1>12, <1>13, <1>14, LenProperties, AppendProperties
<1>16. \A i \in DOMAIN toolCalls' : i \in DOMAIN toolCalls \/ i = Len(toolCalls) + 1
  <2>1. DOMAIN toolCalls' = 1 .. Len(toolCalls) + 1 BY <1>15, LenProperties
  <2> QED BY <1>15, <2>1
<1>17. CheckTypes' BY <1>1, <1>8, <1>15 DEF ChecksInv, CheckTypes, CheckPlaces
<1>18. CheckPlaced' BY <1>1, <1>8 DEF CheckPlaced
<1>19. OutputsTold'
  <2>1. ASSUME NEW i \in DOMAIN toolCalls'
        PROVE  /\ toolCalls'[i].file \in DOMAIN outputs
               /\ outputs[toolCalls'[i].file] = toolCalls'[i].of
                    \/ outputs[toolCalls'[i].file][1] > toolCalls'[i].of[1]
               /\ toolCalls'[i].of[1] <= Len(records)
               /\ toolCalls'[i].of[1] = Len(records) => toolCalls'[i].file < file + 1
    <3>1. CASE i \in DOMAIN toolCalls
      <4>1. toolCalls'[i] = toolCalls[i] BY <1>15, <3>1
      <4>2. toolCalls[i].of[1] \in Nat /\ toolCalls[i].file \in Nat
        BY <3>1, ToolCallIs DEF ChecksInv
      <4>3. /\ toolCalls[i].file \in DOMAIN outputs
            /\ outputs[toolCalls[i].file] = toolCalls[i].of
                 \/ outputs[toolCalls[i].file][1] > toolCalls[i].of[1]
            /\ toolCalls[i].of[1] <= Len(records)
            /\ toolCalls[i].of[1] = Len(records) => toolCalls[i].file < file
        BY <1>9, <3>1 DEF ChecksInv, OutputsTold
      <4>4. toolCalls[i].of[1] = Len(records) => toolCalls[i].file < file + 1
        BY <1>10, <4>2, <4>3
      <4> QED BY <4>1, <4>3, <4>4
    <3>2. CASE i = Len(toolCalls) + 1
      <4>1. toolCalls'[i].of = id /\ toolCalls'[i].file = file BY <1>12, <1>15, <3>2
      <4>2. file \in DOMAIN outputs /\ outputs[file] = id
        BY <1>1, <1>9 DEF ChecksInv, AboutToNote
      <4> QED BY <1>3, <1>10, <4>1, <4>2
    <3> QED BY <1>16, <2>1, <3>1, <3>2
  <2> QED BY <1>1, <1>8, <1>9, <2>1 DEF OutputsTold
<1>20. AboutToNote' /\ \A h \in helpers' : HelperTrue(h)'
  BY <1>1, <1>2, <1>5, <1>6, <1>7, WithoutOutput
<1> QED BY <1>17, <1>18, <1>19, <1>20 DEF ChecksInv

LEMMA StartHelperStep ==
  ASSUME ChecksInv, StartHelper
  PROVE  ChecksInv'
<1>1. /\ checkAt = "running" /\ checkAt' = checkAt /\ command' = command /\ child' = child
      /\ records' = records /\ outputs' = outputs /\ toolCalls' = toolCalls /\ others' = others
  BY DEF StartHelper
<1>2. InRound /\ records # <<>> BY <1>1 DEF ChecksInv, CheckPlaced, InRound
<1>3. /\ Len(records) \in Nat \ {0} /\ Len(records) \in DOMAIN records
      /\ Len(Round) \in Nat /\ DOMAIN Round = 1 .. Len(Round)
      /\ Id = <<Len(records), Len(Round) + 1>>
  BY <1>2, RoundIs DEF ChecksInv
<1>4. PICK id : id = Id OBVIOUS
<1>5. /\ id \in Nat \X Nat /\ id[1] = Len(records) /\ id[2] = Len(Round) + 1
  BY <1>3, <1>4
<1>6. PICK piped \in BOOLEAN : helpers' = helpers \cup {[of |-> id, piped |-> piped]}
  BY <1>4 DEF StartHelper
<1>7. CheckTypes'
  <2>1. [of |-> id, piped |-> piped] \in [of : Nat \X Nat, piped : BOOLEAN] BY <1>5
  <2> QED BY <1>1, <1>6, <2>1 DEF ChecksInv, CheckTypes
<1>8. CheckPlaced' /\ OutputsTold' /\ AboutToNote'
  BY <1>1 DEF ChecksInv, CheckPlaced, InRound, OutputsTold, AboutToNote, FileNumber, Id
<1>9. ASSUME NEW h \in helpers PROVE HelperTrue(h)'
  BY <1>1, <1>9 DEF ChecksInv, HelperTrue, IsRecorded, EndOf, Id
<1>10. ASSUME NEW h, h = [of |-> id, piped |-> piped] PROVE HelperTrue(h)'
  <2>1. h.of = id BY <1>10
  <2>2. h.of[1] \in DOMAIN records' /\ records'[h.of[1]] = Round
    BY <1>1, <1>3, <1>5, <2>1 DEF Round
  <2>3. h.of[2] \in 1 .. Len(Round) + 1 /\ h.of[2] \notin DOMAIN Round
    BY <1>3, <1>5, <2>1
  <2> QED BY <1>1, <2>2, <2>3 DEF HelperTrue, IsRecorded
<1> QED BY <1>6, <1>7, <1>8, <1>9, <1>10 DEF ChecksInv

LEMMA HelperEndsStep ==
  ASSUME ChecksInv, HelperEnds
  PROVE  ChecksInv'
<1>1. /\ checkAt' = checkAt /\ command' = command /\ child' = child
      /\ records' = records /\ outputs' = outputs /\ toolCalls' = toolCalls /\ others' = others
      /\ helpers' \subseteq helpers
  BY DEF HelperEnds
<1>2. CheckTypes' BY <1>1 DEF ChecksInv, CheckTypes
<1>3. CheckPlaced' /\ OutputsTold' /\ AboutToNote'
  BY <1>1 DEF ChecksInv, CheckPlaced, InRound, OutputsTold, AboutToNote, FileNumber, Id
<1>4. ASSUME NEW h \in helpers PROVE HelperTrue(h)'
  BY <1>1, <1>4 DEF ChecksInv, HelperTrue, IsRecorded, EndOf, Id
<1> QED BY <1>1, <1>2, <1>3, <1>4 DEF ChecksInv

\* Steps of the run that end a stage, and the command's own end.
LEMMA PassingStep ==
  ASSUME ChecksInv,
         \/ Inspect \/ ChecksDone \/ RunVerifier \/ ReportChecks \/ CheckRaises
         \/ CrashInCheck \/ ProcessEnds
  PROVE  ChecksInv'
<1>1. UNCHANGED <<command, helpers, records, outputs, toolCalls>> /\ others' \subseteq RecordStatuses
  BY DEF Inspect, ChecksDone, RunVerifier, ReportChecks, CheckRaises, CrashInCheck, ProcessEnds,
     ChecksInv, CheckTypes, RecordStatuses
<1>2. CheckTypes /\ CheckPlaced BY DEF ChecksInv
<1>3. checkAt \notin {"running", "over", "crashed"} => ~OutputHeld BY NotHeld
<1>4. CASE ChecksDone
  <2>1. checkAt = "checking" /\ checkAt' = "judging" /\ child' = child
    BY <1>4 DEF ChecksDone
  <2>2. StillTyped /\ CheckPlaced'
    BY <1>1, <1>2, <2>1 DEF StillTyped, CheckTypes, CheckPlaces, CheckPlaced, InRound
  <2> QED BY <1>1, <1>3, <2>1, <2>2, QuietStep
<1>5. CASE RunVerifier
  <2>1. checkAt = "judging" /\ checkAt' = "working" /\ child' = child
    BY <1>5 DEF RunVerifier
  <2>2. StillTyped /\ CheckPlaced'
    BY <1>1, <1>2, <2>1 DEF StillTyped, CheckTypes, CheckPlaces, CheckPlaced, InRound
  <2> QED BY <1>1, <1>3, <2>1, <2>2, QuietStep
<1>6. CASE CheckRaises
  <2>1. /\ checkAt' = "over" /\ child' = IF child = "alive" THEN "killed" ELSE child
    BY <1>6 DEF CheckRaises
  <2>2. StillTyped /\ CheckPlaced'
    BY <1>1, <1>2, <2>1 DEF StillTyped, CheckTypes, CheckPlaces, CheckPlaced, InRound
  <2> QED BY <1>1, <2>1, <2>2, QuietStep
<1>7. CASE CrashInCheck
  <2>1. checkAt' = "crashed" /\ child' = child BY <1>7 DEF CrashInCheck
  <2>2. StillTyped /\ CheckPlaced'
    BY <1>1, <1>2, <2>1 DEF StillTyped, CheckTypes, CheckPlaces, CheckPlaced, InRound
  <2> QED BY <1>1, <2>1, <2>2, QuietStep
<1>8. CASE ProcessEnds
  <2>1. child = "alive" /\ checkAt' = checkAt /\ child' \in {"zero", "nonzero"}
    BY <1>8 DEF ProcessEnds
  <2>2. checkAt \in {"running", "crashed"} BY <1>2, <2>1 DEF CheckPlaced
  <2>3. StillTyped /\ CheckPlaced'
    BY <1>1, <1>2, <2>1, <2>2 DEF StillTyped, CheckTypes, CheckPlaces, CheckPlaced, InRound
  <2> QED BY <1>1, <2>1, <2>2, <2>3, QuietStep
<1>9. CASE Inspect \/ ReportChecks
  <2>1. checkAt = "working" /\ checkAt' \in {"working", "reported"} /\ child' = child
    BY <1>9 DEF Inspect, ReportChecks
  <2>2. StillTyped /\ CheckPlaced'
    BY <1>1, <1>2, <2>1 DEF StillTyped, CheckTypes, CheckPlaces, CheckPlaced, InRound
  <2> QED BY <1>1, <1>3, <2>1, <2>2, QuietStep
<1> QED BY <1>4, <1>5, <1>6, <1>7, <1>8, <1>9

LEMMA ChecksStep ==
  ASSUME ChecksInv, [ChecksNext]_checkVars
  PROVE  ChecksInv'
BY BeginChecksStep, ReachCommandStep, StartCommandStep, CommandDoneStep, CommandTimesOutStep,
   WriteOutputStep, NoteCommandStep, StartHelperStep, HelperEndsStep, PassingStep, ChecksHold
   DEF ChecksNext

\* What follows for whoever reads the records.
LEMMA ChecksTrue ==
  ASSUME ChecksInv
  PROVE  ChecksToldTruly /\ CommandsEnd
<1>1. CheckTypes BY DEF ChecksInv
<1>2. \A r \in DOMAIN records : \A n \in DOMAIN records[r] :
        /\ records[r][n].status = "passed" <=> records[r][n].end = "zero"
        /\ records[r][n].status = "failed" <=> records[r][n].end = "nonzero"
  BY <1>1, RecordIs
<1>3. LET failed == EndedWith("nonzero") \/ "failed" \in others
          passed == EndedWith("zero") \/ "passed" \in others
      IN  /\ VerificationSummary = "failed" <=> failed
          /\ VerificationSummary = "passed" <=> passed /\ ~failed
  BY <1>1, SummaryTells
<1>4. ASSUME child = "alive"
      PROVE  /\ command.class = "safe" /\ command.word \in SafeCommands
             /\ ~command.denied /\ command.argument = "plain"
  <2>1. PICK c \in CommandKinds : c = command BY DEF ChecksInv, CheckTypes
  <2>2. ~CommandRefused(c) BY <1>4, <2>1 DEF ChecksInv, CheckPlaced
  <2> QED BY <2>1, <2>2, Allowed
<1>5. ChecksToldTruly BY <1>2, <1>3, <1>4 DEF ChecksToldTruly, ChecksInv, OutputsTold
<1>6. CommandsEnd BY DEF CommandsEnd, ChecksInv, CheckPlaced, HelperTrue
<1> QED BY <1>5, <1>6

----------------------------------------------------------------------------
(* ContextOps.                                                             *)
ContextPlaces ==
    {"init", "run", "preflight", "clean", "load", "plan", "extract", "stage", "lock", "apply",
     "truncate", "fill", "shards", "done", "failed"}

ContextRequest ==
    [op : {"init", "run", "preflight", "clean"}, scope : {"full", "changed"},
     write : {"patch", "apply"}, dirty : BOOLEAN, dir : RunDirs, keep : Nat]

ContextCall ==
    [at : ContextPlaces, request : ContextRequest, facts : {Missing} \cup SUBSET ContextFacts,
     seen : {Missing} \cup SourceHashes, locked : {Missing} \cup ContextLocks,
     todo : SUBSET ContextFiles]

ContextTypes ==
    /\ content \in SourceHashes /\ edits \in Nat
    /\ context \in ContextTrees
    /\ staged \in [RunDirs -> {Missing} \cup ContextTrees]
    /\ ctx \in [ContextCalls -> ContextCall]
    /\ alone \subseteq ContextCalls

\* Sources as they were: what an edit writes has never been there before.
Past(sources) == \A f \in SourceFiles : sources[f] <= edits + 1

\* Facts extracted after the sources were seen are true of those that have not
\* been edited since.
TrueOf(facts, sources) ==
    \A x \in facts : /\ sources[x.file] # 0
                     /\ content[x.file] = sources[x.file] => x = Fact(x.file)

TrueWhereListed(facts, sources) ==
    \A x \in facts :
        sources[x.file] # 0 /\ content[x.file] = sources[x.file] => x = Fact(x.file)

Covers(facts, listed) ==
    /\ \A x \in facts : x.file \in listed
    /\ \A f \in listed : \E x \in facts : x.file = f

\* Every fact is that of a section, true of the source as it was then.
Sectioned(facts, sections) ==
    \A x \in facts : \E s \in sections :
        /\ s.file = x.file /\ s.hash # 0 /\ s.hash <= edits + 1
        /\ content[x.file] = s.hash => x = Fact(x.file)

\* What a lock says is as good as the doubts allow.
LockTrue(lock, more) ==
    LET facts == lock.generated.architecture
        doubts == doubt \cup more IN
    /\ doubts = {} => /\ facts # Missing /\ Past(lock.sources)
                      /\ TrueOf(facts, lock.sources)
                      /\ Covers(facts, Existing(lock.sources))
    /\ doubts \subseteq {"init"} /\ lock.generated # NothingGenerated =>
         facts # Missing /\ Sectioned(facts, lock.sections)
    /\ doubts \subseteq {"changed"} =>
         facts # Missing /\ Past(lock.sources) /\ TrueWhereListed(facts, lock.sources)

\* What a call knows at each of its places.
Knows(call) ==
    /\ call.at \in {"init", "load", "truncate", "fill"} => call.request.op = "init"
    /\ call.at = "clean" => call.request.op = "clean"
    /\ call.at \in {"preflight", "shards"} => call.request.op = "preflight"
    /\ call.request.op = "preflight" => call.request.write = "apply"
    /\ call.at \in {"load", "truncate", "fill", "plan", "extract", "stage", "lock", "apply"} =>
         call.seen \in SourceHashes /\ Past(call.seen)
    /\ call.at \in {"stage", "lock", "apply"} =>
         /\ call.facts # Missing
         /\ TrueOf(call.facts, call.seen) /\ Covers(call.facts, SelectedSources(call))
    /\ call.locked # Missing => LockTrue(call.locked, {})

\* What a call has staged, if it has the directory to itself.
StagedTrue(call, tree) ==
    Staging(call) /\ "shared" \notin doubt /\ tree # Missing =>
        /\ tree.architecture # Missing
        /\ ~Incremental(call) => tree.architecture = call.facts
        /\ Incremental(call) /\ doubt \subseteq {"changed"} =>
             TrueWhereListed(tree.architecture, call.seen)
        /\ call.at = "apply" =>
             /\ tree.lock \in ContextLocks
             /\ tree.lock.sources = call.seen /\ tree.lock.sections = SectionsOf(call)
             /\ tree.lock.generated.architecture = tree.architecture

\* What is true for a call that nobody has disturbed.
AloneTrue(call, tree) ==
    /\ call.at \in {"plan", "extract", "stage", "lock", "apply"} => content = call.seen
    /\ call.at = "apply" /\ call.request.write = "apply" =>
         /\ tree # Missing /\ tree.lock \in ContextLocks /\ tree.lock.sources = call.seen
         /\ \A g \in GeneratedFiles : tree.lock.generated[g] = tree[g]
         /\ \A f \in ContextFiles \ call.todo : tree[f] # Missing => context[f] = tree[f]
    /\ call.at = "shards" => Passes(FALSE)
    /\ call.at = "done" /\ call.request.op \in {"run", "preflight"}
         /\ call.request.write = "apply" => Passes(FALSE)
    /\ call.at = "done" /\ call.request.op = "preflight" => call.facts = context.architecture

CallTrue(c) ==
    \A call \in ContextCall, tree \in {Missing} \cup ContextTrees :
        call = ctx[c] /\ tree = staged[call.request.dir] =>
            Knows(call) /\ StagedTrue(call, tree) /\ (c \in alone => AloneTrue(call, tree))

StagersApart ==
    "shared" \notin doubt =>
        \A c, o \in ContextCalls :
            c # o /\ Staging(ctx[c]) /\ Staging(ctx[o]) => Asked(c).dir # Asked(o).dir

ContextTold ==
    \A lock \in ContextLocks : lock = context.lock => LockTrue(lock, {})

ContextInv ==
    /\ ContextTypes /\ Past(content) /\ StagersApart /\ ContextTold
    /\ \A c \in ContextCalls : CallTrue(c)

----------------------------------------------------------------------------
LEMMA ContextCallIs ==
  ASSUME ContextTypes, NEW c \in ContextCalls
  PROVE  /\ ctx[c] \in ContextCall /\ Asked(c) = ctx[c].request
         /\ ctx[c].request \in ContextRequest /\ ctx[c].request.dir \in RunDirs
         /\ staged[ctx[c].request.dir] \in {Missing} \cup ContextTrees
BY DEF ContextTypes, ContextCall, ContextRequest, Asked

LEMMA TreeIs ==
  ASSUME NEW tree \in ContextTrees
  PROVE  /\ tree # Missing /\ DOMAIN tree = ContextFiles
         /\ tree.architecture \in {Missing} \cup SUBSET ContextFacts
         /\ tree.code_map \in {Missing} \cup SUBSET SourceFiles
         /\ tree.lock \in {Missing, Torn} \cup ContextLocks
BY ContextAssumption DEF ContextTrees, ContextFiles, GeneratedFiles

LEMMA LockIs ==
  ASSUME NEW lock \in ContextLocks
  PROVE  /\ lock # Missing /\ lock # Torn /\ lock.sources \in SourceHashes
         /\ lock.generated \in GeneratedTrees
         /\ lock.generated.architecture \in {Missing} \cup SUBSET ContextFacts
         /\ lock.sections \in SUBSET [file : SourceFiles, stubbed : BOOLEAN, hash : Nat]
BY ContextAssumption DEF ContextLocks, GeneratedTrees

\* What is known stays so while the sources do.
LEMMA LockStays ==
  ASSUME NEW lock \in ContextLocks, NEW more, LockTrue(lock, more),
         UNCHANGED <<content, edits>>, doubt \subseteq doubt'
  PROVE  LockTrue(lock, more)'
BY DEF LockTrue, TrueOf, TrueWhereListed, Sectioned, Past, Fact

LEMMA KnownStays ==
  ASSUME NEW call \in ContextCall, Knows(call),
         UNCHANGED <<content, edits>>, doubt \subseteq doubt'
  PROVE  Knows(call)'
<1>1. call.locked # Missing => LockTrue(call.locked, {})'
  <2>1. ASSUME call.locked # Missing PROVE LockTrue(call.locked, {})'
    <3>1. PICK lock \in ContextLocks : lock = call.locked BY <2>1 DEF ContextCall
    <3>2. LockTrue(lock, {}) BY <2>1, <3>1 DEF Knows
    <3>3. LockTrue(lock, {})' BY <3>2, LockStays
    <3> QED BY <3>1, <3>3
  <2> QED BY <2>1
<1> QED BY <1>1 DEF Knows, TrueOf, Past, Fact

LEMMA StagedStays ==
  ASSUME NEW call \in ContextCall, NEW tree \in {Missing} \cup ContextTrees,
         StagedTrue(call, tree), UNCHANGED <<content, edits>>, doubt \subseteq doubt'
  PROVE  StagedTrue(call, tree)'
BY DEF StagedTrue, TrueWhereListed, Fact

LEMMA AloneStays ==
  ASSUME NEW call \in ContextCall, NEW tree \in {Missing} \cup ContextTrees,
         AloneTrue(call, tree), UNCHANGED <<content, context>>
  PROVE  AloneTrue(call, tree)'
BY DEF AloneTrue, Passes, Readable, SourcesCurrent, GeneratedAsLocked

\* The calls that do not take this step.
LEMMA OtherContextCall ==
  ASSUME ContextTypes, NEW o \in ContextCalls, CallTrue(o), ctx'[o] = ctx[o],
         UNCHANGED <<content, edits>>, doubt \subseteq doubt',
         \/ staged'[ctx[o].request.dir] \in {staged[ctx[o].request.dir], Missing}
         \/ ~Staging(ctx[o]) \/ "shared" \in doubt',
         o \in alone' => /\ o \in alone /\ context' = context
                         /\ staged'[ctx[o].request.dir] = staged[ctx[o].request.dir]
  PROVE  CallTrue(o)'
<1> SUFFICES ASSUME NEW call \in ContextCall, NEW tree \in {Missing} \cup ContextTrees,
                    call = ctx[o], tree = staged'[call.request.dir]
             PROVE  Knows(call)' /\ StagedTrue(call, tree)' /\ (o \in alone' => AloneTrue(call, tree)')
  BY DEF CallTrue
<1>1. PICK old \in {Missing} \cup ContextTrees : old = staged[call.request.dir]
  BY ContextCallIs
<1>2. Knows(call) /\ StagedTrue(call, old) /\ (o \in alone => AloneTrue(call, old))
  BY <1>1 DEF CallTrue
<1>3. Knows(call)' BY <1>2, KnownStays
<1>4. StagedTrue(call, tree)'
  <2>1. CASE tree = old BY <1>2, <2>1, StagedStays
  <2>2. CASE tree = Missing \/ ~Staging(call) \/ "shared" \in doubt'
    BY <2>2 DEF StagedTrue
  <2> QED BY <1>1, <2>1, <2>2
<1>5. ASSUME o \in alone' PROVE AloneTrue(call, tree)'
  <2>1. tree = old BY <1>1, <1>5
  <2> QED BY <1>2, <1>5, <2>1, AloneStays
<1> QED BY <1>3, <1>4, <1>5

LEMMA FactIs ==
  ASSUME NEW f \in SourceFiles
  PROVE  Fact(f) \in ContextFacts /\ Fact(f).file = f
<1>1. PICK b \in BOOLEAN : b = (content[f] # 0 /\ content[f] % 2 = 0) OBVIOUS
<1>2. Fact(f) = [file |-> f, stubbed |-> b] BY <1>1 DEF Fact
<1> QED BY <1>2 DEF ContextFacts

\* What a full run leaves is true, and so is that there is nothing.
LEMMA FirstContextTold ==
  ASSUME content \in InitialSources, edits = 0, doubt = {}, context \in {NoContext, FullContext}
  PROVE  content \in SourceHashes /\ Past(content) /\ context \in ContextTrees /\ ContextTold
<1>1. content \in [SourceFiles -> 0..1] /\ content \in SourceHashes /\ Past(content)
  BY ContextAssumption DEF Past, SourceHashes
<1>2. CASE context = NoContext
  <2>1. context.lock = Missing /\ context \in ContextTrees
    BY <1>2 DEF NoContext, ContextTrees
  <2>2. ContextTold BY <2>1, ContextAssumption DEF ContextTold
  <2> QED BY <1>1, <2>1, <2>2
<1>3. CASE context = FullContext
  <2>1. PICK facts : facts = {Fact(f) : f \in Existing(content)} OBVIOUS
  <2>2. PICK generated : generated = [architecture |-> facts, code_map |-> Existing(content)]
    OBVIOUS
  <2>3. PICK sections : sections = {[file |-> x.file, stubbed |-> x.stubbed,
                                     hash |-> content[x.file]] : x \in facts}
    OBVIOUS
  <2>4. PICK lock : lock = [sources |-> content, generated |-> generated, sections |-> sections]
    OBVIOUS
  <2>5. context = [architecture |-> facts, code_map |-> Existing(content), lock |-> lock]
    BY <1>3, <2>1, <2>2, <2>3, <2>4 DEF FullContext
  <2>6. facts \in SUBSET ContextFacts BY <2>1, FactIs DEF Existing
  <2>7. Existing(content) \in SUBSET SourceFiles BY DEF Existing
  <2>8. generated \in GeneratedTrees BY <2>2, <2>6, <2>7 DEF GeneratedTrees
  <2>9. sections \in SUBSET [file : SourceFiles, stubbed : BOOLEAN, hash : Nat]
    BY <1>1, <2>3, <2>6 DEF ContextFacts, SourceHashes
  <2>10. lock \in ContextLocks BY <1>1, <2>4, <2>8, <2>9 DEF ContextLocks
  <2>11. context \in ContextTrees BY <2>5, <2>6, <2>7, <2>10 DEF ContextTrees
  <2>12. facts # Missing BY <2>6, ContextAssumption
  <2>13. /\ TrueOf(facts, content) /\ TrueWhereListed(facts, content)
         /\ Covers(facts, Existing(content))
    BY <2>1, FactIs DEF TrueOf, TrueWhereListed, Covers, Existing
  <2>14. Sectioned(facts, sections)
    <3> SUFFICES ASSUME NEW x \in facts
                 PROVE  \E s \in sections : /\ s.file = x.file /\ s.hash # 0 /\ s.hash <= edits + 1
                                            /\ content[x.file] = s.hash => x = Fact(x.file)
      BY DEF Sectioned
    <3>1. PICK s \in sections : s = [file |-> x.file, stubbed |-> x.stubbed, hash |-> content[x.file]]
      BY <2>3
    <3>2. x.file \in SourceFiles /\ content[x.file] # 0 /\ x = Fact(x.file)
      BY <2>1 DEF Existing, Fact
    <3> QED BY <1>1, <3>1, <3>2 DEF Past
  <2>15. LockTrue(lock, {}) BY <1>1, <2>2, <2>4, <2>12, <2>13, <2>14 DEF LockTrue
  <2>16. ContextTold BY <2>5, <2>15 DEF ContextTold
  <2> QED BY <1>1, <2>11, <2>16
<1> QED BY <1>1, <1>2, <1>3

\* A call that has just begun or is over knows nothing.
LEMMA NewContextCall ==
  ASSUME NEW request \in ContextRequest, NEW facts \in {Missing} \cup SUBSET ContextFacts,
         NEW place \in ContextPlaces
  PROVE  /\ CallAt(place, request, facts) \in ContextCall
         /\ CallAt(place, request, facts).at = place
         /\ CallAt(place, request, facts).request = request
         /\ CallAt(place, request, facts).facts = facts
         /\ CallAt(place, request, facts).locked = Missing
         /\ CallAt(place, request, facts).todo = {}
BY DEF CallAt, ContextCall

LEMMA ContextStart == ContextInit => ContextInv
<1> SUFFICES ASSUME ContextInit PROVE ContextInv OBVIOUS
<1>1. content \in SourceHashes /\ Past(content) /\ context \in ContextTrees /\ ContextTold
  BY FirstContextTold DEF ContextInit
<1>2. /\ edits = 0 /\ staged = [d \in RunDirs |-> Missing] /\ alone = {} /\ doubt = {}
  BY DEF ContextInit
<1>3. PICK wanted : /\ \A c \in ContextCalls : wanted[c] \in ContextRequests[c]
                   /\ ctx = [c \in ContextCalls |-> CallAt(wanted[c].op, wanted[c], {})]
  BY DEF ContextInit
<1>4. ASSUME NEW c \in ContextCalls
      PROVE  /\ wanted[c] \in ContextRequest /\ wanted[c].op \in ContextPlaces
             /\ wanted[c].op \in {"init", "run", "preflight", "clean"}
             /\ wanted[c].op = "preflight" => wanted[c].write = "apply"
             /\ ctx[c] \in ContextCall /\ ctx[c].at = wanted[c].op /\ ctx[c].request = wanted[c]
             /\ ctx[c].locked = Missing
  <2>1. /\ wanted[c] \in ContextRequest
        /\ wanted[c].op \in {"init", "run", "preflight", "clean"}
        /\ wanted[c].op = "preflight" => wanted[c].write = "apply"
    BY <1>3, ContextAssumption DEF ContextRequest
  <2>2. wanted[c].op \in ContextPlaces BY <2>1 DEF ContextPlaces
  <2>3. PICK r \in ContextRequest : r = wanted[c] BY <2>1
  <2>4. {} \in {Missing} \cup SUBSET ContextFacts OBVIOUS
  <2>7. PICK p \in ContextPlaces : p = r.op BY <2>2, <2>3
  <2>5. ctx[c] = CallAt(p, r, {}) BY <1>3, <2>3, <2>7
  <2>6. ctx[c] \in ContextCall /\ ctx[c].at = r.op /\ ctx[c].request = r /\ ctx[c].locked = Missing
    BY <2>4, <2>5, <2>7, NewContextCall
  <2> QED BY <2>1, <2>2, <2>3, <2>6
<1>5. ctx \in [ContextCalls -> ContextCall] BY <1>3, <1>4
<1>6. ContextTypes BY <1>1, <1>2, <1>5 DEF ContextTypes
<1>7. ASSUME NEW c \in ContextCalls PROVE ~Staging(ctx[c]) BY <1>4 DEF Staging
<1>8. StagersApart BY <1>7 DEF StagersApart
<1>9. ASSUME NEW c \in ContextCalls PROVE CallTrue(c)
  <2> SUFFICES ASSUME NEW call \in ContextCall, NEW tree \in {Missing} \cup ContextTrees, call = ctx[c]
               PROVE  Knows(call) /\ StagedTrue(call, tree)
    BY <1>2 DEF CallTrue
  <2>1. /\ call.at \in {"init", "run", "preflight", "clean"} /\ call.at = call.request.op
        /\ call.request.op = "preflight" => call.request.write = "apply"
        /\ call.locked = Missing
    BY <1>4
  <2>2. Knows(call) BY <2>1 DEF Knows
  <2>3. StagedTrue(call, tree) BY <1>7 DEF StagedTrue
  <2> QED BY <2>2, <2>3
<1> QED BY <1>1, <1>6, <1>8, <1>9 DEF ContextInv

----------------------------------------------------------------------------
\* What the invariant says of one call.
LEMMA ContextCallTrue ==
  ASSUME ContextInv, NEW c \in ContextCalls, NEW call \in ContextCall, call = ctx[c],
         NEW tree \in {Missing} \cup ContextTrees, tree = staged[call.request.dir]
  PROVE  /\ Knows(call) /\ StagedTrue(call, tree) /\ (c \in alone => AloneTrue(call, tree))
         /\ call.request \in ContextRequest /\ call.request.dir \in RunDirs
BY ContextCallIs DEF ContextInv, CallTrue

\* Steps that only change what one call knows.
LEMMA QuietContextStep ==
  ASSUME ContextInv, NEW c \in ContextCalls, NEW q \in ContextCall, ctx' = [ctx EXCEPT ![c] = q],
         UNCHANGED <<content, edits, context, staged, doubt>>, alone' \subseteq alone \cup {c},
         q.request = ctx[c].request, ~Staging(q), Knows(q),
         c \in alone' => \A tree \in {Missing} \cup ContextTrees :
                            tree = staged[q.request.dir] => AloneTrue(q, tree)
  PROVE  ContextInv'
<1>1. ContextTypes /\ Past(content) /\ StagersApart /\ ContextTold BY DEF ContextInv
<1>2. ctx[c] \in ContextCall /\ q.request.dir \in RunDirs /\ ctx'[c] = q
  BY <1>1, ContextCallIs DEF ContextTypes
<1>3. ASSUME NEW o \in ContextCalls, o # c PROVE ctx'[o] = ctx[o]
  BY <1>1, <1>3 DEF ContextTypes
<1>4. ContextTypes' BY <1>1 DEF ContextTypes
<1>5. Past(content)' BY <1>1 DEF Past
<1>6. StagersApart' BY <1>1, <1>2, <1>3 DEF StagersApart, Asked
<1>7. ContextTold' BY <1>1, LockStays DEF ContextTold
<1>8. ASSUME NEW o \in ContextCalls PROVE CallTrue(o)'
  <2>1. CASE o = c
    <3> SUFFICES ASSUME NEW tree \in {Missing} \cup ContextTrees, tree = staged[q.request.dir]
                 PROVE  Knows(q)' /\ StagedTrue(q, tree)' /\ (o \in alone' => AloneTrue(q, tree)')
      BY <1>2, <2>1 DEF CallTrue
    <3>1. Knows(q)' BY KnownStays
    <3>2. StagedTrue(q, tree)' BY DEF StagedTrue
    <3>3. o \in alone' => AloneTrue(q, tree)' BY <2>1, AloneStays
    <3> QED BY <3>1, <3>2, <3>3
  <2>2. CASE o # c BY <1>1, <1>3, <2>2, OtherContextCall DEF ContextInv
  <2> QED BY <2>1, <2>2
<1> QED BY <1>4, <1>5, <1>6, <1>7, <1>8 DEF ContextInv

\* A call that fails.
LEMMA ContextCallFails ==
  ASSUME ContextInv, NEW c \in ContextCalls, Leave(c, "failed"),
         UNCHANGED <<content, edits, context, staged, alone, doubt>>
  PROVE  ContextInv'
<1>1. PICK q : q = CallAt("failed", ctx[c].request, {}) OBVIOUS
<1>2. ctx' = [ctx EXCEPT ![c] = q] BY <1>1 DEF Leave, Asked
<1>3. PICK call \in ContextCall : call = ctx[c] BY ContextCallIs DEF ContextInv
<1>4. PICK tree \in {Missing} \cup ContextTrees : tree = staged[call.request.dir]
  BY <1>3, ContextCallIs DEF ContextInv
<1>5. Knows(call) /\ call.request \in ContextRequest BY <1>3, <1>4, ContextCallTrue
<1>6. "failed" \in ContextPlaces /\ {} \in {Missing} \cup SUBSET ContextFacts
  BY DEF ContextPlaces
<1>7. /\ q \in ContextCall /\ q.at = "failed" /\ q.request = call.request /\ q.locked = Missing
      /\ q.todo = {}
  BY <1>1, <1>3, <1>5, <1>6, NewContextCall
<1>8. ~Staging(q) /\ Knows(q) BY <1>5, <1>7 DEF Staging, Knows
<1>9. \A t : AloneTrue(q, t) BY <1>7 DEF AloneTrue
<1> QED BY <1>2, <1>3, <1>7, <1>8, <1>9, QuietContextStep

LEMMA ChecksStatus == ASSUME ContextInv, NEW c \in ContextCalls, CheckStatus(c) PROVE ContextInv'
<1>1. PICK call \in ContextCall : call = ctx[c] BY ContextCallIs DEF ContextInv
<1>2. PICK tree \in {Missing} \cup ContextTrees : tree = staged[call.request.dir]
  BY <1>1, ContextCallIs DEF ContextInv
<1>3. Knows(call) BY <1>1, <1>2, ContextCallTrue
<1>4. PICK place \in {"failed", "shards", "run"} :
        ctx' = [ctx EXCEPT ![c].at = place] /\ (place = "shards" => Passes(FALSE))
  BY DEF CheckStatus, MoveTo
<1>5. PICK q : q = [call EXCEPT !.at = place] OBVIOUS
<1>6. ctx' = [ctx EXCEPT ![c] = q] BY <1>1, <1>4, <1>5 DEF ContextInv, ContextTypes
<1>7. call.at = "preflight" BY <1>1 DEF CheckStatus
<1>8. place \in ContextPlaces BY DEF ContextPlaces
<1>9. /\ q \in ContextCall /\ q.at = place /\ q.request = call.request /\ q.locked = call.locked
      /\ q.facts = call.facts /\ q.seen = call.seen /\ q.todo = call.todo
  BY <1>5, <1>8 DEF ContextCall
<1>10. ~Staging(q) /\ Knows(q) BY <1>3, <1>7, <1>9 DEF Staging, Knows
<1>11. \A t : AloneTrue(q, t) BY <1>4, <1>9 DEF AloneTrue
<1> QED BY <1>1, <1>6, <1>9, <1>10, <1>11, QuietContextStep DEF CheckStatus

LEMMA LoadsShards == ASSUME ContextInv, NEW c \in ContextCalls, LoadShards(c) PROVE ContextInv'
<1>1. PICK call \in ContextCall : call = ctx[c] BY ContextCallIs DEF ContextInv
<1>2. PICK tree \in {Missing} \cup ContextTrees : tree = staged[call.request.dir]
  BY <1>1, ContextCallIs DEF ContextInv
<1>3. /\ Knows(call) /\ (c \in alone => AloneTrue(call, tree))
      /\ call.request \in ContextRequest
  BY <1>1, <1>2, ContextCallTrue
<1>4. CASE Leave(c, "failed") BY <1>4, ContextCallFails DEF LoadShards
<1>5. CASE ~Leave(c, "failed")
  <2>1. PICK q : q = CallAt("done", call.request, context.architecture) OBVIOUS
  <2>2. ctx' = [ctx EXCEPT ![c] = q] BY <1>1, <1>5, <2>1 DEF LoadShards, Asked
  <2>3. "done" \in ContextPlaces /\ context.architecture \in {Missing} \cup SUBSET ContextFacts
    BY TreeIs DEF ContextPlaces, ContextInv, ContextTypes
  <2>4. PICK facts \in {Missing} \cup SUBSET ContextFacts : facts = context.architecture
    BY <2>3
  <2>5. /\ q \in ContextCall /\ q.at = "done" /\ q.request = call.request /\ q.locked = Missing
        /\ q.facts = facts /\ q.todo = {}
    BY <1>3, <2>1, <2>3, <2>4, NewContextCall
  <2>6. ~Staging(q) /\ Knows(q) BY <1>3, <2>5 DEF Staging, Knows
  <2>7. ASSUME c \in alone, NEW t PROVE AloneTrue(q, t)
    <3>1. Passes(FALSE) BY <1>1, <1>3, <2>7 DEF AloneTrue, LoadShards
    <3> QED BY <2>4, <2>5, <3>1 DEF AloneTrue
  <2> QED BY <1>1, <2>2, <2>5, <2>6, <2>7, QuietContextStep DEF LoadShards
<1> QED BY <1>4, <1>5

LEMMA ScansRepository ==
  ASSUME ContextInv, NEW c \in ContextCalls, ScanRepository(c)
  PROVE  ContextInv'
<1>1. PICK call \in ContextCall : call = ctx[c] BY ContextCallIs DEF ContextInv
<1>2. PICK tree \in {Missing} \cup ContextTrees : tree = staged[call.request.dir]
  BY <1>1, ContextCallIs DEF ContextInv
<1>3. Knows(call) BY <1>1, <1>2, ContextCallTrue
<1>4. PICK place : place = IF call.at = "init" THEN "load" ELSE "plan" OBVIOUS
<1>5. PICK q : q = [call EXCEPT !.at = place, !.seen = content] OBVIOUS
<1>6. ctx' = [ctx EXCEPT ![c] = q]
  BY <1>1, <1>4, <1>5 DEF ScanRepository, ContextInv, ContextTypes
<1>7. call.at \in {"init", "run"} /\ content \in SourceHashes /\ Past(content)
  BY <1>1 DEF ScanRepository, ContextInv, ContextTypes
<1>8. place \in ContextPlaces BY <1>4 DEF ContextPlaces
<1>9. /\ q \in ContextCall /\ q.at = place /\ q.request = call.request /\ q.locked = call.locked
      /\ q.facts = call.facts /\ q.seen = content /\ q.todo = call.todo
  BY <1>5, <1>7, <1>8 DEF ContextCall
<1>10. ~Staging(q) /\ Knows(q) BY <1>3, <1>4, <1>7, <1>9 DEF Staging, Knows
<1>11. \A t : AloneTrue(q, t) BY <1>4, <1>9 DEF AloneTrue
<1> QED BY <1>1, <1>6, <1>9, <1>10, <1>11, QuietContextStep DEF ScanRepository

\* A lock that is loaded is that of the context.
LEMMA LoadsLock ==
  ASSUME ContextInv, NEW c \in ContextCalls, NEW place \in ContextPlaces,
         \/ ctx[c].at = "plan" /\ place = "extract"
         \/ ctx[c].at = "load" /\ place = "truncate",
         IF context.lock = Torn THEN Leave(c, "failed")
         ELSE ctx' = [ctx EXCEPT ![c].at = place, ![c].locked = context.lock],
         UNCHANGED <<content, edits, context, staged, alone, doubt>>
  PROVE  ContextInv'
<1>1. PICK call \in ContextCall : call = ctx[c] BY ContextCallIs DEF ContextInv
<1>2. PICK tree \in {Missing} \cup ContextTrees : tree = staged[call.request.dir]
  BY <1>1, ContextCallIs DEF ContextInv
<1>3. /\ Knows(call) /\ (c \in alone => AloneTrue(call, tree))
      /\ call.request \in ContextRequest
  BY <1>1, <1>2, ContextCallTrue
<1>4. CASE context.lock = Torn BY <1>4, ContextCallFails
<1>5. CASE context.lock # Torn
  <2>1. PICK lock \in {Missing} \cup ContextLocks : lock = context.lock
    BY <1>5, TreeIs DEF ContextInv, ContextTypes
  <2>2. lock # Missing => LockTrue(lock, {}) BY <2>1 DEF ContextInv, ContextTold
  <2>3. PICK q : q = [call EXCEPT !.at = place, !.locked = lock] OBVIOUS
  <2>4. ctx' = [ctx EXCEPT ![c] = q]
    BY <1>1, <1>5, <2>1, <2>3 DEF ContextInv, ContextTypes
  <2>5. /\ q \in ContextCall /\ q.at = place /\ q.request = call.request /\ q.locked = lock
        /\ q.facts = call.facts /\ q.seen = call.seen /\ q.todo = call.todo
    BY <2>3 DEF ContextCall
  <2>6. ~Staging(q) /\ Knows(q) BY <1>1, <1>3, <2>2, <2>5 DEF Staging, Knows
  <2>7. ASSUME c \in alone PROVE AloneTrue(q, tree)
    BY <1>1, <1>3, <2>5, <2>7 DEF AloneTrue
  <2>8. /\ UNCHANGED <<content, edits, context, staged, doubt>>
        /\ alone' \subseteq alone \cup {c} /\ q.request = ctx[c].request
    BY <1>1, <2>5
  <2>9. c \in alone' => \A t \in {Missing} \cup ContextTrees :
                           t = staged[q.request.dir] => AloneTrue(q, t)
    BY <1>2, <2>5, <2>7
  <2> QED BY <2>4, <2>5, <2>6, <2>8, <2>9, QuietContextStep
<1> QED BY <1>4, <1>5

LEMMA PlansContext == ASSUME ContextInv, NEW c \in ContextCalls, PlanContext(c) PROVE ContextInv'
<1>1. "extract" \in ContextPlaces BY DEF ContextPlaces
<1> QED BY <1>1, LoadsLock DEF PlanContext

LEMMA InitLoads == ASSUME ContextInv, NEW c \in ContextCalls, InitLoadsLock(c) PROVE ContextInv'
<1>1. "truncate" \in ContextPlaces BY DEF ContextPlaces
<1> QED BY <1>1, LoadsLock DEF InitLoadsLock

LEMMA RefusesDirty == ASSUME ContextInv, NEW c \in ContextCalls, RefuseDirty(c) PROVE ContextInv'
BY ContextCallFails DEF RefuseDirty

LEMMA SelectedIs ==
  ASSUME NEW call \in ContextCall, call.seen \in SourceHashes
  PROVE  /\ SelectedSources(call) \subseteq Existing(call.seen)
         /\ Existing(call.seen) \subseteq SourceFiles
         /\ ~Incremental(call) => SelectedSources(call) = Existing(call.seen)
BY DEF SelectedSources, ChangedSources, Existing, Incremental, ContextCall, ContextRequest

LEMMA ExtractsFacts == ASSUME ContextInv, NEW c \in ContextCalls, ExtractFacts(c) PROVE ContextInv'
<1>1. PICK call \in ContextCall : call = ctx[c] BY ContextCallIs DEF ContextInv
<1>2. PICK tree \in {Missing} \cup ContextTrees : tree = staged[call.request.dir]
  BY <1>1, ContextCallIs DEF ContextInv
<1>3. /\ Knows(call) /\ (c \in alone => AloneTrue(call, tree))
      /\ call.request \in ContextRequest /\ call.at = "extract"
  BY <1>1, <1>2, ContextCallTrue DEF ExtractFacts
<1>4. call.seen \in SourceHashes /\ Past(call.seen) BY <1>3 DEF Knows
<1>5. PICK facts : facts = {Fact(f) : f \in SelectedSources(call)} OBVIOUS
<1>6. facts \in SUBSET ContextFacts BY <1>4, <1>5, SelectedIs, FactIs
<1>7. facts # Missing BY <1>6, ContextAssumption
<1>8. PICK q : q = [call EXCEPT !.at = "stage", !.facts = facts] OBVIOUS
<1>9. ctx' = [ctx EXCEPT ![c] = q]
  BY <1>1, <1>5, <1>8 DEF ExtractFacts, ContextInv, ContextTypes
<1>10. "stage" \in ContextPlaces BY DEF ContextPlaces
<1>11. /\ q \in ContextCall /\ q.at = "stage" /\ q.request = call.request /\ q.locked = call.locked
       /\ q.facts = facts /\ q.seen = call.seen /\ q.todo = call.todo
  BY <1>6, <1>8, <1>10 DEF ContextCall
<1>12. SelectedSources(q) = SelectedSources(call)
  BY <1>11 DEF SelectedSources, ChangedSources
<1>13. TrueOf(facts, q.seen) /\ Covers(facts, SelectedSources(q))
  <2>1. ASSUME NEW f \in SelectedSources(call)
        PROVE  Fact(f).file = f /\ call.seen[f] # 0
    BY <1>4, SelectedIs, FactIs DEF Existing
  <2> QED BY <1>5, <1>11, <1>12, <2>1 DEF TrueOf, Covers
<1>14. ~Staging(q) /\ Knows(q) BY <1>3, <1>4, <1>7, <1>11, <1>13 DEF Staging, Knows
<1>15. ASSUME c \in alone PROVE AloneTrue(q, tree) BY <1>3, <1>11, <1>15 DEF AloneTrue
<1> QED BY <1>1, <1>2, <1>9, <1>11, <1>14, <1>15, QuietContextStep DEF ExtractFacts

\* A context that has been applied file by file, undisturbed, passes.
LEMMA AppliedPasses ==
  ASSUME ContextInv, NEW call \in ContextCall, NEW tree \in {Missing} \cup ContextTrees,
         AloneTrue(call, tree), call.at = "apply", call.request.write = "apply", call.todo = {}
  PROVE  Passes(FALSE)
<1>1. /\ tree # Missing /\ tree.lock \in ContextLocks /\ tree.lock.sources = call.seen
      /\ \A g \in GeneratedFiles : tree.lock.generated[g] = tree[g]
      /\ \A f \in ContextFiles : tree[f] # Missing => context[f] = tree[f]
      /\ content = call.seen
  BY DEF AloneTrue
<1>2. PICK lock \in ContextLocks : lock = tree.lock BY <1>1
<1>3. context.lock = lock /\ lock # Missing /\ lock # Torn
  BY <1>1, <1>2, LockIs DEF ContextFiles
<1>4. Readable BY <1>3 DEF Readable
<1>5. SourcesCurrent BY <1>1, <1>2, <1>3 DEF SourcesCurrent
<1>6. GeneratedAsLocked BY <1>1, <1>2, <1>3 DEF GeneratedAsLocked, ContextFiles
<1> QED BY <1>4, <1>5, <1>6 DEF Passes

LEMMA RunEnds == ASSUME ContextInv, NEW c \in ContextCalls, RunEndsWell(c) PROVE ContextInv'
<1>1. PICK call \in ContextCall : call = ctx[c] BY ContextCallIs DEF ContextInv
<1>2. PICK tree \in {Missing} \cup ContextTrees : tree = staged[call.request.dir]
  BY <1>1, ContextCallIs DEF ContextInv
<1>3. /\ Knows(call) /\ (c \in alone => AloneTrue(call, tree))
      /\ call.request \in ContextRequest /\ call.at = "apply" /\ call.todo = {}
  BY <1>1, <1>2, ContextCallTrue DEF RunEndsWell
<1>4. PICK place \in ContextPlaces :
        place = IF call.request.op = "preflight" THEN "shards" ELSE "done"
  BY DEF ContextPlaces
<1>5. PICK q : q = CallAt(place, call.request, {}) OBVIOUS
<1>6. ctx' = [ctx EXCEPT ![c] = q] BY <1>1, <1>4, <1>5 DEF RunEndsWell, Leave, Asked
<1>7. {} \in {Missing} \cup SUBSET ContextFacts OBVIOUS
<1>8. /\ q \in ContextCall /\ q.at = place /\ q.request = call.request /\ q.locked = Missing
      /\ q.todo = {}
  BY <1>3, <1>5, <1>7, NewContextCall
<1>9. ~Staging(q) /\ Knows(q) BY <1>3, <1>4, <1>8 DEF Staging, Knows
<1>10. ASSUME c \in alone, NEW t PROVE AloneTrue(q, t)
  <2>1. call.request.write = "apply" => Passes(FALSE) BY <1>3, <1>10, AppliedPasses
  <2>2. call.request.op = "preflight" => call.request.write = "apply" BY <1>3 DEF Knows
  <2> QED BY <1>4, <1>8, <2>1, <2>2 DEF AloneTrue
<1> QED BY <1>1, <1>6, <1>8, <1>9, <1>10, QuietContextStep DEF RunEndsWell

----------------------------------------------------------------------------
\* What a run stages is as good as what it has extracted.
LEMMA StagesTruth ==
  ASSUME NEW call \in ContextCall, Knows(call), call.at \in {"stage", "lock"},
         NEW arch \in {Missing} \cup SUBSET ContextFacts, NEW old \in {Missing} \cup SUBSET ContextFacts,
         arch = IF "architecture" \in Refreshed(call) \/ old = Missing THEN call.facts ELSE old,
         Incremental(call) /\ "architecture" \notin Refreshed(call) /\ doubt \subseteq {"changed"} =>
             old \in {Missing, call.locked.generated.architecture}
  PROVE  /\ arch # Missing /\ (~Incremental(call) => arch = call.facts)
         /\ Incremental(call) /\ doubt \subseteq {"changed"} => TrueWhereListed(arch, call.seen)
<1>1. /\ call.facts # Missing /\ TrueOf(call.facts, call.seen)
      /\ Covers(call.facts, SelectedSources(call)) /\ call.seen \in SourceHashes
      /\ call.locked # Missing => LockTrue(call.locked, {})
  BY DEF Knows
<1>2. arch # Missing /\ (~Incremental(call) => arch = call.facts)
  BY <1>1 DEF Refreshed, GeneratedFiles
<1>3. ASSUME Incremental(call), doubt \subseteq {"changed"} PROVE TrueWhereListed(arch, call.seen)
  <2>1. CASE arch = call.facts BY <1>1, <2>1 DEF TrueOf, TrueWhereListed
  <2>2. CASE arch # call.facts
    <3>1. "architecture" \notin Refreshed(call) /\ old # Missing /\ arch = old BY <2>2
    <3>2. PICK lock \in ContextLocks : lock = call.locked
      BY <1>3 DEF Incremental, ContextCall
    <3>3. arch = lock.generated.architecture BY <1>3, <3>1, <3>2
    <3>4. LockTrue(lock, {}) BY <1>1, <1>3, <3>2 DEF Incremental
    <3>5. TrueWhereListed(arch, lock.sources) BY <1>3, <3>3, <3>4 DEF LockTrue
    <3>6. SelectedSources(call) = {}
      BY <1>1, <1>3, <3>1 DEF Refreshed, GeneratedFiles, Covers
    <3>7. \A f \in SourceFiles : call.seen[f] # 0 => call.seen[f] = lock.sources[f]
      BY <1>3, <3>2, <3>6 DEF SelectedSources, ChangedSources, Existing, Incremental
    <3>8. \A x \in arch : x.file \in SourceFiles BY <3>1 DEF ContextFacts
    <3> QED BY <3>5, <3>7, <3>8 DEF TrueWhereListed
  <2> QED BY <2>1, <2>2
<1> QED BY <1>2, <1>3

LEMMA StagesContext ==
  ASSUME ContextInv, NEW c \in ContextCalls, StageContext(c)
  PROVE  ContextInv'
<1>1. PICK call \in ContextCall : call = ctx[c] BY ContextCallIs DEF ContextInv
<1>2. PICK tree \in {Missing} \cup ContextTrees : tree = staged[call.request.dir]
  BY <1>1, ContextCallIs DEF ContextInv
<1>3. /\ Knows(call) /\ (c \in alone => AloneTrue(call, tree))
      /\ call.request \in ContextRequest /\ call.request.dir \in RunDirs /\ call.at = "stage"
      /\ Asked(c) = call.request
  BY <1>1, <1>2, ContextCallTrue DEF StageContext, Asked
<1>4. PICK d \in RunDirs : d = call.request.dir BY <1>3
<1>5. /\ ContextTypes /\ Past(content) /\ StagersApart /\ ContextTold
      /\ UNCHANGED <<content, edits, context>>
      /\ context \in ContextTrees
  BY DEF ContextInv, ContextTypes, StageContext
<1>6. PICK old \in {Missing} \cup SUBSET ContextFacts : old = context.architecture
  BY <1>5, TreeIs
<1>7. PICK left : left = IF tree = Missing THEN Missing ELSE tree.lock OBVIOUS
<1>8. PICK arch : arch = IF "architecture" \in Refreshed(call) \/ old = Missing
                         THEN call.facts ELSE old
  OBVIOUS
<1>9. PICK map : map = IF "code_map" \in Refreshed(call) \/ context.code_map = Missing
                       THEN SelectedSources(call) ELSE context.code_map
  OBVIOUS
<1>10. PICK new : new = [architecture |-> arch, code_map |-> map, lock |-> left] OBVIOUS
<1>11. staged' = [staged EXCEPT ![d] = new]
  <2>1. "architecture" \in GeneratedFiles /\ "code_map" \in GeneratedFiles
        /\ ContextFiles = {"architecture", "code_map", "lock"}
    BY DEF GeneratedFiles, ContextFiles
  <2>2. PICK File : File = [g \in GeneratedFiles |->
                        IF g \in Refreshed(call) \/ context[g] = Missing
                        THEN Rendered(call)[g] ELSE context[g]]
    OBVIOUS
  <2>3. File["architecture"] = arch /\ File["code_map"] = map
    BY <1>6, <1>8, <1>9, <2>1, <2>2 DEF Rendered
  <2>4. new = [f \in ContextFiles |-> IF f = "lock" THEN left ELSE File[f]]
    BY <1>10, <2>1, <2>3
  <2>5. new = [f \in ContextFiles |-> IF f = "lock" THEN left ELSE
                   IF f \in Refreshed(call) \/ context[f] = Missing
                   THEN Rendered(call)[f] ELSE context[f]]
    BY <2>1, <2>2, <2>4
  <2> QED BY <1>1, <1>2, <1>4, <1>7, <2>5 DEF StageContext
<1>12. call.facts # Missing /\ call.seen \in SourceHashes BY <1>3 DEF Knows
<1>13. arch \in {Missing} \cup SUBSET ContextFacts BY <1>8 DEF ContextCall
<1>14. map \in {Missing} \cup SUBSET SourceFiles
  BY <1>5, <1>9, <1>12, SelectedIs, TreeIs
<1>15. left \in {Missing, Torn} \cup ContextLocks BY <1>7, TreeIs
<1>16. new \in ContextTrees BY <1>10, <1>13, <1>14, <1>15 DEF ContextTrees
<1>17. /\ doubt \subseteq doubt' /\ doubt' \ doubt \subseteq {"kept", "shared"}
       /\ "shared" \notin doubt' =>
            \A o \in ContextCalls \ {c} : Staging(ctx[o]) => ctx[o].request.dir # d
       /\ Incremental(call) /\ "architecture" \notin Refreshed(call) /\ "kept" \notin doubt' =>
             old \in {Missing, call.locked.generated.architecture}
  <2>1. PICK stale : stale = {g \in GeneratedFiles \ Refreshed(call) :
                       context[g] \notin {Missing, call.locked.generated[g]}}
    OBVIOUS
  <2>2. doubt' = doubt
               \cup (IF stale # {} THEN {"kept"} ELSE {})
               \cup (IF \E o \in ContextCalls \ {c} : Staging(ctx[o]) /\ Asked(o).dir = d
                     THEN {"shared"} ELSE {})
    BY <1>1, <1>4, <2>1 DEF StageContext
  <2>3. "architecture" \notin Refreshed(call) /\ "kept" \notin doubt' =>
             old \in {Missing, call.locked.generated.architecture}
    BY <1>6, <2>1, <2>2 DEF GeneratedFiles
  <2> QED BY <2>2, <2>3 DEF Asked
<1>18. PICK q : q = [call EXCEPT !.at = "lock"] OBVIOUS
<1>19. ctx' = [ctx EXCEPT ![c] = q]
  BY <1>1, <1>5, <1>18 DEF StageContext, MoveTo, ContextTypes
<1>20. "lock" \in ContextPlaces BY DEF ContextPlaces
<1>21. /\ q \in ContextCall /\ q.at = "lock" /\ q.request = call.request /\ q.locked = call.locked
       /\ q.facts = call.facts /\ q.seen = call.seen /\ q.todo = call.todo
  BY <1>18, <1>20 DEF ContextCall
<1>22. Incremental(q) = Incremental(call) /\ SelectedSources(q) = SelectedSources(call)
       /\ Refreshed(q) = Refreshed(call)
  BY <1>21 DEF Incremental, SelectedSources, ChangedSources, Refreshed
<1>23. Knows(q) BY <1>3, <1>21, <1>22 DEF Knows
<1>24. Knows(q)' BY <1>5, <1>17, <1>21, <1>23, KnownStays
<1>25. StagedTrue(q, new)'
  <2>1. ASSUME doubt' \subseteq {"changed"}, Incremental(q), "architecture" \notin Refreshed(q)
        PROVE  old \in {Missing, q.locked.generated.architecture}
    BY <1>17, <1>21, <1>22, <2>1
  <2>2. /\ arch # Missing /\ (~Incremental(q) => arch = q.facts)
        /\ Incremental(q) /\ doubt' \subseteq {"changed"} => TrueWhereListed(arch, q.seen)
    <3>1. /\ q.facts # Missing /\ (~Incremental(q) => arch = q.facts) /\ arch # Missing
      BY <1>8, <1>12, <1>21, <1>22 DEF Refreshed, GeneratedFiles
    <3>2. ASSUME Incremental(q), doubt' \subseteq {"changed"} PROVE TrueWhereListed(arch, q.seen)
      <4>1. doubt \subseteq {"changed"} BY <1>17, <3>2
      <4>2. arch = IF "architecture" \in Refreshed(q) \/ old = Missing THEN q.facts ELSE old
        BY <1>8, <1>21, <1>22
      <4> QED BY <1>13, <1>21, <1>23, <2>1, <3>2, <4>1, <4>2, StagesTruth
    <3> QED BY <3>1, <3>2
  <2>3. TrueWhereListed(arch, q.seen) => TrueWhereListed(arch, q.seen)'
    BY <1>5 DEF TrueWhereListed, Fact
  <2>4. new.architecture = arch BY <1>10
  <2> QED BY <1>21, <2>2, <2>3, <2>4 DEF StagedTrue
<1>26. ASSUME c \in alone' PROVE AloneTrue(q, new)'
  <2>1. content = q.seen BY <1>3, <1>21, <1>26 DEF AloneTrue, StageContext
  <2> QED BY <1>5, <1>21, <2>1 DEF AloneTrue
<1>27. ContextTypes'
  <2>1. alone' \subseteq ContextCalls BY <1>5 DEF StageContext, ContextTypes
  <2> QED BY <1>5, <1>11, <1>16, <1>19, <1>21, <2>1 DEF ContextTypes
<1>28. Past(content)' BY <1>5 DEF Past
<1>29. ContextTold' BY <1>5, <1>17, LockStays DEF ContextTold
<1>30. ctx'[c] = q /\ \A o \in ContextCalls : o # c => ctx'[o] = ctx[o]
  BY <1>5, <1>19 DEF ContextTypes
<1>31. staged'[d] = new /\ \A e \in RunDirs : e # d => staged'[e] = staged[e]
  BY <1>5, <1>11 DEF ContextTypes
<1>32. StagersApart'
  <2> SUFFICES ASSUME "shared" \notin doubt', NEW n \in ContextCalls, NEW o \in ContextCalls, n # o,
                      Staging(ctx'[n]), Staging(ctx'[o])
               PROVE  ctx'[n].request.dir # ctx'[o].request.dir
    BY DEF StagersApart, Asked
  <2>1. CASE n = c BY <1>4, <1>17, <1>21, <1>30, <2>1
  <2>2. CASE o = c BY <1>4, <1>17, <1>21, <1>30, <2>2
  <2>3. CASE n # c /\ o # c BY <1>5, <1>17, <1>30, <2>3 DEF StagersApart, Asked
  <2> QED BY <2>1, <2>2, <2>3
<1>33. ASSUME NEW o \in ContextCalls PROVE CallTrue(o)'
  <2>1. CASE o = c BY <1>4, <1>21, <1>24, <1>25, <1>26, <1>30, <1>31, <2>1 DEF CallTrue
  <2>2. CASE o # c
    <3>1. CallTrue(o) /\ ctx'[o] = ctx[o] /\ ctx[o].request.dir \in RunDirs
      BY <1>30, <2>2, ContextCallIs DEF ContextInv
    <3>2. o \in alone' => o \in alone /\ ctx[o].request.dir # d
      BY <1>3, <1>4, <2>2 DEF StageContext, Asked
    <3>3. \/ staged'[ctx[o].request.dir] \in {staged[ctx[o].request.dir], Missing}
          \/ ~Staging(ctx[o]) \/ "shared" \in doubt'
      BY <1>17, <1>31, <2>2, <3>1
    <3> QED BY <1>5, <1>17, <1>31, <3>1, <3>2, <3>3, OtherContextCall
  <2> QED BY <2>1, <2>2
<1> QED BY <1>27, <1>28, <1>29, <1>32, <1>33 DEF ContextInv

LEMMA SectionsAre ==
  ASSUME NEW call \in ContextCall, call.seen \in SourceHashes, call.facts \in SUBSET ContextFacts
  PROVE  SectionsOf(call) \in SUBSET [file : SourceFiles, stubbed : BOOLEAN, hash : Nat]
<1>1. PICK new : new = {[file |-> x.file, stubbed |-> x.stubbed, hash |-> call.seen[x.file]] :
                          x \in call.facts}
  OBVIOUS
<1>2. new \in SUBSET [file : SourceFiles, stubbed : BOOLEAN, hash : Nat]
  BY <1>1 DEF ContextFacts, SourceHashes
<1>3. CASE ~Incremental(call) BY <1>1, <1>2, <1>3 DEF SectionsOf
<1>4. CASE Incremental(call)
  <2>1. PICK lock \in ContextLocks : lock = call.locked
    BY <1>4 DEF Incremental, ContextCall
  <2>2. lock.sections \in SUBSET [file : SourceFiles, stubbed : BOOLEAN, hash : Nat]
    BY LockIs
  <2>3. CASE ChangedSources(call) = {} BY <1>4, <2>1, <2>2, <2>3 DEF SectionsOf
  <2>4. CASE ChangedSources(call) # {}
    BY <1>1, <1>2, <1>4, <2>1, <2>2, <2>4 DEF SectionsOf
  <2> QED BY <2>3, <2>4
<1> QED BY <1>3, <1>4

LEMMA StagesLock ==
  ASSUME ContextInv, NEW c \in ContextCalls, StageLock(c)
  PROVE  ContextInv'
<1>1. PICK call \in ContextCall : call = ctx[c] BY ContextCallIs DEF ContextInv
<1>2. PICK tree \in {Missing} \cup ContextTrees : tree = staged[call.request.dir]
  BY <1>1, ContextCallIs DEF ContextInv
<1>3. /\ Knows(call) /\ StagedTrue(call, tree) /\ (c \in alone => AloneTrue(call, tree))
      /\ call.request \in ContextRequest /\ call.request.dir \in RunDirs /\ call.at = "lock"
      /\ Asked(c) = call.request
  BY <1>1, <1>2, ContextCallTrue DEF StageLock, Asked
<1>4. PICK d \in RunDirs : d = call.request.dir BY <1>3
<1>5. /\ ContextTypes /\ Past(content) /\ StagersApart /\ ContextTold
      /\ UNCHANGED <<content, edits, context, doubt>>
  BY DEF ContextInv, StageLock
<1>6. CASE tree = Missing
  <2>1. staged[Asked(c).dir] = Missing BY <1>2, <1>3, <1>6
  <2>2. Leave(c, "failed") /\ UNCHANGED <<staged, alone>> BY <2>1 DEF StageLock
  <2> QED BY <1>5, <2>2, ContextCallFails
<1>7. CASE tree # Missing
  <2>1. PICK generated : generated = [g \in GeneratedFiles |-> tree[g]] OBVIOUS
  <2>2. PICK made : made = [sources |-> call.seen, sections |-> SectionsOf(call),
                            generated |-> generated]
    OBVIOUS
  <2>3. PICK new : new = [tree EXCEPT !.lock = made] OBVIOUS
  <2>4. PICK todo \in SUBSET ContextFiles :
          todo = IF call.request.write = "apply" THEN ContextFiles ELSE {}
    OBVIOUS
  <2>5. PICK q : q = [call EXCEPT !.at = "apply", !.todo = todo] OBVIOUS
  <2>6. /\ staged' = [staged EXCEPT ![d].lock = made]
        /\ ctx' = [ctx EXCEPT ![c].at = "apply", ![c].todo = todo]
        /\ alone' = {o \in alone : o = c \/ Asked(o).dir # d}
    BY <1>1, <1>2, <1>3, <1>4, <1>7, <2>1, <2>2, <2>4 DEF StageLock, LockedSources
  <2>7. staged' = [staged EXCEPT ![d] = new] /\ ctx' = [ctx EXCEPT ![c] = q]
    BY <1>1, <1>2, <1>4, <1>5, <2>3, <2>5, <2>6 DEF ContextTypes
  <2>8. "apply" \in ContextPlaces BY DEF ContextPlaces
  <2>9. /\ q \in ContextCall /\ q.at = "apply" /\ q.request = call.request /\ q.locked = call.locked
        /\ q.facts = call.facts /\ q.seen = call.seen /\ q.todo = todo
    BY <2>5, <2>8 DEF ContextCall
  <2>10. /\ Incremental(q) = Incremental(call) /\ SelectedSources(q) = SelectedSources(call)
         /\ SectionsOf(q) = SectionsOf(call)
    BY <2>9 DEF Incremental, SelectedSources, ChangedSources, SectionsOf
  <2>11. call.facts \in SUBSET ContextFacts /\ call.seen \in SourceHashes
    BY <1>3 DEF Knows, ContextCall
  <2>12. generated \in GeneratedTrees /\ generated.architecture = tree.architecture
    BY <1>7, <2>1, TreeIs DEF GeneratedTrees, GeneratedFiles
  <2>13. SectionsOf(call) \in SUBSET [file : SourceFiles, stubbed : BOOLEAN, hash : Nat]
    BY <2>11, SectionsAre
  <2>14. made \in ContextLocks BY <2>2, <2>11, <2>12, <2>13 DEF ContextLocks
  <2>15. /\ new \in ContextTrees /\ new # Missing /\ new.lock = made
         /\ \A g \in GeneratedFiles : new[g] = tree[g]
         /\ new.architecture = tree.architecture
    BY <1>7, <2>3, <2>14, TreeIs DEF ContextTrees, GeneratedFiles
  <2>16. Knows(q)'
    <3>1. Knows(q) BY <1>3, <2>9, <2>10 DEF Knows
    <3> QED BY <1>5, <2>9, <3>1, KnownStays
  <2>17. StagedTrue(q, new)'
    <3>1. StagedTrue(q, new)
      BY <1>3, <1>7, <2>2, <2>9, <2>10, <2>12, <2>14, <2>15 DEF StagedTrue, Staging
    <3> QED BY <1>5, <2>9, <2>15, <3>1, StagedStays
  <2>18. ASSUME c \in alone' PROVE AloneTrue(q, new)'
    <3>1. content = q.seen BY <1>3, <2>6, <2>9, <2>18 DEF AloneTrue
    <3>2. \A g \in GeneratedFiles : made.generated[g] = new[g] BY <2>1, <2>2, <2>15
    <3>3. ContextFiles \ q.todo = {} \/ q.request.write # "apply" BY <2>4, <2>9
    <3>4. AloneTrue(q, new) BY <2>2, <2>9, <2>14, <2>15, <3>1, <3>2, <3>3 DEF AloneTrue
    <3> QED BY <1>5, <2>9, <2>15, <3>4, AloneStays
  <2>19. ContextTypes' BY <1>5, <2>6, <2>7, <2>9, <2>15 DEF ContextTypes
  <2>20. Past(content)' /\ ContextTold' BY <1>5, LockStays DEF Past, ContextTold
  <2>21. ctx'[c] = q /\ \A o \in ContextCalls : o # c => ctx'[o] = ctx[o]
    BY <1>5, <2>7 DEF ContextTypes
  <2>22. staged'[d] = new /\ \A e \in RunDirs : e # d => staged'[e] = staged[e]
    BY <1>5, <2>7 DEF ContextTypes
  <2>23. Staging(call) BY <1>3 DEF Staging
  <2>24. StagersApart' BY <1>1, <1>5, <2>9, <2>21, <2>23 DEF StagersApart, Asked
  <2>25. ASSUME NEW o \in ContextCalls PROVE CallTrue(o)'
    <3>1. CASE o = c
      BY <1>4, <2>9, <2>15, <2>16, <2>17, <2>18, <2>21, <2>22, <3>1 DEF CallTrue
    <3>2. CASE o # c
      <4>1. CallTrue(o) /\ ctx'[o] = ctx[o] /\ ctx[o].request.dir \in RunDirs
        BY <2>21, <3>2, ContextCallIs DEF ContextInv
      <4>2. o \in alone' => o \in alone /\ ctx[o].request.dir # d
        BY <2>6, <3>2 DEF Asked
      <4>3. "shared" \notin doubt' => ~Staging(ctx[o]) \/ ctx[o].request.dir # d
        BY <1>1, <1>4, <1>5, <2>23, <3>2 DEF StagersApart, Asked
      <4>4. \/ staged'[ctx[o].request.dir] \in {staged[ctx[o].request.dir], Missing}
            \/ ~Staging(ctx[o]) \/ "shared" \in doubt'
        BY <2>22, <4>1, <4>3
      <4> QED BY <1>5, <2>22, <4>1, <4>2, <4>4, OtherContextCall
    <3> QED BY <3>1, <3>2
  <2> QED BY <2>19, <2>20, <2>24, <2>25 DEF ContextInv
<1> QED BY <1>6, <1>7

\* The lock that a run puts in place is as true as its staged files.
LEMMA FreshLock ==
  ASSUME NEW call \in ContextCall, NEW tree \in ContextTrees, Knows(call), StagedTrue(call, tree),
         Staging(call), call.at = "apply", "shared" \notin doubt,
         NEW lock \in ContextLocks, lock = tree.lock, NEW more,
         more = IF Incremental(call) THEN {"changed"} ELSE {}
  PROVE  LockTrue(lock, more)
<1>1. /\ tree.architecture # Missing /\ (~Incremental(call) => tree.architecture = call.facts)
      /\ Incremental(call) /\ doubt \subseteq {"changed"} =>
           TrueWhereListed(tree.architecture, call.seen)
      /\ lock.sources = call.seen /\ lock.sections = SectionsOf(call)
      /\ lock.generated.architecture = tree.architecture
  BY TreeIs DEF StagedTrue
<1>2. /\ call.facts \in SUBSET ContextFacts /\ call.seen \in SourceHashes /\ Past(call.seen)
      /\ TrueOf(call.facts, call.seen) /\ Covers(call.facts, SelectedSources(call))
  BY DEF Knows, ContextCall
<1>3. CASE ~Incremental(call)
  <2>1. Covers(call.facts, Existing(call.seen)) /\ TrueWhereListed(call.facts, call.seen)
    BY <1>2, <1>3, SelectedIs DEF TrueOf, TrueWhereListed
  <2>2. Sectioned(call.facts, SectionsOf(call))
    <3> SUFFICES ASSUME NEW x \in call.facts
                 PROVE  \E s \in SectionsOf(call) :
                          /\ s.file = x.file /\ s.hash # 0 /\ s.hash <= edits + 1
                          /\ content[x.file] = s.hash => x = Fact(x.file)
      BY DEF Sectioned
    <3>1. PICK s : s = [file |-> x.file, stubbed |-> x.stubbed, hash |-> call.seen[x.file]]
      OBVIOUS
    <3>2. s \in SectionsOf(call) BY <1>3, <3>1 DEF SectionsOf
    <3>3. x.file \in SourceFiles BY <1>2 DEF ContextFacts
    <3> QED BY <1>2, <3>1, <3>2, <3>3 DEF TrueOf, Past
  <2> QED BY <1>1, <1>2, <1>3, <2>1, <2>2 DEF LockTrue
<1>4. CASE Incremental(call)
  <2>1. more = {"changed"} BY <1>4
  <2> QED BY <1>1, <1>2, <1>4, <2>1 DEF LockTrue
<1> QED BY <1>3, <1>4

\* A doubt that was allowed for has come.
LEMMA LockDoubted ==
  ASSUME NEW lock \in ContextLocks, NEW more, LockTrue(lock, more),
         UNCHANGED <<content, edits>>, doubt' = doubt \cup more
  PROVE  LockTrue(lock, {})'
BY DEF LockTrue, TrueOf, TrueWhereListed, Sectioned, Past, Fact

LEMMA SharedLock ==
  ASSUME NEW lock, "shared" \in doubt'
  PROVE  LockTrue(lock, {})'
BY DEF LockTrue

LEMMA AppliesFile ==
  ASSUME ContextInv, NEW c \in ContextCalls, ApplyFile(c)
  PROVE  ContextInv'
<1>1. PICK call \in ContextCall : call = ctx[c] BY ContextCallIs DEF ContextInv
<1>2. PICK tree \in {Missing} \cup ContextTrees : tree = staged[call.request.dir]
  BY <1>1, ContextCallIs DEF ContextInv
<1>3. /\ Knows(call) /\ StagedTrue(call, tree) /\ (c \in alone => AloneTrue(call, tree))
      /\ call.request \in ContextRequest /\ call.request.dir \in RunDirs /\ call.at = "apply"
      /\ Asked(c) = call.request
  BY <1>1, <1>2, ContextCallTrue DEF ApplyFile, Asked
<1>4. /\ ContextTypes /\ Past(content) /\ StagersApart /\ ContextTold
      /\ UNCHANGED <<content, edits, staged>> /\ alone' = alone \cap {c}
  BY DEF ContextInv, ApplyFile, Disturbs
<1>5. PICK f \in call.todo :
        /\ ctx' = [ctx EXCEPT ![c].todo = @ \ {f}]
        /\ context' = IF tree # Missing /\ tree[f] # Missing
                      THEN [context EXCEPT ![f] = tree[f]] ELSE context
  BY <1>1, <1>2, <1>3 DEF ApplyFile
<1>6. PICK more : more = IF Incremental(call) THEN {"changed"} ELSE {} OBVIOUS
<1>7. doubt' = doubt \cup more BY <1>1, <1>6 DEF ApplyFile
<1>8. PICK q : q = [call EXCEPT !.todo = call.todo \ {f}] OBVIOUS
<1>9. ctx' = [ctx EXCEPT ![c] = q] BY <1>1, <1>4, <1>5, <1>8 DEF ContextTypes
<1>10. /\ q \in ContextCall /\ q.at = "apply" /\ q.request = call.request /\ q.locked = call.locked
       /\ q.facts = call.facts /\ q.seen = call.seen /\ q.todo = call.todo \ {f}
       /\ call.todo \subseteq ContextFiles
  BY <1>3, <1>8 DEF ContextCall
<1>11. /\ Incremental(q) = Incremental(call) /\ SelectedSources(q) = SelectedSources(call)
       /\ SectionsOf(q) = SectionsOf(call)
  BY <1>10 DEF Incremental, SelectedSources, ChangedSources, SectionsOf
<1>12. Staging(call) BY <1>3 DEF Staging
<1>13. context' \in ContextTrees
  <2>1. f \in {"architecture", "code_map", "lock"} /\ context \in ContextTrees
    BY <1>4, <1>10 DEF ContextFiles, GeneratedFiles, ContextTypes
  <2> QED BY <1>5, <2>1, TreeIs DEF ContextTrees
<1>14. ContextTypes'
  <2>1. ctx' \in [ContextCalls -> ContextCall] /\ alone' \subseteq ContextCalls
    BY <1>4, <1>9, <1>10 DEF ContextTypes
  <2> QED BY <1>4, <1>13, <2>1 DEF ContextTypes
<1>15. Past(content)' BY <1>4 DEF Past
<1>16. ctx'[c] = q /\ \A o \in ContextCalls : o # c => ctx'[o] = ctx[o]
  BY <1>4, <1>9 DEF ContextTypes
<1>17. StagersApart' BY <1>1, <1>4, <1>7, <1>10, <1>12, <1>16 DEF StagersApart, Asked
<1>18. ContextTold'
  <2> SUFFICES ASSUME NEW lock \in ContextLocks, lock = context'.lock
               PROVE  LockTrue(lock, {})'
    BY DEF ContextTold
  <2>1. CASE lock = context.lock BY <1>4, <1>7, <2>1, LockStays DEF ContextTold
  <2>2. CASE "shared" \in doubt' BY <2>2, SharedLock
  <2>3. CASE lock # context.lock /\ "shared" \notin doubt'
    <3>1. context \in ContextTrees /\ DOMAIN context = ContextFiles
      BY <1>4, TreeIs DEF ContextTypes
    <3>2. tree # Missing /\ lock = tree.lock BY <1>5, <1>10, <2>3, <3>1
    <3>3. "shared" \notin doubt BY <1>7, <2>3
    <3>4. LockTrue(lock, more) BY <1>3, <1>6, <1>12, <3>2, <3>3, FreshLock
    <3> QED BY <1>4, <1>7, <3>4, LockDoubted
  <2> QED BY <2>1, <2>2, <2>3
<1>19. Knows(q)'
  <2>1. Knows(q) BY <1>3, <1>10, <1>11 DEF Knows
  <2> QED BY <1>4, <1>7, <1>10, <2>1, KnownStays
<1>20. StagedTrue(q, tree)'
  <2>1. StagedTrue(q, tree) BY <1>3, <1>10, <1>11, <1>12 DEF StagedTrue
  <2> QED BY <1>4, <1>7, <1>10, <2>1, StagedStays
<1>21. ASSUME c \in alone' PROVE AloneTrue(q, tree)'
  <2>1. AloneTrue(call, tree) BY <1>3, <1>4, <1>21
  <2>2. content' = q.seen BY <1>3, <1>4, <1>10, <2>1 DEF AloneTrue
  <2>3. ASSUME q.request.write = "apply"
        PROVE  /\ tree # Missing /\ tree.lock \in ContextLocks /\ tree.lock.sources = q.seen
               /\ \A g \in GeneratedFiles : tree.lock.generated[g] = tree[g]
               /\ \A e \in ContextFiles \ q.todo : tree[e] # Missing => context'[e] = tree[e]
    <3>1. /\ tree # Missing /\ tree.lock \in ContextLocks /\ tree.lock.sources = call.seen
          /\ \A g \in GeneratedFiles : tree.lock.generated[g] = tree[g]
          /\ \A e \in ContextFiles \ call.todo : tree[e] # Missing => context[e] = tree[e]
      BY <1>3, <1>10, <2>1, <2>3 DEF AloneTrue
    <3>2. context \in ContextTrees /\ DOMAIN context = ContextFiles
      BY <1>4, TreeIs DEF ContextTypes
    <3>3. ASSUME NEW e \in ContextFiles \ q.todo, tree[e] # Missing PROVE context'[e] = tree[e]
      <4>1. CASE e = f BY <1>5, <3>1, <3>2, <3>3, <4>1
      <4>2. CASE e # f BY <1>5, <1>10, <3>1, <3>2, <3>3, <4>2
      <4> QED BY <4>1, <4>2
    <3> QED BY <1>10, <3>1, <3>3
  <2> QED BY <1>10, <2>2, <2>3 DEF AloneTrue
<1>22. ASSUME NEW o \in ContextCalls PROVE CallTrue(o)'
  <2>1. CASE o = c BY <1>2, <1>4, <1>10, <1>16, <1>19, <1>20, <1>21, <2>1 DEF CallTrue
  <2>2. CASE o # c BY <1>4, <1>7, <1>16, <2>2, OtherContextCall DEF ContextInv
  <2> QED BY <2>1, <2>2
<1> QED BY <1>14, <1>15, <1>17, <1>18, <1>22 DEF ContextInv

\* Steps of a call on the lock in place: no call is staging anew, and nobody
\* else is undisturbed.
LEMMA LockStep ==
  ASSUME ContextInv, NEW c \in ContextCalls, NEW q \in ContextCall, ctx' = [ctx EXCEPT ![c] = q],
         NEW lock \in {Torn} \cup ContextLocks, context' = [context EXCEPT !.lock = lock],
         UNCHANGED <<content, edits, staged>>, doubt \subseteq doubt', alone' = alone \cap {c},
         q.request = ctx[c].request, ~Staging(q), Knows(q),
         \A t : AloneTrue(q, t)',
         lock # Torn => LockTrue(lock, {})'
  PROVE  ContextInv'
<1>1. ContextTypes /\ Past(content) /\ StagersApart /\ ContextTold /\ context \in ContextTrees
  BY DEF ContextInv, ContextTypes
<1>2. ctx[c] \in ContextCall /\ ctx'[c] = q /\ \A o \in ContextCalls : o # c => ctx'[o] = ctx[o]
  BY <1>1 DEF ContextTypes
<1>3. context' \in ContextTrees /\ context'.lock = lock BY <1>1 DEF ContextTrees
<1>4. ContextTypes' BY <1>1, <1>3 DEF ContextTypes
<1>5. Past(content)' BY <1>1 DEF Past
<1>6. StagersApart' BY <1>1, <1>2 DEF StagersApart, Asked
<1>7. ContextTold' BY <1>3, LockIs DEF ContextTold
<1>8. ASSUME NEW o \in ContextCalls PROVE CallTrue(o)'
  <2>1. CASE o = c
    <3>1. Knows(q)' BY KnownStays
    <3>2. \A t : StagedTrue(q, t)' BY DEF StagedTrue
    <3> QED BY <1>2, <2>1, <3>1, <3>2 DEF CallTrue
  <2>2. CASE o # c BY <1>1, <1>2, <2>2, OtherContextCall DEF ContextInv
  <2> QED BY <2>1, <2>2
<1> QED BY <1>4, <1>5, <1>6, <1>7, <1>8 DEF ContextInv

LEMMA TruncatesLock ==
  ASSUME ContextInv, NEW c \in ContextCalls, TruncateLock(c)
  PROVE  ContextInv'
<1>1. PICK call \in ContextCall : call = ctx[c] BY ContextCallIs DEF ContextInv
<1>2. PICK tree \in {Missing} \cup ContextTrees : tree = staged[call.request.dir]
  BY <1>1, ContextCallIs DEF ContextInv
<1>3. Knows(call) /\ call.at = "truncate"
  BY <1>1, <1>2, ContextCallTrue DEF TruncateLock
<1>4. PICK q : q = [call EXCEPT !.at = "fill"] OBVIOUS
<1>5. ctx' = [ctx EXCEPT ![c] = q]
  BY <1>1, <1>4 DEF TruncateLock, MoveTo, ContextInv, ContextTypes
<1>6. "fill" \in ContextPlaces BY DEF ContextPlaces
<1>7. /\ q \in ContextCall /\ q.at = "fill" /\ q.request = call.request /\ q.locked = call.locked
      /\ q.facts = call.facts /\ q.seen = call.seen /\ q.todo = call.todo
  BY <1>4, <1>6 DEF ContextCall
<1>8. ~Staging(q) /\ Knows(q) BY <1>3, <1>7 DEF Staging, Knows
<1>9. \A t : AloneTrue(q, t)' BY <1>7 DEF AloneTrue
<1>10. /\ context' = [context EXCEPT !.lock = Torn] /\ alone' = alone \cap {c}
       /\ UNCHANGED <<content, edits, staged, doubt>>
  BY DEF TruncateLock, Disturbs
<1> QED BY <1>1, <1>5, <1>7, <1>8, <1>9, <1>10, LockStep

LEMMA FillsLock == ASSUME ContextInv, NEW c \in ContextCalls, FillLock(c) PROVE ContextInv'
<1>1. PICK call \in ContextCall : call = ctx[c] BY ContextCallIs DEF ContextInv
<1>2. PICK tree \in {Missing} \cup ContextTrees : tree = staged[call.request.dir]
  BY <1>1, ContextCallIs DEF ContextInv
<1>3. Knows(call) /\ call.at = "fill" /\ call.request \in ContextRequest
  BY <1>1, <1>2, ContextCallTrue DEF FillLock
<1>4. PICK old \in {Missing} \cup ContextLocks : old = call.locked BY DEF ContextCall
<1>5. old # Missing => LockTrue(old, {}) BY <1>3, <1>4 DEF Knows
<1>6. PICK keeps \in BOOLEAN : keeps = (old # Missing /\ old.generated # NothingGenerated)
  OBVIOUS
<1>7. PICK lock : lock = [sources |-> call.seen,
                          sections |-> IF keeps THEN old.sections ELSE {},
                          generated |-> IF keeps THEN old.generated ELSE NothingGenerated]
  OBVIOUS
<1>8. context' = [context EXCEPT !.lock = lock] BY <1>1, <1>4, <1>6, <1>7 DEF FillLock
<1>9. lock \in ContextLocks
  <2>1. call.seen \in SourceHashes BY <1>3 DEF Knows
  <2>2. NothingGenerated \in GeneratedTrees
    BY DEF NothingGenerated, GeneratedTrees, GeneratedFiles
  <2>3. keeps => old \in ContextLocks BY <1>6
  <2> QED BY <1>7, <2>1, <2>2, <2>3, LockIs DEF ContextLocks
<1>10. doubt' = doubt \cup {"init"} /\ UNCHANGED <<content, edits, staged>>
       /\ alone' = alone \cap {c}
  BY DEF FillLock, Disturbs
<1>11. LockTrue(lock, {})'
  <2>1. ASSUME doubt' \subseteq {"init"}, lock.generated # NothingGenerated
        PROVE  lock.generated.architecture # Missing
               /\ Sectioned(lock.generated.architecture, lock.sections)'
    <3>1. keeps /\ old # Missing /\ lock.generated = old.generated /\ lock.sections = old.sections
      BY <1>6, <1>7, <2>1
    <3>2. old.generated # NothingGenerated /\ doubt \subseteq {"init"}
      BY <1>10, <2>1, <3>1
    <3>3. /\ old.generated.architecture # Missing
          /\ Sectioned(old.generated.architecture, old.sections)
      BY <1>5, <3>1, <3>2 DEF LockTrue
    <3>4. Sectioned(old.generated.architecture, old.sections)'
      BY <1>10, <3>3 DEF Sectioned, Fact
    <3> QED BY <3>1, <3>3, <3>4
  <2> QED BY <1>10, <2>1 DEF LockTrue
<1>12. PICK q : q = CallAt("done", call.request, {}) OBVIOUS
<1>13. ctx' = [ctx EXCEPT ![c] = q] BY <1>1, <1>12 DEF FillLock, Leave, Asked
<1>14. "done" \in ContextPlaces /\ {} \in {Missing} \cup SUBSET ContextFacts
  BY DEF ContextPlaces
<1>15. /\ q \in ContextCall /\ q.at = "done" /\ q.request = call.request /\ q.locked = Missing
       /\ q.todo = {}
  BY <1>3, <1>12, <1>14, NewContextCall
<1>16. ~Staging(q) /\ Knows(q) /\ q.request.op = "init"
  BY <1>3, <1>15 DEF Staging, Knows
<1>17. \A t : AloneTrue(q, t)' BY <1>15, <1>16 DEF AloneTrue
<1> QED BY <1>1, <1>8, <1>9, <1>10, <1>11, <1>13, <1>15, <1>16, <1>17, LockStep

LEMMA CleansRuns == ASSUME ContextInv, NEW c \in ContextCalls, CleanRuns(c) PROVE ContextInv'
<1>1. PICK call \in ContextCall : call = ctx[c] BY ContextCallIs DEF ContextInv
<1>2. PICK tree \in {Missing} \cup ContextTrees : tree = staged[call.request.dir]
  BY <1>1, ContextCallIs DEF ContextInv
<1>3. Knows(call) /\ call.at = "clean" /\ call.request \in ContextRequest
  BY <1>1, <1>2, ContextCallTrue DEF CleanRuns
<1>4. /\ ContextTypes /\ Past(content) /\ StagersApart /\ ContextTold
      /\ UNCHANGED <<content, edits, context, doubt>>
  BY DEF ContextInv, CleanRuns
<1>5. PICK removed : /\ staged' = [d \in RunDirs |-> IF d \in removed THEN Missing ELSE staged[d]]
                     /\ alone' = {o \in alone : o = c \/ Asked(o).dir \notin removed}
  BY DEF CleanRuns
<1>6. PICK q : q = CallAt("done", call.request, {}) OBVIOUS
<1>7. ctx' = [ctx EXCEPT ![c] = q] BY <1>1, <1>6 DEF CleanRuns, Leave, Asked
<1>8. "done" \in ContextPlaces /\ {} \in {Missing} \cup SUBSET ContextFacts
  BY DEF ContextPlaces
<1>9. /\ q \in ContextCall /\ q.at = "done" /\ q.request = call.request /\ q.locked = Missing
      /\ q.todo = {}
  BY <1>3, <1>6, <1>8, NewContextCall
<1>10. ~Staging(q) /\ Knows(q) /\ q.request.op = "clean"
  BY <1>3, <1>9 DEF Staging, Knows
<1>11. ctx'[c] = q /\ \A o \in ContextCalls : o # c => ctx'[o] = ctx[o]
  BY <1>4, <1>7 DEF ContextTypes
<1>12. ContextTypes' BY <1>4, <1>5, <1>7, <1>9 DEF ContextTypes
<1>13. Past(content)' /\ ContextTold' BY <1>4, LockStays DEF Past, ContextTold
<1>14. StagersApart' BY <1>4, <1>10, <1>11 DEF StagersApart, Asked
<1>15. ASSUME NEW o \in ContextCalls PROVE CallTrue(o)'
  <2>1. CASE o = c
    <3>1. Knows(q)' BY <1>4, <1>9, <1>10, KnownStays
    <3>2. \A t : StagedTrue(q, t)' BY <1>10 DEF StagedTrue
    <3>3. \A t : AloneTrue(q, t)' BY <1>9, <1>10 DEF AloneTrue
    <3> QED BY <1>11, <2>1, <3>1, <3>2, <3>3 DEF CallTrue
  <2>2. CASE o # c
    <3>1. CallTrue(o) /\ ctx'[o] = ctx[o] /\ ctx[o].request.dir \in RunDirs
      BY <1>4, <1>11, <2>2, ContextCallIs DEF ContextInv
    <3>2. o \in alone' => o \in alone /\ ctx[o].request.dir \notin removed
      BY <1>5, <2>2 DEF Asked
    <3>3. /\ staged'[ctx[o].request.dir] \in {staged[ctx[o].request.dir], Missing}
          /\ ctx[o].request.dir \notin removed =>
               staged'[ctx[o].request.dir] = staged[ctx[o].request.dir]
      BY <1>5, <3>1
    <3> QED BY <1>4, <3>1, <3>2, <3>3, OtherContextCall
  <2> QED BY <2>1, <2>2
<1> QED BY <1>12, <1>13, <1>14, <1>15 DEF ContextInv

\* An edit writes what no lock and no call has seen, or removes the source.
LEMMA FactsAge ==
  ASSUME content \in SourceHashes, edits \in Nat, NEW f \in SourceFiles, NEW v \in {edits + 2, 0},
         content' = [content EXCEPT ![f] = v], edits' = edits + 1,
         NEW facts \in SUBSET ContextFacts
  PROVE  /\ \A sources \in SourceHashes : Past(sources) =>
              /\ Past(sources)'
              /\ TrueOf(facts, sources) => TrueOf(facts, sources)'
              /\ TrueWhereListed(facts, sources) => TrueWhereListed(facts, sources)'
         /\ \A sections \in SUBSET [file : SourceFiles, stubbed : BOOLEAN, hash : Nat] :
              Sectioned(facts, sections) => Sectioned(facts, sections)'
<1>1. \A g \in SourceFiles : content'[g] = IF g = f THEN v ELSE content[g]
  BY DEF SourceHashes
<1>2. \A g \in SourceFiles : g # f => Fact(g)' = Fact(g) BY <1>1 DEF Fact
<1>3. \A x \in facts : x.file \in SourceFiles BY DEF ContextFacts
<1>4. ASSUME NEW sources \in SourceHashes, Past(sources) PROVE Past(sources)'
  <2>1. \A g \in SourceFiles : sources[g] \in Nat BY DEF SourceHashes
  <2>2. \A g \in SourceFiles : sources[g] <= edits + 1 BY <1>4 DEF Past
  <2>3. \A g \in SourceFiles : sources[g] <= edits' + 1 BY <2>1, <2>2
  <2> QED BY <2>3 DEF Past
<1>5. ASSUME NEW sources \in SourceHashes, Past(sources), NEW x \in facts, sources[x.file] # 0,
             content[x.file] = sources[x.file] => x = Fact(x.file),
             content'[x.file] = sources[x.file]
      PROVE  x = Fact(x.file)'
  <2>1. x.file # f
    <3>1. sources[f] \in Nat /\ sources[f] <= edits + 1 BY <1>5 DEF Past, SourceHashes
    <3> QED BY <1>1, <1>5, <3>1
  <2> QED BY <1>1, <1>2, <1>3, <1>5, <2>1
<1>6. ASSUME NEW sources \in SourceHashes, Past(sources), TrueOf(facts, sources)
      PROVE  TrueOf(facts, sources)'
  BY <1>5, <1>6 DEF TrueOf
<1>7. ASSUME NEW sources \in SourceHashes, Past(sources), TrueWhereListed(facts, sources)
      PROVE  TrueWhereListed(facts, sources)'
  BY <1>5, <1>7 DEF TrueWhereListed
<1>8. ASSUME NEW sections \in SUBSET [file : SourceFiles, stubbed : BOOLEAN, hash : Nat],
             Sectioned(facts, sections)
      PROVE  Sectioned(facts, sections)'
  <2> SUFFICES ASSUME NEW x \in facts
               PROVE  \E s \in sections : /\ s.file = x.file /\ s.hash # 0 /\ s.hash <= edits' + 1
                                          /\ content'[x.file] = s.hash => x = Fact(x.file)'
    BY DEF Sectioned
  <2>1. PICK s \in sections : /\ s.file = x.file /\ s.hash # 0 /\ s.hash <= edits + 1
                              /\ content[x.file] = s.hash => x = Fact(x.file)
    BY <1>8 DEF Sectioned
  <2>2. s.hash \in Nat BY <1>8
  <2>3. content'[x.file] = s.hash => x = Fact(x.file)' BY <1>1, <1>2, <1>3, <2>1, <2>2
  <2> QED BY <2>1, <2>2, <2>3
<1> QED BY <1>4, <1>6, <1>7, <1>8

LEMMA LockAges ==
  ASSUME content \in SourceHashes, edits \in Nat, NEW f \in SourceFiles, NEW v \in {edits + 2, 0},
         content' = [content EXCEPT ![f] = v], edits' = edits + 1, doubt' = doubt,
         NEW lock \in ContextLocks, NEW more, LockTrue(lock, more)
  PROVE  LockTrue(lock, more)'
<1>1. PICK facts \in {Missing} \cup SUBSET ContextFacts : facts = lock.generated.architecture
  BY LockIs
<1>2. PICK sources \in SourceHashes : sources = lock.sources BY LockIs
<1>3. PICK sections \in SUBSET [file : SourceFiles, stubbed : BOOLEAN, hash : Nat] :
        sections = lock.sections
  BY LockIs
<1>4. CASE facts = Missing BY <1>1, <1>4 DEF LockTrue
<1>5. CASE facts \in SUBSET ContextFacts
  <2>1. Past(sources) =>
              /\ Past(sources)'
              /\ TrueOf(facts, sources) => TrueOf(facts, sources)'
              /\ TrueWhereListed(facts, sources) => TrueWhereListed(facts, sources)'
    BY <1>5, FactsAge
  <2>2. Sectioned(facts, sections) => Sectioned(facts, sections)' BY <1>5, FactsAge
  <2> QED BY <1>1, <1>2, <1>3, <2>1, <2>2 DEF LockTrue
<1> QED BY <1>4, <1>5

LEMMA EditsSource == ASSUME ContextInv, EditSource PROVE ContextInv'
<1>1. PICK f \in SourceFiles, v \in {edits + 2, 0} : content' = [content EXCEPT ![f] = v]
  BY DEF EditSource
<1>2. /\ ContextTypes /\ Past(content) /\ StagersApart /\ ContextTold
      /\ content \in SourceHashes /\ edits \in Nat
      /\ edits' = edits + 1 /\ alone' = {} /\ UNCHANGED <<context, staged, ctx, doubt>>
  BY DEF ContextInv, ContextTypes, EditSource
<1>3. content' \in SourceHashes /\ edits' \in Nat BY <1>1, <1>2 DEF SourceHashes
<1>4. ContextTypes' BY <1>2, <1>3 DEF ContextTypes
<1>5. Past(content)'
  <2>1. \A g \in SourceFiles : content[g] \in Nat /\ content[g] <= edits + 1
    BY <1>2 DEF Past, SourceHashes
  <2>2. \A g \in SourceFiles : content'[g] \in {content[g], edits + 2, 0}
    BY <1>1, <1>2 DEF SourceHashes
  <2>3. \A g \in SourceFiles : content'[g] <= edits' + 1 BY <1>2, <2>1, <2>2
  <2> QED BY <2>3 DEF Past
<1>6. StagersApart' BY <1>2 DEF StagersApart, Asked
<1>7. ContextTold' BY <1>1, <1>2, LockAges DEF ContextTold
<1>8. ASSUME NEW o \in ContextCalls PROVE CallTrue(o)'
  <2> SUFFICES ASSUME NEW call \in ContextCall, NEW tree \in {Missing} \cup ContextTrees,
                      call = ctx[o], tree = staged[call.request.dir]
               PROVE  Knows(call)' /\ StagedTrue(call, tree)'
    BY <1>2 DEF CallTrue
  <2>1. Knows(call) /\ StagedTrue(call, tree) BY ContextCallTrue
  <2>2. call.locked # Missing => LockTrue(call.locked, {})'
    <3>1. ASSUME call.locked # Missing PROVE LockTrue(call.locked, {})'
      <4>1. PICK lock \in ContextLocks : lock = call.locked BY <3>1 DEF ContextCall
      <4>2. LockTrue(lock, {}) BY <2>1, <3>1, <4>1 DEF Knows
      <4>3. LockTrue(lock, {})' BY <1>1, <1>2, <4>2, LockAges
      <4> QED BY <4>1, <4>3
    <3> QED BY <3>1
  <2>3. ASSUME call.at \in {"load", "truncate", "fill", "plan", "extract", "stage", "lock", "apply"}
        PROVE  call.seen \in SourceHashes /\ Past(call.seen) /\ Past(call.seen)'
    <3>1. PICK sources \in SourceHashes : sources = call.seen /\ Past(sources)
      BY <2>1, <2>3 DEF Knows
    <3>2. {} \in SUBSET ContextFacts OBVIOUS
    <3>3. Past(sources)' BY <1>1, <1>2, <3>1, <3>2, FactsAge
    <3> QED BY <3>1, <3>3
  <2>4. ASSUME call.at \in {"stage", "lock", "apply"} PROVE TrueOf(call.facts, call.seen)'
    <3>1. PICK sources \in SourceHashes : sources = call.seen /\ Past(sources)
      BY <2>3, <2>4
    <3>2. PICK facts \in SUBSET ContextFacts : facts = call.facts /\ TrueOf(facts, sources)
      BY <2>1, <2>4, <3>1 DEF Knows, ContextCall
    <3>3. TrueOf(facts, sources)' BY <1>1, <1>2, <3>1, <3>2, FactsAge
    <3> QED BY <3>1, <3>2, <3>3
  <2>5. Knows(call)' BY <2>1, <2>2, <2>3, <2>4 DEF Knows
  <2>6. ASSUME Staging(call), "shared" \notin doubt, tree # Missing, Incremental(call),
               doubt \subseteq {"changed"}
        PROVE  TrueWhereListed(tree.architecture, call.seen)'
    <3>1. PICK sources \in SourceHashes : sources = call.seen /\ Past(sources)
      BY <2>3, <2>6 DEF Staging
    <3>2. PICK facts \in SUBSET ContextFacts :
            facts = tree.architecture /\ TrueWhereListed(facts, sources)
      BY <2>1, <2>6, <3>1, TreeIs DEF StagedTrue
    <3>3. TrueWhereListed(facts, sources)' BY <1>1, <1>2, <3>1, <3>2, FactsAge
    <3> QED BY <3>1, <3>2, <3>3
  <2>7. StagedTrue(call, tree)' BY <1>2, <2>1, <2>6 DEF StagedTrue
  <2> QED BY <2>5, <2>7
<1> QED BY <1>4, <1>5, <1>6, <1>7, <1>8 DEF ContextInv

LEMMA ContextKept == ContextInv /\ [ContextNext]_contextVars => ContextInv'
<1> SUFFICES ASSUME ContextInv, [ContextNext]_contextVars PROVE ContextInv' OBVIOUS
<1>1. CASE EditSource BY <1>1, EditsSource
<1>2. ASSUME NEW c \in ContextCalls, ContextStep(c) PROVE ContextInv'
  <2>1. CASE CheckStatus(c) \/ LoadShards(c) \/ ScanRepository(c) \/ PlanContext(c)
    BY <2>1, ChecksStatus, LoadsShards, ScansRepository, PlansContext
  <2>2. CASE RefuseDirty(c) \/ ExtractFacts(c) \/ RunEndsWell(c) \/ InitLoadsLock(c)
    BY <2>2, RefusesDirty, ExtractsFacts, RunEnds, InitLoads
  <2>3. CASE StageContext(c) \/ StageLock(c) \/ ApplyFile(c)
    BY <2>3, StagesContext, StagesLock, AppliesFile
  <2>4. CASE TruncateLock(c) \/ FillLock(c) \/ CleanRuns(c)
    BY <2>4, TruncatesLock, FillsLock, CleansRuns
  <2> QED BY <1>2, <2>1, <2>2, <2>3, <2>4 DEF ContextStep
<1>3. CASE UNCHANGED contextVars
  <2>1. UNCHANGED <<content, edits, context, staged, ctx, alone, doubt>>
    BY <1>3 DEF contextVars
  <2>2. /\ ContextTypes /\ Past(content) /\ StagersApart /\ ContextTold
    BY DEF ContextInv
  <2>3. ContextTypes' /\ Past(content)' /\ StagersApart'
    BY <2>1, <2>2 DEF ContextTypes, Past, StagersApart, Asked
  <2>4. ContextTold' BY <2>1, <2>2, LockStays DEF ContextTold
  <2>5. ASSUME NEW o \in ContextCalls PROVE CallTrue(o)'
    BY <2>1, <2>2, OtherContextCall DEF ContextInv
  <2> QED BY <2>3, <2>4, <2>5 DEF ContextInv
<1> QED BY <1>1, <1>2, <1>3 DEF ContextNext

----------------------------------------------------------------------------
\* A check that passes, and what the doubts leave of it.
LEMMA PassEarnsTrust ==
  ASSUME ContextInv, NEW strict \in BOOLEAN, Passes(strict)
  PROVE  /\ doubt = {} =>
              context.architecture = {Fact(f) : f \in Existing(context.lock.sources)}
         /\ Described /\ strict /\ doubt \subseteq {"init"} =>
              \A x \in context.architecture : Holds(x)
         /\ doubt \subseteq {"changed"} =>
              \A x \in context.architecture : context.lock.sources[x.file] # 0 => Holds(x)
<1>1. /\ context \in ContextTrees /\ content \in SourceHashes
      /\ Readable /\ SourcesCurrent /\ GeneratedAsLocked /\ (strict => SectionsCurrent)
  BY DEF ContextInv, ContextTypes, Passes
<1>2. PICK lock \in ContextLocks : lock = context.lock BY <1>1, TreeIs DEF Readable
<1>3. LockTrue(lock, {}) BY <1>2 DEF ContextInv, ContextTold
<1>4. PICK facts \in {Missing} \cup SUBSET ContextFacts : facts = lock.generated.architecture
  BY LockIs
<1>5. facts # Missing => context.architecture = facts /\ \A x \in facts : x.file \in SourceFiles
  BY <1>1, <1>2, <1>4 DEF GeneratedAsLocked, GeneratedFiles, ContextFacts
<1>6. \A f \in SourceFiles : lock.sources[f] # 0 => content[f] = lock.sources[f]
  BY <1>1, <1>2 DEF SourcesCurrent, Existing
<1>7. ASSUME doubt = {}
      PROVE  context.architecture = {Fact(f) : f \in Existing(lock.sources)}
  <2>1. facts # Missing /\ TrueOf(facts, lock.sources) /\ Covers(facts, Existing(lock.sources))
    BY <1>3, <1>4, <1>7 DEF LockTrue
  <2>2. \A x \in facts : x.file \in Existing(lock.sources) /\ x = Fact(x.file)
    BY <1>5, <1>6, <2>1 DEF TrueOf, Covers
  <2>3. \A f \in Existing(lock.sources) : \E x \in facts : x.file = f BY <2>1 DEF Covers
  <2>4. \A f \in Existing(lock.sources) : Fact(f) \in facts BY <2>2, <2>3
  <2> QED BY <1>5, <2>1, <2>2, <2>4
<1>8. ASSUME Described, strict, doubt \subseteq {"init"}, NEW x \in context.architecture
      PROVE  Holds(x)
  <2>1. lock.generated # NothingGenerated BY <1>2, <1>8 DEF Described
  <2>2. facts # Missing /\ Sectioned(facts, lock.sections)
    BY <1>3, <1>4, <1>8, <2>1 DEF LockTrue
  <2>3. x \in facts /\ x.file \in SourceFiles BY <1>5, <1>8, <2>2
  <2>4. PICK s \in lock.sections : /\ s.file = x.file /\ s.hash # 0
                                   /\ content[x.file] = s.hash => x = Fact(x.file)
    BY <2>2, <2>3 DEF Sectioned
  <2>5. lock.sources[x.file] = s.hash BY <1>1, <1>2, <1>8, <2>4 DEF SectionsCurrent
  <2> QED BY <1>6, <2>3, <2>4, <2>5 DEF Holds
<1>9. ASSUME doubt \subseteq {"changed"}, NEW x \in context.architecture, lock.sources[x.file] # 0
      PROVE  Holds(x)
  <2>1. facts # Missing /\ TrueWhereListed(facts, lock.sources)
    BY <1>3, <1>4, <1>9 DEF LockTrue
  <2>2. x \in facts /\ x.file \in SourceFiles BY <1>5, <1>9, <2>1
  <2> QED BY <1>6, <1>9, <2>1, <2>2 DEF TrueWhereListed, Holds
<1> QED BY <1>2, <1>7, <1>8, <1>9

LEMMA ContextSound == ContextInv => ContextCanBeTrusted
<1> SUFFICES ASSUME ContextInv PROVE PassCanBeTrusted /\ RunMakesItPass /\ ShardsAreTrue
  BY DEF ContextCanBeTrusted
<1>1. ASSUME NEW c \in alone
      PROVE  /\ ctx[c].at = "done" /\ ctx[c].request.op \in {"run", "preflight"}
                  /\ ctx[c].request.write = "apply" => Passes(FALSE)
             /\ ctx[c].at = "done" /\ ctx[c].request.op = "preflight" =>
                  Passes(FALSE) /\ ctx[c].facts = context.architecture
  <2>1. c \in ContextCalls BY <1>1 DEF ContextInv, ContextTypes
  <2>2. PICK call \in ContextCall : call = ctx[c] BY <2>1, ContextCallIs DEF ContextInv
  <2>3. PICK tree \in {Missing} \cup ContextTrees : tree = staged[call.request.dir]
    BY <2>1, <2>2, ContextCallIs DEF ContextInv
  <2>4. Knows(call) /\ AloneTrue(call, tree) BY <1>1, <2>1, <2>2, <2>3, ContextCallTrue
  <2> QED BY <2>2, <2>4 DEF Knows, AloneTrue
<1>2. RunMakesItPass BY <1>1 DEF RunMakesItPass, Asked
<1>3. PassCanBeTrusted BY PassEarnsTrust DEF PassCanBeTrusted
<1>4. ASSUME NEW c \in alone, ctx[c].at = "done", ctx[c].request.op = "preflight",
             doubt \subseteq {"changed"}, NEW x \in ctx[c].facts, context.lock.sources[x.file] # 0
      PROVE  Holds(x)
  <2>1. Passes(FALSE) /\ ctx[c].facts = context.architecture BY <1>1, <1>4
  <2> QED BY <1>4, <2>1, PassEarnsTrust
<1>5. ShardsAreTrue BY <1>4 DEF ShardsAreTrue, Asked
<1> QED BY <1>2, <1>3, <1>5

----------------------------------------------------------------------------
(* ModelCalls: the routing.                                                *)
RouterCall ==
    [at : {"new", "look", "read", "pop", "calling", "answered", "failed", "raised"},
     asks : {"resolve", "invoke"}, todo : Seq(RoutedModels), pool : Seq(RoutedModels),
     tried : SUBSET RoutedModels, since : Nat]

RoutingTypes ==
    /\ health \in [RoutedModels -> Nat \cup {Unmarked}]
    /\ failedAt \in [RoutedModels -> Nat \cup {Unmarked}]
    /\ clock \in Nat /\ forgot \subseteq RoutedModels
    /\ route \in [RouterCalls -> RouterCall]

MarksTrue ==
    \A m \in RoutedModels :
        /\ failedAt[m] # Unmarked => failedAt[m] <= clock
        /\ Rests(m) => health[m] = failedAt[m]
        /\ FailedSince(m, clock) => Rests(m) \/ m \in forgot

\* A call has every model before it, behind it, or found it resting.
WalksOn(call) ==
    /\ IsInjective(call.todo) /\ IsInjective(call.pool) /\ call.since <= clock
    /\ call.at \in {"read", "pop", "calling", "raised"} => call.todo # <<>>
    /\ call.at = "failed" => call.todo = <<>> /\ call.asks = "invoke"
    /\ call.at \in {"calling", "answered"} => call.asks = "invoke"
    /\ call.at = "new" => call.asks = "resolve" /\ call.pool = <<>>
    /\ call.asks = "resolve" => call.tried = {} /\ ToSet(call.todo) \cap ToSet(call.pool) = {}
    /\ call.at # "answered" => call.tried \cap ToSet(call.todo) = {}
    /\ call.at # "new" =>
         \A m \in RoutedModels :
             \/ FailedSince(m, call.since) \/ m \in ToSet(call.todo)
             \/ m \in IF call.asks = "resolve" THEN ToSet(call.pool) ELSE call.tried

\* Who marks a model is done with it.
MarkedBySomeone ==
    \A m \in RoutedModels : Rests(m) =>
        \E d \in RouterCalls : m \in route[d].tried /\ m \notin ToSet(route[d].todo)

Blamed(c, m) ==
    \E d \in RouterCalls \ {c}, e \in RouterCalls \ {c} :
        d # e /\ route[e].at # "new" /\ m \in route[d].tried

\* A mark that c has seen and that is gone was popped by another call.
Explained(c) ==
    \A call \in RouterCall : call = route[c] =>
        /\ call.at = "read" => Rests(Head(call.todo)) \/ Blamed(c, Head(call.todo))
        /\ call.at = "raised" => Blamed(c, Head(call.todo))

RoutingInv ==
    /\ RoutingTypes /\ MarksTrue /\ MarkedBySomeone
    /\ \A c \in RouterCalls : Explained(c)
    /\ \A c \in RouterCalls : \A call \in RouterCall : call = route[c] => WalksOn(call)

----------------------------------------------------------------------------
LEMMA ModelsWalk ==
  ASSUME NEW s \in Seq(RoutedModels), s # <<>>, IsInjective(s)
  PROVE  /\ Head(s) \in RoutedModels /\ Head(s) \in ToSet(s)
         /\ Tail(s) \in Seq(RoutedModels) /\ IsInjective(Tail(s))
         /\ Head(s) \notin ToSet(Tail(s)) /\ ToSet(s) = {Head(s)} \cup ToSet(Tail(s))
<1>1. /\ Len(s) \in Nat /\ Len(s) > 0 /\ DOMAIN s = 1..Len(s) /\ Head(s) = s[1]
      /\ Tail(s) \in Seq(RoutedModels) /\ Len(Tail(s)) = Len(s) - 1
      /\ DOMAIN Tail(s) = 1..(Len(s) - 1)
      /\ \A i \in 1..(Len(s) - 1) : Tail(s)[i] = s[i + 1]
      /\ s[1] \in RoutedModels
  OBVIOUS
<1>2. IsInjective(Tail(s)) BY <1>1 DEF IsInjective
<1>3. ASSUME NEW x PROVE x \in ToSet(s) <=> x = s[1] \/ x \in ToSet(Tail(s))
  <2>1. x \in ToSet(s) <=> \E i \in 1..Len(s) : s[i] = x BY <1>1 DEF ToSet
  <2>2. x \in ToSet(Tail(s)) <=> \E i \in 1..(Len(s) - 1) : s[i + 1] = x
    BY <1>1 DEF ToSet
  <2>3. ASSUME NEW i \in 1..Len(s), s[i] = x, x # s[1] PROVE \E j \in 1..(Len(s) - 1) : s[j + 1] = x
    <3>1. i - 1 \in 1..(Len(s) - 1) /\ (i - 1) + 1 = i BY <1>1, <2>3
    <3> QED BY <2>3, <3>1
  <2>4. ASSUME NEW j \in 1..(Len(s) - 1), s[j + 1] = x PROVE \E i \in 1..Len(s) : s[i] = x
    <3>1. j + 1 \in 1..Len(s) BY <1>1
    <3> QED BY <2>4, <3>1
  <2>5. 1 \in 1..Len(s) BY <1>1
  <2> QED BY <2>1, <2>2, <2>3, <2>4, <2>5
<1>4. s[1] \notin ToSet(Tail(s)) BY <1>1 DEF IsInjective, ToSet
<1> QED BY <1>1, <1>2, <1>3, <1>4

LEMMA ModelsGrow ==
  ASSUME NEW s \in Seq(RoutedModels), NEW m \in RoutedModels, m \notin ToSet(s), IsInjective(s)
  PROVE  /\ Append(s, m) \in Seq(RoutedModels) /\ IsInjective(Append(s, m))
         /\ ToSet(Append(s, m)) = ToSet(s) \cup {m}
<1>1. /\ Append(s, m) \in Seq(RoutedModels) /\ Len(s) \in Nat /\ DOMAIN s = 1..Len(s)
      /\ DOMAIN Append(s, m) = 1..(Len(s) + 1) /\ Append(s, m)[Len(s) + 1] = m
      /\ \A i \in 1..Len(s) : Append(s, m)[i] = s[i]
  OBVIOUS
<1>2. \A i \in 1..(Len(s) + 1) : i = Len(s) + 1 \/ i \in 1..Len(s) BY <1>1
<1>3. \A i \in 1..Len(s) : s[i] # m BY <1>1 DEF ToSet
<1>4. IsInjective(Append(s, m)) BY <1>1, <1>2, <1>3 DEF IsInjective
<1>5. Len(s) + 1 \in 1..(Len(s) + 1) /\ 1..Len(s) \subseteq 1..(Len(s) + 1) BY <1>1
<1>6. ToSet(Append(s, m)) = ToSet(s) \cup {m} BY <1>1, <1>2, <1>5 DEF ToSet
<1> QED BY <1>1, <1>4, <1>6

LEMMA NoModels == <<>> \in Seq(RoutedModels) /\ IsInjective(<<>>) /\ ToSet(<<>>) = {}
<1>1. DOMAIN <<>> = {} OBVIOUS
<1> QED BY <1>1 DEF IsInjective, ToSet

LEMMA RoutingStart == RoutingInit => RoutingInv
<1> SUFFICES ASSUME RoutingInit PROVE RoutingInv OBVIOUS
<1>1. PICK q : q = [at |-> "new", asks |-> "resolve", todo |-> <<>>, pool |-> <<>>,
                    tried |-> {}, since |-> 0]
  OBVIOUS
<1>2. /\ health = [m \in RoutedModels |-> Unmarked] /\ failedAt = health /\ clock = 0
      /\ forgot = {} /\ route = [c \in RouterCalls |-> q]
  BY <1>1 DEF RoutingInit
<1>3. q \in RouterCall BY <1>1, NoModels DEF RouterCall
<1>4. RoutingTypes BY <1>2, <1>3 DEF RoutingTypes
<1>5. MarksTrue /\ MarkedBySomeone
  BY <1>2 DEF MarksTrue, MarkedBySomeone, Rests, FailedSince
<1>6. WalksOn(q) BY <1>1, <1>2, NoModels DEF WalksOn
<1>7. \A c \in RouterCalls : Explained(c) BY <1>1, <1>2 DEF Explained
<1> QED BY <1>2, <1>4, <1>5, <1>6, <1>7 DEF RoutingInv

\* Failures are only added, the newest last.
LEMMA FailuresStay ==
  ASSUME RoutingTypes, MarksTrue, NEW m \in RoutedModels, NEW t \in Nat, FailedSince(m, t),
         failedAt'[m] \in {failedAt[m], clock}
  PROVE  FailedSince(m, t)'
BY RoutingAssumption DEF RoutingTypes, MarksTrue, FailedSince

LEMMA WalksStay ==
  ASSUME RoutingTypes, MarksTrue, NEW call \in RouterCall, WalksOn(call),
         clock' \in Nat, clock <= clock',
         \A m \in RoutedModels : failedAt'[m] \in {failedAt[m], clock}
  PROVE  WalksOn(call)'
<1>1. call.since \in Nat /\ clock \in Nat BY DEF RouterCall, RoutingTypes
<1>2. \A m \in RoutedModels : FailedSince(m, call.since) => FailedSince(m, call.since)'
  BY <1>1, FailuresStay
<1>3. call.since <= clock => call.since <= clock' BY <1>1
<1> QED BY <1>2, <1>3 DEF WalksOn

LEMMA RouteStep ==
  ASSUME RoutingInv, NEW c \in RouterCalls, NEW call \in RouterCall, call = route[c],
         NEW q \in RouterCall, route' = [route EXCEPT ![c] = q],
         clock' = clock, health' \in [RoutedModels -> Nat \cup {Unmarked}],
         failedAt' \in [RoutedModels -> Nat \cup {Unmarked}],
         \A m \in RoutedModels : failedAt'[m] \in {failedAt[m], clock},
         forgot' \subseteq RoutedModels, MarksTrue',
         call.tried \subseteq q.tried, q.at # "new", WalksOn(q)',
         \A m \in call.tried : m \notin ToSet(call.todo) => m \notin ToSet(q.todo),
         \A m \in RoutedModels :
             Rests(m)' => Rests(m) \/ (m \in q.tried /\ m \notin ToSet(q.todo)),
         \A m \in RoutedModels :
             Rests(m) /\ ~Rests(m)' => m \in ToSet(call.todo) /\ call.at # "read",
         q.at = "read" => Rests(Head(q.todo))',
         q.at = "raised" => Blamed(c, Head(q.todo))
  PROVE  RoutingInv'
<1>1. RoutingTypes /\ MarksTrue /\ MarkedBySomeone BY DEF RoutingInv
<1>2. route'[c] = q /\ \A o \in RouterCalls : o # c => route'[o] = route[o]
  BY <1>1 DEF RoutingTypes
<1>3. RoutingTypes' BY <1>1 DEF RoutingTypes
<1>4. \A d \in RouterCalls : route[d].tried \subseteq route'[d].tried
                             /\ (route[d].at # "new" => route'[d].at # "new")
  BY <1>2
<1>5. MarkedBySomeone'
  <2> SUFFICES ASSUME NEW m \in RoutedModels, Rests(m)'
               PROVE  \E d \in RouterCalls : m \in route'[d].tried /\ m \notin ToSet(route'[d].todo)
    BY DEF MarkedBySomeone
  <2>1. CASE m \in q.tried /\ m \notin ToSet(q.todo) BY <1>2, <2>1
  <2>2. CASE Rests(m)
    <3>1. PICK d \in RouterCalls : m \in route[d].tried /\ m \notin ToSet(route[d].todo)
      BY <1>1, <2>2 DEF MarkedBySomeone
    <3>2. CASE d = c BY <1>2, <3>1, <3>2
    <3>3. CASE d # c BY <1>2, <3>1, <3>3
    <3> QED BY <3>2, <3>3
  <2> QED BY <2>1, <2>2
<1>6. ASSUME NEW o \in RouterCalls, NEW m, Blamed(o, m) PROVE Blamed(o, m)'
  BY <1>4, <1>6 DEF Blamed
<1>7. ASSUME NEW o \in RouterCalls PROVE Explained(o)'
  <2> SUFFICES ASSUME NEW old \in RouterCall, old = route'[o]
               PROVE  /\ old.at = "read" => Rests(Head(old.todo))' \/ Blamed(o, Head(old.todo))'
                      /\ old.at = "raised" => Blamed(o, Head(old.todo))'
    BY DEF Explained
  <2>1. CASE o = c BY <1>2, <1>6, <2>1
  <2>2. CASE o # c
    <3>1. old = route[o] /\ Explained(o) /\ WalksOn(old) BY <1>2, <2>2 DEF RoutingInv
    <3>2. CASE old.at = "raised" BY <1>6, <3>1, <3>2 DEF Explained
    <3>3. CASE old.at = "read"
      <4>1. PICK m : m = Head(old.todo) OBVIOUS
      <4>2. old.todo # <<>> /\ old.todo \in Seq(RoutedModels) /\ IsInjective(old.todo)
        BY <3>1, <3>3 DEF WalksOn, RouterCall
      <4>3. m \in RoutedModels /\ m \in ToSet(old.todo) BY <4>1, <4>2, ModelsWalk
      <4>4. Rests(m) \/ Blamed(o, m) BY <3>1, <3>3, <4>1 DEF Explained
      <4>5. CASE Rests(m) /\ ~Rests(m)'
        <5>1. m \in ToSet(call.todo) BY <4>3, <4>5
        <5>2. PICK d \in RouterCalls : m \in route[d].tried /\ m \notin ToSet(route[d].todo)
          BY <1>1, <4>3, <4>5 DEF MarkedBySomeone
        <5>3. d # c /\ d # o BY <3>1, <4>3, <5>1, <5>2
        <5>4. route'[c].at # "new" /\ m \in route'[d].tried BY <1>2, <1>4, <5>2
        <5>5. Blamed(o, m)' BY <2>2, <5>3, <5>4 DEF Blamed
        <5> QED BY <3>3, <4>1, <5>5
      <4>6. CASE Rests(m) /\ Rests(m)' BY <3>3, <4>1, <4>6
      <4>7. CASE Blamed(o, m) BY <1>6, <3>3, <4>1, <4>7
      <4> QED BY <4>4, <4>5, <4>6, <4>7
    <3> QED BY <3>2, <3>3
  <2> QED BY <2>1, <2>2
<1>8. ASSUME NEW o \in RouterCalls, NEW old \in RouterCall, old = route'[o] PROVE WalksOn(old)'
  <2>1. CASE o = c BY <1>2, <1>8, <2>1
  <2>2. CASE o # c
    <3>1. WalksOn(old) BY <1>2, <1>8, <2>2 DEF RoutingInv
    <3>2. clock' \in Nat /\ clock <= clock' BY <1>1 DEF RoutingTypes
    <3> QED BY <1>1, <3>1, <3>2, WalksStay
  <2> QED BY <2>1, <2>2
<1> QED BY <1>3, <1>5, <1>7, <1>8 DEF RoutingInv

\* Steps that touch neither the cache nor the clock.
LEMMA QuietRoute ==
  ASSUME RoutingInv, NEW c \in RouterCalls, NEW call \in RouterCall, call = route[c],
         NEW q \in RouterCall, route' = [route EXCEPT ![c] = q],
         UNCHANGED <<health, clock, failedAt, forgot>>,
         call.tried \subseteq q.tried, q.at # "new", WalksOn(q),
         \A m \in call.tried : m \notin ToSet(call.todo) => m \notin ToSet(q.todo),
         q.at = "read" => Rests(Head(q.todo)),
         q.at = "raised" => Blamed(c, Head(q.todo))
  PROVE  RoutingInv'
<1>1. RoutingTypes /\ MarksTrue BY DEF RoutingInv
<1>2. MarksTrue' BY <1>1 DEF MarksTrue, FailedSince, Rests
<1>3. clock' \in Nat /\ clock <= clock' /\ \A m \in RoutedModels : failedAt'[m] \in {failedAt[m], clock}
  BY <1>1 DEF RoutingTypes
<1>4. WalksOn(q)' BY <1>1, <1>3, WalksStay
<1>5. /\ health' \in [RoutedModels -> Nat \cup {Unmarked}]
      /\ failedAt' \in [RoutedModels -> Nat \cup {Unmarked}] /\ forgot' \subseteq RoutedModels
  BY <1>1 DEF RoutingTypes
<1>6. \A m : Rests(m)' <=> Rests(m) BY DEF Rests
<1> QED BY <1>2, <1>3, <1>4, <1>5, <1>6, RouteStep

LEMMA RouterCallIs ==
  ASSUME RoutingInv, NEW c \in RouterCalls
  PROVE  /\ route[c] \in RouterCall /\ WalksOn(route[c])
         /\ route[c].todo \in Seq(RoutedModels) /\ IsInjective(route[c].todo)
         /\ route[c].pool \in Seq(RoutedModels) /\ IsInjective(route[c].pool)
         /\ route[c].since \in Nat /\ route[c].tried \subseteq RoutedModels
<1>1. route[c] \in RouterCall BY DEF RoutingInv, RoutingTypes
<1>2. WalksOn(route[c]) BY <1>1 DEF RoutingInv
<1> QED BY <1>1, <1>2 DEF RouterCall, WalksOn

LEMMA ResolvesModels == ASSUME RoutingInv, NEW c \in RouterCalls, Resolve(c) PROVE RoutingInv'
<1>1. PICK call \in RouterCall : call = route[c] BY RouterCallIs
<1>2. WalksOn(call) /\ call.at = "new" BY <1>1, RouterCallIs DEF Resolve
<1>3. PICK q : q = [call EXCEPT !.at = "look", !.todo = Candidates, !.since = clock]
  OBVIOUS
<1>4. route' = [route EXCEPT ![c] = q]
  BY <1>1, <1>3 DEF Resolve, RoutingInv, RoutingTypes
<1>5. clock \in Nat /\ Candidates \in Seq(RoutedModels) /\ IsInjective(Candidates)
  BY RoutingAssumption DEF RoutingInv, RoutingTypes
<1>6. /\ q \in RouterCall /\ q.at = "look" /\ q.todo = Candidates /\ q.since = clock
      /\ q.asks = call.asks /\ q.pool = call.pool /\ q.tried = call.tried
  BY <1>3, <1>5 DEF RouterCall
<1>7. call.asks = "resolve" /\ call.pool = <<>> /\ call.tried = {} /\ IsInjective(call.pool)
  BY <1>2 DEF WalksOn
<1>8. WalksOn(q) BY <1>5, <1>6, <1>7, NoModels DEF WalksOn, RoutedModels
<1> QED BY <1>1, <1>4, <1>6, <1>7, <1>8, QuietRoute DEF Resolve

LEMMA BecomesExhausted == ASSUME RoutingInv, NEW c \in RouterCalls, Exhausted(c) PROVE RoutingInv'
<1>1. PICK call \in RouterCall : call = route[c] BY RouterCallIs
<1>2. /\ WalksOn(call) /\ call.at = "look" /\ call.todo = <<>>
      /\ call.pool \in Seq(RoutedModels) /\ IsInjective(call.pool)
  BY <1>1, RouterCallIs DEF Exhausted
<1>3. ToSet(call.todo) = {} BY <1>2, NoModels
<1>4. CASE call.asks = "resolve"
  <2>1. PICK bound : bound = Bound(call.pool) OBVIOUS
  <2>2. bound \in Seq(RoutedModels) /\ IsInjective(bound)
        /\ ToSet(call.pool) \subseteq ToSet(bound)
    BY <1>2, <2>1, RoutingAssumption, NoModels DEF Bound
  <2>3. PICK q : q = [call EXCEPT !.asks = "invoke", !.todo = bound] OBVIOUS
  <2>4. route' = [route EXCEPT ![c] = q]
    BY <1>1, <1>4, <2>1, <2>3 DEF Exhausted, RoutingInv, RoutingTypes
  <2>5. /\ q \in RouterCall /\ q.at = "look" /\ q.todo = bound /\ q.since = call.since
        /\ q.asks = "invoke" /\ q.pool = call.pool /\ q.tried = call.tried
    BY <1>2, <2>2, <2>3 DEF RouterCall
  <2>6. call.tried = {} BY <1>2, <1>4 DEF WalksOn
  <2>7. \A m \in RoutedModels : FailedSince(m, call.since) \/ m \in ToSet(call.pool)
    BY <1>2, <1>3, <1>4 DEF WalksOn
  <2>8. WalksOn(q) BY <1>2, <2>2, <2>5, <2>6, <2>7 DEF WalksOn
  <2> QED BY <1>1, <2>4, <2>5, <2>6, <2>8, QuietRoute DEF Exhausted
<1>5. CASE call.asks # "resolve"
  <2>1. PICK q : q = [call EXCEPT !.at = "failed"] OBVIOUS
  <2>2. route' = [route EXCEPT ![c] = q]
    BY <1>1, <1>5, <2>1 DEF Exhausted, Goes, RoutingInv, RoutingTypes
  <2>3. /\ q \in RouterCall /\ q.at = "failed" /\ q.todo = call.todo /\ q.since = call.since
        /\ q.asks = call.asks /\ q.pool = call.pool /\ q.tried = call.tried
    BY <2>1 DEF RouterCall
  <2>4. call.asks = "invoke" BY <1>5 DEF RouterCall
  <2>5. WalksOn(q) BY <1>2, <2>3, <2>4 DEF WalksOn
  <2> QED BY <1>1, <2>2, <2>3, <2>5, QuietRoute DEF Exhausted
<1> QED BY <1>4, <1>5

\* What a call becomes that goes on from a model it has found healthy.
LEMMA GoesOnHealthy ==
  ASSUME RoutingInv, NEW c \in RouterCalls, NEW call \in RouterCall, call = route[c],
         call.at \in {"look", "pop"}, call.todo # <<>>, Healthy(c)
  PROVE  \E q \in RouterCall :
           /\ route' = [route EXCEPT ![c] = q] /\ q.at \in {"look", "calling"}
           /\ q.tried = call.tried /\ WalksOn(q)
           /\ ToSet(q.todo) \subseteq ToSet(call.todo)
<1>1. /\ WalksOn(call) /\ call.todo \in Seq(RoutedModels) /\ IsInjective(call.todo)
      /\ call.pool \in Seq(RoutedModels) /\ IsInjective(call.pool)
      /\ call.since \in Nat /\ call.tried \subseteq RoutedModels
  BY RouterCallIs
<1>2. /\ Head(call.todo) \in RoutedModels /\ Head(call.todo) \in ToSet(call.todo)
      /\ Tail(call.todo) \in Seq(RoutedModels) /\ IsInjective(Tail(call.todo))
      /\ Head(call.todo) \notin ToSet(Tail(call.todo))
      /\ ToSet(call.todo) = {Head(call.todo)} \cup ToSet(Tail(call.todo))
  BY <1>1, ModelsWalk
<1>3. CASE call.asks = "resolve"
  <2>1. call.tried = {} /\ ToSet(call.todo) \cap ToSet(call.pool) = {}
    BY <1>1, <1>3 DEF WalksOn
  <2>2. PICK pool : pool = Append(call.pool, Head(call.todo)) OBVIOUS
  <2>3. /\ pool \in Seq(RoutedModels) /\ IsInjective(pool)
        /\ ToSet(pool) = ToSet(call.pool) \cup {Head(call.todo)}
    BY <1>1, <1>2, <2>1, <2>2, ModelsGrow
  <2>4. PICK todo : todo = Tail(call.todo) OBVIOUS
  <2>5. PICK q : q = [call EXCEPT !.at = "look", !.todo = todo, !.pool = pool] OBVIOUS
  <2>6. route' = [route EXCEPT ![c] = q]
    BY <1>3, <2>2, <2>4, <2>5 DEF Healthy, RoutingInv, RoutingTypes
  <2>7. /\ q \in RouterCall /\ q.at = "look" /\ q.todo = todo /\ q.since = call.since
        /\ q.asks = "resolve" /\ q.pool = pool /\ q.tried = call.tried
    BY <1>2, <1>3, <2>3, <2>4, <2>5 DEF RouterCall
  <2>8. \A m \in RoutedModels :
          FailedSince(m, call.since) \/ m \in ToSet(call.todo) \/ m \in ToSet(call.pool)
    BY <1>1, <1>3 DEF WalksOn
  <2>9. call.since <= clock BY <1>1 DEF WalksOn
  <2>10. WalksOn(q) BY <1>2, <2>1, <2>3, <2>4, <2>7, <2>8, <2>9 DEF WalksOn
  <2> QED BY <1>2, <2>4, <2>6, <2>7, <2>10
<1>4. CASE call.asks # "resolve"
  <2>1. PICK q : q = [call EXCEPT !.at = "calling"] OBVIOUS
  <2>2. route' = [route EXCEPT ![c] = q]
    BY <1>4, <2>1 DEF Healthy, Goes, RoutingInv, RoutingTypes
  <2>3. /\ q \in RouterCall /\ q.at = "calling" /\ q.todo = call.todo /\ q.since = call.since
        /\ q.asks = call.asks /\ q.pool = call.pool /\ q.tried = call.tried
    BY <2>1 DEF RouterCall
  <2>4. call.asks = "invoke" BY <1>4 DEF RouterCall
  <2>5. WalksOn(q) BY <1>1, <2>3, <2>4 DEF WalksOn
  <2> QED BY <2>2, <2>3, <2>5
<1> QED BY <1>3, <1>4

\* A place further, with everything else as it was.
LEMMA GoesTo ==
  ASSUME RoutingInv, NEW c \in RouterCalls, NEW call \in RouterCall, call = route[c],
         NEW place \in {"read", "pop", "raised"}, Goes(c, place),
         call.at \in {"look", "read"}, call.todo # <<>>,
         UNCHANGED <<health, clock, failedAt, forgot>>,
         place = "read" => Rests(Head(call.todo)),
         place = "raised" => Blamed(c, Head(call.todo))
  PROVE  RoutingInv'
<1>1. WalksOn(call) BY RouterCallIs
<1>2. PICK q : q = [call EXCEPT !.at = place] OBVIOUS
<1>3. route' = [route EXCEPT ![c] = q] BY <1>2 DEF Goes, RoutingInv, RoutingTypes
<1>4. /\ q \in RouterCall /\ q.at = place /\ q.todo = call.todo /\ q.since = call.since
      /\ q.asks = call.asks /\ q.pool = call.pool /\ q.tried = call.tried
  BY <1>2 DEF RouterCall
<1>5. WalksOn(q) BY <1>1, <1>4 DEF WalksOn
<1> QED BY <1>3, <1>4, <1>5, QuietRoute

LEMMA LooksUp == ASSUME RoutingInv, NEW c \in RouterCalls, LookUp(c) PROVE RoutingInv'
<1>1. PICK call \in RouterCall : call = route[c] BY RouterCallIs
<1>2. /\ call.at = "look" /\ call.todo # <<>> /\ UNCHANGED <<health, clock, failedAt, forgot>>
  BY <1>1 DEF LookUp
<1>3. CASE Rests(Head(call.todo)) BY <1>1, <1>2, <1>3, GoesTo DEF LookUp
<1>4. CASE ~Rests(Head(call.todo))
  <2>1. PICK q \in RouterCall :
           /\ route' = [route EXCEPT ![c] = q] /\ q.at \in {"look", "calling"}
           /\ q.tried = call.tried /\ WalksOn(q)
           /\ ToSet(q.todo) \subseteq ToSet(call.todo)
    BY <1>1, <1>2, <1>4, GoesOnHealthy DEF LookUp
  <2> QED BY <1>1, <1>2, <2>1, QuietRoute
<1> QED BY <1>3, <1>4

LEMMA ReadsMark == ASSUME RoutingInv, NEW c \in RouterCalls, ReadMark(c) PROVE RoutingInv'
<1>1. PICK call \in RouterCall : call = route[c] BY RouterCallIs
<1>2. /\ call.at = "read" /\ UNCHANGED <<health, clock, failedAt, forgot>> /\ WalksOn(call)
  BY <1>1, RouterCallIs DEF ReadMark
<1>3. /\ call.todo # <<>> /\ call.todo \in Seq(RoutedModels) /\ IsInjective(call.todo)
      /\ call.since <= clock /\ call.since \in Nat
  BY <1>2 DEF WalksOn, RouterCall
<1>4. PICK m : m = Head(call.todo) OBVIOUS
<1>5. /\ m \in RoutedModels /\ m \in ToSet(call.todo)
      /\ Tail(call.todo) \in Seq(RoutedModels) /\ IsInjective(Tail(call.todo))
      /\ ToSet(call.todo) = {m} \cup ToSet(Tail(call.todo)) /\ m \notin ToSet(Tail(call.todo))
  BY <1>3, <1>4, ModelsWalk
<1>6. CASE ~Rests(m)
  <2>1. Blamed(c, m) BY <1>1, <1>2, <1>4, <1>6 DEF RoutingInv, Explained
  <2>2. Goes(c, "raised") BY <1>1, <1>4, <1>6 DEF ReadMark
  <2> QED BY <1>1, <1>2, <1>3, <1>4, <2>1, <2>2, GoesTo
<1>7. CASE Rests(m) /\ Expired(health[m])
  <2>1. Goes(c, "pop") BY <1>1, <1>4, <1>7 DEF ReadMark
  <2> QED BY <1>1, <1>2, <1>3, <2>1, GoesTo
<1>8. CASE Rests(m) /\ ~Expired(health[m])
  <2>1. PICK todo : todo = Tail(call.todo) OBVIOUS
  <2>2. PICK q : q = [call EXCEPT !.at = "look", !.todo = todo] OBVIOUS
  <2>3. route' = [route EXCEPT ![c] = q]
    BY <1>1, <1>4, <1>8, <2>1, <2>2 DEF ReadMark, Skip, RoutingInv, RoutingTypes
  <2>4. /\ q \in RouterCall /\ q.at = "look" /\ q.todo = todo /\ q.since = call.since
        /\ q.asks = call.asks /\ q.pool = call.pool /\ q.tried = call.tried
    BY <1>5, <2>1, <2>2 DEF RouterCall
  <2>5. FailedSince(m, call.since)
    <3>1. health[m] = failedAt[m] /\ failedAt[m] \in Nat /\ failedAt[m] # Unmarked /\ clock \in Nat
      BY <1>5, <1>8, RoutingAssumption DEF RoutingInv, RoutingTypes, MarksTrue, Rests
    <3>2. clock < failedAt[m] + HealthTtl BY <1>8, <3>1, RoutingAssumption DEF Expired
    <3> QED BY <1>3, <3>1, <3>2, RoutingAssumption DEF FailedSince
  <2>6. WalksOn(q) BY <1>2, <1>5, <2>1, <2>4, <2>5 DEF WalksOn
  <2> QED BY <1>1, <1>2, <1>5, <2>1, <2>3, <2>4, <2>6, QuietRoute
<1> QED BY <1>6, <1>7, <1>8

LEMMA PopsMark == ASSUME RoutingInv, NEW c \in RouterCalls, PopMark(c) PROVE RoutingInv'
<1>1. PICK call \in RouterCall : call = route[c] BY RouterCallIs
<1>2. /\ call.at = "pop" /\ clock' = clock /\ failedAt' = failedAt /\ WalksOn(call)
      /\ Healthy(c) /\ RoutingTypes /\ MarksTrue
  BY <1>1, RouterCallIs DEF PopMark, RoutingInv
<1>3. call.todo # <<>> /\ call.todo \in Seq(RoutedModels) /\ IsInjective(call.todo)
  BY <1>2 DEF WalksOn, RouterCall
<1>4. PICK m : m = Head(call.todo) OBVIOUS
<1>5. m \in RoutedModels /\ m \in ToSet(call.todo) BY <1>3, <1>4, ModelsWalk
<1>6. /\ health' = [health EXCEPT ![m] = Unmarked]
      /\ forgot' = IF Rests(m) /\ ~Expired(health[m]) THEN forgot \cup {m} ELSE forgot
  BY <1>1, <1>4 DEF PopMark
<1>7. PICK q \in RouterCall :
        /\ route' = [route EXCEPT ![c] = q] /\ q.at \in {"look", "calling"}
        /\ q.tried = call.tried /\ WalksOn(q)
        /\ ToSet(q.todo) \subseteq ToSet(call.todo)
  BY <1>1, <1>2, <1>3, GoesOnHealthy
<1>8. /\ health' \in [RoutedModels -> Nat \cup {Unmarked}] /\ forgot' \subseteq RoutedModels
      /\ failedAt' \in [RoutedModels -> Nat \cup {Unmarked}] /\ clock \in Nat
  BY <1>2, <1>5, <1>6 DEF RoutingTypes
<1>9. /\ \A n \in RoutedModels : n # m => health'[n] = health[n]
      /\ health'[m] = Unmarked
  BY <1>2, <1>5, <1>6 DEF RoutingTypes
<1>10. \A n \in RoutedModels : failedAt'[n] \in {failedAt[n], clock} BY <1>2
<1>11. MarksTrue'
  <2> SUFFICES ASSUME NEW n \in RoutedModels
               PROVE  /\ failedAt'[n] # Unmarked => failedAt'[n] <= clock'
                      /\ health'[n] # Unmarked => health'[n] = failedAt'[n]
                      /\ FailedSince(n, clock)' => health'[n] # Unmarked \/ n \in forgot'
    BY DEF MarksTrue, Rests
  <2>1. FailedSince(n, clock)' <=> FailedSince(n, clock) BY <1>2 DEF FailedSince
  <2>2. CASE n # m BY <1>2, <1>6, <1>9, <2>1, <2>2 DEF MarksTrue, Rests
  <2>3. CASE n = m
    <3>1. ASSUME FailedSince(m, clock) PROVE m \in forgot'
      <4>1. CASE Rests(m)
        <5>1. health[m] = failedAt[m] /\ failedAt[m] \in Nat
          BY <1>2, <1>5, <4>1, RoutingAssumption DEF MarksTrue, RoutingTypes, Rests
        <5>2. ~Expired(health[m])
          BY <1>8, <3>1, <5>1, RoutingAssumption, <1>2, <1>5 DEF Expired, FailedSince, MarksTrue
        <5> QED BY <1>6, <4>1, <5>2
      <4>2. CASE ~Rests(m) BY <1>2, <1>5, <1>6, <3>1, <4>2 DEF MarksTrue
      <4> QED BY <4>1, <4>2
    <3> QED BY <1>2, <1>5, <1>9, <2>1, <2>3, <3>1 DEF MarksTrue
  <2> QED BY <2>2, <2>3
<1>12. WalksOn(q)' BY <1>2, <1>7, <1>8, <1>10, WalksStay
<1>13. /\ \A n \in RoutedModels : Rests(n)' => Rests(n)
       /\ \A n \in RoutedModels : Rests(n) /\ ~Rests(n)' => n \in ToSet(call.todo) /\ call.at # "read"
  BY <1>2, <1>5, <1>9 DEF Rests
<1> QED BY <1>1, <1>2, <1>7, <1>8, <1>10, <1>11, <1>12, <1>13, RouteStep

LEMMA CallEndsWell == ASSUME RoutingInv, NEW c \in RouterCalls, CallEnds(c) PROVE RoutingInv'
<1>1. PICK call \in RouterCall : call = route[c] BY RouterCallIs
<1>2. call.at = "calling" /\ WalksOn(call) BY <1>1, RouterCallIs DEF CallEnds
<1>3. call.todo # <<>> /\ call.todo \in Seq(RoutedModels) /\ IsInjective(call.todo)
      /\ call.asks = "invoke"
  BY <1>2 DEF WalksOn, RouterCall
<1>4. PICK m : m = Head(call.todo) OBVIOUS
<1>5. m \in RoutedModels BY <1>3, <1>4, ModelsWalk
<1>6. PICK tried : tried = call.tried \cup {m} OBVIOUS
<1>7. PICK q : q = [call EXCEPT !.at = "answered", !.tried = tried] OBVIOUS
<1>8. route' = [route EXCEPT ![c] = q]
  BY <1>1, <1>4, <1>6, <1>7 DEF CallEnds, RoutingInv, RoutingTypes
<1>9. /\ q \in RouterCall /\ q.at = "answered" /\ q.todo = call.todo /\ q.since = call.since
      /\ q.asks = call.asks /\ q.pool = call.pool /\ q.tried = tried
  BY <1>5, <1>6, <1>7 DEF RouterCall
<1>10. WalksOn(q) BY <1>2, <1>3, <1>6, <1>9 DEF WalksOn
<1> QED BY <1>1, <1>6, <1>8, <1>9, <1>10, QuietRoute DEF CallEnds

LEMMA CallIsMarked == ASSUME RoutingInv, NEW c \in RouterCalls, CallFails(c) PROVE RoutingInv'
<1>1. PICK call \in RouterCall : call = route[c] BY RouterCallIs
<1>2. call.at = "calling" /\ WalksOn(call) /\ RoutingTypes /\ MarksTrue /\ clock' = clock
  BY <1>1, RouterCallIs DEF CallFails, RoutingInv
<1>3. call.todo # <<>> /\ call.todo \in Seq(RoutedModels) /\ IsInjective(call.todo)
      /\ call.asks = "invoke"
  BY <1>2 DEF WalksOn, RouterCall
<1>4. PICK m : m = Head(call.todo) OBVIOUS
<1>5. /\ m \in RoutedModels /\ Tail(call.todo) \in Seq(RoutedModels) /\ IsInjective(Tail(call.todo))
      /\ ToSet(call.todo) = {m} \cup ToSet(Tail(call.todo)) /\ m \notin ToSet(Tail(call.todo))
  BY <1>3, <1>4, ModelsWalk
<1>6. PICK tried : tried = call.tried \cup {m} OBVIOUS
<1>7. PICK todo : todo = Tail(call.todo) OBVIOUS
<1>8. PICK q : q = [call EXCEPT !.at = "look", !.todo = todo, !.tried = tried] OBVIOUS
<1>9. route' = [route EXCEPT ![c] = q]
  BY <1>1, <1>4, <1>6, <1>7, <1>8 DEF CallFails, RoutingInv, RoutingTypes
<1>10. /\ q \in RouterCall /\ q.at = "look" /\ q.todo = todo /\ q.since = call.since
       /\ q.asks = call.asks /\ q.pool = call.pool /\ q.tried = tried
  BY <1>5, <1>6, <1>7, <1>8 DEF RouterCall
<1>11. /\ health' = [health EXCEPT ![m] = clock] /\ failedAt' = [failedAt EXCEPT ![m] = clock]
       /\ forgot' = forgot \ {m} /\ clock \in Nat
  BY <1>1, <1>2, <1>4 DEF CallFails, RoutingTypes
<1>12. /\ health' \in [RoutedModels -> Nat \cup {Unmarked}] /\ forgot' \subseteq RoutedModels
       /\ failedAt' \in [RoutedModels -> Nat \cup {Unmarked}]
       /\ \A n \in RoutedModels : n # m => health'[n] = health[n] /\ failedAt'[n] = failedAt[n]
       /\ health'[m] = clock /\ failedAt'[m] = clock
  BY <1>2, <1>5, <1>11 DEF RoutingTypes
<1>13. \A n \in RoutedModels : failedAt'[n] \in {failedAt[n], clock} BY <1>12
<1>14. clock # Unmarked BY <1>11, RoutingAssumption
<1>15. MarksTrue'
  <2> SUFFICES ASSUME NEW n \in RoutedModels
               PROVE  /\ failedAt'[n] # Unmarked => failedAt'[n] <= clock'
                      /\ health'[n] # Unmarked => health'[n] = failedAt'[n]
                      /\ FailedSince(n, clock)' => health'[n] # Unmarked \/ n \in forgot'
    BY DEF MarksTrue, Rests
  <2>1. CASE n = m BY <1>2, <1>11, <1>12, <1>14, <2>1
  <2>2. CASE n # m
    <3>1. FailedSince(n, clock)' <=> FailedSince(n, clock)
      BY <1>2, <1>12, <2>2 DEF FailedSince
    <3> QED BY <1>2, <1>11, <1>12, <2>2, <3>1 DEF MarksTrue, Rests
  <2> QED BY <2>1, <2>2
<1>16. WalksOn(q)'
  <2>1. WalksOn(q) BY <1>2, <1>3, <1>5, <1>6, <1>7, <1>10 DEF WalksOn
  <2> QED BY <1>2, <1>10, <1>11, <1>13, <2>1, WalksStay
<1>17. /\ \A n \in RoutedModels :
            Rests(n)' => Rests(n) \/ (n \in q.tried /\ n \notin ToSet(q.todo))
       /\ \A n \in RoutedModels : Rests(n) => Rests(n)'
  BY <1>5, <1>6, <1>7, <1>10, <1>12, <1>14 DEF Rests
<1>18. \A n \in call.tried : n \notin ToSet(call.todo) => n \notin ToSet(q.todo)
  BY <1>5, <1>7, <1>10
<1> QED
  BY <1>1, <1>2, <1>6, <1>9, <1>10, <1>12, <1>13, <1>15, <1>16, <1>17, <1>18, RouteStep

LEMMA Ticks == ASSUME RoutingInv, Tick PROVE RoutingInv'
<1>1. /\ RoutingTypes /\ MarksTrue /\ MarkedBySomeone /\ clock' = clock + 1 /\ clock \in Nat
      /\ UNCHANGED <<health, route, failedAt, forgot>>
  BY DEF RoutingInv, RoutingTypes, Tick
<1>2. RoutingTypes' /\ MarkedBySomeone' BY <1>1 DEF RoutingTypes, MarkedBySomeone, Rests
<1>3. MarksTrue'
  <2> SUFFICES ASSUME NEW n \in RoutedModels
               PROVE  /\ failedAt'[n] # Unmarked => failedAt'[n] <= clock'
                      /\ health'[n] # Unmarked => health'[n] = failedAt'[n]
                      /\ FailedSince(n, clock)' => health'[n] # Unmarked \/ n \in forgot'
    BY DEF MarksTrue, Rests
  <2>1. failedAt[n] # Unmarked => failedAt[n] \in Nat /\ failedAt[n] <= clock
    BY <1>1 DEF MarksTrue, RoutingTypes
  <2>2. FailedSince(n, clock)' => FailedSince(n, clock)
    BY <1>1, <2>1, RoutingAssumption DEF FailedSince
  <2> QED BY <1>1, <2>1, <2>2 DEF MarksTrue, Rests
<1>4. \A o \in RouterCalls : Explained(o)'
  BY <1>1 DEF RoutingInv, Explained, Rests, Blamed
<1>5. \A m \in RoutedModels : failedAt'[m] \in {failedAt[m], clock} BY <1>1
<1>6. clock' \in Nat /\ clock <= clock' BY <1>1
<1>7. ASSUME NEW o \in RouterCalls, NEW old \in RouterCall, old = route'[o] PROVE WalksOn(old)'
  <2>1. WalksOn(old) BY <1>1, <1>7 DEF RoutingInv
  <2> QED BY <1>1, <1>5, <1>6, <2>1, WalksStay
<1> QED BY <1>2, <1>3, <1>4, <1>7 DEF RoutingInv

LEMMA RoutingKept == RoutingInv /\ [RoutingNext]_routingVars => RoutingInv'
<1> SUFFICES ASSUME RoutingInv, [RoutingNext]_routingVars PROVE RoutingInv' OBVIOUS
<1>1. ASSUME NEW c \in RouterCalls,
             \/ Resolve(c) \/ Exhausted(c) \/ LookUp(c) \/ ReadMark(c) \/ PopMark(c)
             \/ CallEnds(c) \/ CallFails(c)
      PROVE  RoutingInv'
  BY <1>1, ResolvesModels, BecomesExhausted, LooksUp, ReadsMark, PopsMark, CallEndsWell, CallIsMarked
<1>2. CASE UNCHANGED routingVars
  <2>1. /\ RoutingTypes /\ MarksTrue /\ MarkedBySomeone
        /\ UNCHANGED <<health, clock, route, failedAt, forgot>>
    BY <1>2 DEF RoutingInv, routingVars
  <2>2. RoutingTypes' /\ MarkedBySomeone' /\ MarksTrue'
    BY <2>1 DEF RoutingTypes, MarkedBySomeone, MarksTrue, FailedSince, Rests
  <2>3. \A o \in RouterCalls : Explained(o)'
    BY <2>1 DEF RoutingInv, Explained, Rests, Blamed
  <2>4. ASSUME NEW o \in RouterCalls, NEW old \in RouterCall, old = route'[o] PROVE WalksOn(old)'
    <3>1. WalksOn(old) BY <2>1, <2>4 DEF RoutingInv
    <3> QED BY <2>1, <3>1 DEF WalksOn, FailedSince
  <2> QED BY <2>2, <2>3, <2>4 DEF RoutingInv
<1> QED BY <1>1, <1>2, Ticks DEF RoutingNext

LEMMA RoutingRemembers == RoutingInv => FailuresRemembered
<1> SUFFICES ASSUME RoutingInv PROVE FailuresRemembered OBVIOUS
<1>1. \A m \in RoutedModels : FailedSince(m, clock) => Rests(m) \/ m \in forgot
  BY DEF RoutingInv, MarksTrue
<1>2. ASSUME NEW c \in RouterCalls, route[c].at = "failed", route[c].tried = {},
             NEW m \in RoutedModels
      PROVE  FailedSince(m, route[c].since)
  <2>1. WalksOn(route[c]) /\ route[c].at = "failed" /\ route[c].tried = {}
    BY <1>2, RouterCallIs
  <2>2. PICK call \in RouterCall : call = route[c] BY RouterCallIs
  <2>3. call.todo = <<>> /\ call.asks = "invoke" BY <2>1, <2>2 DEF WalksOn
  <2>4. ToSet(call.todo) = {} BY <2>3, NoModels
  <2> QED BY <2>1, <2>2, <2>3, <2>4 DEF WalksOn
<1>3. ASSUME NEW c \in RouterCalls, route[c].at = "raised"
      PROVE  \E d \in RouterCalls \ {c}, e \in RouterCalls \ {c} :
                 /\ d # e /\ route[e].at # "new"
                 /\ Head(route[c].todo) \in route[d].tried
  <2>1. PICK call \in RouterCall : call = route[c] BY RouterCallIs
  <2>2. Blamed(c, Head(call.todo)) BY <1>3, <2>1 DEF RoutingInv, Explained
  <2> QED BY <2>1, <2>2 DEF Blamed
<1> QED BY <1>1, <1>2, <1>3 DEF FailuresRemembered

----------------------------------------------------------------------------
(* ErrorAdvice.                                                            *)
LEMMA MinIs ==
  ASSUME NEW S \in SUBSET Nat, NEW k \in S, \A j \in S : k <= j
  PROVE  Min(S) = k
<1>1. PICK first : first = Min(S) OBVIOUS
<1>2. first \in S /\ \A j \in S : first <= j BY <1>1 DEF Min
<1> QED BY <1>1, <1>2

LEMMA NothingSaid ==
  ASSUME NEW rules, NEW says, NEW default,
         \A j \in DOMAIN rules : rules[j].phrases \cap says = {}
  PROVE  FirstSaid(rules, says, default) = default
BY DEF FirstSaid

LEMMA FourRules ==
  ASSUME NEW rules, DOMAIN rules = 1..4, NEW says, NEW default
  PROVE  FirstSaid(rules, says, default) =
           IF rules[1].phrases \cap says # {} THEN rules[1].to
           ELSE IF rules[2].phrases \cap says # {} THEN rules[2].to
           ELSE IF rules[3].phrases \cap says # {} THEN rules[3].to
           ELSE IF rules[4].phrases \cap says # {} THEN rules[4].to
           ELSE default
<1>1. PICK said : said = {i \in DOMAIN rules : rules[i].phrases \cap says # {}} OBVIOUS
<1>2. said \in SUBSET Nat /\ \A i \in said : i \in 1..4 BY <1>1
<1>3. FirstSaid(rules, says, default) = IF said = {} THEN default ELSE rules[Min(said)].to
  BY <1>1 DEF FirstSaid
<1>4. CASE /\ rules[1].phrases \cap says # {}
  <2>1. 1 \in said BY <1>1, <1>4
  <2>2. \A j \in said : 1 <= j BY <1>1, <1>2, <1>4
  <2>3. Min(said) = 1 BY <1>2, <2>1, <2>2, MinIs
  <2> QED BY <1>3, <1>4, <2>1, <2>3
<1>5. CASE /\ rules[2].phrases \cap says # {}
           /\ rules[1].phrases \cap says = {}
  <2>1. 2 \in said BY <1>1, <1>5
  <2>2. \A j \in said : 2 <= j BY <1>1, <1>2, <1>5
  <2>3. Min(said) = 2 BY <1>2, <2>1, <2>2, MinIs
  <2> QED BY <1>3, <1>5, <2>1, <2>3
<1>6. CASE /\ rules[3].phrases \cap says # {}
           /\ rules[1].phrases \cap says = {}
           /\ rules[2].phrases \cap says = {}
  <2>1. 3 \in said BY <1>1, <1>6
  <2>2. \A j \in said : 3 <= j BY <1>1, <1>2, <1>6
  <2>3. Min(said) = 3 BY <1>2, <2>1, <2>2, MinIs
  <2> QED BY <1>3, <1>6, <2>1, <2>3
<1>7. CASE /\ rules[4].phrases \cap says # {}
           /\ rules[1].phrases \cap says = {}
           /\ rules[2].phrases \cap says = {}
           /\ rules[3].phrases \cap says = {}
  <2>1. 4 \in said BY <1>1, <1>7
  <2>2. \A j \in said : 4 <= j BY <1>1, <1>2, <1>7
  <2>3. Min(said) = 4 BY <1>2, <2>1, <2>2, MinIs
  <2> QED BY <1>3, <1>7, <2>1, <2>3
<1>8. CASE \A j \in 1..4 : rules[j].phrases \cap says = {}
  <2>1. FirstSaid(rules, says, default) = default BY <1>8, NothingSaid
  <2> QED BY <1>8, <2>1
<1> QED BY <1>4, <1>5, <1>6, <1>7, <1>8

LEMMA ProviderCategory ==
  ASSUME NEW says
  PROVE  ClassifyProviderError(says) =
           IF TransientPhrases \cap says # {} THEN "transient"
           ELSE IF ForbiddenPhrases \cap says # {} THEN "permission"
           ELSE IF CredentialPhrases \cap says # {} THEN "configuration"
           ELSE IF RequestPhrases \cap says # {} THEN "configuration"
           ELSE "fatal"
<1>1. PICK rules : rules = <<Rule("transient", TransientPhrases),
                Rule("permission", ForbiddenPhrases),
                Rule("configuration", CredentialPhrases),
                Rule("configuration", RequestPhrases)>>
  OBVIOUS
<1>2. DOMAIN rules = 1..4 BY <1>1
<1>3. /\ rules[1] = Rule("transient", TransientPhrases)
      /\ rules[2] = Rule("permission", ForbiddenPhrases)
      /\ rules[3] = Rule("configuration", CredentialPhrases)
      /\ rules[4] = Rule("configuration", RequestPhrases)
  BY <1>1
<1>4. ClassifyProviderError(says) = FirstSaid(rules, says, "fatal")
  BY <1>1 DEF ClassifyProviderError
<1> QED BY <1>2, <1>3, <1>4, FourRules DEF Rule

\* The errors that are retried, and what they are not answered as.
LEMMA CategoryOfOthers ==
  ASSUME NEW class, class # "ProviderError", NEW says, NEW e, e = [class |-> class, says |-> says]
  PROVE  /\ class \in {"ConnectionError", "TimeoutError"} => ClassifyError(e) = "transient"
         /\ class \in {"AssertionError", "PatchApplicationError", "VerificationError"} =>
              ClassifyError(e) = "verification"
         /\ class = "PlanningError" => ClassifyError(e) = "recoverable"
         /\ class = "ResumeError" => ClassifyError(e) = "configuration"
         /\ class \notin {"ConnectionError", "TimeoutError", "AssertionError",
                          "PatchApplicationError", "VerificationError", "PlanningError"} =>
              ClassifyError(e) \in {"permission", "configuration", "fatal"}
<1>1. DOMAIN CategoryMap = {"ConnectionError", "TimeoutError", "PermissionError",
        "ToolSafetyError", "FileNotFoundError", "KeyError", "ValueError", "ConfigError",
        "ResumeError", "IntegrationError", "RepoInspectionError", "AssertionError",
        "PatchApplicationError", "VerificationError", "PlanningError", "RuntimeError",
        "ExecutionError"}
  BY DEF CategoryMap
<1>2. /\ CategoryMap["ConnectionError"] = "transient" /\ CategoryMap["TimeoutError"] = "transient"
      /\ CategoryMap["PermissionError"] = "permission" /\ CategoryMap["ToolSafetyError"] = "permission"
      /\ CategoryMap["FileNotFoundError"] = "configuration" /\ CategoryMap["KeyError"] = "configuration"
      /\ CategoryMap["ValueError"] = "configuration" /\ CategoryMap["ConfigError"] = "configuration"
      /\ CategoryMap["ResumeError"] = "configuration"
      /\ CategoryMap["IntegrationError"] = "configuration"
      /\ CategoryMap["RepoInspectionError"] = "configuration"
      /\ CategoryMap["AssertionError"] = "verification"
      /\ CategoryMap["PatchApplicationError"] = "verification"
      /\ CategoryMap["VerificationError"] = "verification"
      /\ CategoryMap["PlanningError"] = "recoverable"
      /\ CategoryMap["RuntimeError"] = "fatal" /\ CategoryMap["ExecutionError"] = "fatal"
  BY DEF CategoryMap
<1>3. ClassifyError(e) = IF class \in DOMAIN CategoryMap THEN CategoryMap[class] ELSE "fatal"
  BY DEF ClassifyError
<1>4. CASE class \in DOMAIN CategoryMap BY <1>1, <1>2, <1>3, <1>4
<1>5. CASE class \notin DOMAIN CategoryMap BY <1>1, <1>3, <1>5
<1> QED BY <1>4, <1>5

LEMMA CategoryOfProvider ==
  ASSUME NEW says
  PROVE  ClassifyError([class |-> "ProviderError", says |-> says]) = ClassifyProviderError(says)
BY DEF ClassifyError

IsError(e) == \E class, says : e = [class |-> class, says |-> says] /\ IsFiniteSet(says)

ErrorTypes ==
    /\ step \in [by : {"runner", "coder"},
                 at : {"call", "returned", "failed", "raised", "interrupted"},
                 retries : Nat, attempt : Nat]
    /\ logged \in [retry : Nat, success : Nat, exhausted : Nat]

CallsCounted ==
    /\ logged.retry = step.attempt /\ step.attempt <= step.retries
    /\ step.at = "call" => logged.exhausted = 0 /\ logged.success = 0
    /\ step.at \in {"failed", "raised", "interrupted"} =>
         /\ logged.exhausted = (IF step.retries > 0 THEN 1 ELSE 0)
         /\ logged.success = 0
         /\ step.at = "failed" => step.attempt = step.retries

\* The error that ended the run is the one that is told.
LastWords ==
    /\ raised = NoError \/ IsError(raised)
    /\ step.at \in {"failed", "raised"} => IsError(raised)
    /\ step.at = "raised" => payload = [name |-> TypeName(raised.class), says |-> raised.says]
    /\ step.at = "failed" => payload = [name |-> "None", says |-> raised.says]

ErrorInv == ErrorTypes /\ CallsCounted /\ LastWords

LEMMA ErrorsBegin ==
  ASSUME ErrorInit
  PROVE  ErrorInv
<1>1. PICK began : began = step OBVIOUS
<1>2. CASE began \in [by : {"runner"}, at : {"call"}, retries : StepRetries, attempt : {0}]
  <2>1. began.retries \in Nat /\ began.by = "runner" /\ began.at = "call" /\ began.attempt = 0
    BY <1>2, ErrorAssumption
  <2>2. began = [by |-> "runner", at |-> "call", retries |-> began.retries, attempt |-> 0]
    BY <1>2
  <2>3. PICK retries : retries = began.retries OBVIOUS
  <2>4. began \in [by : {"runner", "coder"},
                at : {"call", "returned", "failed", "raised", "interrupted"},
                retries : Nat, attempt : Nat]
    BY <2>1, <2>2, <2>3
  <2> QED
    BY <1>1, <2>1, <2>4 DEF ErrorInit, ErrorInv, ErrorTypes, CallsCounted, LastWords
<1>3. CASE began = [by |-> "coder", at |-> "call", retries |-> 0, attempt |-> 0]
  BY <1>1, <1>3 DEF ErrorInit, ErrorInv, ErrorTypes, CallsCounted, LastWords
<1> QED BY <1>1, <1>2, <1>3 DEF ErrorInit

LEMMA ReturnsKept ==
  ASSUME ErrorInv, CallReturns
  PROVE  ErrorInv'
<1>1. PICK old : old = step /\ old \in [by : {"runner", "coder"},
                 at : {"call", "returned", "failed", "raised", "interrupted"},
                 retries : Nat, attempt : Nat]
  BY DEF ErrorInv, ErrorTypes
<1>2. PICK log : log = logged /\ log \in [retry : Nat, success : Nat, exhausted : Nat]
  BY DEF ErrorInv, ErrorTypes
<1>3. PICK new : new = [old EXCEPT !.at = "returned"] OBVIOUS
<1>4. /\ new.by = old.by /\ new.at = "returned" /\ new.retries = old.retries
      /\ new.attempt = old.attempt
      /\ new \in [by : {"runner", "coder"},
                 at : {"call", "returned", "failed", "raised", "interrupted"},
                 retries : Nat, attempt : Nat]
  BY <1>1, <1>3
<1>5. PICK then : then = IF old.attempt > 0 THEN [log EXCEPT !.success = @ + 1] ELSE log
  OBVIOUS
<1>6. then \in [retry : Nat, success : Nat, exhausted : Nat] /\ then.retry = log.retry
  BY <1>1, <1>2, <1>5
<1>7. step' = new /\ logged' = then /\ raised' = raised /\ payload' = payload
  BY <1>1, <1>2, <1>3, <1>5 DEF CallReturns
<1>8. ErrorTypes' BY <1>4, <1>6, <1>7 DEF ErrorTypes
<1>9. CallsCounted' BY <1>1, <1>2, <1>4, <1>6, <1>7 DEF CallsCounted, ErrorInv
<1>10. LastWords' BY <1>1, <1>4, <1>7 DEF LastWords, ErrorInv
<1> QED BY <1>8, <1>9, <1>10 DEF ErrorInv

LEMMA RetryKept ==
  ASSUME ErrorInv, NEW e, IsError(e), CallRetried(e)
  PROVE  ErrorInv'
<1>1. PICK old : old = step /\ old \in [by : {"runner", "coder"},
                 at : {"call", "returned", "failed", "raised", "interrupted"},
                 retries : Nat, attempt : Nat]
  BY DEF ErrorInv, ErrorTypes
<1>2. PICK log : log = logged /\ log \in [retry : Nat, success : Nat, exhausted : Nat]
  BY DEF ErrorInv, ErrorTypes
<1>3. PICK new : new = [old EXCEPT !.attempt = @ + 1] OBVIOUS
<1>4. /\ new.by = old.by /\ new.at = old.at /\ new.retries = old.retries
      /\ new.attempt = old.attempt + 1
      /\ new \in [by : {"runner", "coder"},
                 at : {"call", "returned", "failed", "raised", "interrupted"},
                 retries : Nat, attempt : Nat]
  BY <1>1, <1>3
<1>5. PICK then : then = [log EXCEPT !.retry = @ + 1] OBVIOUS
<1>6. /\ then \in [retry : Nat, success : Nat, exhausted : Nat] /\ then.retry = log.retry + 1
      /\ then.success = log.success /\ then.exhausted = log.exhausted
  BY <1>2, <1>5
<1>7. /\ step' = new /\ logged' = then /\ raised' = e /\ payload' = payload
      /\ old.at = "call" /\ old.attempt < old.retries
  BY <1>1, <1>2, <1>3, <1>5 DEF CallRetried, MayRetry
<1>8. ErrorTypes' BY <1>4, <1>6, <1>7 DEF ErrorTypes
<1>9. CallsCounted' BY <1>1, <1>2, <1>4, <1>6, <1>7 DEF CallsCounted, ErrorInv
<1>10. LastWords' BY <1>1, <1>4, <1>7 DEF LastWords, IsError
<1> QED BY <1>8, <1>9, <1>10 DEF ErrorInv

\* Whoever gives up counts it once, if the step was to be retried at all.
LEMMA GivingUpKept ==
  ASSUME ErrorInv, NEW e, IsError(e), GivesUp(e),
         NEW end \in {"failed", "raised", "interrupted"}, step' = [step EXCEPT !.at = end],
         end = "failed" => ShouldRetry(ClassifyError(e)),
         end = "failed" => payload' = [name |-> "None", says |-> e.says],
         end = "raised" => payload' = [name |-> TypeName(e.class), says |-> e.says]
  PROVE  ErrorInv'
<1>1. PICK old : old = step /\ old \in [by : {"runner", "coder"},
                 at : {"call", "returned", "failed", "raised", "interrupted"},
                 retries : Nat, attempt : Nat]
  BY DEF ErrorInv, ErrorTypes
<1>2. PICK log : log = logged /\ log \in [retry : Nat, success : Nat, exhausted : Nat]
  BY DEF ErrorInv, ErrorTypes
<1>3. PICK new : new = [old EXCEPT !.at = end] OBVIOUS
<1>4. /\ new.by = old.by /\ new.at = end /\ new.retries = old.retries
      /\ new.attempt = old.attempt
      /\ new \in [by : {"runner", "coder"},
                 at : {"call", "returned", "failed", "raised", "interrupted"},
                 retries : Nat, attempt : Nat]
  BY <1>1, <1>3
<1>5. PICK more : more = [log EXCEPT !.exhausted = @ + 1] OBVIOUS
<1>6. PICK then : then = IF old.retries > 0 THEN more ELSE log OBVIOUS
<1>11. /\ more \in [retry : Nat, success : Nat, exhausted : Nat] /\ more.retry = log.retry
       /\ more.success = log.success /\ more.exhausted = log.exhausted + 1
  BY <1>2, <1>5
<1>12. then \in [retry : Nat, success : Nat, exhausted : Nat] BY <1>2, <1>6, <1>11
<1>7. /\ step' = new /\ logged' = then /\ raised' = e
      /\ old.at = "call" /\ ~ (ShouldRetry(ClassifyError(e)) /\ old.attempt < old.retries)
  BY <1>1, <1>2, <1>3, <1>5, <1>6 DEF GivesUp, MayRetry
<1>8. ErrorTypes' BY <1>4, <1>7, <1>12 DEF ErrorTypes
<1>9. CallsCounted'
  <2>1. /\ log.retry = old.attempt /\ old.attempt <= old.retries
        /\ log.exhausted = 0 /\ log.success = 0
    BY <1>1, <1>2, <1>7 DEF CallsCounted, ErrorInv
  <2>2. more.exhausted = 1 /\ more.success = 0 /\ more.retry = old.attempt
    BY <1>11, <2>1
  <2>3. /\ then.retry = old.attempt /\ then.success = 0
        /\ then.exhausted = IF old.retries > 0 THEN 1 ELSE 0
    <3>1. CASE old.retries > 0 BY <1>6, <2>2, <3>1
    <3>2. CASE ~ (old.retries > 0) BY <1>6, <2>1, <3>2
    <3> QED BY <3>1, <3>2
  <2>4. end = "failed" => old.attempt = old.retries
    <3>1. PICK attempt \in Nat, retries \in Nat : attempt = old.attempt /\ retries = old.retries
      BY <1>1
    <3>2. end = "failed" => ~ (attempt < retries) BY <1>7, <3>1
    <3>3. attempt <= retries BY <2>1, <3>1
    <3>4. end = "failed" => attempt = retries BY <3>2, <3>3
    <3> QED BY <3>1, <3>4
  <2>5. /\ logged'.retry = step'.attempt /\ step'.attempt <= step'.retries
        /\ step'.at # "call" /\ logged'.success = 0
        /\ logged'.exhausted = IF step'.retries > 0 THEN 1 ELSE 0
        /\ step'.at = "failed" => step'.attempt = step'.retries
    BY <1>4, <1>7, <2>1, <2>3, <2>4
  <2> QED BY <2>5 DEF CallsCounted
<1>10. LastWords' BY <1>1, <1>4, <1>7 DEF LastWords, IsError
<1> QED BY <1>8, <1>9, <1>10 DEF ErrorInv

LEMMA ErrorKept ==
  ASSUME ErrorInv, NEW e, IsError(e),
         CallRetried(e) \/ StepFails(e) \/ RunRaises(e) \/ RunInterrupted(e)
  PROVE  ErrorInv'
<1>1. CASE CallRetried(e) BY <1>1, RetryKept
<1>2. CASE StepFails(e)
  <2>1. /\ GivesUp(e) /\ step' = [step EXCEPT !.at = "failed"] /\ ShouldRetry(ClassifyError(e))
        /\ payload' = [name |-> "None", says |-> e.says]
    BY <1>2 DEF StepFails, LogFailure
  <2> QED BY <2>1, GivingUpKept
<1>3. CASE RunRaises(e)
  <2>1. /\ GivesUp(e) /\ step' = [step EXCEPT !.at = "raised"]
        /\ payload' = [name |-> TypeName(e.class), says |-> e.says]
    BY <1>3 DEF RunRaises, LogFailure
  <2> QED BY <2>1, GivingUpKept
<1>4. CASE RunInterrupted(e)
  <2>1. GivesUp(e) /\ step' = [step EXCEPT !.at = "interrupted"]
    BY <1>4 DEF RunInterrupted
  <2> QED BY <2>1, GivingUpKept
<1> QED BY <1>1, <1>2, <1>3, <1>4

LEMMA StillTold == ASSUME ErrorInv, UNCHANGED errorVars PROVE ErrorInv'
<1>1. step' = step /\ raised' = raised /\ logged' = logged /\ payload' = payload
  BY DEF errorVars
<1> QED BY <1>1 DEF ErrorInv, ErrorTypes, CallsCounted, LastWords, IsError

\* A name the summary knows is the class itself.
LEMMA NamesKnown == /\ \A class \in ErrorMap : TypeName(class) = class
                    /\ "None" \notin ErrorMap
BY DEF ErrorMap, TypeName, Own, Builtin

LEMMA OutageByText ==
  ASSUME NEW says, says \cap {"rate_limit", "timeout", "network"} # {}
  PROVE  /\ ErrorSummaryFromText("None", says).category = "transient"
         /\ ErrorSummaryFromText("None", says).retryable
<1>1. PICK rules : rules =
        <<Rule("ProviderError", {"auth", "forbidden", "rate_limit", "model", "timeout", "network"}),
          Rule("PermissionError", {"approval_denied"}),
          Rule("VerificationError", {"patch"})>>
  OBVIOUS
<1>2. PICK said : said = {i \in DOMAIN rules : rules[i].phrases \cap says # {}} OBVIOUS
<1>3. DOMAIN rules = 1..3 BY <1>1
<1>4. said \in SUBSET Nat /\ 1 \in said /\ rules[1].to = "ProviderError"
  <2>1. PICK phrases : phrases = {"auth", "forbidden", "rate_limit", "model", "timeout", "network"}
    OBVIOUS
  <2>2. rules[1] = Rule("ProviderError", phrases) BY <1>1, <2>1
  <2>3. rules[1].to = "ProviderError" /\ rules[1].phrases = phrases BY <2>2 DEF Rule
  <2>4. phrases \cap says # {} BY <2>1
  <2>5. rules[1].phrases \cap says # {} /\ 1 \in DOMAIN rules BY <1>3, <2>3, <2>4
  <2> QED BY <1>2, <1>3, <2>3, <2>5
<1>5. FirstSaid(rules, says, "RuntimeError") = "ProviderError"
  <2>1. Min(said) = 1
    <3>1. \A j \in said : 1 <= j BY <1>2, <1>3
    <3> QED BY <1>4, <3>1, MinIs
  <2> QED BY <1>2, <1>4, <2>1 DEF FirstSaid
<1>6. PICK e : e = [class |-> "ProviderError", says |-> says] OBVIOUS
<1>7. ErrorSummaryFromText("None", says) = ErrorSummary(e)
  BY <1>1, <1>5, <1>6, NamesKnown DEF ErrorSummaryFromText
<1>8. ClassifyError(e) = "transient"
  <2>1. TransientPhrases \cap says # {} BY DEF TransientPhrases
  <2> QED BY <1>6, <2>1, CategoryOfProvider, ProviderCategory
<1>9. ShouldRetry("transient") BY DEF ShouldRetry
<1>10. PICK section : section = TroubleshootingSection(e, "transient") OBVIOUS
<1>11. ErrorSummary(e) = [category |-> "transient", retryable |-> ShouldRetry("transient"),
                          halt |-> ~ ShouldRetry("transient"), section |-> section]
  BY <1>8, <1>10 DEF ErrorSummary
<1> QED BY <1>7, <1>9, <1>11

LEMMA ToldTruly == ErrorInv => ToldAsDecided
<1> SUFFICES ASSUME ErrorInv PROVE ToldAsDecided OBVIOUS
<1>1. ASSUME step.at = "raised", raised.class \in ErrorMap
      PROVE  ToldOfRun = ErrorSummary(raised)
  <2>1. PICK class, says : raised = [class |-> class, says |-> says]
    BY <1>1 DEF ErrorInv, LastWords, IsError
  <2>2. payload = [name |-> class, says |-> says]
    BY <1>1, <2>1, NamesKnown DEF ErrorInv, LastWords
  <2>3. ToldOfRun = ErrorSummaryFromText(class, says) BY <2>2 DEF ToldOfRun
  <2>4. class \in ErrorMap BY <1>1, <2>1
  <2> QED BY <2>1, <2>3, <2>4 DEF ErrorSummaryFromText
<1>2. ASSUME step.at = "failed", raised.class = "ProviderError",
             raised.says \cap {"rate_limit", "timeout", "network"} # {}
      PROVE  ToldOfRun.category = "transient" /\ ToldOfRun.retryable
  <2>1. PICK says : says = raised.says OBVIOUS
  <2>2. payload = [name |-> "None", says |-> says] BY <1>2, <2>1 DEF ErrorInv, LastWords
  <2>3. ToldOfRun = ErrorSummaryFromText("None", says) BY <2>2 DEF ToldOfRun
  <2> QED BY <1>2, <2>1, <2>3, OutageByText
<1> QED BY <1>1, <1>2 DEF ToldAsDecided

LEMMA RetriesTold == ErrorInv => RetriesAccounted
BY DEF ErrorInv, CallsCounted, RetriesAccounted

LEMMA OthersAgree ==
  ASSUME NEW class, class # "ProviderError", NEW says, NEW e, e = [class |-> class, says |-> says]
  PROVE  /\ ErrorSummary(e).retryable =>
              CatalogEntryFor(e) \notin {"auth_error", "configuration_error", "validation_error"}
         /\ ErrorSummary(e).category = "transient" <=> ErrorSummary(e).section = Outage
<1>1. PICK category : category = ClassifyError(e) OBVIOUS
<1>2. PICK section : section = TroubleshootingSection(e, category) OBVIOUS
<1>3. /\ ErrorSummary(e).category = category /\ ErrorSummary(e).section = section
      /\ ErrorSummary(e).retryable = ShouldRetry(category)
  BY <1>1, <1>2 DEF ErrorSummary
<1>4. e.class = class OBVIOUS
<1>5. category = "transient" <=> section = Outage
  <2>1. section = CASE category = "permission" -> "tool_call_blocked"
              [] class = "ResumeError" -> "failed_run"
              [] category = "configuration" /\ class # "ResumeError" -> "configuration_issues"
              [] category = "transient" -> Outage
              [] OTHER -> "fails_mid_execution"
    BY <1>2, <1>4 DEF TroubleshootingSection
  <2>2. class = "ResumeError" => category = "configuration" BY <1>1, CategoryOfOthers
  <2> QED BY <2>1, <2>2 DEF Outage
<1>6. ShouldRetry(category) =>
        class \in {"ConnectionError", "TimeoutError", "AssertionError", "PatchApplicationError",
                   "VerificationError", "PlanningError"}
  BY <1>1, CategoryOfOthers DEF ShouldRetry
<1>7. class \in {"ConnectionError", "TimeoutError", "AssertionError", "PatchApplicationError",
                 "VerificationError", "PlanningError"} =>
        CatalogEntryFor(e) \in {"run_failed", "unexpected_error"}
  BY <1>4 DEF CatalogEntryFor
<1> QED BY <1>3, <1>5, <1>6, <1>7

\* A message that says one thing meets one rule of each list.
LEMMA OneThing ==
  ASSUME NEW says, IsFiniteSet(says), Cardinality(says) <= 1
  PROVE  says = {} \/ \E p : says = {p}
<1>1. Cardinality(says) \in Nat BY FS_CardinalityType
<1>2. CASE Cardinality(says) = 0 BY <1>2, FS_EmptySet
<1>3. CASE Cardinality(says) = 1 BY <1>3, FS_Singleton
<1> QED BY <1>1, <1>2, <1>3

LEMMA ProviderSection ==
  ASSUME NEW says, NEW e, e = [class |-> "ProviderError", says |-> says], NEW category
  PROVE  TroubleshootingSection(e, category) =
           IF ForbiddenPhrases \cap says # {} THEN "provider_forbidden"
           ELSE IF CredentialPhrases \cap says # {} THEN "provider_authentication"
           ELSE IF {"rate_limit", "too_many", "service_unavailable", "timeout"} \cap says # {}
                THEN Outage
           ELSE IF RequestPhrases \cap says # {} THEN "provider_mismatch"
           ELSE CASE category = "permission" -> "tool_call_blocked"
                  [] category = "configuration" -> "configuration_issues"
                  [] category = "transient" -> Outage
                  [] OTHER -> "fails_mid_execution"
<1>1. PICK outages : outages = {"rate_limit", "too_many", "service_unavailable", "timeout"}
  OBVIOUS
<1>2. PICK rules : rules = <<Rule("provider_forbidden", ForbiddenPhrases),
                         Rule("provider_authentication", CredentialPhrases),
                         Rule(Outage, outages),
                         Rule("provider_mismatch", RequestPhrases)>>
  OBVIOUS
<1>3. PICK other : other = CASE category = "permission" -> "tool_call_blocked"
                  [] category = "configuration" -> "configuration_issues"
                  [] category = "transient" -> Outage
                  [] OTHER -> "fails_mid_execution"
  OBVIOUS
<1>4. other = CASE category = "permission" -> "tool_call_blocked"
              [] e.class = "ResumeError" -> "failed_run"
              [] category = "configuration" /\ e.class # "ResumeError" -> "configuration_issues"
              [] category = "transient" -> Outage
              [] OTHER -> "fails_mid_execution"
  BY <1>3
<1>5. TroubleshootingSection(e, category) = FirstSaid(rules, says, other)
  BY <1>1, <1>2, <1>4 DEF TroubleshootingSection
<1>6. DOMAIN rules = 1..4 BY <1>2
<1>7. /\ rules[1] = Rule("provider_forbidden", ForbiddenPhrases)
      /\ rules[2] = Rule("provider_authentication", CredentialPhrases)
      /\ rules[3] = Rule(Outage, outages)
      /\ rules[4] = Rule("provider_mismatch", RequestPhrases)
  BY <1>2
<1> QED BY <1>1, <1>3, <1>5, <1>6, <1>7, FourRules DEF Rule

LEMMA ProviderEntry ==
  ASSUME NEW says, NEW e, e = [class |-> "ProviderError", says |-> says]
  PROVE  CatalogEntryFor(e) = IF {"auth", "forbidden", "401"} \cap says # {} THEN "auth_error"
                              ELSE "provider_error"
<1>1. PICK phrases : phrases = {"auth", "forbidden", "401"} OBVIOUS
<1>2. PICK rules : rules = <<Rule("auth_error", phrases)>> OBVIOUS
<1>3. CatalogEntryFor(e) = FirstSaid(rules, says, "provider_error")
  BY <1>1, <1>2 DEF CatalogEntryFor
<1>4. DOMAIN rules = {1} /\ rules[1].to = "auth_error" /\ rules[1].phrases = phrases
  BY <1>2 DEF Rule
<1>5. CASE phrases \cap says # {}
  <2>1. PICK said : said = {i \in DOMAIN rules : rules[i].phrases \cap says # {}}
    OBVIOUS
  <2>2. said = {1} BY <1>4, <1>5, <2>1
  <2>3. Min(said) = 1 BY <2>2, MinIs
  <2> QED BY <1>1, <1>3, <1>4, <1>5, <2>1, <2>2, <2>3 DEF FirstSaid
<1>6. CASE phrases \cap says = {}
  <2>1. FirstSaid(rules, says, "provider_error") = "provider_error"
    BY <1>4, <1>6, NothingSaid
  <2> QED BY <1>1, <1>3, <1>6, <2>1
<1> QED BY <1>5, <1>6

LEMMA ProviderAgrees ==
  ASSUME NEW says, says = {} \/ \E p : says = {p},
         NEW e, e = [class |-> "ProviderError", says |-> says]
  PROVE  /\ ErrorSummary(e).retryable =>
              CatalogEntryFor(e) \notin {"auth_error", "configuration_error", "validation_error"}
         /\ ErrorSummary(e).category = "transient" <=> ErrorSummary(e).section = Outage
         /\ ErrorSummary(e).retryable => Catalog[CatalogEntryFor(e)].http = 503
<1>1. PICK category : category = ClassifyError(e) OBVIOUS
<1>2. PICK section : section = TroubleshootingSection(e, category) OBVIOUS
<1>3. /\ ErrorSummary(e).category = category /\ ErrorSummary(e).section = section
      /\ ErrorSummary(e).retryable = ShouldRetry(category)
  BY <1>1, <1>2 DEF ErrorSummary
<1>4. category = IF TransientPhrases \cap says # {} THEN "transient"
                 ELSE IF ForbiddenPhrases \cap says # {} THEN "permission"
                 ELSE IF CredentialPhrases \cap says # {} THEN "configuration"
                 ELSE IF RequestPhrases \cap says # {} THEN "configuration"
                 ELSE "fatal"
  BY <1>1, CategoryOfProvider, ProviderCategory
<1>5. ShouldRetry(category) <=> category = "transient" BY <1>4 DEF ShouldRetry
<1>6. category = "transient" <=> TransientPhrases \cap says # {} BY <1>4
<1>7. TransientPhrases \cap says # {} =>
        {"auth", "forbidden", "401"} \cap says = {} /\ ForbiddenPhrases \cap says = {}
          /\ CredentialPhrases \cap says = {} /\ RequestPhrases \cap says = {}
  BY DEF TransientPhrases, ForbiddenPhrases, CredentialPhrases, RequestPhrases
<1>8. category = "transient" <=> section = Outage
  <2>1. CASE TransientPhrases \cap says # {} BY <1>2, <1>6, <1>7, <2>1, ProviderSection
  <2>2. CASE TransientPhrases \cap says = {}
    <3>1. {"rate_limit", "too_many", "service_unavailable", "timeout"} \cap says = {}
      BY <2>2 DEF TransientPhrases
    <3>2. section \in {"provider_forbidden", "provider_authentication", "provider_mismatch",
                       "tool_call_blocked", "configuration_issues", "fails_mid_execution"}
      BY <1>2, <1>6, <2>2, <3>1, ProviderSection
    <3> QED BY <1>6, <2>2, <3>2 DEF Outage
  <2> QED BY <2>1, <2>2
<1>9. ShouldRetry(category) => CatalogEntryFor(e) = "provider_error"
  BY <1>5, <1>6, <1>7, ProviderEntry
<1>10. Catalog["provider_error"].http = 503 BY DEF Catalog
<1> QED BY <1>3, <1>8, <1>9, <1>10

LEMMA Agree == ErrorInv => AdviceAgrees
<1> SUFFICES ASSUME ErrorInv, raised # NoError, Cardinality(raised.says) <= 1
             PROVE  /\ ErrorSummary(raised).retryable =>
                         CatalogEntryFor(raised)
                           \notin {"auth_error", "configuration_error", "validation_error"}
                    /\ ErrorSummary(raised).category = "transient"
                         <=> ErrorSummary(raised).section = Outage
                    /\ raised.class = "ProviderError" /\ ErrorSummary(raised).retryable =>
                         Catalog[CatalogEntryFor(raised)].http = 503
  BY DEF AdviceAgrees
<1>1. PICK class, says : raised = [class |-> class, says |-> says] /\ IsFiniteSet(says)
  BY DEF ErrorInv, LastWords, IsError
<1>2. PICK e : e = raised OBVIOUS
<1>3. e = [class |-> class, says |-> says] /\ e.class = class BY <1>1, <1>2
<1>4. CASE class = "ProviderError"
  <2>1. says = {} \/ \E p : says = {p} BY <1>1, OneThing
  <2> QED BY <1>2, <1>3, <1>4, <2>1, ProviderAgrees
<1>5. CASE class # "ProviderError" BY <1>2, <1>3, <1>5, OthersAgree
<1> QED BY <1>4, <1>5

LEMMA ErrorsTold == ErrorInv => FailuresToldTruly
BY ToldTruly, RetriesTold, Agree DEF FailuresToldTruly

----------------------------------------------------------------------------
(* ModelCalls: the adapters.                                               *)
LEMMA FewAreFinite ==
  /\ IsFiniteSet({})
  /\ \A a : IsFiniteSet({a})
  /\ \A a, b : IsFiniteSet({a, b})
<1>1. IsFiniteSet({}) /\ \A a : IsFiniteSet({a}) BY FS_EmptySet, FS_Singleton
<1>2. ASSUME NEW a, NEW b PROVE IsFiniteSet({a, b})
  <2>1. {a, b} = {a} \cup {b} OBVIOUS
  <2>2. IsFiniteSet({a}) /\ IsFiniteSet({b}) BY <1>1
  <2>3. IsFiniteSet({a} \cup {b}) BY <2>2, FS_Union
  <2> QED BY <2>1, <2>3
<1> QED BY <1>1, <1>2

LEMMA HttpTells ==
  ASSUME NEW f \in ServiceFaults
  PROVE  /\ IsFiniteSet(HttpSays[f])
         /\ f \in {"429", "503", "timeout", "connection"} => TransientPhrases \cap HttpSays[f] # {}
         /\ f \in Refusals => TransientPhrases \cap HttpSays[f] = {}
<1>1. HttpSays[f] =
        CASE f = "400" -> {"bad_request"}
          [] f = "401" -> {"auth", "401"}
          [] f = "403" -> {"forbidden", "401"}
          [] f = "404" -> {"not_found"}
          [] f = "429" -> {"too_many"}
          [] f = "503" -> {"service_unavailable"}
          [] f = "timeout" -> {"timeout", "connection"}
          [] f = "connection" -> {"connection"}
          [] OTHER -> {}
  BY DEF HttpSays
<1>2. HttpSays[f] \in {{}, {"bad_request"}, {"auth", "401"}, {"forbidden", "401"}, {"not_found"},
                       {"too_many"}, {"service_unavailable"}, {"timeout", "connection"},
                       {"connection"}}
  BY <1>1
<1>3. IsFiniteSet(HttpSays[f]) BY <1>2, FewAreFinite
<1>4. f \in {"429", "503", "timeout", "connection"} => TransientPhrases \cap HttpSays[f] # {}
  BY <1>1 DEF TransientPhrases
<1>5. f \in Refusals => TransientPhrases \cap HttpSays[f] = {}
  BY <1>1 DEF TransientPhrases, Refusals
<1> QED BY <1>3, <1>4, <1>5

LEMMA SdkTells ==
  ASSUME NEW f \in ServiceFaults, NEW words \in SdkSays[f]
  PROVE  /\ IsFiniteSet(words)
         /\ f \in {"429", "timeout", "connection"} => TransientPhrases \cap words # {}
         /\ f \in Refusals => TransientPhrases \cap words = {}
<1>1. SdkSays[f] =
        CASE f = "401" -> {{"api_key", "401"}}
          [] f = "403" -> {{"401"}, {"forbidden", "401"}}
          [] f = "404" -> {{"model", "not_found"}}
          [] f = "429" -> {{"rate_limit"}}
          [] f = "503" -> {{}, {"server_overloaded"}}
          [] f = "timeout" -> {{"timeout"}}
          [] f = "connection" -> {{"connection"}}
          [] OTHER -> {{}}
  BY DEF SdkSays
<1>2. words \in {{}, {"api_key", "401"}, {"401"}, {"forbidden", "401"}, {"model", "not_found"},
                 {"rate_limit"}, {"server_overloaded"}, {"timeout"}, {"connection"}}
  BY <1>1
<1>3. IsFiniteSet(words) BY <1>2, FewAreFinite
<1>4. f \in {"429", "timeout", "connection"} => TransientPhrases \cap words # {}
  BY <1>1 DEF TransientPhrases
<1>5. f \in Refusals => TransientPhrases \cap words = {}
  BY <1>1 DEF TransientPhrases, Refusals
<1> QED BY <1>3, <1>4, <1>5

\* What a provider's error comes to, by whether it says anything transient.
LEMMA ProviderTells ==
  ASSUME NEW says
  PROVE  /\ TransientPhrases \cap says # {} => ClassifyError(Provider(says)) = "transient"
         /\ TransientPhrases \cap says = {} => ~ ShouldRetry(ClassifyError(Provider(says)))
<1>1. ClassifyError(Provider(says)) = ClassifyProviderError(says)
  BY CategoryOfProvider DEF Provider
<1> QED BY <1>1, ProviderCategory DEF ShouldRetry

Understood(adapter, fault, e) ==
    /\ adapter \in OpenAI \cup Http
         /\ fault \in {"429", "timeout", "connection"}
                      \cup (IF adapter \in Http THEN {"503"} ELSE {}) =>
         ClassifyError(e) = "transient"
    /\ fault \in Refusals => ~ ShouldRetry(ClassifyError(e))

LEMMA OpenAITells ==
  ASSUME NEW adapter \in OpenAI, NEW fault \in ServiceFaults, NEW e \in OpenAIRaises(fault)
  PROVE  IsError(e) /\ Understood(adapter, fault, e)
<1>1. PICK words \in SdkSays[fault] :
        e = Provider(words \cup (IF fault \in Refusals THEN {} ELSE {"model"}))
  BY DEF OpenAIRaises
<1>2. PICK says : says = words \cup (IF fault \in Refusals THEN {} ELSE {"model"})
  OBVIOUS
<1>3. IsFiniteSet(says) BY <1>2, SdkTells, FewAreFinite, FS_Union
<1>4. e = [class |-> "ProviderError", says |-> says] /\ e = Provider(says)
  BY <1>1, <1>2 DEF Provider
<1>5. adapter \notin Http BY DEF OpenAI, Http
<1>6. fault \in {"429", "timeout", "connection"} => ClassifyError(e) = "transient"
  <2>1. fault \in {"429", "timeout", "connection"} => TransientPhrases \cap says # {}
    BY <1>2, SdkTells
  <2> QED BY <1>4, <2>1, ProviderTells
<1>7. fault \in Refusals => ~ ShouldRetry(ClassifyError(e))
  <2>1. fault \in Refusals => TransientPhrases \cap says = {} BY <1>2, SdkTells
  <2> QED BY <1>4, <2>1, ProviderTells
<1> QED BY <1>3, <1>4, <1>5, <1>6, <1>7 DEF IsError, Understood

LEMMA HttpRaise ==
  ASSUME NEW fault \in ServiceFaults, NEW more \in {{}, {"model"}}, NEW says,
         says = HttpSays[fault] \cup more
  PROVE  /\ IsError(Provider(says))
         /\ fault \in {"429", "503", "timeout", "connection"} =>
              ClassifyError(Provider(says)) = "transient"
         /\ fault \in Refusals => ~ ShouldRetry(ClassifyError(Provider(says)))
<1>1. IsFiniteSet(says) BY HttpTells, FewAreFinite, FS_Union
<1>2. IsError(Provider(says)) BY <1>1 DEF IsError, Provider
<1>3. fault \in {"429", "503", "timeout", "connection"} => TransientPhrases \cap says # {}
  BY HttpTells
<1>4. fault \in Refusals => TransientPhrases \cap says = {}
  BY HttpTells DEF TransientPhrases
<1> QED BY <1>2, <1>3, <1>4, ProviderTells

LEMMA GeminiTells ==
  ASSUME NEW fault \in ServiceFaults, NEW e, e = GeminiRaises(fault)
  PROVE  /\ IsError(e)
         /\ fault \in {"429", "503", "timeout", "connection"} => ClassifyError(e) = "transient"
         /\ fault \in Refusals => ~ ShouldRetry(ClassifyError(e))
<1>1. PICK more \in {{}, {"model"}} :
        more = IF fault \in {"timeout", "broken"} THEN {} ELSE {"model"}
  OBVIOUS
<1>2. PICK says : says = HttpSays[fault] \cup more OBVIOUS
<1>3. e = Provider(says) BY <1>1, <1>2 DEF GeminiRaises
<1> QED BY <1>2, <1>3, HttpRaise

LEMMA HttpAdaptersTell ==
  ASSUME NEW adapter \in Http, NEW fault \in ServiceFaults, NEW e \in Raises(adapter, fault)
  PROVE  IsError(e) /\ Understood(adapter, fault, e)
<1>1. adapter \notin OpenAI BY DEF OpenAI, Http
<1>2. /\ IsError(e)
      /\ fault \in {"429", "503", "timeout", "connection"} => ClassifyError(e) = "transient"
      /\ fault \in Refusals => ~ ShouldRetry(ClassifyError(e))
  <2>1. CASE adapter = "gemini"
    <3>1. e = GeminiRaises(fault) BY <1>1, <2>1 DEF Raises
    <3> QED BY <3>1, GeminiTells
  <2>2. CASE adapter = "vertex"
    <3>1. e = VertexRaises(fault) BY <1>1, <2>2 DEF Raises
    <3>2. CASE fault = "403"
      <4>1. e = Provider({"forbidden"}) BY <3>1, <3>2 DEF VertexRaises
      <4>2. TransientPhrases \cap {"forbidden"} = {} BY DEF TransientPhrases
      <4>3. IsError(e) BY <4>1, FewAreFinite DEF IsError, Provider
      <4> QED BY <3>2, <4>1, <4>2, <4>3, ProviderTells
    <3>3. CASE fault # "403"
      <4>1. e = GeminiRaises(fault) BY <3>1, <3>3 DEF VertexRaises
      <4> QED BY <4>1, GeminiTells
    <3> QED BY <3>2, <3>3
  <2>3. CASE adapter \in {"anthropic", "cohere", "ollama_cloud"}
    <3>1. e = Provider(HttpSays[fault])
      BY <1>1, <2>3 DEF Raises, AnthropicRaises, CohereRaises, OllamaRaises
    <3>2. PICK says : says = HttpSays[fault] \cup {} OBVIOUS
    <3>3. e = Provider(says) /\ {} \in {{}, {"model"}} BY <3>1, <3>2
    <3> QED BY <3>2, <3>3, HttpRaise
  <2> QED BY <2>1, <2>2, <2>3 DEF Http
<1> QED BY <1>2 DEF Understood

\* What the SDKs of the clouds raise is repeated by nobody.
LEMMA CloudsTell ==
  ASSUME NEW adapter \in {"bedrock", "oci"}, NEW fault \in ServiceFaults,
         NEW e \in Raises(adapter, fault)
  PROVE  IsError(e) /\ Understood(adapter, fault, e)
<1>1. adapter \notin OpenAI /\ adapter \notin Http BY DEF OpenAI, Http
<1>2. \E class \in {"RuntimeError", "aictx.ConfigError"} : \E says :
        e = [class |-> class, says |-> says] /\ IsFiniteSet(says)
  <2>1. CASE adapter = "bedrock" BY <1>1, <2>1, HttpTells DEF Raises, BedrockRaises
  <2>2. CASE adapter = "oci"
    <3>1. PICK says : says = CASE fault \in {"401", "404"} -> {"auth"}
                               [] fault = "403" -> {"forbidden"}
                               [] OTHER -> {}
      OBVIOUS
    <3>2. says \in {{"auth"}, {"forbidden"}, {}} BY <3>1
    <3>3. IsFiniteSet(says) BY <3>2, FewAreFinite
    <3>4. e = [class |-> "aictx.ConfigError", says |-> says]
      BY <1>1, <2>2, <3>1 DEF Raises, OciRaises
    <3> QED BY <3>3, <3>4
  <2> QED BY <2>1, <2>2
<1>3. PICK class, says : /\ class \in {"RuntimeError", "aictx.ConfigError"}
                         /\ e = [class |-> class, says |-> says] /\ IsFiniteSet(says)
  BY <1>2
<1>4. ClassifyError(e) \in {"permission", "configuration", "fatal"}
  BY <1>3, CategoryOfOthers
<1>5. ~ ShouldRetry(ClassifyError(e)) BY <1>4 DEF ShouldRetry
<1> QED BY <1>1, <1>3, <1>5 DEF IsError, Understood

LEMMA FaultsTell ==
  ASSUME NEW adapter \in Adapters, NEW fault \in ServiceFaults, NEW e \in Raises(adapter, fault)
  PROVE  IsError(e) /\ Understood(adapter, fault, e)
<1>1. adapter \in OpenAI \/ adapter \in Http \/ adapter \in {"bedrock", "oci"}
  BY AdapterAssumption
<1>2. CASE adapter \in OpenAI
  <2>1. e \in OpenAIRaises(fault) BY <1>2 DEF Raises, OpenAI
  <2> QED BY <1>2, <2>1, OpenAITells
<1> QED BY <1>1, <1>2, HttpAdaptersTell, CloudsTell

LEMMA CredentialsTell ==
  ASSUME NEW adapter, NEW e, e = Provider({"auth"})
  PROVE  IsError(e) /\ Understood(adapter, "401", e)
<1>1. TransientPhrases \cap {"auth"} = {} BY DEF TransientPhrases
<1>2. IsError(e) BY FewAreFinite DEF IsError, Provider
<1> QED BY <1>1, <1>2, ProviderTells DEF Understood

----------------------------------------------------------------------------
(* ModelCalls: the loops around a request.                                 *)
Invocation == [adapter : Adapters, at : {"idle", "send"}, sent : Nat, repair : BOOLEAN,
               fault : ServiceFaults \cup {NoError, "401"}, refusals : Nat]

KnowsRefusals == OpenAI \cup {"gemini", "vertex"}

\* What the last request of a finished invoke met is what the step has to
\* judge, and it has judged it; the adapters that know a refusal met one at
\* most, and the step with it.
Judged ==
    /\ invocation.at = "idle" /\ invocation.fault # NoError =>
         /\ Understood(invocation.adapter, invocation.fault, raised)
         /\ ShouldRetry(ClassifyError(raised)) <=> step.at # "raised"
    /\ invocation.adapter \in KnowsRefusals =>
         /\ invocation.refusals <= 1
         /\ invocation.refusals = 1 => step.at = "raised"

ModelInv == ErrorInv /\ invocation \in Invocation /\ step.by = "runner" /\ Judged

\* How the step judges an error.
LEMMA Judgement ==
  ASSUME ErrorInv, step.by = "runner", NEW e, IsError(e),
         CallRetried(e) \/ StepFails(e) \/ RunRaises(e)
  PROVE  /\ ErrorInv' /\ step'.by = "runner" /\ raised' = e /\ step.at = "call"
         /\ ShouldRetry(ClassifyError(e)) <=> step'.at # "raised"
<1>1. ErrorInv' BY ErrorKept
<1>2. PICK old : old = step /\ old \in [by : {"runner", "coder"},
                 at : {"call", "returned", "failed", "raised", "interrupted"},
                 retries : Nat, attempt : Nat]
  BY DEF ErrorInv, ErrorTypes
<1>3. CASE CallRetried(e)
  <2>1. PICK new : new = [old EXCEPT !.attempt = @ + 1] OBVIOUS
  <2>2. new.by = "runner" /\ new.at = old.at BY <1>2, <2>1
  <2>3. step' = new /\ old.at = "call" /\ raised' = e /\ ShouldRetry(ClassifyError(e))
    BY <1>2, <1>3, <2>1 DEF CallRetried, MayRetry
  <2> QED BY <1>1, <1>2, <2>2, <2>3
<1>4. CASE StepFails(e)
  <2>1. PICK new : new = [old EXCEPT !.at = "failed"] OBVIOUS
  <2>2. new.by = "runner" /\ new.at = "failed" BY <1>2, <2>1
  <2>3. step' = new /\ old.at = "call" /\ raised' = e /\ ShouldRetry(ClassifyError(e))
    BY <1>2, <1>4, <2>1 DEF StepFails, GivesUp
  <2> QED BY <1>1, <1>2, <2>2, <2>3
<1>5. CASE RunRaises(e)
  <2>1. PICK new : new = [old EXCEPT !.at = "raised"] OBVIOUS
  <2>2. new.by = "runner" /\ new.at = "raised" BY <1>2, <2>1
  <2>3. step' = new /\ old.at = "call" /\ raised' = e /\ ~ ShouldRetry(ClassifyError(e))
    BY <1>2, <1>5, <2>1 DEF RunRaises, GivesUp
  <2> QED BY <1>1, <1>2, <2>2, <2>3
<1> QED BY <1>3, <1>4, <1>5

LEMMA RunnerReturns ==
  ASSUME ErrorInv, step.by = "runner", CallReturns
  PROVE  ErrorInv' /\ step'.by = "runner" /\ step.at = "call"
<1>1. ErrorInv' BY ReturnsKept
<1>2. PICK old : old = step /\ old \in [by : {"runner", "coder"},
                 at : {"call", "returned", "failed", "raised", "interrupted"},
                 retries : Nat, attempt : Nat]
  BY DEF ErrorInv, ErrorTypes
<1>3. PICK new : new = [old EXCEPT !.at = "returned"] OBVIOUS
<1>4. new.by = "runner" BY <1>2, <1>3
<1>5. step' = new /\ old.at = "call" BY <1>2, <1>3 DEF CallReturns
<1> QED BY <1>1, <1>2, <1>4, <1>5

\* Whatever a step does while an invoke goes on is no refusal.
LEMMA NothingToJudge ==
  ASSUME ModelInv, ErrorInv', step'.by = "runner", invocation' \in Invocation,
         invocation'.adapter = invocation.adapter,
         invocation'.at = "send" \/ invocation'.fault = NoError,
         invocation.adapter \in KnowsRefusals => invocation'.refusals = invocation.refusals,
         invocation.adapter \in KnowsRefusals /\ invocation.refusals = 1 => step'.at = step.at
  PROVE  ModelInv'
<1>1. Judged' BY DEF Judged, ModelInv, Invocation
<1> QED BY <1>1 DEF ModelInv

LEMMA AsksModel == ASSUME ModelInv, AskModel PROVE ModelInv'
<1>1. PICK old \in Invocation : old = invocation BY DEF ModelInv
<1>2. PICK new : new = [old EXCEPT !.at = "send", !.repair = FALSE, !.fault = NoError]
  OBVIOUS
<1>3. new \in Invocation /\ new.adapter = old.adapter /\ new.at = "send" /\ new.refusals = old.refusals
  BY <1>1, <1>2 DEF Invocation
<1>4. invocation' = new /\ UNCHANGED errorVars BY <1>1, <1>2 DEF AskModel
<1>5. ErrorInv' BY <1>4, StillTold DEF ModelInv
<1>6. step' = step BY <1>4 DEF errorVars
<1> QED BY <1>1, <1>3, <1>4, <1>5, <1>6, NothingToJudge DEF ModelInv

LEMMA RequestFailing ==
  ASSUME ModelInv, NEW fault \in ServiceFaults, RequestFails(fault) PROVE ModelInv'
<1>1. PICK old \in Invocation : old = invocation BY DEF ModelInv
<1>2. PICK more : more = IF fault \in Refusals THEN old.refusals + 1 ELSE old.refusals
  OBVIOUS
<1>10. PICK sent : sent = old.sent + 1 OBVIOUS
<1>3. PICK new : new = [old EXCEPT !.sent = sent, !.fault = fault, !.refusals = more]
  OBVIOUS
<1>4. more \in Nat /\ sent \in Nat BY <1>1, <1>2, <1>10 DEF Invocation
<1>5. new \in Invocation /\ new.adapter = old.adapter /\ new.at = old.at /\ new.refusals = more
  BY <1>1, <1>3, <1>4 DEF Invocation
<1>6. invocation' = new /\ UNCHANGED errorVars /\ old.at = "send"
      /\ ~ Refused(old.adapter, fault)
  BY <1>1, <1>2, <1>3, <1>10 DEF RequestFails, SendsAgain
<1>7. old.adapter \in KnowsRefusals => more = old.refusals
  BY <1>2, <1>6 DEF Refused, KnowsRefusals
<1>8. ErrorInv' BY <1>6, StillTold DEF ModelInv
<1>9. step' = step BY <1>6 DEF errorVars
<1> QED BY <1>1, <1>5, <1>6, <1>7, <1>8, <1>9, NothingToJudge DEF ModelInv

LEMMA Repairs == ASSUME ModelInv, AskToRepair PROVE ModelInv'
<1>1. PICK old \in Invocation : old = invocation BY DEF ModelInv
<1>2. PICK new : new = [old EXCEPT !.repair = TRUE, !.sent = 0] OBVIOUS
<1>3. /\ new \in Invocation /\ new.adapter = old.adapter /\ new.at = old.at
      /\ new.refusals = old.refusals
  BY <1>1, <1>2 DEF Invocation
<1>4. invocation' = new /\ UNCHANGED errorVars /\ old.at = "send"
  BY <1>1, <1>2 DEF AskToRepair
<1>5. ErrorInv' BY <1>4, StillTold DEF ModelInv
<1>6. step' = step BY <1>4 DEF errorVars
<1> QED BY <1>1, <1>3, <1>4, <1>5, <1>6, NothingToJudge DEF ModelInv

LEMMA Answers ==
  ASSUME ModelInv, AnswerIsEmpty \/ AnswerParses \/ RepairFails PROVE ModelInv'
<1>1. PICK old \in Invocation : old = invocation BY DEF ModelInv
<1>2. PICK new : new = [old EXCEPT !.at = "idle", !.sent = 0, !.fault = NoError] OBVIOUS
<1>3. /\ new \in Invocation /\ new.adapter = old.adapter /\ new.fault = NoError
      /\ new.refusals = old.refusals
  BY <1>1, <1>2 DEF Invocation
<1>4. invocation' = new BY <1>1, <1>2 DEF AnswerIsEmpty, AnswerParses, RepairFails
<1>5. ErrorInv' /\ step'.by = "runner" /\ step.at = "call"
  <2>1. CASE AnswerIsEmpty
    <3>1. PICK e : e = [class |-> "IndexError", says |-> {}] /\ RunRaises(e)
      BY <2>1 DEF AnswerIsEmpty
    <3>2. IsError(e) BY <3>1, FewAreFinite DEF IsError
    <3> QED BY <3>1, <3>2, Judgement DEF ModelInv
  <2>2. CASE AnswerParses \/ RepairFails
    <3>1. CallReturns BY <2>2 DEF AnswerParses, RepairFails
    <3> QED BY <3>1, RunnerReturns DEF ModelInv
  <2> QED BY <2>1, <2>2
<1>6. ~ (invocation.adapter \in KnowsRefusals /\ invocation.refusals = 1)
  BY <1>5 DEF ModelInv, Judged
<1> QED BY <1>1, <1>3, <1>4, <1>5, <1>6, NothingToJudge

LEMMA CredentialsMissing == ASSUME ModelInv, HasNoCredentials PROVE ModelInv'
<1>1. PICK old \in Invocation : old = invocation BY DEF ModelInv
<1>2. PICK new : new = [old EXCEPT !.at = "idle", !.fault = "401"] OBVIOUS
<1>3. /\ new \in Invocation /\ new.adapter = old.adapter /\ new.fault = "401"
      /\ new.refusals = old.refusals
  BY <1>1, <1>2 DEF Invocation
<1>4. invocation' = new BY <1>1, <1>2 DEF HasNoCredentials
<1>5. PICK e : e = Provider({"auth"}) /\ (StepFails(e) \/ RunRaises(e))
  BY DEF HasNoCredentials
<1>6. IsError(e) /\ Understood(old.adapter, "401", e) BY <1>5, CredentialsTell
<1>7. /\ ErrorInv' /\ step'.by = "runner" /\ raised' = e /\ step.at = "call"
      /\ ShouldRetry(ClassifyError(e)) <=> step'.at # "raised"
  BY <1>5, <1>6, Judgement DEF ModelInv
<1>8. old.adapter \in KnowsRefusals => old.refusals <= 1 /\ old.refusals # 1
  BY <1>1, <1>7 DEF ModelInv, Judged
<1>9. Judged' BY <1>3, <1>4, <1>6, <1>7, <1>8 DEF Judged
<1> QED BY <1>3, <1>4, <1>7, <1>9 DEF ModelInv

LEMMA InvokeRaising ==
  ASSUME ModelInv, NEW fault \in ServiceFaults, InvokeRaises(fault) PROVE ModelInv'
<1>1. PICK old \in Invocation : old = invocation BY DEF ModelInv
<1>2. PICK more : more = IF fault \in Refusals THEN old.refusals + 1 ELSE old.refusals
  OBVIOUS
<1>3. PICK new : new = [old EXCEPT !.at = "idle", !.sent = 0, !.fault = fault, !.refusals = more]
  OBVIOUS
<1>4. more \in Nat BY <1>1, <1>2 DEF Invocation
<1>5. /\ new \in Invocation /\ new.adapter = old.adapter /\ new.fault = fault
      /\ new.refusals = more
  BY <1>1, <1>3, <1>4 DEF Invocation
<1>6. invocation' = new BY <1>1, <1>2, <1>3 DEF InvokeRaises
<1>7. PICK e \in Raises(old.adapter, fault) : CallRetried(e) \/ StepFails(e) \/ RunRaises(e)
  BY <1>1 DEF InvokeRaises
<1>8. old.adapter \in Adapters /\ old.refusals \in Nat BY <1>1 DEF Invocation
<1>9. IsError(e) /\ Understood(old.adapter, fault, e) BY <1>7, <1>8, FaultsTell
<1>10. /\ ErrorInv' /\ step'.by = "runner" /\ raised' = e /\ step.at = "call"
       /\ ShouldRetry(ClassifyError(e)) <=> step'.at # "raised"
  BY <1>7, <1>9, Judgement DEF ModelInv
<1>11. old.adapter \in KnowsRefusals => old.refusals = 0
  BY <1>1, <1>8, <1>10 DEF ModelInv, Judged
<1>12. old.adapter \in KnowsRefusals => more <= 1 /\ (more = 1 => step'.at = "raised")
  <2>1. CASE fault \in Refusals
    <3>1. step'.at = "raised" BY <1>9, <1>10, <2>1 DEF Understood
    <3> QED BY <1>2, <1>11, <2>1, <3>1
  <2>2. CASE fault \notin Refusals BY <1>2, <1>11, <2>2
  <2> QED BY <2>1, <2>2
<1>13. Judged' BY <1>5, <1>6, <1>9, <1>10, <1>12 DEF Judged
<1> QED BY <1>5, <1>6, <1>10, <1>13 DEF ModelInv

LEMMA ModelKept == ASSUME ModelInv, ModelNext PROVE ModelInv'
BY AsksModel, CredentialsMissing, RequestFailing, InvokeRaising, Answers, Repairs DEF ModelNext

LEMMA FaultsTold == ModelInv => FaultsToldApart
<1> SUFFICES ASSUME ModelInv, invocation.fault # NoError, invocation.at = "idle"
             PROVE  /\ invocation.adapter \in OpenAI \cup Http
                         /\ invocation.fault \in {"429", "timeout", "connection"}
                            \cup (IF invocation.adapter \in Http THEN {"503"} ELSE {}) =>
                         ClassifyError(raised) = "transient" /\ step.at # "raised"
                    /\ invocation.fault \in Refusals =>
                         ~ ShouldRetry(ClassifyError(raised)) /\ step.at = "raised"
                    /\ invocation.adapter \in OpenAI \cup {"gemini", "vertex"} =>
                         invocation.refusals <= 1
  BY DEF FaultsToldApart
<1>1. /\ Understood(invocation.adapter, invocation.fault, raised)
      /\ ShouldRetry(ClassifyError(raised)) <=> step.at # "raised"
      /\ invocation.adapter \in KnowsRefusals => invocation.refusals <= 1
  BY DEF ModelInv, Judged
<1>2. ClassifyError(raised) = "transient" => step.at # "raised" BY <1>1 DEF ShouldRetry
<1>3. ASSUME invocation.adapter \in OpenAI \cup Http,
             invocation.fault \in {"429", "timeout", "connection"}
                            \cup (IF invocation.adapter \in Http THEN {"503"} ELSE {})
      PROVE  ClassifyError(raised) = "transient" /\ step.at # "raised"
  BY <1>1, <1>2, <1>3 DEF Understood
<1>4. ASSUME invocation.fault \in Refusals
      PROVE  ~ ShouldRetry(ClassifyError(raised)) /\ step.at = "raised"
  BY <1>1, <1>4 DEF Understood
<1>5. invocation.adapter \in OpenAI \cup {"gemini", "vertex"} => invocation.refusals <= 1
  BY <1>1 DEF KnowsRefusals
<1> QED BY <1>3, <1>4, <1>5

----------------------------------------------------------------------------
(* ModelCalls and ErrorAdvice in MCWorkspace.                              *)
LEMMA ErrorStep == ASSUME ErrorInv, ErrorNext PROVE ErrorInv'
<1>1. CASE CallReturns BY <1>1, ReturnsKept
<1>2. CASE \E class \in ErrorClasses, says \in Messages :
             LET e == [class |-> class, says |-> says]
             IN  CallRetried(e) \/ StepFails(e) \/ RunRaises(e) \/ RunInterrupted(e)
  <2>1. PICK class \in ErrorClasses, says \in Messages :
          LET e == [class |-> class, says |-> says]
          IN  CallRetried(e) \/ StepFails(e) \/ RunRaises(e) \/ RunInterrupted(e)
    BY <1>2
  <2>2. PICK e : e = [class |-> class, says |-> says] OBVIOUS
  <2>3. CallRetried(e) \/ StepFails(e) \/ RunRaises(e) \/ RunInterrupted(e)
    BY <2>1, <2>2
  <2>4. IsError(e) BY <2>2, ErrorAssumption DEF IsError
  <2> QED BY <2>3, <2>4, ErrorKept
<1> QED BY <1>1, <1>2 DEF ErrorNext

\* While no model is asked, there is no request whose fault could be judged.
ErrorsInv ==
    /\ RoutingInv /\ ErrorInv
    /\ part = "models" => ModelInv
    /\ part # "models" => invocation.fault = NoError

LEMMA ErrorsStart == MCInit => ErrorsInv
<1> SUFFICES ASSUME MCInit PROVE ErrorsInv OBVIOUS
<1>1. RoutingInv /\ ErrorInv BY RoutingStart, ErrorsBegin DEF MCInit
<1>2. PICK a \in Adapters : invocation = NotInvoked(a) BY DEF MCInit
<1>3. PICK new : new = NotInvoked(a) OBVIOUS
<1>4. /\ new \in Invocation /\ new.at = "idle" /\ new.fault = NoError /\ new.refusals = 0
  BY <1>3 DEF NotInvoked, Invocation
<1>5. ASSUME part = "models" PROVE ModelInv
  <2>1. step.by = "runner" BY <1>5 DEF MCInit
  <2> QED BY <1>1, <1>2, <1>3, <1>4, <2>1 DEF ModelInv, Judged
<1> QED BY <1>1, <1>2, <1>3, <1>4, <1>5 DEF ErrorsInv

LEMMA ErrorsStep == ErrorsInv /\ [MCNext]_workspaceVars => ErrorsInv'
<1> SUFFICES ASSUME ErrorsInv, [MCNext]_workspaceVars PROVE ErrorsInv' OBVIOUS
<1>1. RoutingInv'
  <2>1. [RoutingNext]_routingVars BY DEF MCNext, Only, workspaceVars
  <2> QED BY <2>1, RoutingKept DEF ErrorsInv
<1>2. part' = part BY DEF MCNext, workspaceVars
<1>3. CASE part = "models"
  <2>1. ModelNext \/ UNCHANGED modelVars BY <1>3 DEF MCNext, workspaceVars, modelVars
  <2>2. ModelInv BY <1>3 DEF ErrorsInv
  <2>3. CASE ModelNext
    <3>1. ModelInv' BY <2>2, <2>3, ModelKept
    <3> QED BY <1>1, <1>2, <1>3, <3>1 DEF ErrorsInv, ModelInv
  <2>4. CASE UNCHANGED modelVars
    <3>1. UNCHANGED errorVars /\ invocation' = invocation BY <2>4 DEF modelVars
    <3>2. ErrorInv' BY <2>2, <3>1, StillTold DEF ModelInv
    <3>3. step' = step /\ raised' = raised BY <3>1 DEF errorVars
    <3>4. Judged' BY <2>2, <3>1, <3>3 DEF ModelInv, Judged, Understood
    <3>5. ModelInv' BY <2>2, <3>1, <3>2, <3>3, <3>4 DEF ModelInv
    <3> QED BY <1>1, <1>2, <1>3, <3>2, <3>5 DEF ErrorsInv
  <2> QED BY <2>1, <2>3, <2>4
<1>4. CASE part # "models"
  <2>1. invocation' = invocation BY <1>4 DEF MCNext, Only, workspaceVars, modelVars
  <2>2. ErrorNext \/ UNCHANGED errorVars BY <1>4 DEF MCNext, workspaceVars, modelVars
  <2>3. ErrorInv' BY <2>2, ErrorStep, StillTold DEF ErrorsInv
  <2> QED BY <1>1, <1>2, <1>4, <2>1, <2>3 DEF ErrorsInv
<1> QED BY <1>3, <1>4

LEMMA ErrorsSound == ErrorsInv => ErrorsCount
<1> SUFFICES ASSUME ErrorsInv PROVE ErrorsCount OBVIOUS
<1>1. FailuresRemembered BY RoutingRemembers DEF ErrorsInv
<1>2. FailuresToldTruly BY ErrorsTold DEF ErrorsInv
<1>3. FaultsToldApart
  <2>1. CASE part = "models" BY <2>1, FaultsTold DEF ErrorsInv
  <2>2. CASE part # "models" BY <2>2 DEF ErrorsInv, FaultsToldApart
  <2> QED BY <2>1, <2>2
<1> QED BY <1>1, <1>2, <1>3 DEF ErrorsCount, ErrorsToldTruly

----------------------------------------------------------------------------
(* The behaviours of MCWorkspace.                                          *)
ToolsInv == BrowserInv /\ ChecksInv

\* The processes that tools start are accounted for.  A browser that is open
\* is a session of the current manager, in the hands of the call that opened
\* it or is about to close it, or on the page of a call another one overtook;
\* a command that is alive is being waited for; a process that holds the
\* output of a command is left behind only by a check that says skipped or a
\* run cut short; and what a run says of its checks is what happened
\* (BrowserManager, _basic_verify and the ShellTool).
THEOREM ToolsAreAccounted == MCSpec => []ToolsAccounted
<1>1. MCInit => ToolsInv BY BrowsersStart, ChecksStart DEF MCInit, ToolsInv
<1>2. ToolsInv /\ [MCNext]_workspaceVars => ToolsInv'
  <2> SUFFICES ASSUME ToolsInv, [MCNext]_workspaceVars PROVE ToolsInv' OBVIOUS
  <2>1. [BrowserNext]_browserVars /\ [ChecksNext]_checkVars
    BY DEF MCNext, Only, workspaceVars
  <2> QED BY <2>1, BrowsersStep, ChecksStep DEF ToolsInv
<1>3. ToolsInv => ToolsAccounted
  BY BrowsersHold, ChecksTrue DEF ToolsInv, ToolsAccounted
<1> QED BY <1>1, <1>2, <1>3, PTL DEF MCSpec

\* A context that passes its check can be trusted.  Whatever was edited while
\* the runs worked, and however their steps mixed, a context that full runs
\* wrote states the facts of the sources its lock lists; after init a strict
\* check still proves all of it true; after runs of scope "changed" what it
\* says of the listed sources is; and a run that applied its files with nobody
\* in its way leaves a context that passes (verify_detailed,
\* run_local_context_pipeline, _apply_out_dir, init).
THEOREM ContextIsTrusted == MCSpec => []ContextCanBeTrusted
<1>1. MCInit => ContextInv BY ContextStart DEF MCInit
<1>2. ContextInv /\ [MCNext]_workspaceVars => ContextInv'
  <2> SUFFICES ASSUME ContextInv, [MCNext]_workspaceVars PROVE ContextInv' OBVIOUS
  <2>1. [ContextNext]_contextVars BY DEF MCNext, Only, workspaceVars
  <2> QED BY <2>1, ContextKept
<1> QED BY <1>1, <1>2, ContextSound, PTL DEF MCSpec

\* An error of a model is told as what it is, and a router that falls back
\* remembers it.  A rate limit, an outage or a timeout is worth a retry, in
\* whatever words the adapters over openai and requests pass it on, and a
\* refusal is not, whoever passes it on; every repetition is in the ledger, as
\* many as the step allows, and the summary of the run says what the retries
\* decided by; and however the calls of a router overlap, a model that failed
\* rests for its time unless a check that read an older mark pops the new one
\* (classify_error, error_summary_from_text, RetryEngine.execute, the adapters,
\* CascadingRouter).
THEOREM ErrorsAreTold == MCSpec => []ErrorsCount
<1> QED BY ErrorsStart, ErrorsStep, ErrorsSound, PTL DEF MCSpec
=============================================================================
