---------------------------- MODULE ExecutionDag ---------------------------
(***************************************************************************)
(* workflows/base.py: ExecutionDAG, the step graph of a workflow.          *)
(*                                                                         *)
(* The constructor refuses undefined dependencies and cycles;              *)
(* parallel_groups orders the steps with Kahn's algorithm and cuts the     *)
(* order into the groups that WorkflowRunner.run executes.  The graph is   *)
(* chosen in DagInit.  One action is one turn of a loop; the recursion of  *)
(* _check_cycles.visit is an explicit stack of frames.                     *)
(***************************************************************************)
EXTENDS Integers, Sequences, FiniteSets

CONSTANTS
    StepSeq,   \* the keys of self.steps, in the order they were inserted
    Names,     \* step ids a depends_on list may mention
    DepLists   \* bound: the depends_on lists considered

Steps == {StepSeq[i] : i \in 1..Len(StepSeq)}

ASSUME DagAssumption ==
    /\ StepSeq \in Seq(Steps)
    /\ \A i, j \in 1..Len(StepSeq) : StepSeq[i] = StepSeq[j] => i = j
    /\ DepLists \subseteq Seq(Names)

VARIABLES
    dependsOn,  \* Step.depends_on of every step
    phase,      \* which part of the code is running
    at,         \* position of the for loop over self.steps or over order
    visited,    \* _check_cycles: visited
    stack,      \* _check_cycles: the frames of visit; rec_stack is its steps
    inDegree,   \* topological_order: in_degree
    queue,      \* topological_order: queue
    order,      \* topological_order: order
    groups,     \* parallel_groups: groups
    current,    \* parallel_groups: current
    seen        \* parallel_groups: seen

search == <<visited, stack>>
sort == <<inDegree, queue, order>>
cut == <<groups, current, seen>>
dagVars == <<dependsOn, phase, at, search, sort, cut>>

Elements(list) == {list[i] : i \in 1..Len(list)}

Deps(s) == Elements(dependsOn[s])

----------------------------------------------------------------------------
(* _validate.                                                              *)

UndefinedDependency ==
    /\ phase = "validate"
    /\ \E s \in Steps : ~(Deps(s) \subseteq Steps)
    /\ phase' = "rejected"
    /\ UNCHANGED <<dependsOn, at, search, sort, cut>>

DependenciesDefined ==
    /\ phase = "validate"
    /\ \A s \in Steps : Deps(s) \subseteq Steps
    /\ phase' = "search"
    /\ UNCHANGED <<dependsOn, at, search, sort, cut>>

----------------------------------------------------------------------------
(* _check_cycles: a depth-first search over the dependencies.              *)

Top == stack[Len(stack)]

Frame(s) == [step |-> s, next |-> 1]

\* Mutant: any step met before is taken for one that is being visited.
EverVisited == visited

RecStack == {stack[i].step : i \in 1..Len(stack)}

Advanced == [stack EXCEPT ![Len(stack)].next = @ + 1]

\* for node in self.steps
VisitRoot ==
    /\ phase = "search" /\ stack = <<>>
    /\ at <= Len(StepSeq)
    /\ LET node == StepSeq[at] IN
         \/ /\ node \notin visited
            /\ visited' = visited \cup {node}
            /\ stack' = <<Frame(node)>>
         \/ /\ node \in visited
            /\ UNCHANGED search
    /\ at' = at + 1
    /\ UNCHANGED <<dependsOn, phase, sort, cut>>

LookAtDependency ==
    /\ phase = "search"
    /\ stack # <<>> /\ Top.next <= Len(dependsOn[Top.step])
    /\ LET dep == dependsOn[Top.step][Top.next] IN
         \/ /\ dep \notin visited
            /\ visited' = visited \cup {dep}
            /\ stack' = Append(Advanced, Frame(dep))
            /\ UNCHANGED phase
         \/ /\ dep \in visited /\ dep \notin RecStack
            /\ stack' = Advanced
            /\ UNCHANGED <<phase, visited>>
         \/ /\ dep \in visited /\ dep \in RecStack
            /\ phase' = "rejected"
            /\ UNCHANGED search
    /\ UNCHANGED <<dependsOn, at, sort, cut>>

LeaveVisit ==
    /\ phase = "search"
    /\ stack # <<>> /\ Top.next > Len(dependsOn[Top.step])
    /\ stack' = SubSeq(stack, 1, Len(stack) - 1)
    /\ UNCHANGED <<dependsOn, phase, at, visited, sort, cut>>

----------------------------------------------------------------------------
(* topological_order.                                                      *)

\* Mutant: a dependency listed twice is counted once.
DistinctDeps(s) == Cardinality(Deps(s))

\* A dependency listed twice is counted twice.
DegreeOf(s) == Len(dependsOn[s])

StartSort ==
    /\ phase = "search" /\ stack = <<>>
    /\ at > Len(StepSeq)
    /\ phase' = "collect" /\ at' = 1
    /\ inDegree' = [s \in Steps |-> DegreeOf(s)]
    /\ UNCHANGED <<dependsOn, search, queue, order, cut>>

\* queue = [sid for sid, deg in in_degree.items() if deg == 0]
CollectRoot ==
    /\ phase = "collect" /\ at <= Len(StepSeq)
    /\ queue' = IF inDegree[StepSeq[at]] = 0
                THEN Append(queue, StepSeq[at]) ELSE queue
    /\ at' = at + 1
    /\ UNCHANGED <<dependsOn, phase, search, inDegree, order, cut>>

TakeStep ==
    /\ \/ phase = "collect" /\ at > Len(StepSeq)
       \/ phase = "sort"
    /\ queue # <<>>
    /\ phase' = "relax" /\ at' = 1
    /\ order' = Append(order, Head(queue))
    /\ queue' = Tail(queue)
    /\ UNCHANGED <<dependsOn, search, inDegree, cut>>

\* sid in step.depends_on, for the step sid that was just taken.
Dependent(s) == order[Len(order)] \in Deps(s)

\* Mutant: a step is queued one dependency early.
AlmostReady(degree) == degree <= 1

NowReady(degree) == degree = 0

\* for step in self.steps.values()
RelaxStep ==
    /\ phase = "relax" /\ at <= Len(StepSeq)
    /\ LET s == StepSeq[at] IN
         \/ /\ Dependent(s)
            /\ inDegree' = [inDegree EXCEPT ![s] = @ - 1]
            /\ queue' = IF NowReady(inDegree[s] - 1)
                        THEN Append(queue, s) ELSE queue
         \/ /\ ~Dependent(s)
            /\ UNCHANGED <<inDegree, queue>>
    /\ at' = at + 1
    /\ UNCHANGED <<dependsOn, phase, search, order, cut>>

EndRelax ==
    /\ phase = "relax" /\ at > Len(StepSeq)
    /\ phase' = "sort"
    /\ UNCHANGED <<dependsOn, at, search, sort, cut>>

----------------------------------------------------------------------------
(* parallel_groups.                                                        *)

StartGroups ==
    /\ \/ phase = "collect" /\ at > Len(StepSeq)
       \/ phase = "sort"
    /\ queue = <<>>
    /\ phase' = "group" /\ at' = 1
    /\ UNCHANGED <<dependsOn, search, sort, cut>>

Flushed == IF current = <<>> THEN groups ELSE Append(groups, current)

Seen == seen

PlaceStep ==
    /\ phase = "group" /\ at <= Len(order)
    /\ LET s == order[at]
           joins == Deps(s) \subseteq Seen
       IN  /\ groups' = IF joins THEN groups ELSE Flushed
           /\ current' = IF joins THEN Append(current, s) ELSE <<s>>
           /\ seen' = seen \cup {s}
    /\ at' = at + 1
    /\ UNCHANGED <<dependsOn, phase, search, sort>>

EndGroups ==
    /\ phase = "group" /\ at > Len(order)
    /\ phase' = "done"
    /\ groups' = Flushed
    /\ UNCHANGED <<dependsOn, at, search, sort, current, seen>>

----------------------------------------------------------------------------
DagInit ==
    /\ dependsOn \in [Steps -> DepLists]
    /\ phase = "validate" /\ at = 1
    /\ visited = {} /\ stack = <<>>
    /\ inDegree = [s \in Steps |-> 0] /\ queue = <<>> /\ order = <<>>
    /\ groups = <<>> /\ current = <<>> /\ seen = {}

DagNext ==
    \/ UndefinedDependency \/ DependenciesDefined
    \/ VisitRoot \/ LookAtDependency \/ LeaveVisit
    \/ StartSort \/ CollectRoot \/ TakeStep \/ RelaxStep \/ EndRelax
    \/ StartGroups \/ PlaceStep \/ EndGroups

Safety == DagInit /\ [][DagNext]_dagVars

\* The constructor and parallel_groups run in one thread without blocking.
DagSpec == Safety /\ WF_dagVars(DagNext)

----------------------------------------------------------------------------
(* Properties.                                                             *)

\* Every variable has the type the code gives it.
TypeOK ==
    /\ dependsOn \in [Steps -> Seq(Names)]
    /\ phase \in {"validate", "search", "collect", "sort", "relax", "group",
                  "done", "rejected"}
    /\ at \in Nat
    /\ visited \subseteq Steps
    /\ stack \in Seq([step : Steps, next : Nat \ {0}])
    /\ inDegree \in [Steps -> Nat]
    /\ queue \in Seq(Steps) /\ order \in Seq(Steps)
    /\ groups \in Seq(Seq(Steps)) /\ current \in Seq(Steps)
    /\ seen \subseteq Steps

\* Every non-empty set of steps has one that depends on none of the others.
Acyclic ==
    \A S \in SUBSET Steps :
        S # {} => \E s \in S : Deps(s) \cap S = {}

WellDefined == \A s \in Steps : Deps(s) \subseteq Steps

\* The constructor raises on exactly the graphs that have an undefined
\* dependency or a cycle: a diamond is not taken for a cycle, and a graph it
\* accepts has none.
RejectsExactlyBadGraphs ==
    /\ phase = "rejected" => ~(WellDefined /\ Acyclic)
    /\ phase \notin {"validate", "search", "rejected"} => WellDefined /\ Acyclic

\* topological_order never places a step before a step it depends on, nor
\* places one twice.
OrderIsTopological ==
    /\ \A i \in 1..Len(order) :
         Deps(order[i]) \subseteq {order[j] : j \in 1..(i - 1)}
    /\ \A i, j \in 1..Len(order) : order[i] = order[j] => i = j

\* s and the steps it depends on, directly or not.
Needs(s) ==
    {x \in Steps : \A S \in SUBSET Steps :
                       s \in S /\ (\A y \in S : Deps(y) \subseteq S) => x \in S}

ListsTwice(s) == Cardinality(Deps(s)) # Len(dependsOn[s])

\* A step is left out of the order, and so of the run, exactly when it or a
\* step it needs names a dependency twice: with duplicate-free lists every
\* step is run, and a duplicate drops the step and all that depend on it
\* without an error.
DropsOnlyDoubleDependents ==
    phase \in {"group", "done"} =>
        Elements(order) =
            {s \in Steps : \A x \in Needs(s) : ~ListsTwice(x)}

\* What becomes of a graph is decided by its dependencies alone: it is rejected
\* when it is bad, and a step of it is dropped when a list names one twice.
GraphJudgedRightly == RejectsExactlyBadGraphs /\ DropsOnlyDoubleDependents

\* parallel_groups always returns the whole order as one group, whatever the
\* dependencies: a step is compared with all steps placed so far, its own
\* group included, so no dependency ever opens a second group.
OneGroup ==
    phase = "done" => groups = IF order = <<>> THEN <<>> ELSE <<order>>
=============================================================================
