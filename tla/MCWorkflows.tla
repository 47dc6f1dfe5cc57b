---------------------------- MODULE MCWorkflows ----------------------------
(* The runner that drives the steps of a workflow, and the coding workflow *)
(* that drives itself.  They share no state: each behaviour exercises one  *)
(* of them, chosen at the start.                                           *)
EXTENDS WorkflowRunner, CodingRuntime

CONSTANT code

VARIABLE part

workflowVars == <<vars, codingVars, part>>

----------------------------------------------------------------------------
(* Workflows of four steps for the runner.                                 *)

MCOrder == <<"gather", "summarize", "translate", "report">>

Always == [on |-> "none", of |-> NoStep]

OnFreshContext == [on |-> "fresh", of |-> NoStep]

Unconditional == [s \in Steps |-> Always]

\* summarize and translate are skipped on a stale context, report is skipped
\* when gather failed.
Guarded ==
    [gather |-> Always, summarize |-> OnFreshContext, translate |-> OnFreshContext,
     report |-> [on |-> "if", of |-> "gather"]]

Chain ==
    [gather |-> {}, summarize |-> {"gather"}, translate |-> {"summarize"},
     report |-> {"gather", "translate"}]

\* The other steps need gather, and do not depend on each other.
Fan == [s \in Steps |-> IF s = "gather" THEN {} ELSE {"gather"}]

AllSteps == Steps

AllButGather == Steps \ {"gather"}

Once == [s \in Steps |-> 1]

RetryFirst == [s \in Steps |-> IF s = "gather" THEN 2 ELSE 1]

BothStale == BOOLEAN

FreshOnly == {FALSE}

AllFaults == FaultKinds

NoFaults == {}

----------------------------------------------------------------------------
\* One of the two files of the coding workflow is there at first.
MCInit ==
    /\ Init /\ CodingInit
    /\ part \in {"runner", "coding"}
    /\ origin[code] = "old"
    /\ part = "runner" => mode = "auto" /\ \A p \in Paths : origin[p] = "old"

\* The variables v belong to part p.
Only(p, v) == part # p => UNCHANGED v

MCNext ==
    /\ UNCHANGED part
    /\ Only("runner", vars) /\ Only("coding", codingVars)
    /\ \/ part = "runner" /\ Next
       \/ part = "coding" /\ CodingNext

\* The fairness of the runner's threads and of the one thread of run_task.
MCSpec ==
    /\ MCInit /\ [][MCNext]_workflowVars
    /\ WF_vars(Drive) /\ \A s \in Steps : WF_vars(RunStep(s))
    /\ WF_codingVars(part = "coding" /\ CodingNext)
=============================================================================
