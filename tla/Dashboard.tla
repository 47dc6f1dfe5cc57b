----------------------------- MODULE Dashboard ------------------------------
(***************************************************************************)
(* The page of interfaces/web_ui/app.py: starting tasks and following      *)
(* their runs.                                                             *)
(*                                                                         *)
(* Every click on Run is an asynchronous call of its own: it posts the     *)
(* task, then asks for the status of the run once a second, while other    *)
(* clicks do the same, and they all draw into one list.  Requests and      *)
(* answers may be lost, the server may restart and forget its runs, and    *)
(* the page may be loaded again.                                           *)
(***************************************************************************)
EXTENDS Naturals

CONSTANTS
    Clicks,        \* clicks on Run
    MaxPagePolls,  \* bound: questions for the status of a run (120 in the code)
    NoRow          \* the run is not in activeRuns

\* What a row of the list may show.
RowStatuses == {"pending", "running", "completed", "failed", "error"}

ASSUME DashboardAssumption == MaxPagePolls \in Nat \ {0} /\ NoRow \notin RowStatuses

VARIABLES
    served,      \* what the server has of the run of a click
    click,       \* where runPreset and pollRun are: [at, answer, polls]
    activeRuns,  \* the status shown for the run of a click
    list,        \* what the list of runs shows: [shows, of]
    mishap       \* history: clicks that lost a call, or whose page is gone

pageVars == <<served, click, activeRuns, list, mishap>>

Over == {"completed", "failed", "cancelled"}

ClickAt(at) == [at |-> at, answer |-> "none", polls |-> 0]

Goes(k, at, answer) ==
    click' = [click EXCEPT ![k].at = at, ![k].answer = answer]

Showing(what, k) == list' = [shows |-> what, of |-> k]

\* renderRuns
ShowRows == list' = [shows |-> "rows", of |-> NoRow]

----------------------------------------------------------------------------
(* The server: run_preset, the run, and get_run_status.                    *)

\* An unknown task or missing inputs are refused, and start nothing.
AcceptRun(k) ==
    /\ click[k].at = "post"
    /\ \/ served' = [served EXCEPT ![k] = "pending"] /\ Goes(k, "posted", "run_id")
       \/ Goes(k, "posted", "error") /\ UNCHANGED served
    /\ UNCHANGED <<activeRuns, list, mishap>>

\* A failed run has an error object in its summary, unless its error says
\* nothing.
RunMoves(k) ==
    /\ \/ served[k] = "pending" /\ served' = [served EXCEPT ![k] = "running"]
       \/ /\ served[k] = "running"
          /\ \E s \in {"completed", "failed", "failed silently"} :
               served' = [served EXCEPT ![k] = s]
    /\ UNCHANGED <<click, activeRuns, list, mishap>>

\* The answer to GET /api/runs/{run_id} as fetchJSON hands it on: what has a
\* truthy "error" looks like a failed call.
SummaryOf(s) ==
    CASE s \in {"failed", "gone"} -> "error"
      [] s = "failed silently" -> "failed"
      [] OTHER -> s

GetRunStatus(k) ==
    /\ click[k].at = "ask"
    /\ Goes(k, "asked", SummaryOf(served[k]))
    /\ UNCHANGED <<served, activeRuns, list, mishap>>

\* The records and the threads of the runs are gone; calls under way fail.
RestartServer ==
    /\ \E k \in Clicks : served[k] \notin {"none", "gone"}
    /\ served' = [k \in Clicks |-> IF served[k] = "none" THEN "none" ELSE "gone"]
    /\ LET failing == {k \in Clicks : click[k].at \in {"post", "posted", "ask", "asked"}}
       IN /\ click' = [k \in Clicks |->
                        IF k \notin failing THEN click[k]
                        ELSE [click[k] EXCEPT !.answer = "error",
                                !.at = IF @ \in {"post", "posted"} THEN "posted" ELSE "asked"]]
          /\ mishap' = mishap \cup failing
    /\ UNCHANGED <<activeRuns, list>>

----------------------------------------------------------------------------
(* The page.                                                               *)

\* runPreset.
PressRun(k) ==
    /\ click[k].at = "idle"
    /\ Goes(k, "post", "none")
    /\ Showing("starting", k)
    /\ UNCHANGED <<served, activeRuns, mishap>>

StartAnswered(k) ==
    /\ click[k].at = "posted"
    /\ IF click[k].answer = "error"
       THEN /\ Goes(k, "over", "none") /\ Showing("failed to start", k)
            /\ UNCHANGED activeRuns
       ELSE /\ Goes(k, "sleep", "none") /\ ShowRows
            /\ activeRuns' = [activeRuns EXCEPT ![k] = "pending"]
    /\ UNCHANGED <<served, mishap>>

\* pollRun, a second later.
AskStatus(k) ==
    /\ click[k].at = "sleep"
    /\ click' = [click EXCEPT ![k].at = "ask", ![k].polls = @ + 1]
    /\ UNCHANGED <<served, activeRuns, list, mishap>>

\* Mutant: a run that has not begun is taken for one that is over.
NotRunning(status) == status # "running"

StopsAt(status) == status \in Over \cup {"error"}

StatusAnswered(k) ==
    /\ click[k].at = "asked"
    /\ activeRuns' = [activeRuns EXCEPT ![k] = click[k].answer]
    /\ ShowRows
    /\ Goes(k, IF StopsAt(click[k].answer) \/ click[k].polls = MaxPagePolls
               THEN "over" ELSE "sleep", "none")
    /\ UNCHANGED <<served, mishap>>

\* fetch fails on the way to the server or back.
LoseCall(k) ==
    /\ click[k].at \in {"post", "posted", "ask", "asked"}
    /\ Goes(k, IF click[k].at \in {"post", "posted"} THEN "posted" ELSE "asked", "error")
    /\ mishap' = mishap \cup {k}
    /\ UNCHANGED <<served, activeRuns, list>>

\* The page is loaded again, and loadAll shows what the run directories say;
\* a task on its way to the server may still be started.
LoadAll ==
    /\ \E k \in Clicks : click[k].at # "idle"
    /\ click' = [k \in Clicks |->
                  IF click[k].at = "idle" THEN click[k] ELSE ClickAt("over")]
    /\ activeRuns' = [k \in Clicks |-> NoRow]
    /\ list' = [shows |-> "recent", of |-> NoRow]
    /\ mishap' = mishap \cup {k \in Clicks : click[k].at # "idle"}
    /\ \E late \in SUBSET {k \in Clicks : click[k].at = "post"} :
         served' = [k \in Clicks |-> IF k \in late THEN "pending" ELSE served[k]]

----------------------------------------------------------------------------

PageInit ==
    /\ served = [k \in Clicks |-> "none"]
    /\ click = [k \in Clicks |-> ClickAt("idle")]
    /\ activeRuns = [k \in Clicks |-> NoRow]
    /\ list = [shows |-> "recent", of |-> NoRow]
    /\ mishap = {}

PageNext ==
    \/ \E k \in Clicks :
         \/ AcceptRun(k) \/ RunMoves(k) \/ GetRunStatus(k)
         \/ PressRun(k) \/ StartAnswered(k) \/ AskStatus(k) \/ StatusAnswered(k)
         \/ LoseCall(k)
    \/ RestartServer \/ LoadAll

PageSpec == PageInit /\ [][PageNext]_pageVars

----------------------------------------------------------------------------
(* Properties.                                                             *)

\* Whatever order the answers come in, with several runs in one list: a
\* row that is no longer refreshed tells how its run ended, or has been
\* refreshed to its limit; a row shows an end only if the run has come to that
\* end (an "error" stands for a failed run, a lost call and a server that has
\* forgotten the run alike); no run that was started is missing from the rows,
\* and none shown as started failed to start, unless a call was lost; and
\* "Starting" stands in the list only while the answer is awaited.
PageTruthful ==
    /\ \A k \in Clicks :
         LET row == activeRuns[k] IN
         /\ click[k].at = "over" /\ row \in {"pending", "running"}
              => click[k].polls = MaxPagePolls
         /\ row = "completed" => served[k] \in {"completed", "gone"}
         /\ row = "failed" => served[k] \in {"failed silently", "gone"}
         /\ row = "error" => served[k] \in {"failed", "gone"} \/ k \in mishap
         /\ served[k] # "none" /\ row = NoRow /\ k \notin mishap => click[k].at = "posted"
         /\ row # NoRow => served[k] # "none"
    /\ list.shows = "starting" => click[list.of].at \in {"post", "posted"}
    /\ list.shows = "rows" => \E k \in Clicks : activeRuns[k] # NoRow
=============================================================================
