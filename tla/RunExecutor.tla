---------------------------- MODULE RunExecutor ----------------------------
(***************************************************************************)
(* core/run_executor.py: RunExecutor.submit, _notify, subscribe,           *)
(* unsubscribe and log, for one run, and the two ways the API server and   *)
(* the web UI stream its status: a WebSocket that subscribes, and          *)
(* server-sent events that poll.                                           *)
(*                                                                         *)
(* The record of the run is shared, and read without the lock: what a      *)
(* stream tells is the status at the time it builds the message.           *)
(***************************************************************************)
EXTENDS Naturals, Sequences, SequencesExt

CONSTANTS
    Watchers,  \* WebSocket streams
    Pollers,   \* server-sent event streams
    MaxPolls,  \* bound: polls of an event stream (3600 in the code)
    MaxLogs,   \* bound: calls of log
    MayAbort   \* whether the run may end with a BaseException

ASSUME ExecutorAssumption ==
    /\ Watchers \cap Pollers = {}
    /\ MaxPolls \in Nat \ {0} /\ MaxLogs \in Nat
    /\ MayAbort \in BOOLEAN

VARIABLES
    status,       \* RunRecord.status; "none" before submit
    worker,       \* the thread of the run: [at, then, calls]
    logged,       \* calls of log so far
    subscribers,  \* _subscribers of the run
    watcher,      \* WebSockets: [at, told, queue]
    poller,       \* event streams: [at, told, last, polls]
    gone          \* clients of WebSockets that went away

runVars == <<status, worker, logged, subscribers, watcher, poller, gone>>

\* The statuses that end a stream.
FinalStatuses == {"completed", "failed", "cancelled"}

\* Mutant: a stream does not end with a failed run.
DoneStatuses == {"completed"}

MissesFailure(s) == s \in DoneStatuses

Final(s) == s \in FinalStatuses

----------------------------------------------------------------------------
(* The run.  Hooks see it start and end; their errors are caught.          *)

WorkAt(at) == worker' = [worker EXCEPT !.at = at]

Submit ==
    /\ status = "none"
    /\ status' = "pending"
    /\ WorkAt("start")
    /\ UNCHANGED <<logged, subscribers, watcher, poller, gone>>

StartRunning ==
    /\ worker.at = "start"
    /\ status' = "running"
    /\ worker' = [worker EXCEPT !.at = "notify", !.then = "work"]
    /\ UNCHANGED <<logged, subscribers, watcher, poller, gone>>

\* RunExecutor.log of the running function.
Log ==
    /\ worker.at = "work" /\ logged < MaxLogs
    /\ logged' = logged + 1
    /\ worker' = [worker EXCEPT !.at = "notify", !.then = "work"]
    /\ UNCHANGED <<status, subscribers, watcher, poller, gone>>

\* The function returns or raises an Exception.
Finish ==
    /\ worker.at = "work"
    /\ status' \in {"completed", "failed"}
    /\ WorkAt("hooks")
    /\ UNCHANGED <<logged, subscribers, watcher, poller, gone>>

\* SystemExit and the like pass the handler: the record stays as it is.
Abort ==
    /\ worker.at = "work" /\ MayAbort
    /\ WorkAt("aborted")
    /\ UNCHANGED <<status, logged, subscribers, watcher, poller, gone>>

EndHooks ==
    /\ worker.at = "hooks"
    /\ worker' = [worker EXCEPT !.at = "notify", !.then = "over"]
    /\ UNCHANGED <<status, logged, subscribers, watcher, poller, gone>>

\* Mutant: the last subscriber is forgotten.
AllButLast(s) == IF s = <<>> THEN s ELSE Front(s)

Everyone(s) == s

\* _notify copies the callbacks under the lock.
Notify ==
    /\ worker.at = "notify"
    /\ worker' = [worker EXCEPT !.at = "deliver", !.calls = Everyone(subscribers)]
    /\ UNCHANGED <<status, logged, subscribers, watcher, poller, gone>>

\* on_update puts the record into the stream's queue.
Deliver ==
    /\ worker.at = "deliver" /\ worker.calls # <<>>
    /\ watcher' = [watcher EXCEPT ![Head(worker.calls)].queue = @ + 1]
    /\ worker' = [worker EXCEPT !.calls = Tail(@)]
    /\ UNCHANGED <<status, logged, subscribers, poller, gone>>

Delivered ==
    /\ worker.at = "deliver" /\ worker.calls = <<>>
    /\ WorkAt(worker.then)
    /\ UNCHANGED <<status, logged, subscribers, watcher, poller, gone>>

----------------------------------------------------------------------------
(* WebSocket /api/runs/{run_id}/ws.                                        *)

WatchAt(w, at) == watcher' = [watcher EXCEPT ![w].at = at]

\* accept, and RunExecutor.get: an unknown run closes the stream.
Open(w) ==
    /\ watcher[w].at = "new"
    /\ WatchAt(w, IF status = "none" THEN "refused" ELSE "subscribe")
    /\ UNCHANGED <<status, worker, logged, subscribers, poller, gone>>

Subscribe(w) ==
    /\ watcher[w].at = "subscribe"
    /\ subscribers' = Append(subscribers, w)
    /\ WatchAt(w, "tell")
    /\ UNCHANGED <<status, worker, logged, poller, gone>>

\* list.remove: a stream is in the list once.
WithoutStream(s, w) ==
    IF w \in ToSet(s) THEN RemoveAt(s, CHOOSE i \in DOMAIN s : s[i] = w) ELSE s

\* The finally clause.
Unsubscribe(w) == subscribers' = WithoutStream(subscribers, w)

\* The message is built, and sending it waits; or the client is found gone.
Tell(w) ==
    /\ watcher[w].at = "tell"
    /\ \/ /\ watcher' = [watcher EXCEPT ![w].at = "test", ![w].told = status]
          /\ UNCHANGED subscribers
       \/ /\ w \in gone
          /\ WatchAt(w, "left")
          /\ Unsubscribe(w)
    /\ UNCHANGED <<status, worker, logged, poller, gone>>

\* The status is looked at again, after the message was sent.
TestFinal(w) ==
    /\ watcher[w].at = "test"
    /\ IF Final(status)
       THEN WatchAt(w, "closed") /\ Unsubscribe(w)
       ELSE WatchAt(w, "wait") /\ UNCHANGED subscribers
    /\ UNCHANGED <<status, worker, logged, poller, gone>>

\* await queue.get()
Wake(w) ==
    /\ watcher[w].at = "wait" /\ watcher[w].queue > 0
    /\ watcher' = [watcher EXCEPT ![w].at = "tell", ![w].queue = @ - 1]
    /\ UNCHANGED <<status, worker, logged, subscribers, poller, gone>>

\* A client goes away; the server finds out when it sends.
Leave(w) ==
    /\ watcher[w].at \in {"tell", "test", "wait"} /\ w \notin gone
    /\ gone' = gone \cup {w}
    /\ UNCHANGED <<status, worker, logged, subscribers, watcher, poller>>

----------------------------------------------------------------------------
(* GET /api/runs/{run_id}/stream.                                          *)

\* The first message, whatever the status is.
OpenStream(p) ==
    /\ poller[p].at = "new"
    /\ poller' = [poller EXCEPT ![p] =
         IF status = "none" THEN [@ EXCEPT !.at = "refused"]
                            ELSE [@ EXCEPT !.at = "sleep", !.told = status]]
    /\ UNCHANGED <<status, worker, logged, subscribers, watcher, gone>>

\* After a second: a status other than the one last told will be told.
Poll(p) ==
    /\ poller[p].at = "sleep"
    /\ poller' = [poller EXCEPT ![p].at = IF status = poller[p].last THEN "test" ELSE "tell",
                                ![p].last = status, ![p].polls = @ + 1]
    /\ UNCHANGED <<status, worker, logged, subscribers, watcher, gone>>

TellStream(p) ==
    /\ poller[p].at = "tell"
    /\ poller' = [poller EXCEPT ![p].at = "test", ![p].told = status]
    /\ UNCHANGED <<status, worker, logged, subscribers, watcher, gone>>

\* [DONE] is sent after the last poll too.
TestStream(p) ==
    /\ poller[p].at = "test"
    /\ poller' = [poller EXCEPT ![p].at =
         IF Final(status) \/ poller[p].polls = MaxPolls THEN "closed" ELSE "sleep"]
    /\ UNCHANGED <<status, worker, logged, subscribers, watcher, gone>>

----------------------------------------------------------------------------
RunInit ==
    /\ status = "none"
    /\ worker = [at |-> "none", then |-> "none", calls |-> <<>>]
    /\ logged = 0
    /\ subscribers = <<>>
    /\ watcher = [w \in Watchers |-> [at |-> "new", told |-> "none", queue |-> 0]]
    /\ poller = [p \in Pollers |-> [at |-> "new", told |-> "none", last |-> "none", polls |-> 0]]
    /\ gone = {}

\* Steps of the worker but the end of the function, which may run for ever.
WorkerStep == StartRunning \/ EndHooks \/ Notify \/ Deliver \/ Delivered

WatcherStep(w) == Subscribe(w) \/ Tell(w) \/ TestFinal(w) \/ Wake(w)

PollerStep(p) == Poll(p) \/ TellStream(p) \/ TestStream(p)

RunNext ==
    \/ Submit \/ Log \/ Finish \/ Abort \/ WorkerStep
    \/ \E w \in Watchers : Open(w) \/ WatcherStep(w) \/ Leave(w)
    \/ \E p \in Pollers : OpenStream(p) \/ PollerStep(p)

\* The thread of the run and the event loop go on.
RunFairness ==
    /\ WF_runVars(WorkerStep)
    /\ \A w \in Watchers : WF_runVars(WatcherStep(w))
    /\ \A p \in Pollers : WF_runVars(PollerStep(p))

RunSpec == RunInit /\ [][RunNext]_runVars /\ RunFairness

----------------------------------------------------------------------------
(* Properties.                                                             *)

\* Will the worker still deliver the status it has set to w?
StillTo(w) ==
    \/ worker.at \in {"hooks", "notify"}
    \/ worker.at = "deliver" /\ w \in ToSet(worker.calls)

\* A WebSocket that waits with nothing in its queue has told the status of the
\* run or will still be woken for it, whenever it subscribed; and a stream the
\* server closes itself belongs to a run that is over, or has polled to its
\* limit.
StreamTruthful ==
    /\ \A w \in Watchers :
         /\ watcher[w].at = "wait" /\ watcher[w].queue = 0
              => status = watcher[w].told \/ StillTo(w)
         /\ watcher[w].at = "closed" => status \in {"completed", "failed"}
    /\ \A p \in Pollers : poller[p].at = "closed" =>
         status \in {"completed", "failed"} \/ poller[p].polls = MaxPolls

\* When the run is over every open stream closes and nobody stays subscribed,
\* whenever they subscribed; and an event stream closes even if it never is.
StreamsEnd ==
    /\ worker.at = "over" ~>
         /\ subscribers = <<>>
         /\ \A w \in Watchers : watcher[w].at \in {"new", "refused", "closed", "left"}
    /\ \A p \in Pollers : poller[p].at = "sleep" ~> poller[p].at = "closed"
=============================================================================
