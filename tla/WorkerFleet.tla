----------------------------- MODULE WorkerFleet ---------------------------
(***************************************************************************)
(* workflows/distributed/transport.py: RemoteWorker.run and its            *)
(* CoordinatorClient, against the coordinator of TaskScheduler.            *)
(*                                                                         *)
(* A worker registers once and then repeats: heartbeat, poll, handler,     *)
(* result, one request at a time.  A client that waits too long gives up   *)
(* while its request may still be on its way or in the middle of an        *)
(* endpoint.                                                               *)
(***************************************************************************)
EXTENDS TaskScheduler

CONSTANT Faults  \* bound: the kinds of disturbance that happen

Disturbances ==
    {"timeout",  \* a request takes longer than the client waits, or is lost
     "crash",    \* a worker process dies, or stops, and may be started again
     "slow"}     \* heartbeat_timeout passes without a heartbeat of a worker

ASSUME FleetAssumption == Faults \subseteq Disturbances

VARIABLES
    loop,       \* where RemoteWorker.run is
    hand,       \* the assignment a worker has in hand
    submitted,  \* tasks a client has sent to the coordinator
    accepted    \* tasks whose submission was answered "submitted"

workerVars == <<loop, hand>>
clientVars == <<submitted, accepted>>
vars == <<serverVars, workerVars, clientVars>>

----------------------------------------------------------------------------
(* RemoteWorker.run.                                                       *)

FreeCalls == {c \in Calls : calls[c].op = "free"}

Send(request) ==
    /\ FreeCalls # {}
    /\ calls' = [calls EXCEPT ![CHOOSE c \in FreeCalls : TRUE] = request]

Ask(w, from, op, to) ==
    /\ loop[w] = from
    /\ Send(Request(op, w, w, None, FALSE))
    /\ loop' = [loop EXCEPT ![w] = to]
    /\ UNCHANGED <<table, queue, ledgers, hand, clientVars>>

Register(w) == Ask(w, "off", "register", "registering")

Beat(w) == Ask(w, "top", "heartbeat", "beating")

Poll(w) == Ask(w, "beaten", "poll", "polling")

\* The handler returns or raises, and the result is submitted.
Handle(w) ==
    /\ loop[w] = "handling"
    /\ \E ok \in BOOLEAN : Send(Request("complete", w, w, hand[w], ok))
    /\ loop' = [loop EXCEPT ![w] = "reporting"]
    /\ UNCHANGED <<table, queue, ledgers, hand, clientVars>>

\* Where the worker goes on with an answer to its request.  A failed heartbeat,
\* poll or result is logged, and the loop starts again.
After(w, call) ==
    CASE loop[w] = "beating" /\ call.ok -> "beaten"
      [] loop[w] = "polling" /\ call.ok /\ call.task # None -> "handling"
      [] OTHER -> "top"

Receive(c) ==
    LET call == calls[c]  w == call.from IN
    /\ call.op # "free" /\ call.at = "answer"
    /\ calls' = [calls EXCEPT ![c] = Free]
    /\ IF w = None
       THEN UNCHANGED workerVars
       ELSE /\ loop' = [loop EXCEPT ![w] = After(w, call)]
            /\ hand' = [hand EXCEPT ![w] =
                          IF After(w, call) = "handling" THEN call.task ELSE None]
    /\ accepted' = IF call.op = "submit" /\ call.ok THEN accepted \cup {call.task}
                                                    ELSE accepted
    /\ UNCHANGED <<table, queue, ledgers, submitted>>

----------------------------------------------------------------------------
(* Clients of the coordinator.                                             *)

Submit(t) ==
    /\ t \notin submitted
    /\ Send(Request("submit", None, None, t, FALSE))
    /\ submitted' = submitted \cup {t}
    /\ UNCHANGED <<table, queue, ledgers, workerVars, accepted>>

----------------------------------------------------------------------------
(* Failures.                                                               *)

Waiting(w) == {c \in Calls : calls[c].from = w}

\* The worker no longer waits, and forgets what it had in hand; its request
\* goes on by itself, or never arrives.
Abandon(w, to) ==
    /\ \/ calls' = [c \in Calls |-> IF c \in Waiting(w) THEN [calls[c] EXCEPT !.from = None]
                                                        ELSE calls[c]]
       \/ /\ \E c \in Waiting(w) : calls[c].at = "sent"
          /\ calls' = [c \in Calls |-> IF c \in Waiting(w) THEN Free ELSE calls[c]]
    /\ loop' = [loop EXCEPT ![w] = to]
    /\ hand' = [hand EXCEPT ![w] = None]
    /\ UNCHANGED <<table, queue, ledgers, clientVars>>

\* register is outside the try block: its exception ends run.
Timeout(w) ==
    /\ "timeout" \in Faults
    /\ Waiting(w) # {}
    /\ Abandon(w, IF loop[w] = "registering" THEN "off" ELSE "top")

Crash(w) ==
    /\ "crash" \in Faults
    /\ loop[w] # "off"
    /\ Abandon(w, "off")

\* A worker whose requests are answered is only silent while its handler runs.
Elapse(w) ==
    /\ "slow" \in Faults
    /\ loop[w] \in {"off", "handling"} \/ "timeout" \in Faults
    /\ w \in registered \cap fresh
    /\ fresh' = fresh \ {w}
    /\ UNCHANGED <<registered, status, current, queue, ledgers, calls, workerVars,
                   clientVars>>

----------------------------------------------------------------------------
Init ==
    /\ ServerInit
    /\ loop = [w \in Workers |-> "off"]
    /\ hand = [w \in Workers |-> None]
    /\ submitted = {} /\ accepted = {}

WorkerStep(w) == Register(w) \/ Beat(w) \/ Poll(w) \/ Handle(w)

CallStep(c) ==
    \/ Serve(c) /\ UNCHANGED <<workerVars, clientVars>>
    \/ Receive(c)

Next ==
    \/ \E w \in Workers : WorkerStep(w) \/ Timeout(w) \/ Crash(w) \/ Elapse(w)
    \/ \E c \in Calls : CallStep(c)
    \/ \E t \in Tasks : Submit(t)

Spec == Init /\ [][Next]_vars

\* A worker that is running goes on, its handler returns or raises, and every
\* request gets a thread and an answer: the pool has a queue.  Calls and
\* PoolSize are shared, hence strong fairness.  Nobody has to start a worker.
FairSpec ==
    /\ Spec
    /\ \A w \in Workers : SF_vars(Beat(w) \/ Poll(w) \/ Handle(w))
    /\ \A c \in Calls : SF_vars(CallStep(c))

----------------------------------------------------------------------------
(* Properties.                                                             *)

Locations == {"off", "registering", "top", "beating", "beaten", "polling",
              "handling", "reporting"}

Entries == [task : Tasks, kind : {Kind[t] : t \in Tasks} \cup {NoKind},
            priority : Nat]

\* Every variable holds what the code can put in it.
TypeOK ==
    /\ registered \subseteq Workers /\ fresh \subseteq Workers
    /\ status \in [Workers -> {"idle", "busy"}]
    /\ current \in [Workers -> Tasks \cup {None}]
    /\ pending \in Seq(Entries) /\ detached \in BOOLEAN
    /\ completed \in Seq(Tasks) /\ failed \in [Tasks -> 0..MaxRetries]
    /\ loop \in [Workers -> Locations]
    /\ hand \in [Workers -> Tasks \cup {None}]
    /\ \A w \in Workers : Cardinality(Waiting(w)) <= 1
    /\ accepted \subseteq submitted /\ submitted \subseteq Tasks

Occurrences(s, t) == {i \in 1..Len(s) : s[i].task = t}

\* The requests that carry t: its submission, its assignment, its result.
Queueing(t) == {c \in Calls : calls[c].task = t /\ calls[c].at = "requeue"}

Assigning(t) == {c \in Calls : calls[c].task = t /\ calls[c].op = "poll"}

Reporting(t) ==
    {c \in Calls : calls[c].task = t /\ calls[c].op = "complete"
                   /\ calls[c].at \notin {"requeue", "answer"}}

Sorting(t) == {c \in Calls : Occurrences(calls[c].saved, t) # {}}

\* The worker has t in hand and has not sent its result.
Handling(t) == {w \in Workers : hand[w] = t /\ loop[w] = "handling"}

Copies(t) ==
    Cardinality(Occurrences(pending, t)) + Cardinality(Sorting(t))
    + Cardinality(Queueing(t)) + Cardinality(Assigning(t))
    + Cardinality(Reporting(t)) + Cardinality(Handling(t))

Done(t) == \E i \in 1..Len(completed) : completed[i] = t

Abandoned(t) == failed[t] >= MaxRetries

\* Whatever requests overlap, come late or are lost, a task is in at most one
\* place: in one list, on its way to or from one worker, or in one worker's
\* handler.  A task that has settled is nowhere, and settled once.
AtMostOneCopy ==
    \A t \in Tasks :
        /\ Copies(t) <= (IF Done(t) \/ Abandoned(t) THEN 0 ELSE 1)
        /\ Cardinality({i \in 1..Len(completed) : completed[i] = t}) <= 1

Unsent(t) ==
    \/ t \notin submitted
    \/ \E c \in Calls : calls[c].op = "submit" /\ calls[c].task = t
                        /\ calls[c].at = "sent"

Held(t) ==
    \/ Handling(t) # {} \/ Reporting(t) # {}
    \/ \E c \in Assigning(t) : calls[c].from # None

Place(t) ==
    IF Unsent(t) THEN "new"
    ELSE IF Done(t) THEN "done"
    ELSE IF Abandoned(t) THEN "abandoned"
    ELSE IF Occurrences(pending, t) # {} \/ Sorting(t) # {} \/ Queueing(t) # {} THEN "waiting"
    ELSE IF Held(t) THEN "held"
    ELSE "lost"

Contract == INSTANCE TaskContract WITH place <- [t \in Tasks |-> Place(t)],
                                       tries <- failed

\* Every task follows TaskContract: its handler runs once for each of at most
\* MaxRetries failures, and neither a late request nor a restarted worker
\* brings back a task that has settled or was lost.
KeepsTaskContract == Contract!Spec

\* A task whose submission was answered "submitted" is always accounted for:
\* waiting, held by a worker, completed or out of retries, although its worker
\* may have been pruned in the meantime.
AcceptedIsKept == \A t \in accepted : Place(t) # "lost"

\* The table names a worker's task exactly while that worker has it: from its
\* assignment until its result has been taken.
TableAgrees ==
    \A w \in registered :
        current[w] # None =>
            /\ status[w] = "busy"
            /\ \/ w \in Handling(current[w])
               \/ \E c \in Assigning(current[w]) \cup Reporting(current[w]) :
                     calls[c].from = w

\* No task is lost between the queue, the table and the workers.
TasksAccounted == AcceptedIsKept /\ TableAgrees

\* The workers run, and none of them is pruned.
AllServing ==
    \A w \in Workers : loop[w] \notin {"off", "registering"} /\ w \in registered

Settled(t) == Done(t) \/ Abandoned(t)

\* As long as running workers stay in the table, every accepted task settles.
TasksSettle ==
    <>[]AllServing => \A t \in Tasks : t \in accepted ~> Settled(t)

----------------------------------------------------------------------------
(* What the documentation says and the code does not do.                   *)

\* "capability-based task scheduler": a worker only gets tasks of a kind it
\* has the capability for.
CapableWorkersOnly ==
    \A w \in Workers : loop[w] = "handling" =>
        Kind[hand[w]] \in Capabilities[w] \cup {NoKind}
=============================================================================
