---------------------------- MODULE TaskScheduler --------------------------
(***************************************************************************)
(* workflows/distributed/scheduler.py: TaskScheduler, behind the endpoints *)
(* of workflows/distributed/server.py.                                     *)
(*                                                                         *)
(* The endpoints are plain functions, which FastAPI runs in a thread pool, *)
(* and the scheduler has no lock.  A request is a call record that a       *)
(* thread takes through the statements of its endpoint, one access to the  *)
(* shared state at a time.  list.sort takes the items out of the list,     *)
(* calls the key function for each of them, and puts them back.            *)
(***************************************************************************)
EXTENDS Naturals, Sequences, FiniteSets, SequencesExt

CONSTANTS
    Workers,       \* worker ids
    Tasks,         \* task ids, each submitted at most once
    Kind,          \* task_type of every task
    Priority,      \* priority of every task
    Capabilities,  \* capabilities of every worker
    MaxRetries,    \* _max_retries
    Calls,         \* bound: requests that are on their way or being served
    PoolSize,      \* threads that serve requests
    NoKind,        \* task_type = ""
    None           \* no worker, no task

ASSUME SchedulerAssumption ==
    /\ \A t \in Tasks : Priority[t] \in Nat
    /\ Tasks \subseteq DOMAIN Kind
    /\ \A w \in Workers : NoKind \notin Capabilities[w]
    /\ MaxRetries \in Nat \ {0} /\ PoolSize \in Nat \ {0}
    /\ None \notin Workers \cup Tasks

VARIABLES
    registered,  \* keys of _workers
    fresh,       \* workers heard of within heartbeat_timeout
    status,      \* _WorkerState.status, of registered workers
    current,     \* _WorkerState.current_task, of registered workers
    pending,     \* _pending
    detached,    \* a sort holds the items and the list was not changed since
    completed,   \* _completed
    failed,      \* _failed
    calls        \* the requests

table == <<registered, fresh, status, current>>
queue == <<pending, detached>>
ledgers == <<completed, failed>>
serverVars == <<table, queue, ledgers, calls>>

\* TaskAssignment: the payload goes the way of task_type.
Entry(t) == [task |-> t, kind |-> Kind[t], priority |-> Priority[t]]

Free == [op |-> "free", by |-> None, from |-> None, task |-> None, ok |-> FALSE,
         at |-> "sent", next |-> 1, stale |-> {}, saved |-> <<>>,
         mark |-> FALSE, bound |-> FALSE]

\* A request that was made: by names a worker, from the worker that waits for
\* the answer.
Request(op, w, waits, t, ok) ==
    [Free EXCEPT !.op = op, !.by = w, !.from = waits, !.task = t, !.ok = ok]

Served == {c \in Calls : calls[c].op # "free" /\ calls[c].at \notin {"sent", "answer"}}

At(c, ops, place) == calls[c].op \in ops /\ calls[c].at = place

\* A thread of the pool takes the request.
Arrives(c, ops) == At(c, ops, "sent") /\ Cardinality(Served) < PoolSize

Goto(c, place) == calls' = [calls EXCEPT ![c].at = place]

\* ok: a 200; otherwise the statement raised and the answer is a 500.  The
\* locals of the endpoint are gone.
Answered(call, ok) ==
    [Free EXCEPT !.op = call.op, !.from = call.from, !.task = call.task,
                 !.ok = ok, !.at = "answer"]

Answer(c, ok) == calls' = [calls EXCEPT ![c] = Answered(@, ok)]

\* The _WorkerState of w that other threads have in hand is no longer the one
\* in the table.
Unbound(w) ==
    [c \in Calls |-> IF calls[c].by = w THEN [calls[c] EXCEPT !.bound = FALSE]
                                        ELSE calls[c]]

----------------------------------------------------------------------------
(* register_worker and heartbeat.                                          *)

Store(c) ==
    LET w == calls[c].by IN
    /\ Arrives(c, {"register"})
    /\ registered' = registered \cup {w} /\ fresh' = fresh \cup {w}
    /\ status' = [status EXCEPT ![w] = "idle"]
    /\ current' = [current EXCEPT ![w] = None]
    /\ calls' = [Unbound(w) EXCEPT ![c] = Answered(@, TRUE)]
    /\ UNCHANGED <<queue, ledgers>>

\* Mutant: the result of a worker that is not in the table is ignored.
IgnoredIfUnknown(c) == Answer(c, TRUE)

UnknownWorker(c) ==
    IF calls[c].op = "complete" THEN Goto(c, "record") ELSE Answer(c, TRUE)

\* if worker_id in self._workers, in heartbeat and in complete_task.
Known(c) ==
    /\ Arrives(c, {"heartbeat", "complete"})
    /\ IF calls[c].by \in registered THEN Goto(c, "touch") ELSE UnknownWorker(c)
    /\ UNCHANGED <<table, queue, ledgers>>

\* A RemoteWorker only reports that it is idle.  When the worker was pruned
\* after the test, the lookup raises.
TouchHeartbeat(c) ==
    LET w == calls[c].by IN
    /\ At(c, {"heartbeat"}, "touch")
    /\ IF w \in registered
       THEN /\ fresh' = fresh \cup {w}
            /\ status' = [status EXCEPT ![w] = "idle"]
            /\ Answer(c, TRUE)
       ELSE Answer(c, FALSE) /\ UNCHANGED <<fresh, status>>
    /\ UNCHANGED <<registered, current, queue, ledgers>>

----------------------------------------------------------------------------
(* prune_unhealthy_workers, as poll_task calls it.                         *)

Pruned(call) ==
    [call EXCEPT !.at = IF call.stale # {} THEN "delete" ELSE "find"]

Snapshot(c) ==
    /\ Arrives(c, {"poll"})
    /\ calls' = [calls EXCEPT ![c] = Pruned([@ EXCEPT !.stale = registered \ fresh])]
    /\ UNCHANGED <<table, queue, ledgers>>

\* What another thread has deleted cannot be deleted again: KeyError.
Delete(c) ==
    /\ calls[c].at = "delete"
    /\ \E w \in calls[c].stale :
          IF w \in registered
          THEN /\ registered' = registered \ {w} /\ fresh' = fresh \ {w}
               /\ status' = [status EXCEPT ![w] = "idle"]
               /\ current' = [current EXCEPT ![w] = None]
               /\ calls' = [Unbound(w) EXCEPT
                              ![c] = Pruned([@ EXCEPT !.stale = calls[c].stale \ {w}])]
          ELSE Answer(c, FALSE) /\ UNCHANGED table
    /\ UNCHANGED <<queue, ledgers>>

----------------------------------------------------------------------------
(* next_assignment.                                                        *)

Find(c) ==
    LET w == calls[c].by IN
    /\ calls[c].at = "find"
    /\ IF w \in registered /\ status[w] = "idle"
       THEN calls' = [calls EXCEPT ![c].at = "scan", ![c].bound = TRUE]
       ELSE Answer(c, TRUE)
    /\ UNCHANGED <<table, queue, ledgers>>

Matches(entry, w) == entry.kind = NoKind \/ entry.kind \in Capabilities[w]

Scan(c) ==
    LET i == calls[c].next IN
    /\ calls[c].at = "scan"
    /\ IF i > Len(pending) THEN Answer(c, TRUE)
       ELSE IF Matches(pending[i], calls[c].by) THEN Goto(c, "pop")
       ELSE calls' = [calls EXCEPT ![c].next = i + 1]
    /\ UNCHANGED <<table, queue, ledgers>>

\* Mutant: the entry is read and stays in the list.
Peek(i) == pending

Without(i) == RemoveAt(pending, i)

\* pop(i) takes what is at i by now, and raises when nothing is.
Pop(c) ==
    LET i == calls[c].next IN
    /\ calls[c].at = "pop"
    /\ IF i > Len(pending)
       THEN Answer(c, FALSE) /\ UNCHANGED pending
       ELSE /\ calls' = [calls EXCEPT ![c].task = pending[i].task, ![c].at = "assign",
                                       ![c].next = 1]
            /\ pending' = Without(i)
    /\ UNCHANGED <<table, detached, ledgers>>

Assign(c) ==
    LET w == calls[c].by IN
    /\ calls[c].at = "assign"
    /\ IF calls[c].bound
       THEN /\ status' = [status EXCEPT ![w] = "busy"]
            /\ current' = [current EXCEPT ![w] = calls[c].task]
       ELSE UNCHANGED <<status, current>>
    /\ Answer(c, TRUE)
    /\ UNCHANGED <<registered, fresh, queue, ledgers>>

----------------------------------------------------------------------------
(* submit_task.                                                            *)

AddEntry(e) == pending' = Append(pending, e) /\ detached' = FALSE

AppendTask(c) ==
    /\ Arrives(c, {"submit"})
    /\ AddEntry(Entry(calls[c].task))
    /\ Goto(c, "sort")
    /\ UNCHANGED <<table, ledgers>>

\* The sort takes the items; the list is empty until it ends.
BeginSort(c) ==
    /\ calls[c].at = "sort"
    /\ calls' = [calls EXCEPT ![c].saved = pending, ![c].mark = detached,
                              ![c].at = "sorting"]
    /\ pending' = <<>> /\ detached' = TRUE
    /\ UNCHANGED <<table, ledgers>>

\* In list s the item at i stands before the item at j: the sort is stable.
Before(s, i, j) ==
    \/ s[i].priority > s[j].priority
    \/ s[i].priority = s[j].priority /\ i < j

\* The order in which the items of s come back.
Sortings(s) ==
    {p \in Bijection(DOMAIN s, DOMAIN s) :
        \A i, j \in DOMAIN s : i < j => Before(s, p[i], p[j])}

\* The items come back in order.  Whatever the list holds by then is dropped;
\* if it was changed and no later sort has hidden that, list.sort raises.
EndSort(c) ==
    /\ calls[c].at = "sorting"
    /\ \E p \in Sortings(calls[c].saved) :
          pending' = [i \in DOMAIN p |-> calls[c].saved[p[i]]]
    /\ detached' = calls[c].mark
    /\ Answer(c, detached)
    /\ UNCHANGED <<table, ledgers>>

----------------------------------------------------------------------------
(* complete_task.                                                          *)

\* Mutant: only the status is set.
KeepsCurrent(w) == current

Released(w) == [current EXCEPT ![w] = None]

\* When the worker was pruned after the test, the lookup raises and the
\* result is not recorded.
Release(c) ==
    LET w == calls[c].by IN
    /\ At(c, {"complete"}, "touch")
    /\ IF w \in registered
       THEN /\ status' = [status EXCEPT ![w] = "idle"]
            /\ current' = Released(w)
            /\ Goto(c, "record")
       ELSE Answer(c, FALSE) /\ UNCHANGED <<status, current>>
    /\ UNCHANGED <<registered, fresh, queue, ledgers>>

\* Mutant: one retry less.
RetriedOnceLess(n) == n < MaxRetries - 1

\* Mutant: retry while the counter is not above the maximum.
RetriedOnceMore(n) == n <= MaxRetries

Retried(n) == n < MaxRetries

Record(c) ==
    LET t == calls[c].task IN
    /\ calls[c].at = "record"
    /\ IF calls[c].ok
       THEN /\ completed' = Append(completed, t)
            /\ Answer(c, TRUE)
            /\ UNCHANGED failed
       ELSE /\ failed' = [failed EXCEPT ![t] = @ + 1]
            /\ IF Retried(failed[t] + 1) THEN Goto(c, "requeue") ELSE Answer(c, TRUE)
            /\ UNCHANGED completed
    /\ UNCHANGED <<table, queue>>

\* The new TaskAssignment has no type, no payload and priority 0.
Requeued(t) == [task |-> t, kind |-> NoKind, priority |-> 0]

Requeue(c) ==
    /\ calls[c].at = "requeue"
    /\ AddEntry(Requeued(calls[c].task))
    /\ Answer(c, TRUE)
    /\ UNCHANGED <<table, ledgers>>

----------------------------------------------------------------------------
ServerInit ==
    /\ registered = {} /\ fresh = {}
    /\ status = [w \in Workers |-> "idle"] /\ current = [w \in Workers |-> None]
    /\ pending = <<>> /\ detached = FALSE
    /\ completed = <<>> /\ failed = [t \in Tasks |-> 0]
    /\ calls = [c \in Calls |-> Free]

\* The next statement of the endpoint that serves c.
Serve(c) ==
    \/ Store(c) \/ Known(c) \/ TouchHeartbeat(c)
    \/ Snapshot(c) \/ Delete(c) \/ Find(c) \/ Scan(c) \/ Pop(c) \/ Assign(c)
    \/ AppendTask(c) \/ BeginSort(c) \/ EndSort(c)
    \/ Release(c) \/ Record(c) \/ Requeue(c)
=============================================================================
