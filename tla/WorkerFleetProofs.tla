------------------------- MODULE WorkerFleetProofs -------------------------
(***************************************************************************)
(* Proofs about the coordinator and its workers: for any number of         *)
(* workers, tasks, serving threads and faults, however requests overlap,   *)
(* are lost or outlive their worker, a task that was accepted is in at     *)
(* most one place at a time, and the system keeps TaskContract.            *)
(*                                                                         *)
(* The inductive invariant says of every request in which form its thread  *)
(* holds it (CallsOK), that a client waits for one request at a time       *)
(* (WaitsOnce), and that the places where a task can be, the list of       *)
(* pending tasks, the entries on their way to it and out of it, a worker,  *)
(* a result on its way, exclude each other (InOnePlace, OnceInList).       *)
(*                                                                         *)
(* With one serving thread, and workers that are only slow, no accepted    *)
(* task is lost and the table agrees with the workers (SerialAccounted):   *)
(* what a request of the one thread knows when it goes on is still so.     *)
(***************************************************************************)
EXTENDS WorkerFleet, FiniteSetTheorems, TLAPS

----------------------------------------------------------------------------
(* The invariant.                                                          *)

Ops == {"free", "register", "heartbeat", "poll", "submit", "complete"}

\* Where the thread of a request with this operation may be.
Stages(op) ==
    CASE op = "free" -> {"sent"}
      [] op = "register" -> {"sent", "answer"}
      [] op = "heartbeat" -> {"sent", "touch", "answer"}
      [] op = "poll" -> {"sent", "delete", "find", "scan", "pop", "assign", "answer"}
      [] op = "submit" -> {"sent", "sort", "sorting", "answer"}
      [] op = "complete" -> {"sent", "touch", "record", "requeue", "answer"}

\* A request as the fleet makes it and the endpoints leave it.
CallRecords ==
    [op : Ops, by : Workers \cup {None}, from : Workers \cup {None},
     task : Tasks \cup {None}, ok : BOOLEAN, at : UNION {Stages(op) : op \in Ops},
     next : Nat \ {0}, stale : SUBSET Workers, saved : Seq(Entries),
     mark : BOOLEAN, bound : BOOLEAN]

CallOK(call) ==
    /\ call \in CallRecords
    /\ call.at \in Stages(call.op)
    /\ call.op \in {"free", "submit"} => call.from = None
    /\ call.op \in {"submit", "complete"} => call.task \in Tasks
    /\ call.op \notin {"free", "submit"} /\ call.at # "answer" => call.by \in Workers
    /\ call.at # "sorting" => call.saved = <<>>

CallsOK ==
    /\ DOMAIN calls = Calls
    /\ \A c \in Calls : CallOK(calls[c])

\* A worker at l waits for the answer to a request with operation op.
Awaits(l, op) ==
    \/ l = "registering" /\ op = "register"
    \/ l = "beating" /\ op = "heartbeat"
    \/ l = "polling" /\ op = "poll"
    \/ l = "reporting" /\ op = "complete"

\* A worker waits for the answer to one request, and has a task while it handles one.
WaitsOnce ==
    \A w \in Workers :
        /\ \A c \in Waiting(w) : Awaits(loop[w], calls[c].op)
        /\ \A c, d \in Waiting(w) : c = d
        /\ loop[w] = "handling" => hand[w] \in Tasks

\* What a client sends it has submitted.
Sent == \A c \in Calls : calls[c].op = "submit" => calls[c].task \in submitted

Listed(s, t) == \E i \in 1..Len(s) : s[i].task = t

\* The request has t with it.
Carries(call, t) ==
    \/ call.op = "submit" /\ call.at = "sent" /\ call.task = t
    \/ Listed(call.saved, t)
    \/ call.op = "poll" /\ call.task = t
    \/ call.op = "complete" /\ call.at # "answer" /\ call.task = t

\* Where t can be: place k, of the request or worker x.
Has(t, k, x) ==
    \/ k = "new" /\ x = None /\ t \notin submitted
    \/ k = "call" /\ x \in Calls /\ Carries(calls[x], t)
    \/ k = "hand" /\ x \in Workers /\ hand[x] = t /\ loop[x] = "handling"
    \/ k = "list" /\ x = None /\ Listed(pending, t)
    \/ k = "done" /\ x = None /\ Done(t)
    \/ k = "abandoned" /\ x = None /\ Abandoned(t)

PlaceNames == {"new", "call", "hand", "list", "done", "abandoned"}

Holders == Calls \cup Workers \cup {None}

\* A task is in one place.
InPlace(t) ==
    \A k, l \in PlaceNames, x, y \in Holders :
        Has(t, k, x) /\ Has(t, l, y) => k = l /\ x = y

InOnePlace == \A t \in Tasks : InPlace(t)

Once(s, t) == \A i, j \in 1..Len(s) : s[i].task = t /\ s[j].task = t => i = j

\* And once in it.
OnceInList ==
    \A t \in Tasks :
        /\ Once(pending, t)
        /\ \A c \in Calls : Once(calls[c].saved, t)
        /\ \A i, j \in 1..Len(completed) : completed[i] = t /\ completed[j] = t => i = j

\* TypeOK, but for what WaitsOnce says.
Types ==
    /\ registered \subseteq Workers /\ fresh \subseteq Workers
    /\ status \in [Workers -> {"idle", "busy"}]
    /\ current \in [Workers -> Tasks \cup {None}]
    /\ pending \in Seq(Entries) /\ detached \in BOOLEAN
    /\ completed \in Seq(Tasks) /\ failed \in [Tasks -> 0..MaxRetries]
    /\ loop \in [Workers -> Locations]
    /\ hand \in [Workers -> Tasks \cup {None}]
    /\ accepted \subseteq submitted /\ submitted \subseteq Tasks

IInv == Types /\ CallsOK /\ Sent /\ WaitsOnce /\ InOnePlace /\ OnceInList

----------------------------------------------------------------------------
(* Requests.                                                               *)

AllStages == {"sent", "touch", "delete", "find", "scan", "pop", "assign", "sort",
              "sorting", "record", "requeue", "answer"}

LEMMA StageNames == UNION {Stages(op) : op \in Ops} = AllStages
<1>1. \A op \in Ops : Stages(op) \subseteq AllStages BY DEF Ops, Stages, AllStages
<1>2. \A s \in AllStages : \E op \in Ops : s \in Stages(op)
  BY DEF Ops, Stages, AllStages
<1> QED BY <1>1, <1>2

LEMMA FirstStages ==
  /\ \A op \in Ops : "sent" \in Stages(op)
  /\ \A op \in Ops \ {"free"} : "answer" \in Stages(op)
  /\ "sent" \in AllStages /\ "answer" \in AllStages
BY DEF Ops, Stages, AllStages

\* What the invariant and the contract see of a request.
Alike(call, other) ==
    /\ call.op = other.op /\ call.from = other.from /\ call.task = other.task
    /\ call.at = other.at /\ call.saved = other.saved

LEMMA FreeOK == SchedulerAssumption => CallOK(Free)
BY StageNames DEF CallOK, CallRecords, Free, Ops, Stages, AllStages

LEMMA RequestOK ==
  ASSUME SchedulerAssumption, NEW op \in Ops \ {"free"}, NEW by \in Workers \cup {None},
         NEW from \in Workers \cup {None}, NEW task \in Tasks \cup {None}, NEW ok \in BOOLEAN,
         op = "submit" => from = None,
         op \in {"submit", "complete"} => task \in Tasks,
         op # "submit" => by \in Workers
  PROVE  /\ CallOK(Request(op, by, from, task, ok))
         /\ Request(op, by, from, task, ok).op = op
         /\ Request(op, by, from, task, ok).at = "sent"
         /\ Request(op, by, from, task, ok).from = from
         /\ Request(op, by, from, task, ok).task = task
         /\ Request(op, by, from, task, ok).saved = <<>>
<1> DEFINE r == Request(op, by, from, task, ok)
<1>1. Free \in CallRecords /\ Free.at = "sent" /\ Free.saved = <<>>
  BY FreeOK DEF CallOK, Free
<1>2. r \in CallRecords BY <1>1 DEF Request, CallRecords
<1>3. /\ r.op = op /\ r.at = "sent" /\ r.from = from /\ r.task = task /\ r.saved = <<>>
      /\ r.by = by
  BY <1>1 DEF Request, CallRecords
<1> HIDE DEF r
<1>4. CallOK(r) BY <1>2, <1>3, FirstStages DEF CallOK, Ops
<1> QED BY <1>3, <1>4 DEF r

LEMMA AnsweredOK ==
  ASSUME SchedulerAssumption, NEW call, CallOK(call), call.op # "free", NEW ok \in BOOLEAN
  PROVE  /\ CallOK(Answered(call, ok))
         /\ Answered(call, ok).op = call.op /\ Answered(call, ok).at = "answer"
         /\ Answered(call, ok).from = call.from /\ Answered(call, ok).task = call.task
         /\ Answered(call, ok).saved = <<>>
<1> DEFINE r == Answered(call, ok)
<1>0. /\ call.op \in Ops \ {"free"} /\ call.from \in Workers \cup {None}
      /\ call.task \in Tasks \cup {None}
      /\ call.op = "submit" => call.from = None
      /\ call.op \in {"submit", "complete"} => call.task \in Tasks
  BY DEF CallOK, CallRecords
<1>1. Free \in CallRecords /\ Free.saved = <<>> BY FreeOK DEF CallOK, Free
<1>2. "answer" \in UNION {Stages(o) : o \in Ops} /\ "answer" \in Stages(call.op)
  BY <1>0, StageNames, FirstStages
<1>3. r \in CallRecords BY <1>0, <1>1, <1>2 DEF Answered, CallRecords
<1>4. /\ r.op = call.op /\ r.at = "answer" /\ r.from = call.from /\ r.task = call.task
      /\ r.saved = <<>>
  BY <1>1 DEF Answered, CallRecords
<1> HIDE DEF r
<1>5. CallOK(r) BY <1>0, <1>2, <1>3, <1>4 DEF CallOK
<1> QED BY <1>4, <1>5 DEF r

LEMMA UnboundOK ==
  ASSUME NEW call, CallOK(call)
  PROVE  /\ CallOK([call EXCEPT !.bound = FALSE])
         /\ Alike([call EXCEPT !.bound = FALSE], call)
BY DEF CallOK, CallRecords, Alike

\* The thread of a request goes on.
LEMMA MovedOK ==
  ASSUME NEW call, CallOK(call), NEW at \in Stages(call.op), at # "sorting",
         call.at # "sorting", call.at # "answer", call.op \in Ops
  PROVE  /\ CallOK([call EXCEPT !.at = at])
         /\ [call EXCEPT !.at = at].op = call.op /\ [call EXCEPT !.at = at].at = at
         /\ [call EXCEPT !.at = at].from = call.from
         /\ [call EXCEPT !.at = at].task = call.task
         /\ [call EXCEPT !.at = at].saved = <<>>
BY DEF CallOK, CallRecords

LEMMA ForgottenOK ==
  ASSUME NEW call, CallOK(call)
  PROVE  /\ CallOK([call EXCEPT !.from = None])
         /\ [call EXCEPT !.from = None].op = call.op
         /\ [call EXCEPT !.from = None].at = call.at
         /\ [call EXCEPT !.from = None].from = None
         /\ [call EXCEPT !.from = None].task = call.task
         /\ [call EXCEPT !.from = None].saved = call.saved
BY DEF CallOK, CallRecords

\* One request changes; others at most lose the worker's record they had in hand.
OneCall(c) ==
    /\ DOMAIN calls' = Calls
    /\ CallOK(calls'[c])
    /\ \A d \in Calls \ {c} :
         calls'[d] = calls[d] \/ calls'[d] = [calls[d] EXCEPT !.bound = FALSE]

LEMMA OneCallOK ==
  ASSUME CallsOK, NEW c \in Calls, OneCall(c)
  PROVE  /\ CallsOK'
         /\ \A d \in Calls \ {c} : Alike(calls'[d], calls[d])
<1>1. ASSUME NEW d \in Calls \ {c} PROVE CallOK(calls'[d]) /\ Alike(calls'[d], calls[d])
  <2>1. CallOK(calls[d]) BY DEF CallsOK
  <2>2. CASE calls'[d] = calls[d] BY <2>1, <2>2 DEF Alike
  <2>3. CASE calls'[d] = [calls[d] EXCEPT !.bound = FALSE] BY <2>1, <2>3, UnboundOK
  <2> QED BY <2>2, <2>3 DEF OneCall
<1> QED BY <1>1 DEF CallsOK, OneCall

\* The request is replaced.
LEMMA Replaced ==
  ASSUME CallsOK, NEW c \in Calls, NEW new, CallOK(new), calls' = [calls EXCEPT ![c] = new]
  PROVE  OneCall(c) /\ calls'[c] = new
BY DEF CallsOK, OneCall

LEMMA ReplacedUnbound ==
  ASSUME CallsOK, NEW c \in Calls, NEW w, NEW new, CallOK(new),
         calls' = [Unbound(w) EXCEPT ![c] = new]
  PROVE  OneCall(c) /\ calls'[c] = new
BY DEF CallsOK, OneCall, Unbound

LEMMA OpOfStage ==
  ASSUME NEW call, CallOK(call)
  PROVE  /\ call.at \in {"delete", "find", "scan", "pop", "assign"} => call.op = "poll"
         /\ call.at \in {"sort", "sorting"} => call.op = "submit"
         /\ call.at \in {"record", "requeue"} => call.op = "complete"
BY DEF CallOK, CallRecords, Ops, Stages

----------------------------------------------------------------------------
(* Lists.                                                                  *)

LEMMA AppendList ==
  ASSUME NEW s \in Seq(Entries), NEW e \in Entries
  PROVE  /\ Append(s, e) \in Seq(Entries)
         /\ \A t : Listed(Append(s, e), t) <=> Listed(s, t) \/ e.task = t
         /\ \A t : Once(s, t) /\ (e.task = t => ~Listed(s, t)) => Once(Append(s, e), t)
<1> DEFINE a == Append(s, e)
<1>1. /\ a \in Seq(Entries) /\ Len(a) = Len(s) + 1 /\ Len(s) \in Nat
      /\ a[Len(s) + 1] = e /\ \A i \in 1..Len(s) : a[i] = s[i]
  OBVIOUS
<1> HIDE DEF a
<1>2. \A t : Listed(a, t) <=> Listed(s, t) \/ e.task = t
  <2> TAKE t
  <2>1. ASSUME Listed(a, t) PROVE Listed(s, t) \/ e.task = t
    <3>1. PICK i \in 1..Len(a) : a[i].task = t BY <2>1 DEF Listed
    <3>2. CASE i = Len(s) + 1 BY <1>1, <3>1, <3>2
    <3>3. CASE i # Len(s) + 1
      <4>1. i \in 1..Len(s) BY <1>1, <3>3
      <4> QED BY <1>1, <3>1, <4>1 DEF Listed
    <3> QED BY <3>2, <3>3
  <2>2. ASSUME Listed(s, t) PROVE Listed(a, t)
    <3>1. PICK i \in 1..Len(s) : s[i].task = t BY <2>2 DEF Listed
    <3>2. i \in 1..Len(a) BY <1>1
    <3> QED BY <1>1, <3>1, <3>2 DEF Listed
  <2>3. ASSUME e.task = t PROVE Listed(a, t)
    <3>1. Len(s) + 1 \in 1..Len(a) BY <1>1
    <3> QED BY <1>1, <2>3, <3>1 DEF Listed
  <2> QED BY <2>1, <2>2, <2>3
<1>3. ASSUME NEW t, Once(s, t), e.task = t => ~Listed(s, t), NEW i \in 1..Len(a),
             NEW j \in 1..Len(a), a[i].task = t, a[j].task = t
      PROVE  i = j
  <2>1. CASE i \in 1..Len(s) /\ j \in 1..Len(s) BY <1>1, <1>3, <2>1 DEF Once
  <2>2. CASE i = Len(s) + 1 /\ j = Len(s) + 1 BY <2>2
  <2>3. CASE i = Len(s) + 1 /\ j \in 1..Len(s) BY <1>1, <1>3, <2>3 DEF Listed
  <2>4. CASE i \in 1..Len(s) /\ j = Len(s) + 1 BY <1>1, <1>3, <2>4 DEF Listed
  <2>5. \A k \in 1..Len(a) : k = Len(s) + 1 \/ k \in 1..Len(s) BY <1>1
  <2> QED BY <2>1, <2>2, <2>3, <2>4, <2>5
<1>4. \A t : Once(s, t) /\ (e.task = t => ~Listed(s, t)) => Once(a, t) BY <1>3 DEF Once
<1> QED BY <1>1, <1>2, <1>4 DEF a

LEMMA Joined ==
  ASSUME NEW S, NEW a \in Seq(S), NEW b \in Seq(S)
  PROVE  /\ a \o b \in Seq(S) /\ Len(a \o b) = Len(a) + Len(b)
         /\ \A j \in 1..Len(a) : (a \o b)[j] = a[j]
         /\ \A j \in 1..Len(b) : (a \o b)[Len(a) + j] = b[j]
OBVIOUS

LEMMA RemoveFromList ==
  ASSUME NEW s \in Seq(Entries), NEW i \in 1..Len(s)
  PROVE  /\ RemoveAt(s, i) \in Seq(Entries)
         /\ \A t : Listed(RemoveAt(s, i), t) => Listed(s, t)
         /\ \A t : Once(s, t) => Once(RemoveAt(s, i), t)
         /\ \A t : Once(s, t) /\ s[i].task = t => ~Listed(RemoveAt(s, i), t)
<1> DEFINE a == SubSeq(s, 1, i - 1)  b == SubSeq(s, i + 1, Len(s))  r == a \o b
           from(j) == IF j < i THEN j ELSE j + 1
<1>0. Len(s) \in Nat /\ i \in Nat /\ 1 <= i /\ i <= Len(s) OBVIOUS
<1>1. a \in Seq(Entries) /\ Len(a) = i - 1 /\ \A j \in 1..(i - 1) : a[j] = s[j] BY <1>0
<1>2. /\ b \in Seq(Entries) /\ Len(b) = Len(s) - i
      /\ \A j \in 1..(Len(s) - i) : b[j] = s[j + i]
  BY <1>0
<1>3. RemoveAt(s, i) = r BY DEF RemoveAt
<1> HIDE DEF a, b
<1>4. r \in Seq(Entries) /\ Len(r) = Len(s) - 1
  <2>1. r \in Seq(Entries) /\ Len(r) = Len(a) + Len(b) BY <1>1, <1>2, Joined
  <2> QED BY <2>1, <1>0, <1>1, <1>2
<1>5. ASSUME NEW j \in 1..Len(r) PROVE from(j) \in 1..Len(s) \ {i} /\ r[j] = s[from(j)]
  <2>1. j \in 1..(Len(s) - 1) BY <1>4
  <2>2. CASE j < i
    <3>1. j \in 1..(i - 1) BY <2>1, <2>2, <1>0
    <3>2. r[j] = a[j] BY <3>1, <1>1, <1>2
    <3> QED BY <3>1, <3>2, <1>1, <1>0, <2>2
  <2>3. CASE ~(j < i)
    <3>1. j - (i - 1) \in 1..(Len(s) - i) /\ j = (i - 1) + (j - (i - 1))
      BY <2>1, <2>3, <1>0
    <3>2. r[j] = b[j - (i - 1)] BY <3>1, <2>3, <1>0, <1>1, <1>2
    <3>3. b[j - (i - 1)] = s[(j - (i - 1)) + i] /\ (j - (i - 1)) + i = j + 1
      BY <3>1, <1>2, <1>0, <2>1
    <3>4. j + 1 \in 1..Len(s) \ {i} BY <2>1, <2>3, <1>0
    <3> QED BY <3>2, <3>3, <3>4, <2>3
  <2> QED BY <2>2, <2>3
<1>6. \A j, k \in 1..Len(r) : from(j) = from(k) => j = k BY <1>4, <1>0
<1> HIDE DEF r, from
<1>7. \A t : Listed(r, t) => Listed(s, t) BY <1>5 DEF Listed
<1>8. ASSUME NEW t, Once(s, t) PROVE Once(r, t)
  <2>1. SUFFICES ASSUME NEW j \in 1..Len(r), NEW k \in 1..Len(r), r[j].task = t, r[k].task = t
                 PROVE  j = k
    BY <2>1 DEF Once
  <2>2. /\ from(j) \in 1..Len(s) /\ s[from(j)].task = t
        /\ from(k) \in 1..Len(s) /\ s[from(k)].task = t
    BY <1>5, <2>1
  <2>3. from(j) = from(k) BY <1>8, <2>2 DEF Once
  <2> QED BY <2>1, <2>3, <1>6
<1>9. \A t : Once(s, t) /\ s[i].task = t => ~Listed(r, t) BY <1>5 DEF Once, Listed
<1> QED BY <1>4, <1>3, <1>7, <1>8, <1>9

LEMMA SortList ==
  ASSUME NEW s \in Seq(Entries), NEW p \in Sortings(s), NEW q,
         q = [i \in DOMAIN p |-> s[p[i]]]
  PROVE  /\ q \in Seq(Entries)
         /\ \A t : Listed(q, t) <=> Listed(s, t)
         /\ \A t : Once(s, t) => Once(q, t)
<1>1. DOMAIN s = 1..Len(s) /\ Len(s) \in Nat OBVIOUS
<1>2. /\ p \in [1..Len(s) -> 1..Len(s)]
      /\ \A i, j \in 1..Len(s) : p[i] = p[j] => i = j
      /\ \A i \in 1..Len(s) : \E j \in 1..Len(s) : p[j] = i
  BY <1>1 DEF Sortings, Bijection, Injection, Surjection, IsInjective
<1>3. q = [i \in 1..Len(s) |-> s[p[i]]] BY <1>2
<1>4. \A i \in 1..Len(s) : s[p[i]] \in Entries BY <1>2
<1>5. q \in Seq(Entries) /\ Len(q) = Len(s) BY <1>1, <1>3, <1>4
<1>6. \A i \in 1..Len(q) : q[i] = s[p[i]] BY <1>3, <1>5
<1> DEFINE n == Len(s)
<1>7. Len(q) = n /\ Len(s) = n BY <1>5
<1> HIDE DEF n
<1>8. \A t : Listed(q, t) <=> Listed(s, t)
  <2> TAKE t
  <2>1. ASSUME Listed(q, t) PROVE Listed(s, t)
    <3>1. PICK i \in 1..n : q[i].task = t BY <2>1, <1>7 DEF Listed
    <3>2. p[i] \in 1..n /\ s[p[i]].task = t BY <3>1, <1>7, <1>2, <1>6
    <3> QED BY <3>2, <1>7 DEF Listed
  <2>2. ASSUME Listed(s, t) PROVE Listed(q, t)
    <3>1. PICK i \in 1..n : s[i].task = t BY <2>2, <1>7 DEF Listed
    <3>2. PICK j \in 1..n : p[j] = i BY <3>1, <1>7, <1>2
    <3>3. q[j].task = t BY <3>1, <3>2, <1>7, <1>6
    <3> QED BY <3>3, <1>7 DEF Listed
  <2> QED BY <2>1, <2>2
<1>9. ASSUME NEW t, Once(s, t), NEW i \in 1..n, NEW j \in 1..n, q[i].task = t, q[j].task = t
      PROVE  i = j
  <2>1. /\ p[i] \in 1..n /\ p[j] \in 1..n
        /\ s[p[i]].task = t /\ s[p[j]].task = t
    BY <1>9, <1>7, <1>2, <1>6
  <2>2. p[i] = p[j] BY <2>1, <1>9, <1>7 DEF Once
  <2> QED BY <2>2, <1>7, <1>2
<1>10. \A t : Once(s, t) => Once(q, t)
  <2> SUFFICES ASSUME NEW t, Once(s, t) PROVE Once(q, t) OBVIOUS
  <2>1. \A i, j \in 1..n : q[i].task = t /\ q[j].task = t => i = j BY <1>9
  <2> QED BY <2>1, <1>7 DEF Once
<1> QED BY <1>5, <1>8, <1>10

LEMMA EmptyList ==
  /\ <<>> \in Seq(Entries)
  /\ \A t : ~Listed(<<>>, t) /\ Once(<<>>, t)
BY DEF Listed, Once

----------------------------------------------------------------------------
(* What the contract sees.                                                 *)

\* The place of a task that this request carries.
CallPlace(call) ==
    IF call.op = "submit" THEN IF call.at = "sent" THEN "new" ELSE "waiting"
    ELSE IF call.op = "poll" THEN IF call.from # None THEN "held" ELSE "lost"
    ELSE IF call.at = "requeue" THEN "waiting" ELSE "held"

Nowhere(t) == \A k \in PlaceNames, x \in Holders : ~Has(t, k, x)

PlacesRight ==
    \A t \in Tasks :
        /\ t \notin submitted => Place(t) = "new"
        /\ \A c \in Calls : Carries(calls[c], t) => Place(t) = CallPlace(calls[c])
        /\ \A w \in Workers : hand[w] = t /\ loop[w] = "handling" => Place(t) = "held"
        /\ Listed(pending, t) => Place(t) = "waiting"
        /\ Done(t) => Place(t) = "done"
        /\ Abandoned(t) => Place(t) = "abandoned"
        /\ Nowhere(t) => Place(t) = "lost"

LEMMA NoOther ==
  ASSUME NEW t \in Tasks, InPlace(t), NEW k \in PlaceNames, NEW x \in Holders, Has(t, k, x)
  PROVE  /\ k # "new" => t \in submitted
         /\ \A c \in Calls : Carries(calls[c], t) => k = "call" /\ x = c
         /\ \A w \in Workers : hand[w] = t /\ loop[w] = "handling" => k = "hand" /\ x = w
         /\ Listed(pending, t) => k = "list"
         /\ Done(t) => k = "done"
         /\ Abandoned(t) => k = "abandoned"
<1>1. \A l \in PlaceNames, y \in Holders : Has(t, l, y) => k = l /\ x = y BY DEF InPlace
<1>2. /\ {"new", "call", "hand", "list", "done", "abandoned"} \subseteq PlaceNames
      /\ None \in Holders /\ Calls \subseteq Holders /\ Workers \subseteq Holders
  BY DEF PlaceNames, Holders
<1>3. t \notin submitted => k = "new"
  <2>1. t \notin submitted => Has(t, "new", None) BY DEF Has
  <2> QED BY <1>1, <1>2, <2>1
<1>4. ASSUME NEW c \in Calls, Carries(calls[c], t) PROVE k = "call" /\ x = c
  <2>1. Has(t, "call", c) BY <1>4 DEF Has
  <2> QED BY <1>1, <1>2, <2>1
<1>5. ASSUME NEW w \in Workers, hand[w] = t, loop[w] = "handling" PROVE k = "hand" /\ x = w
  <2>1. Has(t, "hand", w) BY <1>5 DEF Has
  <2> QED BY <1>1, <1>2, <2>1
<1>6. /\ Listed(pending, t) => Has(t, "list", None)
      /\ Done(t) => Has(t, "done", None)
      /\ Abandoned(t) => Has(t, "abandoned", None)
  BY DEF Has
<1>7. /\ Listed(pending, t) => k = "list"
      /\ Done(t) => k = "done"
      /\ Abandoned(t) => k = "abandoned"
  BY <1>1, <1>2, <1>6
<1> QED BY <1>3, <1>4, <1>5, <1>7

\* The sets that Copies and Place are made of, by what the requests carry.
LEMMA Members ==
  ASSUME IInv, NEW t \in Tasks
  PROVE  /\ Occurrences(pending, t) # {} <=> Listed(pending, t)
         /\ \A c \in Calls : c \in Sorting(t) <=>
              Carries(calls[c], t) /\ calls[c].op = "submit" /\ calls[c].at # "sent"
         /\ \A c \in Calls : c \in Queueing(t) <=>
              Carries(calls[c], t) /\ calls[c].op = "complete" /\ calls[c].at = "requeue"
         /\ \A c \in Calls : c \in Assigning(t) <=>
              Carries(calls[c], t) /\ calls[c].op = "poll"
         /\ \A c \in Calls : c \in Reporting(t) <=>
              Carries(calls[c], t) /\ calls[c].op = "complete" /\ calls[c].at # "requeue"
<1>1. ASSUME NEW s PROVE Occurrences(s, t) # {} <=> Listed(s, t)
  BY DEF Occurrences, Listed
<1>2. ASSUME NEW c \in Calls
      PROVE  /\ Listed(calls[c].saved, t) => calls[c].op = "submit" /\ calls[c].at = "sorting"
             /\ calls[c].at = "requeue" => calls[c].op = "complete"
  <2>1. CallOK(calls[c]) BY DEF IInv, CallsOK
  <2>2. calls[c].at # "sorting" => calls[c].saved = <<>> BY <2>1 DEF CallOK
  <2>3. Listed(calls[c].saved, t) => calls[c].at = "sorting" BY <2>2, EmptyList
  <2> QED BY <2>1, <2>3, OpOfStage
<1>3. ASSUME NEW c \in Calls PROVE c \in Sorting(t) <=> Listed(calls[c].saved, t)
  BY <1>1 DEF Sorting
<1>4. ASSUME NEW c \in Calls
      PROVE  c \in Sorting(t) <=>
              Carries(calls[c], t) /\ calls[c].op = "submit" /\ calls[c].at # "sent"
  BY <1>2, <1>3 DEF Carries
<1>5. ASSUME NEW c \in Calls
      PROVE  /\ c \in Queueing(t) <=>
                  Carries(calls[c], t) /\ calls[c].op = "complete" /\ calls[c].at = "requeue"
             /\ c \in Assigning(t) <=> Carries(calls[c], t) /\ calls[c].op = "poll"
             /\ c \in Reporting(t) <=>
                  Carries(calls[c], t) /\ calls[c].op = "complete" /\ calls[c].at # "requeue"
  BY <1>2 DEF Carries, Queueing, Assigning, Reporting
<1> QED BY <1>1, <1>4, <1>5

LEMMA PlacesAre == IInv => PlacesRight
<1> SUFFICES ASSUME IInv, NEW t \in Tasks
             PROVE  /\ t \notin submitted => Place(t) = "new"
                    /\ \A c \in Calls : Carries(calls[c], t) => Place(t) = CallPlace(calls[c])
                    /\ \A w \in Workers : hand[w] = t /\ loop[w] = "handling" =>
                          Place(t) = "held"
                    /\ Listed(pending, t) => Place(t) = "waiting"
                    /\ Done(t) => Place(t) = "done"
                    /\ Abandoned(t) => Place(t) = "abandoned"
                    /\ Nowhere(t) => Place(t) = "lost"
  BY DEF PlacesRight
<1> DEFINE W == Occurrences(pending, t) # {} \/ Sorting(t) # {} \/ Queueing(t) # {}
<1>0. InPlace(t) BY DEF IInv, InOnePlace
<1>1. /\ Unsent(t) => Place(t) = "new"
      /\ ~Unsent(t) /\ Done(t) => Place(t) = "done"
      /\ ~Unsent(t) /\ ~Done(t) /\ Abandoned(t) => Place(t) = "abandoned"
      /\ ~Unsent(t) /\ ~Done(t) /\ ~Abandoned(t) /\ W => Place(t) = "waiting"
      /\ ~Unsent(t) /\ ~Done(t) /\ ~Abandoned(t) /\ ~W /\ Held(t) => Place(t) = "held"
      /\ ~Unsent(t) /\ ~Done(t) /\ ~Abandoned(t) /\ ~W /\ ~Held(t) => Place(t) = "lost"
  <2>1. CASE Unsent(t) BY <2>1 DEF Place
  <2>2. CASE ~Unsent(t) /\ Done(t) BY <2>2 DEF Place
  <2>3. CASE ~Unsent(t) /\ ~Done(t) /\ Abandoned(t) BY <2>3 DEF Place
  <2>4. CASE ~Unsent(t) /\ ~Done(t) /\ ~Abandoned(t) /\ W BY <2>4 DEF Place
  <2>5. CASE ~Unsent(t) /\ ~Done(t) /\ ~Abandoned(t) /\ ~W /\ Held(t) BY <2>5 DEF Place
  <2>6. CASE ~Unsent(t) /\ ~Done(t) /\ ~Abandoned(t) /\ ~W /\ ~Held(t) BY <2>6 DEF Place
  <2> QED BY <2>1, <2>2, <2>3, <2>4, <2>5, <2>6
<1>2. Unsent(t) <=> \/ t \notin submitted
                    \/ \E c \in Calls : Carries(calls[c], t) /\ CallPlace(calls[c]) = "new"
  <2>1. ASSUME NEW c \in Calls
        PROVE  calls[c].op = "submit" /\ calls[c].task = t /\ calls[c].at = "sent" <=>
                 Carries(calls[c], t) /\ CallPlace(calls[c]) = "new"
    <3>1. CallOK(calls[c]) BY DEF IInv, CallsOK
    <3>2. calls[c].at = "sent" => ~Listed(calls[c].saved, t)
      BY <3>1, EmptyList DEF CallOK
    <3> QED BY <3>2 DEF Carries, CallPlace
  <2> QED BY <2>1 DEF Unsent
<1>3. W <=> \/ Listed(pending, t)
            \/ \E c \in Calls : Carries(calls[c], t) /\ CallPlace(calls[c]) = "waiting"
  <2>1. ASSUME NEW c \in Calls, Carries(calls[c], t)
        PROVE  CallPlace(calls[c]) = "waiting" <=> c \in Sorting(t) \/ c \in Queueing(t)
    <3>1. calls[c].op \in {"submit", "poll", "complete"}
      <4>1. CallOK(calls[c]) BY DEF IInv, CallsOK
      <4>2. Listed(calls[c].saved, t) => calls[c].op = "submit"
        BY <4>1, EmptyList, OpOfStage DEF CallOK
      <4> QED BY <2>1, <4>2 DEF Carries
    <3> QED BY <2>1, <3>1, Members DEF CallPlace
  <2>2. Sorting(t) \subseteq Calls /\ Queueing(t) \subseteq Calls
    BY DEF Sorting, Queueing
  <2>3. \A c \in Calls : c \in Sorting(t) \/ c \in Queueing(t) => Carries(calls[c], t)
    BY Members
  <2> QED BY <2>1, <2>2, <2>3, Members
<1>4. Held(t) <=> \/ \E w \in Workers : hand[w] = t /\ loop[w] = "handling"
                  \/ \E c \in Calls : Carries(calls[c], t) /\ CallPlace(calls[c]) = "held"
  <2>1. ASSUME NEW c \in Calls, Carries(calls[c], t)
        PROVE  CallPlace(calls[c]) = "held" <=>
                 c \in Reporting(t) \/ (c \in Assigning(t) /\ calls[c].from # None)
    <3>1. calls[c].op \in {"submit", "poll", "complete"}
      <4>1. CallOK(calls[c]) BY DEF IInv, CallsOK
      <4>2. Listed(calls[c].saved, t) => calls[c].op = "submit"
        BY <4>1, EmptyList, OpOfStage DEF CallOK
      <4> QED BY <2>1, <4>2 DEF Carries
    <3> QED BY <2>1, <3>1, Members DEF CallPlace
  <2>2. Reporting(t) \subseteq Calls /\ Assigning(t) \subseteq Calls
    BY DEF Reporting, Assigning
  <2>3. \A c \in Calls : c \in Reporting(t) \/ c \in Assigning(t) => Carries(calls[c], t)
    BY Members
  <2> QED BY <2>1, <2>2, <2>3 DEF Held, Handling
<1> HIDE DEF W
<1>5. /\ {"new", "call", "hand", "list", "done", "abandoned"} \subseteq PlaceNames
      /\ None \in Holders /\ Calls \subseteq Holders /\ Workers \subseteq Holders
  BY DEF PlaceNames, Holders
<1>6. CASE Nowhere(t)
  <2>1. /\ t \in submitted /\ ~Done(t) /\ ~Abandoned(t) /\ ~Listed(pending, t)
        /\ \A c \in Calls : ~Carries(calls[c], t)
        /\ \A w \in Workers : ~(hand[w] = t /\ loop[w] = "handling")
    BY <1>5, <1>6 DEF Nowhere, Has
  <2> QED BY <1>1, <1>2, <1>3, <1>4, <2>1
<1>7. ASSUME NEW k \in PlaceNames, NEW x \in Holders, Has(t, k, x)
      PROVE  /\ t \notin submitted => Place(t) = "new"
             /\ \A c \in Calls : Carries(calls[c], t) => Place(t) = CallPlace(calls[c])
             /\ \A w \in Workers : hand[w] = t /\ loop[w] = "handling" => Place(t) = "held"
             /\ Listed(pending, t) => Place(t) = "waiting"
             /\ Done(t) => Place(t) = "done"
             /\ Abandoned(t) => Place(t) = "abandoned"
  <2>1. /\ k # "new" => t \in submitted
        /\ \A c \in Calls : Carries(calls[c], t) => k = "call" /\ x = c
        /\ \A w \in Workers : hand[w] = t /\ loop[w] = "handling" => k = "hand" /\ x = w
        /\ Listed(pending, t) => k = "list"
        /\ Done(t) => k = "done"
        /\ Abandoned(t) => k = "abandoned"
    BY <1>0, <1>7, NoOther
  <2>2. CASE k = "call" /\ x \in Calls /\ Carries(calls[x], t)
    <3>1. \A c \in Calls : Carries(calls[c], t) => c = x BY <2>1
    <3>2. CallPlace(calls[x]) \in {"new", "waiting", "held", "lost"} BY DEF CallPlace
    <3>3. Place(t) = CallPlace(calls[x])
      BY <1>1, <1>2, <1>3, <1>4, <2>1, <2>2, <3>1, <3>2
    <3> QED BY <2>1, <2>2, <3>1, <3>3
  <2>3. CASE k # "call"
    <3>1. \A c \in Calls : ~Carries(calls[c], t) BY <2>1, <2>3
    <3> QED BY <1>1, <1>2, <1>3, <1>4, <2>1, <3>1
  <2> QED BY <1>7, <2>2, <2>3 DEF Has
<1> QED
  <2>1. ~Nowhere(t) => \E k \in PlaceNames, x \in Holders : Has(t, k, x) BY DEF Nowhere
  <2>2. t \notin submitted \/ Done(t) \/ Abandoned(t) \/ Listed(pending, t) => ~Nowhere(t)
    BY <1>5 DEF Nowhere, Has
  <2>3. \A c \in Calls : Carries(calls[c], t) => ~Nowhere(t) BY <1>5 DEF Nowhere, Has
  <2>4. \A w \in Workers : hand[w] = t /\ loop[w] = "handling" => ~Nowhere(t)
    BY <1>5 DEF Nowhere, Has
  <2> QED BY <1>6, <1>7, <2>1, <2>2, <2>3, <2>4

LEMMA PlacesNext == IInv' => PlacesRight'
BY PlacesAre, PTL

----------------------------------------------------------------------------
(* Steps of the contract.                                                  *)

\* A task that gets to no other place stays where it is, or is lost.
LEMMA StaysInContract ==
  ASSUME IInv, IInv', NEW t \in Tasks, failed'[t] = failed[t],
         t \notin submitted' <=> t \notin submitted,
         \A d \in Calls : Carries(calls'[d], t) =>
            Carries(calls[d], t) /\ CallPlace(calls'[d]) \in {CallPlace(calls[d]), "lost"},
         \A d \in Calls : Carries(calls[d], t) /\ CallPlace(calls[d]) = "new" =>
            Carries(calls'[d], t) /\ CallPlace(calls'[d]) = "new",
         \A w \in Workers : hand'[w] = t /\ loop'[w] = "handling" =>
            hand[w] = t /\ loop[w] = "handling",
         Listed(pending', t) => Listed(pending, t),
         Done(t)' <=> Done(t), Abandoned(t)' <=> Abandoned(t)
  PROVE  Contract!Step(t)
<1>1. PlacesRight /\ PlacesRight' /\ InPlace(t)
  BY PlacesAre, PlacesNext DEF IInv, InOnePlace
<1>2. ASSUME NEW k \in PlaceNames, NEW x \in Holders, Has(t, k, x)' PROVE Has(t, k, x)
  BY <1>2 DEF Has
<1>3. \/ Place(t)' = Place(t)
      \/ Place(t) \in {"waiting", "held"} /\ Place(t)' = "lost"
  <2>1. CASE Nowhere(t)
    <3>1. Nowhere(t)' BY <1>2, <2>1 DEF Nowhere
    <3> QED BY <1>1, <2>1, <3>1 DEF PlacesRight
  <2>2. ASSUME NEW k \in PlaceNames, NEW x \in Holders, Has(t, k, x)
        PROVE  \/ Place(t)' = Place(t)
               \/ Place(t) \in {"waiting", "held"} /\ Place(t)' = "lost"
    <3>1. Has(t, k, x)' \/ Nowhere(t)'
      <4>1. \A l \in PlaceNames, y \in Holders : Has(t, l, y)' => l = k /\ y = x
        BY <1>1, <1>2, <2>2 DEF InPlace
      <4> QED BY <4>1 DEF Nowhere
    <3>2. Nowhere(t)' => Place(t)' = "lost" BY <1>1 DEF PlacesRight
    <3>3. CASE t \notin submitted BY <1>1, <3>3 DEF PlacesRight
    <3>4. CASE Done(t) BY <1>1, <3>4 DEF PlacesRight
    <3>5. CASE Abandoned(t) BY <1>1, <3>5 DEF PlacesRight
    <3>6. CASE k = "list" /\ Listed(pending, t)
      <4>1. Place(t) = "waiting" BY <1>1, <3>6 DEF PlacesRight
      <4>2. Listed(pending', t) => Place(t)' = "waiting" BY <1>1 DEF PlacesRight
      <4>3. Has(t, k, x)' => Listed(pending', t) BY <3>6 DEF Has
      <4> QED BY <3>1, <3>2, <4>1, <4>2, <4>3
    <3>7. CASE k = "hand" /\ x \in Workers /\ hand[x] = t /\ loop[x] = "handling"
      <4>1. Place(t) = "held" BY <1>1, <3>7 DEF PlacesRight
      <4>2. hand'[x] = t /\ loop'[x] = "handling" => Place(t)' = "held"
        BY <1>1, <3>7 DEF PlacesRight
      <4>3. Has(t, k, x)' => hand'[x] = t /\ loop'[x] = "handling" BY <3>7 DEF Has
      <4> QED BY <3>1, <3>2, <4>1, <4>2, <4>3
    <3>8. CASE k = "call" /\ x \in Calls /\ Carries(calls[x], t)
      <4>1. Place(t) = CallPlace(calls[x]) BY <1>1, <3>8 DEF PlacesRight
      <4>2. Carries(calls'[x], t) => Place(t)' = CallPlace(calls'[x])
        BY <1>1, <3>8 DEF PlacesRight
      <4>3. Has(t, k, x)' => Carries(calls'[x], t) BY <3>8 DEF Has
      <4>4. CallPlace(calls[x]) \in {"new", "waiting", "held", "lost"} BY DEF CallPlace
      <4>5. /\ Carries(calls'[x], t) => CallPlace(calls'[x]) \in {CallPlace(calls[x]), "lost"}
            /\ CallPlace(calls[x]) = "new" =>
                 Carries(calls'[x], t) /\ CallPlace(calls'[x]) = "new"
        BY <3>8
      <4> QED BY <3>1, <3>2, <4>1, <4>2, <4>3, <4>4, <4>5
    <3> QED BY <2>2, <3>3, <3>4, <3>5, <3>6, <3>7, <3>8 DEF Has
  <2> QED BY <2>1, <2>2 DEF Nowhere
<1> QED BY <1>3 DEF Contract!Step, Contract!Move, Contract!Same, Contract!Fails

----------------------------------------------------------------------------
(* Places.                                                                 *)

LEMMA Exchange ==
  ASSUME NEW t \in Tasks, InPlace(t), NEW k1, NEW x1,
         t \notin submitted' => t \notin submitted,
         \A d \in Calls :
            Carries(calls'[d], t) => Carries(calls[d], t) \/ (k1 = "call" /\ x1 = d),
         \A w \in Workers : hand'[w] = t /\ loop'[w] = "handling" =>
            (hand[w] = t /\ loop[w] = "handling") \/ (k1 = "hand" /\ x1 = w),
         Listed(pending', t) => Listed(pending, t) \/ (k1 = "list" /\ x1 = None),
         Done(t)' => Done(t) \/ (k1 = "done" /\ x1 = None),
         Abandoned(t)' => Abandoned(t) \/ (k1 = "abandoned" /\ x1 = None),
         \/ k1 = "none"
         \/ \E k0 \in PlaceNames, x0 \in Holders : Has(t, k0, x0) /\ ~Has(t, k0, x0)'
  PROVE  InPlace(t)'
<1>1. ASSUME NEW k \in PlaceNames, NEW x \in Holders, Has(t, k, x)'
      PROVE  Has(t, k, x) \/ (k = k1 /\ x = x1)
  BY <1>1 DEF Has
<1>2. CASE k1 = "none"
  <2>1. \A k \in PlaceNames, x \in Holders : Has(t, k, x)' => Has(t, k, x)
    BY <1>1, <1>2 DEF PlaceNames
  <2> QED BY <2>1 DEF InPlace
<1>3. CASE \E k0 \in PlaceNames, x0 \in Holders : Has(t, k0, x0) /\ ~Has(t, k0, x0)'
  <2>1. PICK k0 \in PlaceNames, x0 \in Holders : Has(t, k0, x0) /\ ~Has(t, k0, x0)'
    BY <1>3
  <2>2. ASSUME NEW k \in PlaceNames, NEW x \in Holders, Has(t, k, x)'
        PROVE  k = k1 /\ x = x1
    <3>1. CASE Has(t, k, x)
      <4>1. k = k0 /\ x = x0 BY <3>1, <2>1 DEF InPlace
      <4> QED BY <4>1, <2>1, <2>2
    <3> QED BY <3>1, <2>2, <1>1
  <2>3. \A k \in PlaceNames, x \in Holders : Has(t, k, x)' => k = k1 /\ x = x1 BY <2>2
  <2> QED BY <2>3 DEF InPlace
<1> QED BY <1>2, <1>3

LEMMA NothingGained ==
  ASSUME InOnePlace,
         \A t \in Tasks : t \notin submitted' => t \notin submitted,
         \A t \in Tasks, d \in Calls : Carries(calls'[d], t) => Carries(calls[d], t),
         \A t \in Tasks, w \in Workers :
            hand'[w] = t /\ loop'[w] = "handling" => hand[w] = t /\ loop[w] = "handling",
         \A t \in Tasks : Listed(pending', t) => Listed(pending, t),
         UNCHANGED ledgers
  PROVE  InOnePlace'
<1>1. \A t \in Tasks : (Done(t)' <=> Done(t)) /\ (Abandoned(t)' <=> Abandoned(t))
  BY DEF ledgers, Done, Abandoned
<1>2. ASSUME NEW t \in Tasks PROVE InPlace(t)'
  <2>1. InPlace(t) BY DEF InOnePlace
  <2> QED BY <2>1, <1>1, Exchange
<1> QED BY <1>2 DEF InOnePlace

LEMMA CarriesAlike ==
  ASSUME NEW r, NEW s, Alike(r, s), NEW t
  PROVE  Carries(r, t) <=> Carries(s, t)
BY DEF Alike, Carries

LEMMA WaitingSame ==
  ASSUME CallsOK, NEW c \in Calls, OneCall(c), calls'[c].from = calls[c].from
  PROVE  \A w : Waiting(w)' = Waiting(w)
<1>1. \A d \in Calls : calls'[d].from = calls[d].from BY OneCallOK DEF Alike
<1> QED BY <1>1 DEF Waiting

LEMMA WaitsKept ==
  ASSUME CallsOK, WaitsOnce, NEW c \in Calls, OneCall(c),
         calls'[c].from = calls[c].from, calls'[c].op = calls[c].op \/ calls[c].from = None,
         UNCHANGED workerVars
  PROVE  WaitsOnce'
<1>1. \A w : Waiting(w)' = Waiting(w) BY WaitingSame
<1>2. loop' = loop /\ hand' = hand BY DEF workerVars
<1>3. \A w \in Workers : \A d \in Waiting(w) : calls'[d].op = calls[d].op
  BY OneCallOK, SchedulerAssumption DEF Alike, Waiting
<1>4. ASSUME NEW w \in Workers
      PROVE  /\ \A d \in Waiting(w)' : Awaits(loop'[w], calls'[d].op)
             /\ \A d, e \in Waiting(w)' : d = e
             /\ loop'[w] = "handling" => hand'[w] \in Tasks
  BY <1>1, <1>2, <1>3 DEF WaitsOnce
<1> QED BY <1>4 DEF WaitsOnce

LEMMA SentKept ==
  ASSUME CallsOK, Sent, NEW c \in Calls, OneCall(c), UNCHANGED clientVars,
         calls'[c].op = "submit" => calls[c].op = "submit" /\ calls'[c].task = calls[c].task
  PROVE  Sent'
BY OneCallOK DEF Alike, Sent, clientVars

\* A statement that takes no task anywhere.
LEMMA Quiet ==
  ASSUME IInv, NEW c \in Calls, OneCall(c), calls'[c].from = calls[c].from,
         calls'[c].op = calls[c].op, calls[c].op # "submit",
         \A t \in Tasks : Carries(calls'[c], t) =>
            Carries(calls[c], t) /\ CallPlace(calls'[c]) = CallPlace(calls[c]),
         calls'[c].saved = <<>> \/ calls'[c].saved = calls[c].saved,
         registered' \subseteq Workers, fresh' \subseteq Workers,
         status' \in [Workers -> {"idle", "busy"}],
         current' \in [Workers -> Tasks \cup {None}],
         UNCHANGED <<queue, ledgers, workerVars, clientVars>>
  PROVE  IInv' /\ Contract!Next
<1> USE DEF IInv
<1>1. CallsOK' /\ \A d \in Calls \ {c} : Alike(calls'[d], calls[d]) BY OneCallOK
<1>2. WaitsOnce' BY WaitsKept
<1>3. \A t \in Tasks, d \in Calls : Carries(calls'[d], t) => Carries(calls[d], t)
  BY <1>1, CarriesAlike
<1>4. InOnePlace' BY <1>3, NothingGained DEF queue, workerVars, clientVars
<1>5. OnceInList'
  <2>1. \A d \in Calls : calls'[d].saved = <<>> \/ calls'[d].saved = calls[d].saved
    BY <1>1 DEF Alike
  <2>2. \A t \in Tasks, d \in Calls : Once(calls'[d].saved, t)
    BY <2>1, EmptyList DEF OnceInList
  <2>3. pending' = pending /\ completed' = completed BY DEF queue, ledgers
  <2> QED BY <2>2, <2>3 DEF OnceInList
<1>6. Types' BY DEF Types, queue, ledgers, workerVars, clientVars
<1>7. Sent' BY SentKept
<1>8. IInv' BY <1>1, <1>2, <1>4, <1>5, <1>6, <1>7
<1> HIDE DEF IInv
<1>9. ASSUME NEW t \in Tasks PROVE Contract!Step(t)
  <2>1. /\ failed' = failed /\ submitted' = submitted /\ hand' = hand /\ loop' = loop
        /\ pending' = pending /\ (Done(t)' <=> Done(t)) /\ (Abandoned(t)' <=> Abandoned(t))
    BY DEF queue, ledgers, workerVars, clientVars, Done, Abandoned
  <2>2. \A d \in Calls \ {c} : CallPlace(calls'[d]) = CallPlace(calls[d])
    BY <1>1 DEF Alike, CallPlace
  <2>3. \A d \in Calls : Carries(calls'[d], t) =>
           Carries(calls[d], t) /\ CallPlace(calls'[d]) = CallPlace(calls[d])
    BY <1>3, <2>2
  <2>4. CallPlace(calls[c]) = "new" => calls[c].op = "submit" BY DEF CallPlace
  <2>5. \A d \in Calls : Carries(calls[d], t) /\ CallPlace(calls[d]) = "new" =>
           Carries(calls'[d], t) /\ CallPlace(calls'[d]) = "new"
    BY <1>1, <2>2, <2>4, CarriesAlike
  <2> QED BY <1>8, <2>1, <2>3, <2>5, StaysInContract
<1> QED BY <1>8, <1>9 DEF Contract!Next

----------------------------------------------------------------------------
(* The statements that take no task anywhere.                              *)

TableTyped ==
    /\ registered \subseteq Workers /\ fresh \subseteq Workers
    /\ status \in [Workers -> {"idle", "busy"}]
    /\ current \in [Workers -> Tasks \cup {None}]

LEMMA Replacing ==
  ASSUME IInv, NEW c \in Calls, NEW new, OneCall(c), calls'[c] = new,
         new.from = calls[c].from, new.op = calls[c].op, calls[c].op # "submit",
         \A t \in Tasks : Carries(new, t) =>
            Carries(calls[c], t) /\ CallPlace(new) = CallPlace(calls[c]),
         new.saved = <<>>, TableTyped',
         UNCHANGED <<queue, ledgers, workerVars, clientVars>>
  PROVE  IInv' /\ Contract!Next
BY Quiet DEF TableTyped

LEMMA AnswerCarries ==
  ASSUME NEW call, CallOK(call), call.op # "free", NEW ok \in BOOLEAN, NEW t \in Tasks,
         Carries(Answered(call, ok), t)
  PROVE  Carries(call, t) /\ CallPlace(Answered(call, ok)) = CallPlace(call)
<1>1. ~Listed(Answered(call, ok).saved, t) BY AnsweredOK, EmptyList, SchedulerAssumption
<1> QED BY <1>1, AnsweredOK, SchedulerAssumption DEF Carries, CallPlace

LEMMA AnswerStep ==
  ASSUME IInv, NEW c \in Calls, calls[c].op \notin {"free", "submit"}, NEW ok \in BOOLEAN, Answer(c, ok),
         TableTyped', UNCHANGED <<queue, ledgers, workerVars, clientVars>>
  PROVE  IInv' /\ Contract!Next
<1>1. CallOK(calls[c]) BY DEF IInv, CallsOK
<1> DEFINE new == Answered(calls[c], ok)
<1>2. /\ CallOK(new) /\ new.from = calls[c].from /\ new.saved = <<>>
      /\ new.op = calls[c].op /\ new.task = calls[c].task
      /\ \A t \in Tasks : Carries(new, t) =>
            Carries(calls[c], t) /\ CallPlace(new) = CallPlace(calls[c])
  BY <1>1, AnsweredOK, AnswerCarries, SchedulerAssumption
<1>3. calls' = [calls EXCEPT ![c] = new] BY DEF Answer
<1> HIDE DEF new
<1>4. OneCall(c) /\ calls'[c] = new BY <1>2, <1>3, Replaced DEF IInv
<1> QED BY <1>2, <1>4, Replacing

LEMMA GotoStep ==
  ASSUME IInv, NEW c \in Calls, calls[c].op \in {"heartbeat", "poll", "complete"},
         NEW at \in Stages(calls[c].op), Goto(c, at),
         at \notin {"sent", "sorting", "requeue"},
         calls[c].at \notin {"sorting", "requeue", "answer"},
         TableTyped', UNCHANGED <<queue, ledgers, workerVars, clientVars>>
  PROVE  IInv' /\ Contract!Next
<1>1. CallOK(calls[c]) BY DEF IInv, CallsOK
<1> DEFINE new == [calls[c] EXCEPT !.at = at]
<1>2. /\ CallOK(new) /\ new.op = calls[c].op /\ new.at = at /\ new.from = calls[c].from
      /\ new.task = calls[c].task /\ new.saved = <<>>
  BY <1>1, MovedOK DEF Ops
<1>3. calls' = [calls EXCEPT ![c] = new] BY <1>1 DEF Goto
<1> HIDE DEF new
<1>4. OneCall(c) /\ calls'[c] = new BY <1>2, <1>3, Replaced DEF IInv
<1>5. \A t \in Tasks : Carries(new, t) =>
         Carries(calls[c], t) /\ CallPlace(new) = CallPlace(calls[c])
  BY <1>2, EmptyList DEF Carries, CallPlace
<1> QED BY <1>2, <1>4, <1>5, Replacing

LEMMA CallsTyped ==
  ASSUME IInv, NEW c \in Calls
  PROVE  /\ CallOK(calls[c]) /\ calls[c].op \in Ops
         /\ calls[c].at \in Stages(calls[c].op)
         /\ calls[c].op # "free" /\ calls[c].op # "submit" /\ calls[c].at # "answer" =>
              calls[c].by \in Workers
         /\ calls[c].next \in Nat \ {0} /\ calls[c].task \in Tasks \cup {None}
BY DEF IInv, CallsOK, CallOK, CallRecords

LEMMA TableStays == IInv /\ UNCHANGED table => TableTyped'
BY DEF IInv, Types, TableTyped, table

LEMMA StoreStep ==
  ASSUME IInv, NEW c \in Calls, Store(c), UNCHANGED <<workerVars, clientVars>>
  PROVE  IInv' /\ Contract!Next
<1> DEFINE w == calls[c].by  u == Unbound(w)[c]  new == Answered(u, TRUE)
<1>1. calls[c].op = "register" /\ calls[c].at = "sent" /\ w \in Workers /\ CallOK(calls[c])
  BY CallsTyped DEF Store, Arrives, At
<1>2. CallOK(u) /\ Alike(u, calls[c]) BY <1>1, UnboundOK DEF Unbound, Alike
<1> HIDE DEF u
<1>3. /\ CallOK(new) /\ new.from = calls[c].from /\ new.saved = <<>>
      /\ new.op = "register"
  BY <1>1, <1>2, AnsweredOK, SchedulerAssumption DEF Alike
<1>4. calls' = [Unbound(w) EXCEPT ![c] = new] BY DEF Store, u
<1> HIDE DEF new
<1>5. OneCall(c) /\ calls'[c] = new BY <1>3, <1>4, ReplacedUnbound DEF IInv
<1>6. \A t \in Tasks : ~Carries(new, t) BY <1>3, EmptyList DEF Carries
<1>7. TableTyped'
  <2>1. TableTyped BY DEF IInv, Types, TableTyped
  <2>2. /\ registered' = registered \cup {w} /\ fresh' = fresh \cup {w}
        /\ status' = [status EXCEPT ![w] = "idle"]
        /\ current' = [current EXCEPT ![w] = None]
    BY DEF Store
  <2> HIDE DEF w
  <2> QED BY <2>1, <2>2, <1>1 DEF TableTyped
<1>8. UNCHANGED <<queue, ledgers>> BY DEF Store
<1> QED BY <1>1, <1>3, <1>5, <1>6, <1>7, <1>8, Replacing

LEMMA KnownStep ==
  ASSUME IInv, NEW c \in Calls, Known(c), UNCHANGED <<workerVars, clientVars>>
  PROVE  IInv' /\ Contract!Next
<1>1. /\ calls[c].op \in {"heartbeat", "complete"} /\ calls[c].at = "sent"
      /\ UNCHANGED <<table, queue, ledgers>>
  BY DEF Known, Arrives, At
<1>2. TableTyped' BY <1>1, TableStays
<1>3. CASE Goto(c, "touch")
  <2>1. "touch" \in Stages(calls[c].op) BY <1>1 DEF Stages
  <2> QED BY <1>1, <1>2, <1>3, <2>1, CallsTyped, GotoStep
<1>4. CASE Goto(c, "record") /\ calls[c].op = "complete"
  <2>1. "record" \in Stages(calls[c].op) BY <1>4 DEF Stages
  <2> QED BY <1>1, <1>2, <1>4, <2>1, CallsTyped, GotoStep
<1>5. CASE Answer(c, TRUE) BY <1>1, <1>2, <1>5, AnswerStep
<1> QED BY <1>3, <1>4, <1>5 DEF Known, UnknownWorker

LEMMA TouchStep ==
  ASSUME IInv, NEW c \in Calls, TouchHeartbeat(c), UNCHANGED <<workerVars, clientVars>>
  PROVE  IInv' /\ Contract!Next
<1> DEFINE w == calls[c].by
<1>1. calls[c].op = "heartbeat" /\ calls[c].at = "touch" /\ w \in Workers
  BY CallsTyped DEF TouchHeartbeat, At
<1>2. /\ \E ok \in BOOLEAN : Answer(c, ok)
      /\ UNCHANGED <<registered, current, queue, ledgers>>
      /\ \/ fresh' = fresh \cup {w} /\ status' = [status EXCEPT ![w] = "idle"]
         \/ UNCHANGED <<fresh, status>>
  BY DEF TouchHeartbeat
<1>3. TableTyped'
  <2>1. TableTyped BY DEF IInv, Types, TableTyped
  <2> HIDE DEF w
  <2> QED BY <2>1, <1>1, <1>2 DEF TableTyped
<1> QED BY <1>1, <1>2, <1>3, AnswerStep

LEMMA PrunedOK ==
  ASSUME NEW call, CallOK(call), call.op = "poll", call.at # "answer",
         NEW S \in SUBSET Workers
  PROVE  LET new == Pruned([call EXCEPT !.stale = S]) IN
         /\ CallOK(new) /\ new.op = "poll" /\ new.from = call.from
         /\ new.task = call.task /\ new.saved = <<>>
<1> DEFINE one == [call EXCEPT !.stale = S]
           at == IF S # {} THEN "delete" ELSE "find"
           new == [one EXCEPT !.at = at]
<1>0. call \in CallRecords /\ call.saved = <<>> /\ call.by \in Workers
  BY DEF CallOK, Stages
<1>1. one \in CallRecords /\ one.stale = S /\ one.op = "poll" /\ one.from = call.from
      /\ one.task = call.task /\ one.saved = <<>> /\ one.by \in Workers
  BY <1>0 DEF CallRecords
<1>2. at \in AllStages /\ at \in Stages("poll") /\ at # "sorting" /\ at # "answer"
  BY DEF AllStages, Stages
<1>3. Pruned(one) = new BY <1>1 DEF Pruned
<1> HIDE DEF one, at
<1>4. new \in CallRecords BY <1>1, <1>2, StageNames DEF CallRecords
<1>5. new.at = at /\ new.op = "poll" /\ new.from = call.from /\ new.task = call.task
      /\ new.saved = <<>> /\ new.by \in Workers
  BY <1>1 DEF CallRecords
<1> HIDE DEF new
<1>6. CallOK(new) BY <1>2, <1>4, <1>5 DEF CallOK
<1> QED BY <1>3, <1>5, <1>6 DEF one

LEMMA PollStep ==
  ASSUME IInv, NEW c \in Calls, calls[c].op = "poll", NEW new, CallOK(new),
         new.op = "poll", new.from = calls[c].from, new.task = calls[c].task,
         new.saved = <<>>,
         OneCall(c), calls'[c] = new, TableTyped',
         UNCHANGED <<queue, ledgers, workerVars, clientVars>>
  PROVE  IInv' /\ Contract!Next
<1>1. \A t \in Tasks : Carries(new, t) =>
         Carries(calls[c], t) /\ CallPlace(new) = CallPlace(calls[c])
  BY EmptyList DEF Carries, CallPlace
<1> QED BY <1>1, Replacing

LEMMA SnapshotStep ==
  ASSUME IInv, NEW c \in Calls, Snapshot(c), UNCHANGED <<workerVars, clientVars>>
  PROVE  IInv' /\ Contract!Next
<1> DEFINE new == Pruned([calls[c] EXCEPT !.stale = registered \ fresh])
<1>1. /\ calls[c].op = "poll" /\ calls[c].at = "sent" /\ CallOK(calls[c])
      /\ UNCHANGED <<table, queue, ledgers>> /\ calls' = [calls EXCEPT ![c] = new]
  BY CallsTyped DEF Snapshot, Arrives, At
<1>2. registered \ fresh \in SUBSET Workers BY DEF IInv, Types
<1>3. /\ CallOK(new) /\ new.op = "poll" /\ new.from = calls[c].from
      /\ new.task = calls[c].task /\ new.saved = <<>>
  BY <1>1, <1>2, PrunedOK
<1> HIDE DEF new
<1>4. OneCall(c) /\ calls'[c] = new BY <1>1, <1>3, Replaced DEF IInv
<1> QED BY <1>1, <1>3, <1>4, TableStays, PollStep

LEMMA DeleteStep ==
  ASSUME IInv, NEW c \in Calls, Delete(c), UNCHANGED <<workerVars, clientVars>>
  PROVE  IInv' /\ Contract!Next
<1>1. /\ calls[c].op = "poll" /\ calls[c].at = "delete" /\ CallOK(calls[c])
      /\ UNCHANGED <<queue, ledgers>>
  BY CallsTyped, OpOfStage DEF Delete
<1>2. PICK w \in calls[c].stale :
          IF w \in registered
          THEN /\ registered' = registered \ {w} /\ fresh' = fresh \ {w}
               /\ status' = [status EXCEPT ![w] = "idle"]
               /\ current' = [current EXCEPT ![w] = None]
               /\ calls' = [Unbound(w) EXCEPT
                              ![c] = Pruned([@ EXCEPT !.stale = calls[c].stale \ {w}])]
          ELSE Answer(c, FALSE) /\ UNCHANGED table
  BY DEF Delete
<1>3. w \in Workers /\ calls[c].stale \in SUBSET Workers BY <1>1 DEF CallOK, CallRecords
<1>4. CASE w \in registered
  <2> DEFINE u == Unbound(w)[c]
             S == calls[c].stale \ {w}
             new == Pruned([u EXCEPT !.stale = S])
  <2>1. CallOK(u) /\ Alike(u, calls[c]) /\ u.stale = calls[c].stale
    BY <1>1, UnboundOK DEF Unbound, Alike, CallOK, CallRecords
  <2>2. calls' = [Unbound(w) EXCEPT ![c] = new] BY <1>2, <1>4
  <2> HIDE DEF u, S
  <2>3. /\ CallOK(new) /\ new.op = "poll" /\ new.from = calls[c].from
        /\ new.task = calls[c].task /\ new.saved = <<>>
    <3>1. S \in SUBSET Workers BY <1>3 DEF S
    <3> QED BY <3>1, <1>1, <2>1, PrunedOK DEF Alike
  <2> HIDE DEF new
  <2>4. OneCall(c) /\ calls'[c] = new BY <2>2, <2>3, ReplacedUnbound DEF IInv
  <2>5. TableTyped'
    <3>1. TableTyped BY DEF IInv, Types, TableTyped
    <3> QED BY <3>1, <1>2, <1>3, <1>4 DEF TableTyped
  <2> QED BY <1>1, <2>3, <2>4, <2>5, PollStep
<1>5. CASE w \notin registered BY <1>1, <1>2, <1>5, TableStays, AnswerStep
<1> QED BY <1>4, <1>5

LEMMA FindStep ==
  ASSUME IInv, NEW c \in Calls, Find(c), UNCHANGED <<workerVars, clientVars>>
  PROVE  IInv' /\ Contract!Next
<1>1. /\ calls[c].op = "poll" /\ calls[c].at = "find" /\ CallOK(calls[c])
      /\ UNCHANGED <<table, queue, ledgers>>
  BY CallsTyped, OpOfStage DEF Find
<1>2. CASE calls' = [calls EXCEPT ![c].at = "scan", ![c].bound = TRUE]
  <2> DEFINE one == [calls[c] EXCEPT !.at = "scan"]  new == [one EXCEPT !.bound = TRUE]
  <2>0. "scan" \in Stages("poll") BY DEF Stages
  <2>1. /\ CallOK(one) /\ one.op = "poll" /\ one.from = calls[c].from
        /\ one.task = calls[c].task /\ one.saved = <<>> /\ one.at = "scan"
    BY <1>1, <2>0, MovedOK DEF Ops
  <2>2. calls' = [calls EXCEPT ![c] = new] BY <1>2
  <2> HIDE DEF one
  <2>3. /\ CallOK(new) /\ new.op = "poll" /\ new.from = calls[c].from
        /\ new.task = calls[c].task /\ new.saved = <<>>
    BY <2>1 DEF CallOK, CallRecords
  <2> HIDE DEF new
  <2>4. OneCall(c) /\ calls'[c] = new BY <2>2, <2>3, Replaced DEF IInv
  <2> QED BY <1>1, <2>3, <2>4, TableStays, PollStep
<1>3. CASE Answer(c, TRUE) BY <1>1, <1>3, TableStays, AnswerStep
<1> QED BY <1>2, <1>3 DEF Find

LEMMA ScanStep ==
  ASSUME IInv, NEW c \in Calls, Scan(c), UNCHANGED <<workerVars, clientVars>>
  PROVE  IInv' /\ Contract!Next
<1>1. /\ calls[c].op = "poll" /\ calls[c].at = "scan" /\ CallOK(calls[c])
      /\ UNCHANGED <<table, queue, ledgers>>
  BY CallsTyped, OpOfStage DEF Scan
<1>2. CASE Answer(c, TRUE) BY <1>1, <1>2, TableStays, AnswerStep
<1>3. CASE Goto(c, "pop")
  <2>1. "pop" \in Stages(calls[c].op) BY <1>1 DEF Stages
  <2> QED BY <1>1, <1>3, <2>1, CallsTyped, TableStays, GotoStep
<1>4. CASE calls' = [calls EXCEPT ![c].next = calls[c].next + 1]
  <2> DEFINE n == calls[c].next + 1  new == [calls[c] EXCEPT !.next = n]
  <2>1. n \in Nat \ {0} /\ calls' = [calls EXCEPT ![c] = new] BY <1>4, CallsTyped
  <2> HIDE DEF n
  <2>2. /\ CallOK(new) /\ new.op = "poll" /\ new.from = calls[c].from
        /\ new.task = calls[c].task /\ new.saved = <<>>
    BY <1>1, <2>1 DEF CallOK, CallRecords
  <2> HIDE DEF new
  <2>3. OneCall(c) /\ calls'[c] = new BY <2>1, <2>2, Replaced DEF IInv
  <2> QED BY <1>1, <2>2, <2>3, TableStays, PollStep
<1> QED BY <1>2, <1>3, <1>4 DEF Scan

LEMMA AssignStep ==
  ASSUME IInv, NEW c \in Calls, Assign(c), UNCHANGED <<workerVars, clientVars>>
  PROVE  IInv' /\ Contract!Next
<1>1. /\ calls[c].op = "poll" /\ calls[c].at = "assign" /\ Answer(c, TRUE)
      /\ UNCHANGED <<registered, fresh, queue, ledgers>>
  BY CallsTyped, OpOfStage DEF Assign
<1>2. TableTyped'
  <2>1. TableTyped BY DEF IInv, Types, TableTyped
  <2>2. calls[c].by \in Workers /\ calls[c].task \in Tasks \cup {None}
    BY <1>1, CallsTyped
  <2> QED BY <1>1, <2>1, <2>2 DEF TableTyped, Assign
<1> QED BY <1>1, <1>2, AnswerStep

LEMMA ReleaseStep ==
  ASSUME IInv, NEW c \in Calls, Release(c), UNCHANGED <<workerVars, clientVars>>
  PROVE  IInv' /\ Contract!Next
<1>1. /\ calls[c].op = "complete" /\ calls[c].at = "touch" /\ calls[c].by \in Workers
      /\ UNCHANGED <<registered, fresh, queue, ledgers>>
  BY CallsTyped DEF Release, At
<1>2. TableTyped'
  <2>1. TableTyped BY DEF IInv, Types, TableTyped
  <2> QED BY <1>1, <2>1 DEF TableTyped, Release, Released
<1>3. CASE Goto(c, "record")
  <2>1. "record" \in Stages(calls[c].op) BY <1>1 DEF Stages
  <2> QED BY <1>1, <1>2, <1>3, <2>1, CallsTyped, GotoStep
<1>4. CASE Answer(c, FALSE) BY <1>1, <1>2, <1>4, AnswerStep
<1> QED BY <1>3, <1>4 DEF Release

----------------------------------------------------------------------------
(* The statements that take a task from one place to another.              *)

LEMMA ServeStep ==
  ASSUME IInv, NEW c \in Calls, OneCall(c), calls'[c].from = calls[c].from,
         calls'[c].op = calls[c].op, calls[c].op = "submit" => calls'[c].task = calls[c].task,
         Types', InOnePlace', OnceInList', UNCHANGED <<workerVars, clientVars>>
  PROVE  IInv'
BY OneCallOK, WaitsKept, SentKept DEF IInv

LEMMA OnlyCall ==
  ASSUME IInv, NEW c \in Calls, OneCall(c)
  PROVE  \A t \in Tasks, d \in Calls : Carries(calls'[d], t) =>
            Carries(calls[d], t) \/ (d = c /\ Carries(calls'[c], t))
BY OneCallOK, CarriesAlike DEF IInv

\* The contract's step of a task that no request takes anywhere.
LEMMA OthersStay ==
  ASSUME IInv, IInv', NEW c \in Calls, OneCall(c), NEW t \in Tasks, failed'[t] = failed[t],
         submitted' = submitted, hand' = hand, loop' = loop,
         Carries(calls'[c], t) =>
            Carries(calls[c], t) /\ CallPlace(calls'[c]) \in {CallPlace(calls[c]), "lost"},
         Carries(calls[c], t) => CallPlace(calls[c]) # "new",
         Listed(pending', t) => Listed(pending, t),
         Done(t)' <=> Done(t), Abandoned(t)' <=> Abandoned(t)
  PROVE  Contract!Step(t)
<1>1. \A d \in Calls \ {c} : Alike(calls'[d], calls[d]) BY OneCallOK DEF IInv
<1>2. \A d \in Calls \ {c} : /\ CallPlace(calls'[d]) = CallPlace(calls[d])
                             /\ Carries(calls'[d], t) <=> Carries(calls[d], t)
  BY <1>1, CarriesAlike DEF Alike, CallPlace
<1>3. \A d \in Calls : Carries(calls'[d], t) =>
         Carries(calls[d], t) /\ CallPlace(calls'[d]) \in {CallPlace(calls[d]), "lost"}
  BY <1>2
<1>4. \A d \in Calls : Carries(calls[d], t) /\ CallPlace(calls[d]) = "new" =>
         Carries(calls'[d], t) /\ CallPlace(calls'[d]) = "new"
  BY <1>2
<1> QED BY <1>3, <1>4, StaysInContract

LEMMA OnceKept ==
  ASSUME IInv, NEW c \in Calls, OneCall(c), calls'[c].saved = <<>>,
         \A t \in Tasks : Once(pending', t), UNCHANGED completed
  PROVE  OnceInList'
<1>1. \A d \in Calls : calls'[d].saved = <<>> \/ calls'[d].saved = calls[d].saved
  BY OneCallOK DEF Alike, IInv
<1>2. \A t \in Tasks, d \in Calls : Once(calls'[d].saved, t)
  BY <1>1, EmptyList DEF OnceInList, IInv
<1>3. completed' = completed OBVIOUS
<1> QED BY <1>2, <1>3 DEF OnceInList, IInv

LEMMA InList ==
  ASSUME IInv, NEW i \in 1..Len(pending)
  PROVE  pending[i] \in Entries /\ pending[i].task \in Tasks
<1>1. pending \in Seq(Entries) BY DEF IInv, Types
<1>2. pending[i] \in Entries BY <1>1
<1> QED BY <1>2 DEF Entries

LEMMA PoppedOK ==
  ASSUME NEW call, CallOK(call), call.op = "poll", call.at = "pop", NEW t \in Tasks
  PROVE  LET new == [call EXCEPT !.task = t, !.at = "assign", !.next = 1] IN
         /\ CallOK(new) /\ new.op = "poll" /\ new.from = call.from
         /\ new.task = t /\ new.saved = <<>>
<1> DEFINE one == [call EXCEPT !.task = t]  two == [one EXCEPT !.at = "assign"]
           new == [two EXCEPT !.next = 1]
<1>0. "assign" \in AllStages /\ "assign" \in Stages("poll") BY DEF AllStages, Stages
<1>1. one \in CallRecords /\ one.op = "poll" /\ one.from = call.from /\ one.task = t
      /\ one.saved = <<>> /\ one.by \in Workers
  BY DEF CallOK, CallRecords, Stages
<1> HIDE DEF one
<1>2. two \in CallRecords /\ two.op = "poll" /\ two.from = call.from /\ two.task = t
      /\ two.saved = <<>> /\ two.by \in Workers /\ two.at = "assign"
  BY <1>0, <1>1, StageNames DEF CallRecords
<1> HIDE DEF two
<1>3. new \in CallRecords /\ new.op = "poll" /\ new.from = call.from /\ new.task = t
      /\ new.saved = <<>> /\ new.by \in Workers /\ new.at = "assign"
  BY <1>2 DEF CallRecords
<1>4. new = [call EXCEPT !.task = t, !.at = "assign", !.next = 1] BY DEF one, two
<1> HIDE DEF new
<1>5. CallOK(new) BY <1>0, <1>3 DEF CallOK
<1> QED BY <1>3, <1>4, <1>5

LEMMA PopStep ==
  ASSUME IInv, NEW c \in Calls, Pop(c), UNCHANGED <<workerVars, clientVars>>
  PROVE  IInv' /\ Contract!Next
<1> DEFINE i == calls[c].next
<1>1. /\ calls[c].op = "poll" /\ calls[c].at = "pop" /\ CallOK(calls[c]) /\ i \in Nat \ {0}
      /\ UNCHANGED <<table, detached, ledgers>>
  BY CallsTyped, OpOfStage DEF Pop
<1>2. CASE i > Len(pending)
  <2>1. Answer(c, FALSE) /\ UNCHANGED queue BY <1>1, <1>2 DEF Pop, queue
  <2> QED BY <1>1, <2>1, TableStays, AnswerStep
<1>3. CASE ~(i > Len(pending))
  <2> DEFINE e == pending[i]
             new == [calls[c] EXCEPT !.task = e.task, !.at = "assign", !.next = 1]
  <2>0. pending \in Seq(Entries) /\ Len(pending) \in Nat BY DEF IInv, Types
  <2>1. i \in 1..Len(pending) BY <1>1, <1>3, <2>0
  <2>2. /\ pending' = RemoveAt(pending, i)
        /\ calls' = [calls EXCEPT ![c] = new]
    BY <1>3 DEF Pop, Without
  <2> HIDE DEF i
  <2>3. e.task \in Tasks BY <2>1, InList
  <2> HIDE DEF e
  <2>4. /\ CallOK(new) /\ new.op = "poll" /\ new.from = calls[c].from
        /\ new.task = e.task /\ new.saved = <<>>
    BY <1>1, <2>3, PoppedOK
  <2> HIDE DEF new
  <2>5. OneCall(c) /\ calls'[c] = new BY <2>2, <2>4, Replaced DEF IInv
  <2>6. /\ pending' \in Seq(Entries)
        /\ \A t : Listed(pending', t) => Listed(pending, t)
        /\ \A t : Once(pending, t) => Once(pending', t)
        /\ \A t : Once(pending, t) /\ e.task = t => ~Listed(pending', t)
    BY <2>0, <2>1, <2>2, RemoveFromList DEF e
  <2>7. \A t \in Tasks : Once(pending', t) BY <2>6 DEF IInv, OnceInList
  <2>8. OnceInList' BY <1>1, <2>4, <2>5, <2>7, OnceKept DEF ledgers
  <2>9. \A t \in Tasks : Carries(new, t) => t = e.task BY <2>4, EmptyList DEF Carries
  <2>10. ASSUME NEW t \in Tasks PROVE InPlace(t)'
    <3>1. InPlace(t) /\ Once(pending, t) BY DEF IInv, InOnePlace, OnceInList
    <3>2. /\ submitted' = submitted /\ hand' = hand /\ loop' = loop
          /\ (Done(t)' <=> Done(t)) /\ (Abandoned(t)' <=> Abandoned(t))
      BY <1>1 DEF workerVars, clientVars, ledgers, Done, Abandoned
    <3>3. CASE t = e.task
      <4>1. Has(t, "list", None) /\ ~Has(t, "list", None)'
        BY <3>1, <3>3, <2>1, <2>6 DEF Has, Listed, e
      <4>2. "list" \in PlaceNames /\ None \in Holders BY DEF PlaceNames, Holders
      <4>3. \A d \in Calls : Carries(calls'[d], t) => Carries(calls[d], t) \/ d = c
        BY <2>5, OnlyCall
      <4> QED BY <3>1, <3>2, <2>6, <4>1, <4>2, <4>3, Exchange
    <3>4. CASE t # e.task
      <4>1. \A d \in Calls : Carries(calls'[d], t) => Carries(calls[d], t)
        BY <2>5, <2>9, <3>4, OnlyCall
      <4> QED BY <3>1, <3>2, <2>6, <4>1, Exchange
    <3> QED BY <3>3, <3>4
  <2>11. InOnePlace' BY <2>10 DEF InOnePlace
  <2>12. Types' BY <1>1, <2>6 DEF IInv, Types, table, ledgers, workerVars, clientVars
  <2>13. IInv' BY <1>1, <2>4, <2>5, <2>8, <2>11, <2>12, ServeStep
  <2>14. ASSUME NEW t \in Tasks PROVE Contract!Step(t)
    <3>1. /\ submitted' = submitted /\ hand' = hand /\ loop' = loop /\ failed' = failed
          /\ (Done(t)' <=> Done(t)) /\ (Abandoned(t)' <=> Abandoned(t))
      BY <1>1 DEF workerVars, clientVars, ledgers, Done, Abandoned
    <3>2. CASE t = e.task
      <4>1. Place(t) = "waiting" BY <2>1, <3>2, PlacesAre DEF PlacesRight, Listed, e
      <4>2. Carries(new, t) /\ CallPlace(new) \in {"held", "lost"}
        BY <2>4, <3>2 DEF Carries, CallPlace
      <4>3. Place(t)' = CallPlace(new) BY <2>5, <2>13, <4>2, PlacesNext DEF PlacesRight
      <4> QED BY <3>1, <4>1, <4>2, <4>3 DEF Contract!Step, Contract!Move, Contract!Same
    <3>3. CASE t # e.task
      <4>1. CallPlace(calls[c]) # "new" /\ ~Carries(new, t)
        BY <1>1, <2>9, <3>3 DEF CallPlace
      <4> QED BY <2>5, <2>6, <2>13, <3>1, <4>1, OthersStay
    <3> QED BY <3>2, <3>3
  <2> QED BY <2>13, <2>14 DEF Contract!Next
<1> QED BY <1>2, <1>3

LEMMA EntryStep ==
  ASSUME IInv, NEW c \in Calls, NEW e \in Entries, Carries(calls[c], e.task), NEW new,
         OneCall(c), calls'[c] = new, new.from = calls[c].from, new.saved = <<>>,
         new.op = calls[c].op, calls[c].op = "submit" => new.task = calls[c].task,
         \A t \in Tasks : ~Carries(new, t), AddEntry(e),
         \A t \in Tasks : Carries(calls[c], t) => t = e.task,
         CallPlace(calls[c]) \in {"new", "waiting"},
         UNCHANGED <<table, ledgers, workerVars, clientVars>>
  PROVE  IInv' /\ Contract!Next
<1>0. /\ e.task \in Tasks /\ pending \in Seq(Entries)
      /\ pending' = Append(pending, e) /\ detached' = FALSE
  BY DEF Entries, IInv, Types, AddEntry
<1>1. Has(e.task, "call", c) /\ ~Has(e.task, "call", c)' BY <1>0 DEF Has
<1>2. "call" \in PlaceNames /\ c \in Holders /\ "list" \in PlaceNames /\ None \in Holders
  BY DEF PlaceNames, Holders
<1>3. ~Listed(pending, e.task)
  <2>1. Listed(pending, e.task) => Has(e.task, "list", None) BY DEF Has
  <2>2. InPlace(e.task) BY <1>0 DEF IInv, InOnePlace
  <2> QED BY <1>1, <1>2, <2>1, <2>2 DEF InPlace
<1>4. /\ pending' \in Seq(Entries)
      /\ \A t : Listed(pending', t) <=> Listed(pending, t) \/ e.task = t
      /\ \A t : Once(pending, t) => Once(pending', t)
  BY <1>0, <1>3, AppendList
<1>5. \A t \in Tasks : Once(pending', t) BY <1>4 DEF IInv, OnceInList
<1>6. OnceInList' BY <1>5, OnceKept DEF ledgers
<1>7. ASSUME NEW t \in Tasks PROVE InPlace(t)'
  <2>1. InPlace(t) BY DEF IInv, InOnePlace
  <2>2. /\ submitted' = submitted /\ hand' = hand /\ loop' = loop
        /\ (Done(t)' <=> Done(t)) /\ (Abandoned(t)' <=> Abandoned(t))
    BY DEF workerVars, clientVars, ledgers, Done, Abandoned
  <2>3. \A d \in Calls : Carries(calls'[d], t) => Carries(calls[d], t) BY OnlyCall
  <2>4. CASE t = e.task BY <1>1, <1>2, <1>4, <2>1, <2>2, <2>3, <2>4, Exchange
  <2>5. CASE t # e.task BY <1>4, <2>1, <2>2, <2>3, <2>5, Exchange
  <2> QED BY <2>4, <2>5
<1>8. InOnePlace' BY <1>7 DEF InOnePlace
<1>9. Types' BY <1>0, <1>4 DEF IInv, Types, table, ledgers, workerVars, clientVars
<1>10. IInv' BY <1>6, <1>8, <1>9, ServeStep
<1>11. ASSUME NEW t \in Tasks PROVE Contract!Step(t)
  <2>1. /\ submitted' = submitted /\ hand' = hand /\ loop' = loop /\ failed' = failed
        /\ (Done(t)' <=> Done(t)) /\ (Abandoned(t)' <=> Abandoned(t))
    BY DEF workerVars, clientVars, ledgers, Done, Abandoned
  <2>2. CASE t = e.task
    <3>1. Place(t) = CallPlace(calls[c]) BY <2>2, PlacesAre DEF PlacesRight
    <3>2. Place(t)' = "waiting" BY <1>4, <1>10, <2>2, PlacesNext DEF PlacesRight
    <3> QED BY <2>1, <3>1, <3>2 DEF Contract!Step, Contract!Move, Contract!Same
  <2>3. CASE t # e.task BY <1>4, <1>10, <2>1, <2>3, OthersStay
  <2> QED BY <2>2, <2>3
<1> QED BY <1>10, <1>11 DEF Contract!Next

LEMMA EntryTyped ==
  ASSUME NEW t \in Tasks
  PROVE  /\ Entry(t) \in Entries /\ Entry(t).task = t
         /\ Requeued(t) \in Entries /\ Requeued(t).task = t
BY SchedulerAssumption DEF Entry, Requeued, Entries

LEMMA AppendStep ==
  ASSUME IInv, NEW c \in Calls, AppendTask(c), UNCHANGED <<workerVars, clientVars>>
  PROVE  IInv' /\ Contract!Next
<1> DEFINE t == calls[c].task  new == [calls[c] EXCEPT !.at = "sort"]
<1>1. /\ calls[c].op = "submit" /\ calls[c].at = "sent" /\ CallOK(calls[c]) /\ t \in Tasks
      /\ AddEntry(Entry(t)) /\ UNCHANGED <<table, ledgers>>
  BY CallsTyped DEF AppendTask, Arrives, At, CallOK
<1>2. /\ CallOK(new) /\ new.op = "submit" /\ new.from = calls[c].from
      /\ new.at = "sort" /\ new.saved = <<>> /\ new.task = t
  <2>1. "sort" \in Stages("submit") BY DEF Stages
  <2> QED BY <1>1, <2>1, MovedOK DEF Ops
<1>3. calls' = [calls EXCEPT ![c] = new] BY <1>1 DEF AppendTask, Goto
<1> HIDE DEF new
<1>4. OneCall(c) /\ calls'[c] = new BY <1>2, <1>3, Replaced DEF IInv
<1>5. Entry(t) \in Entries /\ Entry(t).task = t BY <1>1, EntryTyped
<1>6. /\ Carries(calls[c], t) /\ \A u \in Tasks : ~Carries(new, u)
      /\ \A u \in Tasks : Carries(calls[c], u) => u = t
      /\ CallPlace(calls[c]) = "new"
  BY <1>1, <1>2, EmptyList DEF Carries, CallPlace, CallOK
<1> QED BY <1>1, <1>2, <1>4, <1>5, <1>6, EntryStep

LEMMA RequeueStep ==
  ASSUME IInv, NEW c \in Calls, Requeue(c), UNCHANGED <<workerVars, clientVars>>
  PROVE  IInv' /\ Contract!Next
<1> DEFINE t == calls[c].task  new == Answered(calls[c], TRUE)
<1>1. /\ calls[c].op = "complete" /\ calls[c].at = "requeue" /\ CallOK(calls[c]) /\ t \in Tasks
      /\ AddEntry(Requeued(t)) /\ UNCHANGED <<table, ledgers>>
  BY CallsTyped, OpOfStage DEF Requeue, CallOK
<1>2. /\ CallOK(new) /\ new.op = "complete" /\ new.from = calls[c].from
      /\ new.at = "answer" /\ new.saved = <<>>
  BY <1>1, AnsweredOK, SchedulerAssumption
<1>3. calls' = [calls EXCEPT ![c] = new] BY <1>1 DEF Requeue, Answer
<1> HIDE DEF new
<1>4. OneCall(c) /\ calls'[c] = new BY <1>2, <1>3, Replaced DEF IInv
<1>5. Requeued(t) \in Entries /\ Requeued(t).task = t BY <1>1, EntryTyped
<1>6. /\ Carries(calls[c], t) /\ \A u \in Tasks : ~Carries(new, u)
      /\ \A u \in Tasks : Carries(calls[c], u) => u = t
      /\ CallPlace(calls[c]) = "waiting"
  BY <1>1, <1>2, EmptyList DEF Carries, CallPlace, CallOK
<1> QED BY <1>1, <1>2, <1>4, <1>5, <1>6, EntryStep

LEMMA BeginSortStep ==
  ASSUME IInv, NEW c \in Calls, BeginSort(c), UNCHANGED <<workerVars, clientVars>>
  PROVE  IInv' /\ Contract!Next
<1> DEFINE new == [calls[c] EXCEPT !.saved = pending, !.mark = detached, !.at = "sorting"]
<1>1. /\ calls[c].op = "submit" /\ calls[c].at = "sort" /\ CallOK(calls[c])
      /\ UNCHANGED <<table, ledgers>> /\ pending' = <<>> /\ detached' = TRUE
  BY CallsTyped, OpOfStage DEF BeginSort
<1>2. pending \in Seq(Entries) /\ detached \in BOOLEAN BY DEF IInv, Types
<1>3. /\ CallOK(new) /\ new.op = "submit" /\ new.from = calls[c].from
      /\ new.at = "sorting" /\ new.saved = pending /\ new.task = calls[c].task
  <2> DEFINE one == [calls[c] EXCEPT !.saved = pending]
             two == [one EXCEPT !.mark = detached]
  <2>0. /\ "sorting" \in AllStages /\ "sorting" \in Stages("submit")
        /\ calls[c].task \in Tasks /\ calls[c].from = None /\ calls[c] \in CallRecords
    BY <1>1 DEF AllStages, Stages, CallOK
  <2>1. /\ one \in CallRecords /\ one.op = "submit" /\ one.from = calls[c].from
        /\ one.task = calls[c].task /\ one.saved = pending
    BY <1>1, <1>2, <2>0 DEF CallRecords
  <2>2. new = [two EXCEPT !.at = "sorting"] OBVIOUS
  <2> HIDE DEF one, new
  <2>3. /\ two \in CallRecords /\ two.op = "submit" /\ two.from = calls[c].from
        /\ two.task = calls[c].task /\ two.saved = pending
    BY <1>2, <2>1 DEF CallRecords
  <2> HIDE DEF two
  <2>4. /\ new \in CallRecords /\ new.op = "submit" /\ new.from = calls[c].from
        /\ new.task = calls[c].task /\ new.saved = pending /\ new.at = "sorting"
    BY <2>0, <2>2, <2>3, StageNames DEF CallRecords
  <2> QED BY <2>0, <2>4 DEF CallOK
<1>4. calls' = [calls EXCEPT ![c] = new] BY <1>1 DEF BeginSort
<1> HIDE DEF new
<1>5. OneCall(c) /\ calls'[c] = new BY <1>3, <1>4, Replaced DEF IInv
<1>6. OnceInList'
  <2>1. \A d \in Calls : calls'[d].saved = pending \/ calls'[d].saved = calls[d].saved
    BY <1>3, <1>5, OneCallOK DEF Alike, IInv
  <2>2. \A t \in Tasks, d \in Calls : Once(calls'[d].saved, t)
    BY <2>1 DEF OnceInList, IInv
  <2>3. completed' = completed /\ \A t : Once(pending', t)
    BY <1>1, EmptyList DEF ledgers
  <2> QED BY <2>2, <2>3 DEF OnceInList, IInv
<1>7. \A t \in Tasks : Carries(new, t) <=> Listed(pending, t) BY <1>3 DEF Carries
<1>8. ASSUME NEW t \in Tasks PROVE InPlace(t)'
  <2>1. InPlace(t) BY DEF IInv, InOnePlace
  <2>2. /\ submitted' = submitted /\ hand' = hand /\ loop' = loop
        /\ (Done(t)' <=> Done(t)) /\ (Abandoned(t)' <=> Abandoned(t))
        /\ ~Listed(pending', t)
    BY <1>1, EmptyList DEF workerVars, clientVars, ledgers, Done, Abandoned
  <2>3. \A d \in Calls : Carries(calls'[d], t) =>
            Carries(calls[d], t) \/ (d = c /\ Listed(pending, t))
    BY <1>5, <1>7, OnlyCall
  <2>4. CASE Listed(pending, t)
    <3>1. Has(t, "list", None) /\ ~Has(t, "list", None)' BY <2>2, <2>4 DEF Has
    <3>2. "list" \in PlaceNames /\ None \in Holders BY DEF PlaceNames, Holders
    <3> QED BY <2>1, <2>2, <2>3, <3>1, <3>2, Exchange
  <2>5. CASE ~Listed(pending, t) BY <2>1, <2>2, <2>3, <2>5, Exchange
  <2> QED BY <2>4, <2>5
<1>9. InOnePlace' BY <1>8 DEF InOnePlace
<1>10. Types' BY <1>1, EmptyList DEF IInv, Types, table, ledgers, workerVars, clientVars
<1>11. IInv' BY <1>1, <1>3, <1>5, <1>6, <1>9, <1>10, ServeStep
<1>12. ASSUME NEW t \in Tasks PROVE Contract!Step(t)
  <2>1. /\ submitted' = submitted /\ hand' = hand /\ loop' = loop /\ failed' = failed
        /\ (Done(t)' <=> Done(t)) /\ (Abandoned(t)' <=> Abandoned(t))
        /\ ~Listed(pending', t)
    BY <1>1, EmptyList DEF workerVars, clientVars, ledgers, Done, Abandoned
  <2>2. CASE Listed(pending, t)
    <3>1. Place(t) = "waiting" BY <2>2, PlacesAre DEF PlacesRight
    <3>2. Carries(new, t) /\ CallPlace(new) = "waiting"
      BY <1>3, <1>7, <2>2 DEF CallPlace
    <3>3. Place(t)' = "waiting" BY <1>5, <1>11, <3>2, PlacesNext DEF PlacesRight
    <3> QED BY <2>1, <3>1, <3>3 DEF Contract!Step, Contract!Same
  <2>3. CASE ~Listed(pending, t)
    <3>1. CallPlace(calls[c]) # "new" /\ ~Carries(new, t)
      BY <1>1, <1>7, <2>3 DEF CallPlace
    <3> QED BY <1>5, <1>11, <2>1, <3>1, OthersStay
  <2> QED BY <2>2, <2>3
<1> QED BY <1>11, <1>12 DEF Contract!Next

LEMMA EndSortStep ==
  ASSUME IInv, NEW c \in Calls, EndSort(c), UNCHANGED <<workerVars, clientVars>>
  PROVE  IInv' /\ Contract!Next
<1> DEFINE s == calls[c].saved
<1>1. /\ calls[c].op = "submit" /\ calls[c].at = "sorting" /\ CallOK(calls[c])
      /\ UNCHANGED <<table, ledgers>> /\ s \in Seq(Entries)
      /\ calls[c].mark \in BOOLEAN /\ detached' = calls[c].mark
      /\ Answer(c, detached) /\ detached \in BOOLEAN
  BY CallsTyped, OpOfStage DEF EndSort, CallOK, CallRecords, IInv, Types
<1>2. PICK p \in Sortings(s) : pending' = [i \in DOMAIN p |-> s[p[i]]] BY DEF EndSort
<1> HIDE DEF s
<1>3. /\ pending' \in Seq(Entries)
      /\ \A t : Listed(pending', t) <=> Listed(s, t)
      /\ \A t : Once(s, t) => Once(pending', t)
  BY <1>1, <1>2, SortList
<1>4. PICK ok \in BOOLEAN : calls' = [calls EXCEPT ![c] = Answered(@, ok)]
  BY <1>1 DEF Answer
<1> DEFINE new == Answered(calls[c], ok)
<1>5. /\ CallOK(new) /\ new.op = "submit" /\ new.from = calls[c].from
      /\ new.at = "answer" /\ new.saved = <<>> /\ new.task = calls[c].task
  BY <1>1, AnsweredOK, SchedulerAssumption
<1>6. calls' = [calls EXCEPT ![c] = new] BY <1>4
<1> HIDE DEF new
<1>7. OneCall(c) /\ calls'[c] = new BY <1>5, <1>6, Replaced DEF IInv
<1>8. \A t \in Tasks : Once(pending', t) BY <1>3 DEF IInv, OnceInList, s
<1>9. OnceInList' BY <1>1, <1>5, <1>7, <1>8, OnceKept DEF ledgers
<1>10. \A t \in Tasks : ~Carries(new, t) BY <1>5, EmptyList DEF Carries
<1>11. ASSUME NEW t \in Tasks PROVE InPlace(t)'
  <2>1. InPlace(t) BY DEF IInv, InOnePlace
  <2>2. /\ submitted' = submitted /\ hand' = hand /\ loop' = loop
        /\ (Done(t)' <=> Done(t)) /\ (Abandoned(t)' <=> Abandoned(t))
    BY <1>1 DEF workerVars, clientVars, ledgers, Done, Abandoned
  <2>3. \A d \in Calls : Carries(calls'[d], t) => Carries(calls[d], t)
    BY <1>7, <1>10, OnlyCall
  <2>4. CASE Listed(s, t)
    <3>1. Has(t, "call", c) /\ ~Has(t, "call", c)'
      BY <1>7, <1>10, <2>4 DEF Has, Carries, s
    <3>2. "call" \in PlaceNames /\ c \in Holders BY DEF PlaceNames, Holders
    <3> QED BY <2>1, <2>2, <2>3, <3>1, <3>2, Exchange
  <2>5. CASE ~Listed(s, t) BY <1>3, <2>1, <2>2, <2>3, <2>5, Exchange
  <2> QED BY <2>4, <2>5
<1>12. InOnePlace' BY <1>11 DEF InOnePlace
<1>13. Types' BY <1>1, <1>3 DEF IInv, Types, table, ledgers, workerVars, clientVars
<1>14. IInv' BY <1>1, <1>5, <1>7, <1>9, <1>12, <1>13, ServeStep
<1>15. ASSUME NEW t \in Tasks PROVE Contract!Step(t)
  <2>1. /\ submitted' = submitted /\ hand' = hand /\ loop' = loop /\ failed' = failed
        /\ (Done(t)' <=> Done(t)) /\ (Abandoned(t)' <=> Abandoned(t))
    BY <1>1 DEF workerVars, clientVars, ledgers, Done, Abandoned
  <2>2. CASE Listed(s, t)
    <3>1. Carries(calls[c], t) /\ CallPlace(calls[c]) = "waiting"
      BY <1>1, <2>2 DEF Carries, CallPlace, s
    <3>2. Place(t) = "waiting" BY <3>1, PlacesAre DEF PlacesRight
    <3>3. Place(t)' = "waiting" BY <1>3, <1>14, <2>2, PlacesNext DEF PlacesRight
    <3> QED BY <2>1, <3>2, <3>3 DEF Contract!Step, Contract!Same
  <2>3. CASE ~Listed(s, t)
    <3>1. CallPlace(calls[c]) # "new" /\ ~Carries(new, t) /\ ~Listed(pending', t)
      BY <1>1, <1>3, <1>10, <2>3 DEF CallPlace
    <3> QED BY <1>7, <1>14, <2>1, <3>1, OthersStay
  <2> QED BY <2>2, <2>3
<1> QED BY <1>14, <1>15 DEF Contract!Next

\* The result of a task is counted while the task has not settled.
LEMMA Unsettled ==
  ASSUME IInv, NEW c \in Calls, NEW t \in Tasks, Carries(calls[c], t)
  PROVE  ~Done(t) /\ ~Abandoned(t) /\ failed[t] \in 0..MaxRetries /\ failed[t] < MaxRetries
<1>1. Has(t, "call", c) BY DEF Has
<1>2. /\ "call" \in PlaceNames /\ "done" \in PlaceNames /\ "abandoned" \in PlaceNames
      /\ c \in Holders /\ None \in Holders
  BY DEF PlaceNames, Holders
<1>3. InPlace(t) BY DEF IInv, InOnePlace
<1>4. ~Has(t, "done", None) /\ ~Has(t, "abandoned", None)
  BY <1>1, <1>2, <1>3 DEF InPlace
<1>5. ~Done(t) /\ ~Abandoned(t) BY <1>4 DEF Has
<1>6. failed[t] \in 0..MaxRetries /\ MaxRetries \in Nat
  BY SchedulerAssumption DEF IInv, Types
<1> QED BY <1>5, <1>6 DEF Abandoned

LEMMA RecordStep ==
  ASSUME IInv, NEW c \in Calls, Record(c), UNCHANGED <<workerVars, clientVars>>
  PROVE  IInv' /\ Contract!Next
<1> DEFINE t == calls[c].task
<1>1. /\ calls[c].op = "complete" /\ calls[c].at = "record" /\ CallOK(calls[c])
      /\ t \in Tasks /\ UNCHANGED <<table, queue>>
  BY CallsTyped, OpOfStage DEF Record, CallOK
<1>2. Carries(calls[c], t) BY <1>1 DEF Carries
<1>3. /\ ~Done(t) /\ ~Abandoned(t) /\ failed[t] \in 0..MaxRetries /\ failed[t] < MaxRetries
      /\ MaxRetries \in Nat
  BY <1>1, <1>2, Unsettled, SchedulerAssumption
<1>4. /\ completed \in Seq(Tasks) /\ failed \in [Tasks -> 0..MaxRetries]
      /\ TableTyped' /\ queue' = queue
  BY <1>1, TableStays DEF IInv, Types
<1> DEFINE ans == Answered(calls[c], TRUE)  req == [calls[c] EXCEPT !.at = "requeue"]
<1>5. /\ CallOK(ans) /\ ans.op = "complete" /\ ans.from = calls[c].from
      /\ ans.at = "answer" /\ ans.saved = <<>>
  BY <1>1, AnsweredOK, SchedulerAssumption
<1>6. /\ CallOK(req) /\ req.op = "complete" /\ req.from = calls[c].from
      /\ req.at = "requeue" /\ req.saved = <<>> /\ req.task = t
  <2>1. "requeue" \in Stages("complete") BY DEF Stages
  <2> QED BY <1>1, <2>1, MovedOK DEF Ops
<1>7. \A u \in Tasks : ~Carries(ans, u) /\ (Carries(req, u) <=> u = t)
  BY <1>5, <1>6, EmptyList DEF Carries
<1>8. CallPlace(calls[c]) = "held" BY <1>1 DEF CallPlace
<1>9. \A u \in Tasks : InPlace(u) BY DEF IInv, InOnePlace
<1>10. /\ submitted' = submitted /\ hand' = hand /\ loop' = loop
      /\ pending' = pending /\ \A u \in Tasks : Once(pending', u)
  BY <1>1 DEF workerVars, clientVars, queue, IInv, OnceInList
<1>11. CASE calls[c].ok
  <2>1. completed' = Append(completed, t) /\ failed' = failed
        /\ calls' = [calls EXCEPT ![c] = ans]
    BY <1>11 DEF Record, Answer
  <2> HIDE DEF ans, req, t
  <2>2. OneCall(c) /\ calls'[c] = ans BY <1>5, <2>1, Replaced DEF IInv
  <2>3. /\ completed' \in Seq(Tasks) /\ Len(completed') = Len(completed) + 1
        /\ Len(completed) \in Nat
        /\ completed'[Len(completed) + 1] = t
        /\ \A i \in 1..Len(completed) : completed'[i] = completed[i]
    BY <1>1, <1>4, <2>1
  <2>4. \A u \in Tasks : u # t => (Done(u)' => Done(u))
    <3> SUFFICES ASSUME NEW u \in Tasks, u # t, NEW i \in 1..Len(completed'), completed'[i] = u
                 PROVE  Done(u)
      BY DEF Done
    <3>1. i \in 1..Len(completed) BY <2>3
    <3> QED BY <3>1, <2>3 DEF Done
  <2>5. OnceInList'
    <3>1. \A d \in Calls : calls'[d].saved = <<>> \/ calls'[d].saved = calls[d].saved
      BY <1>5, <2>2, OneCallOK DEF Alike, IInv
    <3>2. \A u \in Tasks, d \in Calls : Once(calls'[d].saved, u)
      BY <3>1, EmptyList DEF OnceInList, IInv
    <3>3. ASSUME NEW u \in Tasks, NEW i \in 1..Len(completed'), NEW j \in 1..Len(completed'),
                 completed'[i] = u, completed'[j] = u
          PROVE  i = j
      <4>1. \A k \in 1..Len(completed') : k = Len(completed) + 1 \/ k \in 1..Len(completed)
        BY <2>3
      <4>2. \A k \in 1..Len(completed) : completed'[k] # t BY <1>3, <2>3 DEF Done
      <4>3. CASE u = t
        <5>1. i = Len(completed) + 1 /\ j = Len(completed) + 1 BY <3>3, <4>1, <4>2, <4>3
        <5> QED BY <5>1
      <4>4. CASE u # t
        <5>1. i \in 1..Len(completed) /\ j \in 1..Len(completed)
          BY <3>3, <4>1, <4>4, <2>3
        <5>2. completed[i] = u /\ completed[j] = u BY <3>3, <5>1, <2>3
        <5> QED BY <5>1, <5>2 DEF IInv, OnceInList
      <4> QED BY <4>3, <4>4
    <3> QED BY <1>10, <3>2, <3>3 DEF OnceInList
  <2>6. ASSUME NEW u \in Tasks PROVE InPlace(u)'
    <3>1. \A d \in Calls : Carries(calls'[d], u) => Carries(calls[d], u)
      BY <2>2, <1>7, OnlyCall
    <3>2. Abandoned(u)' <=> Abandoned(u) BY <2>1 DEF Abandoned
    <3>3. CASE u = t
      <4>1. Has(u, "call", c) /\ ~Has(u, "call", c)' BY <1>2, <1>7, <2>2, <3>3 DEF Has
      <4>2. "call" \in PlaceNames /\ c \in Holders BY DEF PlaceNames, Holders
      <4> QED BY <1>9, <1>10, <3>1, <3>2, <4>1, <4>2, Exchange
    <3>4. CASE u # t BY <1>9, <1>10, <2>4, <3>1, <3>2, <3>4, Exchange
    <3> QED BY <3>3, <3>4
  <2>7. InOnePlace' BY <2>6 DEF InOnePlace
  <2>8. Types'
    BY <1>4, <2>1, <2>3 DEF IInv, Types, TableTyped, queue, workerVars, clientVars
  <2>9. IInv' BY <1>1, <1>5, <2>2, <2>5, <2>7, <2>8, ServeStep
  <2>10. ASSUME NEW u \in Tasks PROVE Contract!Step(u)
    <3>1. failed' = failed /\ (Abandoned(u)' <=> Abandoned(u)) BY <2>1 DEF Abandoned
    <3>2. CASE u = t
      <4>1. Place(u) = "held" BY <1>2, <1>8, <3>2, PlacesAre DEF PlacesRight
      <4>2. Len(completed) + 1 \in 1..Len(completed') BY <2>3
      <4>3. Done(u)' BY <2>3, <3>2, <4>2 DEF Done
      <4>4. Place(u)' = "done" BY <2>9, <4>3, PlacesNext DEF PlacesRight
      <4> QED BY <3>1, <4>1, <4>4 DEF Contract!Step, Contract!Move, Contract!Same
    <3>3. CASE u # t
      <4>1. Done(u) => Done(u)' BY <2>3 DEF Done
      <4> QED BY <1>7, <1>10, <1>8, <2>2, <2>4, <2>9, <3>1, <3>3, <4>1, OthersStay
    <3> QED BY <3>2, <3>3
  <2> QED BY <2>9, <2>10 DEF Contract!Next
<1>12. CASE ~calls[c].ok
  <2>1. /\ completed' = completed /\ failed' = [failed EXCEPT ![t] = failed[t] + 1]
        /\ IF Retried(failed[t] + 1) THEN Goto(c, "requeue") ELSE Answer(c, TRUE)
    BY <1>12 DEF Record
  <2>2. CASE Retried(failed[t] + 1)
    <3>1. calls' = [calls EXCEPT ![c] = req] BY <2>1, <2>2 DEF Goto
    <3> HIDE DEF req, ans, t
    <3>2. OneCall(c) /\ calls'[c] = req BY <1>6, <3>1, Replaced DEF IInv
    <3>3. failed[t] + 1 < MaxRetries BY <2>2 DEF Retried
    <3>4. failed' \in [Tasks -> 0..MaxRetries] /\ \A u \in Tasks : Abandoned(u)' => Abandoned(u)
      <4>1. failed[t] + 1 \in 0..MaxRetries BY <1>3, <3>3
      <4>2. failed' \in [Tasks -> 0..MaxRetries] /\ failed'[t] = failed[t] + 1
            /\ \A u \in Tasks \ {t} : failed'[u] = failed[u]
        BY <1>1, <1>4, <2>1, <4>1
      <4>3. ~(failed'[t] >= MaxRetries) BY <4>2, <3>3, <1>3
      <4> QED BY <4>2, <4>3 DEF Abandoned
    <3>5. ASSUME NEW u \in Tasks PROVE InPlace(u)'
      <4>1. \A d \in Calls : Carries(calls'[d], u) => Carries(calls[d], u)
        BY <3>2, <1>2, <1>7, OnlyCall
      <4>2. Done(u)' <=> Done(u) BY <2>1 DEF Done
      <4> QED BY <1>9, <1>10, <3>4, <4>1, <4>2, Exchange
    <3>6. InOnePlace' BY <3>5 DEF InOnePlace
    <3>7. OnceInList' BY <1>6, <1>10, <2>1, <3>2, OnceKept
    <3>8. Types'
      BY <1>4, <2>1, <3>4 DEF IInv, Types, TableTyped, queue, workerVars, clientVars
    <3>9. IInv' BY <1>1, <1>6, <3>2, <3>6, <3>7, <3>8, ServeStep
    <3>10. ASSUME NEW u \in Tasks PROVE Contract!Step(u)
      <4>1. Done(u)' <=> Done(u) BY <2>1 DEF Done
      <4>2. CASE u = t
        <5>1. Place(u) = "held" BY <1>2, <1>8, <4>2, PlacesAre DEF PlacesRight
        <5>2. Carries(req, u) /\ CallPlace(req) = "waiting"
          BY <1>6, <1>7, <4>2 DEF CallPlace
        <5>3. Place(u)' = "waiting" BY <3>2, <3>9, <5>2, PlacesNext DEF PlacesRight
        <5>4. failed'[u] = failed[u] + 1 /\ failed'[u] < MaxRetries
          BY <1>1, <1>4, <2>1, <3>3, <4>2
        <5> QED BY <5>1, <5>3, <5>4 DEF Contract!Step, Contract!Move, Contract!Fails
      <4>3. CASE u # t
        <5>1. failed'[u] = failed[u] BY <1>1, <1>4, <2>1, <4>3
        <5>2. Abandoned(u)' <=> Abandoned(u) BY <5>1 DEF Abandoned
        <5> QED BY <1>7, <1>10, <1>8, <3>2, <3>9, <4>1, <4>3, <5>1, <5>2, OthersStay
      <4> QED BY <4>2, <4>3
    <3> QED BY <3>9, <3>10 DEF Contract!Next
  <2>3. CASE ~Retried(failed[t] + 1)
    <3>1. calls' = [calls EXCEPT ![c] = ans] BY <2>1, <2>3 DEF Answer
    <3> HIDE DEF req, ans, t
    <3>2. OneCall(c) /\ calls'[c] = ans BY <1>5, <3>1, Replaced DEF IInv
    <3>3. /\ failed' \in [Tasks -> 0..MaxRetries]
          /\ \A u \in Tasks : u # t => (Abandoned(u)' => Abandoned(u))
      <4>1. failed[t] + 1 \in 0..MaxRetries BY <1>3
      <4>2. failed' \in [Tasks -> 0..MaxRetries]
            /\ \A u \in Tasks \ {t} : failed'[u] = failed[u]
        BY <1>1, <1>4, <2>1, <4>1
      <4> QED BY <4>2 DEF Abandoned
    <3>4. ASSUME NEW u \in Tasks PROVE InPlace(u)'
      <4>1. \A d \in Calls : Carries(calls'[d], u) => Carries(calls[d], u)
        BY <3>2, <1>7, OnlyCall
      <4>2. Done(u)' <=> Done(u) BY <2>1 DEF Done
      <4>3. CASE u = t
        <5>1. Has(u, "call", c) /\ ~Has(u, "call", c)' BY <1>2, <1>7, <3>2, <4>3 DEF Has
        <5>2. "call" \in PlaceNames /\ c \in Holders BY DEF PlaceNames, Holders
        <5> QED BY <1>9, <1>10, <4>1, <4>2, <5>1, <5>2, Exchange
      <4>4. CASE u # t BY <1>9, <1>10, <3>3, <4>1, <4>2, <4>4, Exchange
      <4> QED BY <4>3, <4>4
    <3>5. InOnePlace' BY <3>4 DEF InOnePlace
    <3>6. OnceInList' BY <1>5, <1>10, <2>1, <3>2, OnceKept
    <3>7. Types'
      BY <1>4, <2>1, <3>3 DEF IInv, Types, TableTyped, queue, workerVars, clientVars
    <3>8. IInv' BY <1>1, <1>5, <3>2, <3>5, <3>6, <3>7, ServeStep
    <3>9. ASSUME NEW u \in Tasks PROVE Contract!Step(u)
      <4>1. Done(u)' <=> Done(u) BY <2>1 DEF Done
      <4>2. CASE u = t
        <5>1. Place(u) = "held" BY <1>2, <1>8, <4>2, PlacesAre DEF PlacesRight
        <5>2. failed'[u] = failed[u] + 1 /\ failed'[u] = MaxRetries
          <6>1. failed'[u] = failed[u] + 1 BY <1>1, <1>4, <2>1, <4>2
          <6> QED BY <6>1, <1>3, <2>3, <4>2 DEF Retried
        <5>3. Abandoned(u)' BY <5>2, <1>3 DEF Abandoned
        <5>4. Place(u)' = "abandoned" BY <3>8, <5>3, PlacesNext DEF PlacesRight
        <5> QED BY <5>1, <5>2, <5>4 DEF Contract!Step, Contract!Move, Contract!Fails
      <4>3. CASE u # t
        <5>1. failed'[u] = failed[u] BY <1>1, <1>4, <2>1, <4>3
        <5>2. Abandoned(u)' <=> Abandoned(u) BY <5>1 DEF Abandoned
        <5> QED BY <1>7, <1>10, <1>8, <3>2, <3>8, <4>1, <4>3, <5>1, <5>2, OthersStay
      <4> QED BY <4>2, <4>3
    <3> QED BY <3>8, <3>9 DEF Contract!Next
  <2> QED BY <2>2, <2>3
<1> QED BY <1>11, <1>12

----------------------------------------------------------------------------
(* The workers and the clients.                                            *)

LEMMA WaitingAfter ==
  ASSUME CallsOK, NEW c \in Calls, OneCall(c), NEW v, calls'[c].from # v, calls[c].from # v
  PROVE  Waiting(v)' = Waiting(v)
<1>1. \A d \in Calls \ {c} : calls'[d].from = calls[d].from BY OneCallOK DEF Alike
<1> QED BY <1>1 DEF Waiting

LEMMA Sending ==
  ASSUME IInv, NEW r, CallOK(r), Send(r)
  PROVE  \E c \in Calls : /\ calls[c].op = "free" /\ calls[c].from = None /\ calls[c].saved = <<>>
                          /\ (\A t : ~Carries(calls[c], t))
                          /\ OneCall(c) /\ calls'[c] = r
<1>1. PICK c \in Calls : calls[c].op = "free" /\ calls' = [calls EXCEPT ![c] = r]
  BY DEF Send, FreeCalls
<1>2. CallOK(calls[c]) BY DEF IInv, CallsOK
<1>3. calls[c].from = None /\ calls[c].saved = <<>> BY <1>1, <1>2 DEF CallOK, Stages
<1>4. OneCall(c) /\ calls'[c] = r BY <1>1, Replaced DEF IInv
<1>5. \A t : ~Carries(calls[c], t) BY <1>1, <1>3, EmptyList DEF Carries
<1> QED BY <1>1, <1>3, <1>4, <1>5

\* A worker that waits for nothing sends a request and waits for its answer.
LEMMA WaitsSent ==
  ASSUME IInv, NEW w \in Workers, NEW c \in Calls, OneCall(c), calls[c].from = None,
         calls'[c].from = w, Waiting(w) = {},
         NEW to, to # "handling",
         Awaits(to, calls'[c].op),
         loop' = [loop EXCEPT ![w] = to], hand' = hand
  PROVE  WaitsOnce'
<1>1. loop \in [Workers -> Locations] BY DEF IInv, Types
<1>2. Waiting(w)' \subseteq {c}
  <2>1. \A d \in Calls \ {c} : calls'[d].from = calls[d].from
    BY OneCallOK DEF Alike, IInv
  <2> QED BY <2>1 DEF Waiting
<1>3. ASSUME NEW v \in Workers
      PROVE  /\ \A d \in Waiting(v)' : Awaits(loop'[v], calls'[d].op)
             /\ \A d, e \in Waiting(v)' : d = e
             /\ loop'[v] = "handling" => hand'[v] \in Tasks
  <2>1. CASE v = w BY <1>1, <1>2, <2>1
  <2>2. CASE v # w
    <3>1. Waiting(v)' = Waiting(v) BY <2>2, WaitingAfter, SchedulerAssumption DEF IInv
    <3>2. loop'[v] = loop[v] BY <1>1, <2>2
    <3>3. \A d \in Waiting(v) : calls'[d].op = calls[d].op
      BY <2>2, OneCallOK, SchedulerAssumption DEF Alike, Waiting, IInv
    <3> QED BY <3>1, <3>2, <3>3 DEF IInv, WaitsOnce
  <2> QED BY <2>1, <2>2
<1> QED BY <1>3 DEF WaitsOnce

LEMMA AskStep ==
  ASSUME IInv, NEW w \in Workers, NEW from \in {"off", "top", "beaten"},
         NEW op \in {"register", "heartbeat", "poll"},
         NEW to \in {"registering", "beating", "polling"}, Awaits(to, op), Ask(w, from, op, to)
  PROVE  IInv' /\ Contract!Next
<1> DEFINE r == Request(op, w, w, None, FALSE)
<1>1. /\ loop[w] = from /\ Send(r) /\ loop' = [loop EXCEPT ![w] = to]
      /\ UNCHANGED <<table, queue, ledgers, hand, clientVars>>
  BY DEF Ask
<1>2. /\ CallOK(r) /\ r.op = op /\ r.at = "sent" /\ r.from = w /\ r.task = None
      /\ r.saved = <<>>
  <2>1. op \in Ops \ {"free"} /\ w \in Workers \cup {None} /\ None \in Tasks \cup {None}
        /\ op \notin {"submit", "complete"}
    BY DEF Ops
  <2>2. PICK ok \in BOOLEAN : ok = FALSE OBVIOUS
  <2>3. r = Request(op, w, w, None, ok) BY <2>2
  <2> HIDE DEF r
  <2> QED BY <2>1, <2>3, RequestOK, SchedulerAssumption
<1> HIDE DEF r
<1>3. PICK c \in Calls : /\ calls[c].op = "free" /\ calls[c].from = None
                         /\ (\A t : ~Carries(calls[c], t))
                         /\ calls[c].saved = <<>> /\ OneCall(c) /\ calls'[c] = r
  BY <1>1, <1>2, Sending
<1>4. CallsOK' BY <1>3, OneCallOK DEF IInv
<1>5. Sent' BY <1>1, <1>2, <1>3, SentKept DEF IInv
<1>6. Waiting(w) = {} BY <1>1 DEF IInv, WaitsOnce, Awaits
<1>7. WaitsOnce'
  <2>1. Awaits(to, calls'[c].op) /\ calls'[c].from = w BY <1>2, <1>3
  <2>2. to # "handling" /\ hand' = hand /\ loop' = [loop EXCEPT ![w] = to] BY <1>1
  <2>3. OneCall(c) /\ calls[c].from = None BY <1>3
  <2> QED BY <1>6, <2>1, <2>2, <2>3, WaitsSent
<1>8. \A t \in Tasks : ~Carries(r, t)
  BY <1>2, EmptyList, SchedulerAssumption DEF Carries
<1>9. \A t \in Tasks, d \in Calls : Carries(calls'[d], t) => Carries(calls[d], t)
  BY <1>3, <1>8, OnlyCall
<1>10. loop \in [Workers -> Locations] BY DEF IInv, Types
<1>11. /\ submitted' = submitted /\ pending' = pending /\ completed' = completed
       /\ hand' = hand /\ UNCHANGED ledgers
       /\ \A v \in Workers : loop'[v] = "handling" => loop[v] = "handling"
  BY <1>1, <1>10 DEF clientVars, queue, ledgers
<1>12. InOnePlace' BY <1>9, <1>11, NothingGained DEF IInv
<1>13. OnceInList'
  <2>1. \A t \in Tasks : Once(pending', t) BY <1>11 DEF IInv, OnceInList
  <2> QED BY <1>2, <1>3, <1>11, <2>1, OnceKept
<1>14. Types'
  BY <1>1, <1>10 DEF IInv, Types, table, queue, ledgers, clientVars, Locations
<1>15. IInv' BY <1>4, <1>5, <1>7, <1>12, <1>13, <1>14 DEF IInv
<1>16. ASSUME NEW t \in Tasks PROVE Contract!Step(t)
  <2>1. /\ failed' = failed /\ (Done(t)' <=> Done(t)) /\ (Abandoned(t)' <=> Abandoned(t))
    BY <1>11 DEF Done, Abandoned, ledgers
  <2>2. \A d \in Calls : Carries(calls'[d], t) =>
           Carries(calls[d], t) /\ CallPlace(calls'[d]) = CallPlace(calls[d])
    BY <1>2, <1>3, <1>8, OneCallOK, CarriesAlike DEF Alike, CallPlace, IInv
  <2>3. \A d \in Calls : Carries(calls[d], t) => d # c BY <1>3
  <2>4. \A d \in Calls : Carries(calls[d], t) =>
           Carries(calls'[d], t) /\ CallPlace(calls'[d]) = CallPlace(calls[d])
    BY <1>3, <2>3, OneCallOK, CarriesAlike DEF Alike, CallPlace, IInv
  <2> QED BY <1>11, <1>15, <2>1, <2>2, <2>4, StaysInContract
<1> QED BY <1>15, <1>16 DEF Contract!Next

LEMMA HandleStep ==
  ASSUME IInv, NEW w \in Workers, Handle(w)
  PROVE  IInv' /\ Contract!Next
<1>1. PICK ok \in BOOLEAN : Send(Request("complete", w, w, hand[w], ok)) BY DEF Handle
<1>2. /\ loop[w] = "handling" /\ loop' = [loop EXCEPT ![w] = "reporting"]
      /\ UNCHANGED <<table, queue, ledgers, hand, clientVars>>
  BY DEF Handle
<1>3. hand[w] \in Tasks /\ Waiting(w) = {} BY <1>2 DEF IInv, WaitsOnce, Awaits
<1>4. PICK t0 \in Tasks : t0 = hand[w] BY <1>3
<1> DEFINE r == Request("complete", w, w, t0, ok)
<1>5. /\ CallOK(r) /\ r.op = "complete" /\ r.at = "sent" /\ r.from = w /\ r.task = t0
      /\ r.saved = <<>>
  <2>1. "complete" \in Ops \ {"free"} /\ w \in Workers \cup {None} /\ t0 \in Tasks \cup {None}
    BY DEF Ops
  <2>2. PICK op \in Ops \ {"free"} : op = "complete" BY <2>1
  <2>3. op # "submit" /\ r = Request(op, w, w, t0, ok) BY <2>2
  <2> HIDE DEF r
  <2> QED BY <2>1, <2>2, <2>3, RequestOK, SchedulerAssumption
<1>6. Send(r) BY <1>1, <1>4
<1> HIDE DEF r
<1>7. PICK c \in Calls : /\ calls[c].op = "free" /\ calls[c].from = None
                         /\ (\A t : ~Carries(calls[c], t))
                         /\ calls[c].saved = <<>> /\ OneCall(c) /\ calls'[c] = r
  BY <1>5, <1>6, Sending
<1>8. CallsOK' BY <1>7, OneCallOK DEF IInv
<1>9. Sent' BY <1>2, <1>5, <1>7, SentKept DEF IInv
<1>10. WaitsOnce' BY <1>2, <1>3, <1>5, <1>7, WaitsSent DEF Awaits
<1>11. loop \in [Workers -> Locations] BY DEF IInv, Types
<1>12. /\ submitted' = submitted /\ pending' = pending /\ completed' = completed
       /\ hand' = hand /\ failed' = failed
       /\ \A v \in Workers : loop'[v] = "handling" => loop[v] = "handling"
       /\ loop'[w] # "handling"
  BY <1>2, <1>11 DEF clientVars, queue, ledgers
<1>13. \A t \in Tasks : Carries(r, t) => t = t0 BY <1>5, EmptyList DEF Carries
<1>14. ASSUME NEW t \in Tasks PROVE InPlace(t)'
  <2>1. InPlace(t) BY DEF IInv, InOnePlace
  <2>2. (Done(t)' <=> Done(t)) /\ (Abandoned(t)' <=> Abandoned(t))
    BY <1>12 DEF Done, Abandoned
  <2>3. CASE t = t0
    <3>1. Has(t, "hand", w) /\ ~Has(t, "hand", w)' BY <1>2, <1>4, <1>12, <2>3 DEF Has
    <3>2. "hand" \in PlaceNames /\ w \in Holders BY DEF PlaceNames, Holders
    <3>3. \A d \in Calls : Carries(calls'[d], t) => Carries(calls[d], t) \/ d = c
      BY <1>7, OnlyCall
    <3> QED BY <1>12, <2>1, <2>2, <3>1, <3>2, <3>3, Exchange
  <2>4. CASE t # t0
    <3>1. \A d \in Calls : Carries(calls'[d], t) => Carries(calls[d], t)
      BY <1>7, <1>13, <2>4, OnlyCall
    <3> QED BY <1>12, <2>1, <2>2, <3>1, Exchange
  <2> QED BY <2>3, <2>4
<1>15. InOnePlace' BY <1>14 DEF InOnePlace
<1>16. OnceInList'
  <2>1. \A t \in Tasks : Once(pending', t) BY <1>12 DEF IInv, OnceInList
  <2> QED BY <1>5, <1>7, <1>12, <2>1, OnceKept
<1>17. Types'
  BY <1>2, <1>11 DEF IInv, Types, table, queue, ledgers, clientVars, Locations
<1>18. IInv' BY <1>8, <1>9, <1>10, <1>15, <1>16, <1>17 DEF IInv
<1>19. ASSUME NEW t \in Tasks PROVE Contract!Step(t)
  <2>1. (Done(t)' <=> Done(t)) /\ (Abandoned(t)' <=> Abandoned(t))
    BY <1>12 DEF Done, Abandoned
  <2>2. CASE t = t0
    <3>1. Place(t) = "held" BY <1>2, <1>4, <2>2, PlacesAre DEF PlacesRight
    <3>2. Carries(r, t) /\ CallPlace(r) = "held" BY <1>5, <2>2 DEF Carries, CallPlace
    <3>3. Place(t)' = "held" BY <1>7, <1>18, <3>2, PlacesNext DEF PlacesRight
    <3> QED BY <1>12, <3>1, <3>3 DEF Contract!Step, Contract!Same
  <2>3. CASE t # t0
    <3>1. \A d \in Calls : Carries(calls'[d], t) =>
             Carries(calls[d], t) /\ CallPlace(calls'[d]) = CallPlace(calls[d])
      BY <1>7, <1>13, <2>3, OneCallOK, CarriesAlike DEF Alike, CallPlace, IInv
    <3>2. \A d \in Calls : Carries(calls[d], t) => d # c BY <1>7
    <3>3. \A d \in Calls : Carries(calls[d], t) =>
             Carries(calls'[d], t) /\ CallPlace(calls'[d]) = CallPlace(calls[d])
      BY <1>7, <3>2, OneCallOK, CarriesAlike DEF Alike, CallPlace, IInv
    <3> QED BY <1>12, <1>18, <2>1, <3>1, <3>3, StaysInContract
  <2> QED BY <2>2, <2>3
<1> QED BY <1>18, <1>19 DEF Contract!Next

LEMMA SubmitStep ==
  ASSUME IInv, NEW t0 \in Tasks, Submit(t0)
  PROVE  IInv' /\ Contract!Next
<1> DEFINE r == Request("submit", None, None, t0, FALSE)
<1>1. /\ t0 \notin submitted /\ Send(r) /\ submitted' = submitted \cup {t0}
      /\ UNCHANGED <<table, queue, ledgers, workerVars, accepted>>
  BY DEF Submit
<1>2. /\ CallOK(r) /\ r.op = "submit" /\ r.at = "sent" /\ r.from = None /\ r.task = t0
      /\ r.saved = <<>>
  <2>1. "submit" \in Ops \ {"free"} /\ None \in Workers \cup {None}
        /\ t0 \in Tasks \cup {None} /\ FALSE \in BOOLEAN
    BY DEF Ops
  <2>2. PICK op \in Ops \ {"free"} : op = "submit" BY <2>1
  <2>3. PICK ok \in BOOLEAN : ok = FALSE OBVIOUS
  <2>4. r = Request(op, None, None, t0, ok) BY <2>2, <2>3
  <2> HIDE DEF r
  <2> QED BY <2>1, <2>2, <2>4, RequestOK, SchedulerAssumption
<1> HIDE DEF r
<1>3. PICK c \in Calls : /\ calls[c].op = "free" /\ calls[c].from = None
                         /\ (\A t : ~Carries(calls[c], t))
                         /\ calls[c].saved = <<>> /\ OneCall(c) /\ calls'[c] = r
  BY <1>1, <1>2, Sending
<1>4. CallsOK' /\ \A d \in Calls \ {c} : Alike(calls'[d], calls[d])
  BY <1>3, OneCallOK DEF IInv
<1>5. Sent' BY <1>1, <1>2, <1>3, <1>4 DEF IInv, Sent, Alike
<1>6. WaitsOnce' BY <1>1, <1>2, <1>3, WaitsKept DEF IInv
<1>7. \A t \in Tasks : Carries(r, t) => t = t0 BY <1>2, EmptyList DEF Carries
<1>8. ASSUME NEW t \in Tasks PROVE InPlace(t)'
  <2>1. InPlace(t) BY DEF IInv, InOnePlace
  <2>2. /\ (Done(t)' <=> Done(t)) /\ (Abandoned(t)' <=> Abandoned(t))
        /\ hand' = hand /\ loop' = loop /\ pending' = pending
        /\ (t \notin submitted' => t \notin submitted)
    BY <1>1 DEF Done, Abandoned, workerVars, queue, ledgers
  <2>3. CASE t = t0
    <3>1. Has(t, "new", None) /\ ~Has(t, "new", None)' BY <1>1, <2>3 DEF Has
    <3>2. "new" \in PlaceNames /\ None \in Holders BY DEF PlaceNames, Holders
    <3>3. \A d \in Calls : Carries(calls'[d], t) => Carries(calls[d], t) \/ d = c
      BY <1>3, OnlyCall
    <3> QED BY <2>1, <2>2, <3>1, <3>2, <3>3, Exchange
  <2>4. CASE t # t0
    <3>1. \A d \in Calls : Carries(calls'[d], t) => Carries(calls[d], t)
      BY <1>3, <1>7, <2>4, OnlyCall
    <3> QED BY <2>1, <2>2, <3>1, Exchange
  <2> QED BY <2>3, <2>4
<1>9. InOnePlace' BY <1>8 DEF InOnePlace
<1>10. OnceInList'
  <2>1. completed' = completed /\ \A t \in Tasks : Once(pending', t)
    BY <1>1 DEF IInv, OnceInList, queue, ledgers
  <2> QED BY <1>2, <1>3, <2>1, OnceKept
<1>11. Types' BY <1>1 DEF IInv, Types, table, queue, ledgers, workerVars
<1>12. IInv' BY <1>4, <1>5, <1>6, <1>9, <1>10, <1>11 DEF IInv
<1>13. ASSUME NEW t \in Tasks PROVE Contract!Step(t)
  <2>1. /\ (Done(t)' <=> Done(t)) /\ (Abandoned(t)' <=> Abandoned(t))
        /\ hand' = hand /\ loop' = loop /\ pending' = pending /\ failed' = failed
    BY <1>1 DEF Done, Abandoned, workerVars, queue, ledgers
  <2>2. CASE t = t0
    <3>1. Place(t) = "new" BY <1>1, <2>2, PlacesAre DEF PlacesRight
    <3>2. Carries(r, t) /\ CallPlace(r) = "new" BY <1>2, <2>2 DEF Carries, CallPlace
    <3>3. Place(t)' = "new" BY <1>3, <1>12, <3>2, PlacesNext DEF PlacesRight
    <3> QED BY <2>1, <3>1, <3>3 DEF Contract!Step, Contract!Same
  <2>3. CASE t # t0
    <3>1. \A d \in Calls : Carries(calls'[d], t) =>
             Carries(calls[d], t) /\ CallPlace(calls'[d]) = CallPlace(calls[d])
      BY <1>3, <1>4, <1>7, <2>3, CarriesAlike DEF Alike, CallPlace
    <3>2. \A d \in Calls : Carries(calls[d], t) => d # c BY <1>3
    <3>3. \A d \in Calls : Carries(calls[d], t) =>
             Carries(calls'[d], t) /\ CallPlace(calls'[d]) = CallPlace(calls[d])
      BY <1>4, <3>2, CarriesAlike DEF Alike, CallPlace
    <3>4. t \notin submitted' <=> t \notin submitted BY <1>1, <2>3
    <3> QED BY <1>12, <2>1, <3>1, <3>3, <3>4, StaysInContract
  <2> QED BY <2>2, <2>3
<1> QED BY <1>12, <1>13 DEF Contract!Next

LEMMA ReceiveStep ==
  ASSUME IInv, NEW c \in Calls, Receive(c)
  PROVE  IInv' /\ Contract!Next
<1> DEFINE w == calls[c].from  task == calls[c].task  to == After(w, calls[c])
<1>1. /\ calls[c].op # "free" /\ calls[c].at = "answer" /\ calls' = [calls EXCEPT ![c] = Free]
      /\ UNCHANGED <<table, queue, ledgers, submitted>>
      /\ accepted' = IF calls[c].op = "submit" /\ calls[c].ok THEN accepted \cup {task}
                                                             ELSE accepted
  BY DEF Receive
<1>2. IF w = None THEN UNCHANGED workerVars
      ELSE /\ loop' = [loop EXCEPT ![w] = to]
           /\ hand' = [hand EXCEPT ![w] = IF to = "handling" THEN task ELSE None]
  BY DEF Receive
<1>3. /\ CallOK(Free) /\ Free.op = "free" /\ Free.from = None /\ Free.saved = <<>>
  BY FreeOK, SchedulerAssumption DEF Free
<1>4. OneCall(c) /\ calls'[c] = Free BY <1>1, <1>3, Replaced DEF IInv
<1>5. CallsOK' /\ \A d \in Calls \ {c} : Alike(calls'[d], calls[d])
  BY <1>4, OneCallOK DEF IInv
<1>6. Sent' BY <1>1, <1>3, <1>4, <1>5 DEF IInv, Sent, Alike
<1>7. /\ w \in Workers \cup {None} /\ task \in Tasks \cup {None}
      /\ calls[c].op \in {"free", "submit"} => w = None
      /\ calls[c].op = "submit" => task \in submitted
  BY DEF IInv, CallsOK, CallOK, CallRecords, Sent
<1>8. \A t \in Tasks : ~Carries(Free, t) BY <1>3, EmptyList DEF Carries
<1>9. \A t \in Tasks, d \in Calls : Carries(calls'[d], t) => Carries(calls[d], t)
  BY <1>4, <1>8, OnlyCall
<1>10. /\ submitted' = submitted /\ pending' = pending /\ completed' = completed
       /\ failed' = failed
  BY <1>1 DEF queue, ledgers
<1>11. OnceInList'
  <2>1. \A t \in Tasks : Once(pending', t) BY <1>10 DEF IInv, OnceInList
  <2> QED BY <1>3, <1>4, <1>10, <2>1, OnceKept
<1>12. accepted' \subseteq submitted' BY <1>1, <1>7, <1>10 DEF IInv, Types
<1>13. ~(calls[c].op = "submit" /\ calls[c].at = "sent") BY <1>1
<1>14. \A t \in Tasks : Carries(calls[c], t) => CallPlace(calls[c]) # "new"
  BY <1>13 DEF CallPlace
<1>15. CASE w = None
  <2>1. UNCHANGED workerVars BY <1>2, <1>15
  <2>2. WaitsOnce' BY <1>3, <1>4, <1>15, <2>1, WaitsKept DEF IInv
  <2>3. InOnePlace' BY <1>9, <1>10, <2>1, NothingGained DEF IInv, workerVars, ledgers
  <2>4. Types' BY <1>1, <1>10, <1>12, <2>1 DEF IInv, Types, table, queue, workerVars
  <2>5. IInv' BY <1>5, <1>6, <1>11, <2>2, <2>3, <2>4 DEF IInv
  <2>6. ASSUME NEW t \in Tasks PROVE Contract!Step(t)
    <3>1. /\ (Done(t)' <=> Done(t)) /\ (Abandoned(t)' <=> Abandoned(t))
          /\ hand' = hand /\ loop' = loop
      BY <1>10, <2>1 DEF Done, Abandoned, workerVars
    <3>2. ~Carries(calls'[c], t) BY <1>4, <1>8
    <3> QED BY <1>4, <1>10, <1>14, <2>5, <3>1, <3>2, OthersStay
  <2> QED BY <2>5, <2>6 DEF Contract!Next
<1>16. CASE w # None
  <2>0. PICK v0 \in Workers : v0 = w BY <1>7, <1>16
  <2>1. /\ loop' = [loop EXCEPT ![v0] = to]
        /\ hand' = [hand EXCEPT ![v0] = IF to = "handling" THEN task ELSE None]
    BY <1>2, <1>16, <2>0
  <2>2. /\ to \in {"beaten", "handling", "top"}
        /\ to = "handling" => loop[v0] = "polling" /\ task # None
    BY <2>0 DEF After
  <2>3. c \in Waiting(v0) BY <2>0 DEF Waiting
  <2>4. Awaits(loop[v0], calls[c].op) /\ \A d \in Waiting(v0) : d = c
    BY <2>1, <2>3 DEF IInv, WaitsOnce
  <2>5. to = "handling" => task \in Tasks /\ calls[c].op = "poll"
    BY <1>7, <2>2, <2>4 DEF Awaits
  <2>6. loop[v0] # "handling" BY <2>4 DEF Awaits
  <2>7. loop \in [Workers -> Locations] /\ hand \in [Workers -> Tasks \cup {None}]
    BY DEF IInv, Types
  <2> HIDE DEF w, task, to
  <2>8. /\ loop'[v0] = to
        /\ to = "handling" => hand'[v0] = task
        /\ \A v \in Workers \ {v0} : loop'[v] = loop[v] /\ hand'[v] = hand[v]
    BY <2>1, <2>7
  <2>9. WaitsOnce'
    <3>1. ASSUME NEW v \in Workers
          PROVE  /\ \A d \in Waiting(v)' : Awaits(loop'[v], calls'[d].op)
                 /\ \A d, e \in Waiting(v)' : d = e
                 /\ loop'[v] = "handling" => hand'[v] \in Tasks
      <4>1. CASE v = v0
        <5>1. Waiting(v0)' = {}
          <6>1. \A d \in Calls \ {c} : calls'[d].from # v0
            BY <1>5, <2>4 DEF Alike, Waiting
          <6>2. calls'[c].from # v0 BY <1>3, <1>4, SchedulerAssumption
          <6> QED BY <6>1, <6>2 DEF Waiting
        <5> QED BY <5>1, <2>5, <2>8, <4>1
      <4>2. CASE v # v0
        <5>1. calls'[c].from # v /\ calls[c].from # v
          BY <1>3, <1>4, <4>2, <2>0, SchedulerAssumption DEF w
        <5>2. Waiting(v)' = Waiting(v) BY <1>4, <5>1, WaitingAfter DEF IInv
        <5>3. \A d \in Waiting(v) : calls'[d].op = calls[d].op
          BY <1>5, <5>1 DEF Alike, Waiting
        <5> QED BY <2>8, <4>2, <5>2, <5>3 DEF IInv, WaitsOnce
      <4> QED BY <4>1, <4>2
    <3> QED BY <3>1 DEF WaitsOnce
  <2>10. ASSUME NEW t \in Tasks PROVE InPlace(t)'
    <3>1. InPlace(t) /\ (Done(t)' <=> Done(t)) /\ (Abandoned(t)' <=> Abandoned(t))
      BY <1>10 DEF IInv, InOnePlace, Done, Abandoned
    <3>2. \A v \in Workers : hand'[v] = t /\ loop'[v] = "handling" =>
             (hand[v] = t /\ loop[v] = "handling") \/ (v = v0 /\ to = "handling" /\ t = task)
      BY <2>8
    <3>3. CASE to = "handling" /\ t = task
      <4>1. Has(t, "call", c) /\ ~Has(t, "call", c)'
        BY <1>4, <1>8, <2>5, <3>3 DEF Has, Carries, task
      <4>2. "call" \in PlaceNames /\ c \in Holders BY DEF PlaceNames, Holders
      <4> QED BY <1>9, <1>10, <3>1, <3>2, <4>1, <4>2, Exchange
    <3>4. CASE ~(to = "handling" /\ t = task) BY <1>9, <1>10, <3>1, <3>2, <3>4, Exchange
    <3> QED BY <3>3, <3>4
  <2>11. InOnePlace' BY <2>10 DEF InOnePlace
  <2>12. Types'
    <3>1. loop' \in [Workers -> Locations] /\ hand' \in [Workers -> Tasks \cup {None}]
      BY <1>7, <2>1, <2>2, <2>7 DEF Locations
    <3> QED BY <1>1, <1>10, <1>12, <3>1 DEF IInv, Types, table, queue
  <2>13. IInv' BY <1>5, <1>6, <1>11, <2>9, <2>11, <2>12 DEF IInv
  <2>14. ASSUME NEW t \in Tasks PROVE Contract!Step(t)
    <3>1. (Done(t)' <=> Done(t)) /\ (Abandoned(t)' <=> Abandoned(t))
      BY <1>10 DEF Done, Abandoned
    <3>2. CASE to = "handling" /\ t = task
      <4>1. Carries(calls[c], t) /\ CallPlace(calls[c]) = "held"
        BY <2>0, <2>5, <3>2, SchedulerAssumption DEF Carries, CallPlace, task, w
      <4>2. Place(t) = "held" BY <4>1, PlacesAre DEF PlacesRight
      <4>3. Place(t)' = "held" BY <2>8, <2>13, <3>2, PlacesNext DEF PlacesRight
      <4> QED BY <1>10, <4>2, <4>3 DEF Contract!Step, Contract!Same
    <3>3. CASE ~(to = "handling" /\ t = task)
      <4>1. \A v \in Workers : hand'[v] = t /\ loop'[v] = "handling" =>
               hand[v] = t /\ loop[v] = "handling"
        BY <2>8, <3>3
      <4>2. \A d \in Calls : Carries(calls'[d], t) =>
               Carries(calls[d], t) /\ CallPlace(calls'[d]) = CallPlace(calls[d])
        BY <1>4, <1>5, <1>8, CarriesAlike DEF Alike, CallPlace
      <4>3. \A d \in Calls : Carries(calls[d], t) /\ CallPlace(calls[d]) = "new" =>
               Carries(calls'[d], t) /\ CallPlace(calls'[d]) = "new"
        BY <1>5, <1>14, CarriesAlike DEF Alike, CallPlace
      <4> QED BY <1>10, <2>13, <3>1, <4>1, <4>2, <4>3, StaysInContract
    <3> QED BY <3>2, <3>3
  <2> QED BY <2>13, <2>14 DEF Contract!Next
<1> QED BY <1>15, <1>16

\* A worker gives up: its request goes on without it, or never was.
LEMMA AbandonStep ==
  ASSUME IInv, NEW w \in Workers, NEW to \in {"off", "top"}, Abandon(w, to)
  PROVE  IInv' /\ Contract!Next
<1>1. /\ loop' = [loop EXCEPT ![w] = to] /\ hand' = [hand EXCEPT ![w] = None]
      /\ UNCHANGED <<table, queue, ledgers, clientVars>>
  BY DEF Abandon
<1>2. ASSUME NEW d \in Calls
      PROVE  /\ d \in DOMAIN calls' /\ CallOK(calls'[d])
             /\ d \notin Waiting(w) => calls'[d] = calls[d]
             /\ d \in Waiting(w) => calls'[d].from = None
             /\ \A t \in Tasks : Carries(calls'[d], t) =>
                  Carries(calls[d], t) /\ CallPlace(calls'[d]) \in {CallPlace(calls[d]), "lost"}
             /\ calls'[d].saved = <<>> \/ calls'[d].saved = calls[d].saved
             /\ d \in Waiting(w) => calls'[d].op # "submit" /\ calls[d].op # "submit"
  <2>1. CallOK(calls[d]) BY DEF IInv, CallsOK
  <2>2. CASE calls' = [c \in Calls |-> IF c \in Waiting(w) THEN [calls[c] EXCEPT !.from = None]
                                                          ELSE calls[c]]
    <3> DEFINE r == [calls[d] EXCEPT !.from = None]
    <3>1. calls'[d] = IF d \in Waiting(w) THEN r ELSE calls[d] BY <2>2
    <3>2. /\ CallOK(r) /\ r.op = calls[d].op /\ r.at = calls[d].at /\ r.from = None
          /\ r.task = calls[d].task /\ r.saved = calls[d].saved
      BY <2>1, ForgottenOK
    <3>3. d \in Waiting(w) => calls[d].op # "submit"
      BY <2>1, SchedulerAssumption DEF Waiting, CallOK
    <3> HIDE DEF r
    <3>4. \A t \in Tasks : Carries(r, t) =>
             Carries(calls[d], t) /\ CallPlace(r) \in {CallPlace(calls[d]), "lost"}
      BY <3>2 DEF Carries, CallPlace
    <3>5. d \in DOMAIN calls' BY <2>2
    <3> QED BY <2>1, <3>1, <3>2, <3>3, <3>4, <3>5
  <2>3. CASE calls' = [c \in Calls |-> IF c \in Waiting(w) THEN Free ELSE calls[c]]
    <3>1. calls'[d] = IF d \in Waiting(w) THEN Free ELSE calls[d] BY <2>3
    <3>2. CallOK(Free) /\ Free.op = "free" /\ Free.from = None /\ Free.saved = <<>>
      BY FreeOK, SchedulerAssumption DEF Free
    <3>3. \A t \in Tasks : ~Carries(Free, t) BY <3>2, EmptyList DEF Carries
    <3>4. d \in DOMAIN calls' BY <2>3
    <3>5. d \in Waiting(w) => calls[d].op # "submit"
      BY <2>1, SchedulerAssumption DEF Waiting, CallOK
    <3> QED BY <2>1, <3>1, <3>2, <3>3, <3>4, <3>5
  <2> QED BY <2>2, <2>3 DEF Abandon
<1>3. CallsOK'
  <2>1. DOMAIN calls' = Calls BY DEF Abandon
  <2> QED BY <1>2, <2>1 DEF CallsOK
<1>4. Sent' BY <1>1, <1>2 DEF IInv, Sent, clientVars
<1>5. /\ loop \in [Workers -> Locations] /\ hand \in [Workers -> Tasks \cup {None}]
  BY DEF IInv, Types
<1>6. /\ loop'[w] # "handling"
      /\ \A v \in Workers \ {w} : loop'[v] = loop[v] /\ hand'[v] = hand[v]
  BY <1>1, <1>5
<1>7. WaitsOnce'
  <2>1. ASSUME NEW v \in Workers
        PROVE  /\ \A d \in Waiting(v)' : Awaits(loop'[v], calls'[d].op)
               /\ \A d, e \in Waiting(v)' : d = e
               /\ loop'[v] = "handling" => hand'[v] \in Tasks
    <3>1. CASE v = w
      <4>1. \A d \in Calls : calls'[d].from # w BY <1>2, SchedulerAssumption DEF Waiting
      <4> QED BY <1>6, <3>1, <4>1 DEF Waiting
    <3>2. CASE v # w
      <4>1. \A d \in Calls : calls'[d].from = v => d \notin Waiting(w) /\ calls'[d] = calls[d]
        BY <1>2, SchedulerAssumption DEF Waiting
      <4>2. \A d \in Waiting(v)' : d \in Waiting(v) /\ calls'[d] = calls[d]
        BY <4>1 DEF Waiting
      <4> QED BY <1>6, <3>2, <4>2 DEF IInv, WaitsOnce
    <3> QED BY <3>1, <3>2
  <2> QED BY <2>1 DEF WaitsOnce
<1>8. InOnePlace'
  <2>1. submitted' = submitted /\ pending' = pending BY <1>1 DEF queue, clientVars
  <2>2. \A t \in Tasks, v \in Workers :
           hand'[v] = t /\ loop'[v] = "handling" => hand[v] = t /\ loop[v] = "handling"
    BY <1>6
  <2> QED BY <1>1, <1>2, <2>1, <2>2, NothingGained DEF IInv
<1>9. OnceInList'
  <2>1. \A t \in Tasks, d \in Calls : Once(calls'[d].saved, t)
    BY <1>2, EmptyList DEF OnceInList, IInv
  <2>2. pending' = pending /\ completed' = completed BY <1>1 DEF queue, ledgers
  <2> QED BY <2>1, <2>2 DEF OnceInList, IInv
<1>10. Types'
  BY <1>1, <1>5 DEF IInv, Types, table, queue, ledgers, clientVars, Locations
<1>11. IInv' BY <1>3, <1>4, <1>7, <1>8, <1>9, <1>10 DEF IInv
<1>12. ASSUME NEW t \in Tasks PROVE Contract!Step(t)
  <2>1. /\ (Done(t)' <=> Done(t)) /\ (Abandoned(t)' <=> Abandoned(t)) /\ failed' = failed
        /\ submitted' = submitted /\ pending' = pending
    BY <1>1 DEF Done, Abandoned, queue, ledgers, clientVars
  <2>2. \A v \in Workers : hand'[v] = t /\ loop'[v] = "handling" =>
           hand[v] = t /\ loop[v] = "handling"
    BY <1>6
  <2>3. \A d \in Calls : CallPlace(calls[d]) = "new" => calls[d].op = "submit"
    BY DEF CallPlace
  <2>4. \A d \in Calls : Carries(calls[d], t) /\ CallPlace(calls[d]) = "new" =>
           Carries(calls'[d], t) /\ CallPlace(calls'[d]) = "new"
    BY <1>2, <2>3
  <2> QED BY <1>2, <1>11, <2>1, <2>2, <2>4, StaysInContract
<1> QED BY <1>11, <1>12 DEF Contract!Next

LEMMA TableStep ==
  ASSUME IInv, registered' \subseteq Workers, fresh' \subseteq Workers,
         UNCHANGED <<status, current, queue, ledgers, calls, workerVars, clientVars>>
  PROVE  IInv' /\ Contract!Next
<1>1. UNCHANGED <<pending, detached, completed, failed, loop, hand, submitted, accepted, calls>>
  BY DEF queue, ledgers, workerVars, clientVars
<1>2. Types' BY <1>1 DEF IInv, Types
<1>3. CallsOK' /\ Sent' /\ OnceInList' BY <1>1 DEF IInv, CallsOK, Sent, OnceInList
<1>4. WaitsOnce' BY <1>1 DEF IInv, WaitsOnce, Waiting
<1>5. InOnePlace' BY <1>1, NothingGained DEF IInv, ledgers
<1>6. IInv' BY <1>2, <1>3, <1>4, <1>5 DEF IInv
<1>7. ASSUME NEW t \in Tasks PROVE Contract!Step(t)
  BY <1>1, <1>6, StaysInContract DEF Done, Abandoned
<1> QED BY <1>6, <1>7 DEF Contract!Next

----------------------------------------------------------------------------
(* Every step.                                                             *)

LEMMA ServesKeep ==
  ASSUME IInv, NEW c \in Calls, Serve(c), UNCHANGED <<workerVars, clientVars>>
  PROVE  IInv' /\ Contract!Next
BY StoreStep, KnownStep, TouchStep, SnapshotStep, DeleteStep, FindStep, ScanStep, PopStep,
   AssignStep, AppendStep, BeginSortStep, EndSortStep, ReleaseStep, RecordStep, RequeueStep
   DEF Serve

LEMMA WorkerKeeps ==
  ASSUME IInv, NEW w \in Workers, WorkerStep(w) \/ Timeout(w) \/ Crash(w) \/ Elapse(w)
  PROVE  IInv' /\ Contract!Next
<1>1. CASE Register(w) BY <1>1, AskStep DEF Register, Awaits
<1>2. CASE Beat(w) BY <1>2, AskStep DEF Beat, Awaits
<1>3. CASE Poll(w) BY <1>3, AskStep DEF Poll, Awaits
<1>4. CASE Handle(w) BY <1>4, HandleStep
<1>5. CASE Timeout(w)
  <2>1. CASE loop[w] = "registering" BY <1>5, <2>1, AbandonStep DEF Timeout
  <2>2. CASE loop[w] # "registering" BY <1>5, <2>2, AbandonStep DEF Timeout
  <2> QED BY <2>1, <2>2
<1>6. CASE Crash(w) BY <1>6, AbandonStep DEF Crash
<1>7. CASE Elapse(w)
  <2>1. registered' = registered /\ fresh' \subseteq fresh BY <1>7 DEF Elapse
  <2>2. registered' \subseteq Workers /\ fresh' \subseteq Workers
    BY <2>1 DEF IInv, Types
  <2> QED BY <1>7, <2>2, TableStep DEF Elapse
<1> QED BY <1>1, <1>2, <1>3, <1>4, <1>5, <1>6, <1>7 DEF WorkerStep

LEMMA StepKeeps == IInv /\ [Next]_vars => IInv' /\ Contract!Next
<1> SUFFICES ASSUME IInv, [Next]_vars PROVE IInv' /\ Contract!Next OBVIOUS
<1>1. ASSUME NEW c \in Calls, CallStep(c) PROVE IInv' /\ Contract!Next
  BY <1>1, ServesKeep, ReceiveStep DEF CallStep
<1>2. ASSUME NEW t \in Tasks, Submit(t) PROVE IInv' /\ Contract!Next BY <1>2, SubmitStep
<1>3. CASE UNCHANGED vars
  <2>1. registered' \subseteq Workers /\ fresh' \subseteq Workers
    BY <1>3 DEF vars, serverVars, table, IInv, Types
  <2>2. UNCHANGED <<status, current, queue, ledgers, calls, workerVars, clientVars>>
    BY <1>3 DEF vars, serverVars, table
  <2> QED BY <2>1, <2>2, TableStep
<1> QED BY <1>1, <1>2, <1>3, WorkerKeeps DEF Next

LEMMA InitKeeps == Init => IInv
<1> SUFFICES ASSUME Init PROVE IInv OBVIOUS
<1>1. /\ registered = {} /\ fresh = {}
      /\ status = [w \in Workers |-> "idle"] /\ current = [w \in Workers |-> None]
      /\ pending = <<>> /\ detached = FALSE
      /\ completed = <<>> /\ failed = [t \in Tasks |-> 0]
      /\ calls = [c \in Calls |-> Free]
      /\ loop = [w \in Workers |-> "off"] /\ hand = [w \in Workers |-> None]
      /\ submitted = {} /\ accepted = {}
  BY DEF Init, ServerInit
<1>2. /\ CallOK(Free) /\ Free.op = "free" /\ Free.from = None /\ Free.saved = <<>>
  BY FreeOK, SchedulerAssumption DEF Free
<1>3. \A t \in Tasks : ~Carries(Free, t) BY <1>2, EmptyList DEF Carries
<1>4. Types
  <2>1. 0 \in 0..MaxRetries BY SchedulerAssumption
  <2>2. failed \in [Tasks -> 0..MaxRetries] BY <1>1, <2>1
  <2>3. pending \in Seq(Entries) /\ completed \in Seq(Tasks)
    <3>1. <<>> \in Seq(Entries) /\ <<>> \in Seq(Tasks) OBVIOUS
    <3>2. pending = <<>> /\ completed = <<>> BY <1>1
    <3> QED BY <3>1, <3>2
  <2>7. detached \in BOOLEAN BY <1>1
  <2>4. /\ status \in [Workers -> {"idle", "busy"}] /\ current \in [Workers -> Tasks \cup {None}]
        /\ hand \in [Workers -> Tasks \cup {None}]
    BY <1>1
  <2>5. loop \in [Workers -> Locations] BY <1>1 DEF Locations
  <2>6. /\ registered \subseteq Workers /\ fresh \subseteq Workers
        /\ accepted \subseteq submitted /\ submitted \subseteq Tasks
    BY <1>1
  <2> QED BY <2>2, <2>3, <2>4, <2>5, <2>6, <2>7 DEF Types
<1>5. CallsOK /\ Sent BY <1>1, <1>2 DEF CallsOK, Sent
<1>6. WaitsOnce
  <2>1. \A w \in Workers : Waiting(w) = {}
    BY <1>1, <1>2, SchedulerAssumption DEF Waiting
  <2> QED BY <1>1, <2>1 DEF WaitsOnce
<1>7. ASSUME NEW t \in Tasks PROVE InPlace(t) /\ Once(pending, t)
  <2>1. ~Listed(pending, t) /\ ~Done(t) /\ Once(pending, t) BY <1>1, EmptyList DEF Done
  <2>2. ~Abandoned(t) BY <1>1, SchedulerAssumption DEF Abandoned
  <2>3. \A k \in PlaceNames, x \in Holders : Has(t, k, x) => k = "new" /\ x = None
    BY <1>1, <1>3, <2>1, <2>2 DEF Has
  <2> QED BY <2>1, <2>3 DEF InPlace
<1>8. OnceInList BY <1>1, <1>2, <1>7, EmptyList DEF OnceInList
<1> QED BY <1>4, <1>5, <1>6, <1>7, <1>8 DEF IInv, InOnePlace

\* IInv holds in every state of a fleet, whatever workers, tasks, threads and
\* disturbances it has (TaskScheduler, server.py and RemoteWorker.run).
THEOREM Invariant == Spec => []IInv
BY InitKeeps, StepKeeps, PTL DEF Spec

----------------------------------------------------------------------------
(* What follows from it.                                                   *)

LEMMA OneOrNone ==
  ASSUME NEW S, \A x, y \in S : x = y
  PROVE  Cardinality(S) = IF S = {} THEN 0 ELSE 1
<1>1. CASE S = {} BY <1>1, FS_EmptySet
<1>2. CASE S # {}
  <2>1. PICK x : x \in S BY <1>2
  <2>2. S = {x} BY <2>1
  <2> QED BY <1>2, <2>2, FS_Singleton
<1> QED BY <1>1, <1>2

\* Every variable has the type the code gives it, and a worker waits for the
\* answer to at most one request.
THEOREM TypeCorrect == Spec => []TypeOK
<1>1. IInv => TypeOK
  <2> SUFFICES ASSUME IInv, NEW w \in Workers PROVE Cardinality(Waiting(w)) <= 1
    BY DEF IInv, Types, TypeOK
  <2>1. \A c, d \in Waiting(w) : c = d BY DEF IInv, WaitsOnce
  <2>2. Cardinality(Waiting(w)) = IF Waiting(w) = {} THEN 0 ELSE 1 BY <2>1, OneOrNone
  <2> QED BY <2>2
<1> QED BY <1>1, Invariant, PTL

\* Whatever requests overlap, are answered late, or are lost with the worker that
\* made them, a task is in at most one place of the coordinator and the workers,
\* and in none once it has settled; it settles once.
THEOREM OneCopy == Spec => []AtMostOneCopy
<1>1. ASSUME IInv, NEW t \in Tasks
      PROVE  Copies(t) <= (IF Done(t) \/ Abandoned(t) THEN 0 ELSE 1)
  <2> DEFINE A == Occurrences(pending, t)  B == Sorting(t)  C == Queueing(t)
             D == Assigning(t)  E == Reporting(t)  F == Handling(t)
  <2>1. InPlace(t) BY <1>1 DEF IInv, InOnePlace
  <2>2. /\ "list" \in PlaceNames /\ "call" \in PlaceNames /\ "hand" \in PlaceNames
        /\ "done" \in PlaceNames /\ "abandoned" \in PlaceNames
        /\ None \in Holders /\ Calls \subseteq Holders /\ Workers \subseteq Holders
    BY DEF PlaceNames, Holders
  <2>3. /\ A # {} => Has(t, "list", None)
        /\ \A c \in B \cup C \cup D \cup E : Has(t, "call", c)
        /\ \A w \in F : Has(t, "hand", w)
        /\ Done(t) => Has(t, "done", None)
        /\ Abandoned(t) => Has(t, "abandoned", None)
    <3>1. B \cup C \cup D \cup E \subseteq Calls /\ F \subseteq Workers
      BY DEF Sorting, Queueing, Assigning, Reporting, Handling
    <3>2. \A c \in B \cup C \cup D \cup E : Carries(calls[c], t) BY <1>1, <3>1, Members
    <3>3. A # {} => Listed(pending, t) BY <1>1, Members
    <3>4. \A w \in F : hand[w] = t /\ loop[w] = "handling" BY DEF Handling
    <3> HIDE DEF A, B, C, D, E, F
    <3> QED BY <3>1, <3>2, <3>3, <3>4 DEF Has
  <2>4. \A c \in Calls : c \in B => calls[c].op = "submit" BY <1>1, Members
  <2>5. \A c \in Calls : c \in C => calls[c].op = "complete" /\ calls[c].at = "requeue"
    BY <1>1, Members
  <2>6. \A c \in Calls : c \in D => calls[c].op = "poll" BY <1>1, Members
  <2>7. \A c \in Calls : c \in E => calls[c].op = "complete" /\ calls[c].at # "requeue"
    BY <1>1, Members
  <2>8. /\ B \subseteq Calls /\ C \subseteq Calls /\ D \subseteq Calls /\ E \subseteq Calls
        /\ F \subseteq Workers
    BY DEF Sorting, Queueing, Assigning, Reporting, Handling
  <2>9. \A i, j \in A : i = j BY <1>1 DEF IInv, OnceInList, Once, Occurrences
  <2> DEFINE one(S) == IF S = {} THEN 0 ELSE 1
  <2>10. Copies(t) = Cardinality(A) + Cardinality(B) + Cardinality(C) + Cardinality(D)
                     + Cardinality(E) + Cardinality(F)
    BY DEF Copies
  <2> HIDE DEF A, B, C, D, E, F
  <2>11. \A k, l \in PlaceNames, x, y \in Holders :
            Has(t, k, x) /\ Has(t, l, y) => k = l /\ x = y
    BY <2>1 DEF InPlace
  <2>12. \A c, d \in B \cup C \cup D \cup E : c = d BY <2>2, <2>3, <2>8, <2>11
  <2>13. \A v, w \in F : v = w BY <2>2, <2>3, <2>8, <2>11
  <2>14. /\ Cardinality(A) = one(A) /\ Cardinality(B) = one(B) /\ Cardinality(C) = one(C)
         /\ Cardinality(D) = one(D) /\ Cardinality(E) = one(E) /\ Cardinality(F) = one(F)
    BY <2>9, <2>12, <2>13, OneOrNone
  <2>15. /\ (B # {} => C = {} /\ D = {} /\ E = {}) /\ (C # {} => D = {} /\ E = {})
         /\ (D # {} => E = {})
    BY <2>4, <2>5, <2>6, <2>7, <2>8, <2>12
  <2>16. /\ A # {} => B \cup C \cup D \cup E = {} /\ F = {}
         /\ F # {} => B \cup C \cup D \cup E = {}
    <3>1. A # {} => \A c \in B \cup C \cup D \cup E : FALSE BY <2>2, <2>3, <2>8, <2>11
    <3>2. A # {} => \A w \in F : FALSE BY <2>2, <2>3, <2>8, <2>11
    <3>3. \A w \in F : \A c \in B \cup C \cup D \cup E : FALSE
      BY <2>2, <2>3, <2>8, <2>11
    <3> QED BY <3>1, <3>2, <3>3
  <2>17. Done(t) \/ Abandoned(t) => A = {} /\ B \cup C \cup D \cup E = {} /\ F = {}
    <3>1. PICK k \in {"done", "abandoned"} : Done(t) \/ Abandoned(t) => Has(t, k, None)
      BY <2>3
    <3>2. Done(t) \/ Abandoned(t) => A = {} BY <2>2, <2>3, <2>11, <3>1
    <3>3. Done(t) \/ Abandoned(t) => \A c \in B \cup C \cup D \cup E : FALSE
      BY <2>2, <2>3, <2>8, <2>11, <3>1
    <3>4. Done(t) \/ Abandoned(t) => \A w \in F : FALSE BY <2>2, <2>3, <2>8, <2>11, <3>1
    <3> QED BY <3>2, <3>3, <3>4
  <2>18. /\ A # {} => B = {} /\ C = {} /\ D = {} /\ E = {} /\ F = {}
         /\ F # {} => B = {} /\ C = {} /\ D = {} /\ E = {}
         /\ Done(t) \/ Abandoned(t) =>
               A = {} /\ B = {} /\ C = {} /\ D = {} /\ E = {} /\ F = {}
    BY <2>16, <2>17
  <2>19. /\ one(A) + one(B) + one(C) + one(D) + one(E) + one(F) <= 1
         /\ Done(t) \/ Abandoned(t) =>
              one(A) + one(B) + one(C) + one(D) + one(E) + one(F) <= 0
    BY <2>15, <2>18
  <2> QED BY <2>10, <2>14, <2>19
<1>2. ASSUME IInv, NEW t \in Tasks
      PROVE  Cardinality({i \in 1..Len(completed) : completed[i] = t}) <= 1
  <2> DEFINE S == {i \in 1..Len(completed) : completed[i] = t}
  <2>1. \A i, j \in S : i = j BY <1>2 DEF IInv, OnceInList
  <2> HIDE DEF S
  <2>2. Cardinality(S) = IF S = {} THEN 0 ELSE 1 BY <2>1, OneOrNone
  <2>3. Cardinality(S) <= 1 BY <2>2
  <2> QED BY <2>3 DEF S
<1>3. IInv => AtMostOneCopy BY <1>1, <1>2 DEF AtMostOneCopy
<1> QED BY <1>3, Invariant, PTL

\* The coordinator and its workers implement TaskContract: each failure of a
\* handler is one try, a task is abandoned at MaxRetries failures, and one that
\* has settled or was lost never comes back.
THEOREM Refinement == Spec => KeepsTaskContract
<1>1. Init => Contract!Init
  <2> SUFFICES ASSUME Init PROVE Contract!Init OBVIOUS
  <2>1. IInv /\ submitted = {} /\ failed = [t \in Tasks |-> 0]
    BY InitKeeps DEF Init, ServerInit
  <2>2. \A t \in Tasks : Place(t) = "new" BY <2>1, PlacesAre DEF PlacesRight
  <2> QED BY <2>1, <2>2 DEF Contract!Init
<1>2. IInv /\ [Next]_vars => Contract!Next BY StepKeeps
<1> QED BY <1>1, <1>2, Invariant, PTL DEF Spec, KeepsTaskContract, Contract!Spec

----------------------------------------------------------------------------
(* One serving thread, for TasksAccounted.                                 *)

\* What one thread makes of a request: who made it waits for it, a worker that
\* is found in the table stays there, a poll that takes a task brings it, and
\* nothing is added to a list that is being sorted.
Sound(call, known, list) ==
    /\ call.op \notin {"free", "submit"} =>
         call.from # None /\ (call.at # "answer" => call.by = call.from)
    /\ call.op = "poll" /\ call.task # None =>
         call.at = "assign" \/ (call.at = "answer" /\ call.ok)
    /\ call.at = "sorting" => list = <<>>
    /\ call.at = "touch" => call.by \in known
    /\ call.bound => call.at \in {"scan", "pop", "assign"} /\ call.by \in known

AllSound == \A c \in Calls : Sound(calls[c], registered, pending)

OneServed == \A c, d \in Served : c = d

Present(t) ==
    \/ t \notin submitted
    \/ \E c \in Calls : Carries(calls[c], t)
    \/ \E w \in Workers : hand[w] = t /\ loop[w] = "handling"
    \/ Listed(pending, t) \/ Done(t) \/ Abandoned(t)

NothingLost == \A t \in Tasks : Present(t)

\* The request brings t to w, or its result from w to the table.
Brings(call, w, t) ==
    /\ call.from = w /\ call.task = t
    /\ call.op = "poll" \/ (call.op = "complete" /\ call.at \in {"sent", "touch"})

HasTask(w, t) ==
    \/ loop[w] = "handling" /\ hand[w] = t
    \/ \E c \in Calls : Brings(calls[c], w, t)

TableTrue ==
    \A w \in Workers, t \in Tasks :
        current[w] = t => w \in registered /\ status[w] = "busy" /\ HasTask(w, t)

SerialInv == IInv /\ OneServed /\ AllSound /\ NothingLost /\ TableTrue

LEMMA AnsweredIs ==
  ASSUME NEW call, NEW ok \in BOOLEAN, NEW known, NEW list, NEW known2, NEW list2,
         SchedulerAssumption, CallOK(call), call.op # "free", Sound(call, known, list),
         call.op = "poll" /\ call.task # None => ok
  PROVE  Sound(Answered(call, ok), known2, list2)
<1> DEFINE r == Answered(call, ok)
<1>1. r.op = call.op /\ r.at = "answer" /\ r.from = call.from /\ r.task = call.task
  BY AnsweredOK
<1>2. r.ok = ok /\ r.bound = FALSE BY DEF Answered, Free
<1> HIDE DEF r
<1>3. Sound(r, known2, list2) BY <1>1, <1>2 DEF Sound
<1> QED BY <1>3 DEF r

\* A statement of an endpoint changes the request it serves.
LEMMA ServesOne ==
  ASSUME IInv, IInv', NEW c \in Calls, Serve(c)
  PROVE  OneCall(c)
<1>1. DOMAIN calls' = Calls /\ CallOK(calls'[c]) /\ DOMAIN calls = Calls
  BY DEF IInv, CallsOK
<1>2. ASSUME NEW new, calls' = [calls EXCEPT ![c] = new] PROVE OneCall(c)
  BY <1>1, <1>2 DEF OneCall
<1>3. ASSUME NEW w, NEW new, calls' = [Unbound(w) EXCEPT ![c] = new] PROVE OneCall(c)
  BY <1>1, <1>3 DEF OneCall, Unbound
<1>4. ASSUME NEW at, Goto(c, at) PROVE OneCall(c) BY <1>1, <1>4 DEF Goto, OneCall
<1>5. ASSUME NEW ok, Answer(c, ok) PROVE OneCall(c) BY <1>1, <1>5 DEF Answer, OneCall
<1>6. CASE Store(c) BY <1>1, <1>6 DEF Store, OneCall, Unbound
<1>7. CASE Known(c) \/ Release(c) \/ TouchHeartbeat(c)
  BY <1>4, <1>5, <1>7 DEF Known, UnknownWorker, Release, TouchHeartbeat
<1>8. CASE Delete(c)
  <2>1. PICK w : \/ calls' = [Unbound(w) EXCEPT
                        ![c] = Pruned([@ EXCEPT !.stale = calls[c].stale \ {w}])]
                 \/ Answer(c, FALSE)
    BY <1>8 DEF Delete
  <2> QED BY <1>1, <1>5, <2>1 DEF OneCall, Unbound
<1>9. CASE Snapshot(c) \/ Find(c) \/ Scan(c) \/ Pop(c)
  BY <1>1, <1>4, <1>5, <1>9 DEF Snapshot, Find, Scan, Pop, OneCall
<1>10. CASE Assign(c) \/ Requeue(c) BY <1>5, <1>10 DEF Assign, Requeue
<1>11. CASE AppendTask(c) \/ BeginSort(c) \/ EndSort(c)
  BY <1>1, <1>4, <1>5, <1>11 DEF AppendTask, BeginSort, EndSort, OneCall
<1>12. CASE Record(c) BY <1>4, <1>5, <1>12 DEF Record
<1> QED BY <1>6, <1>7, <1>8, <1>9, <1>10, <1>11, <1>12 DEF Serve

\* While the only thread serves c, all other requests are sent or answered.
LEMMA OthersRest ==
  ASSUME SerialInv, PoolSize = 1, NEW c \in Calls, Serve(c)
  PROVE  \A d \in Calls \ {c} : calls[d].at \in {"sent", "answer"}
<1>1. \A d \in Calls \ Served : calls[d].at \in {"sent", "answer"}
  <2> SUFFICES ASSUME NEW d \in Calls \ Served PROVE calls[d].at \in {"sent", "answer"}
    OBVIOUS
  <2>1. calls[d].op = "free" => calls[d].at = "sent"
    BY DEF SerialInv, IInv, CallsOK, CallOK, Stages
  <2> QED BY <2>1 DEF Served
<1>2. Cardinality(Served) < PoolSize => Served = {}
  <2> SUFFICES ASSUME NEW d \in Served, Cardinality(Served) < PoolSize PROVE FALSE
    OBVIOUS
  <2>1. Cardinality(Served) = 1 BY OneOrNone DEF SerialInv, OneServed
  <2> QED BY <2>1
<1>3. calls[c].at \notin {"sent", "answer"} => c \in Served
  <2>1. calls[c].op = "free" => calls[c].at = "sent"
    BY DEF SerialInv, IInv, CallsOK, CallOK, Stages
  <2> QED BY <2>1 DEF Served
<1>4. Served \subseteq {c}
  <2>1. CASE Store(c) \/ Known(c) \/ Snapshot(c) \/ AppendTask(c)
    BY <1>2, <2>1 DEF Store, Known, Snapshot, AppendTask, Arrives
  <2>2. CASE \/ TouchHeartbeat(c) \/ Delete(c) \/ Find(c) \/ Scan(c) \/ Pop(c) \/ Assign(c)
             \/ BeginSort(c) \/ EndSort(c) \/ Release(c) \/ Record(c) \/ Requeue(c)
    <3>1. calls[c].at \notin {"sent", "answer"}
      BY <2>2 DEF TouchHeartbeat, Delete, Find, Scan, Pop, Assign, BeginSort, EndSort,
                  Release, Record, Requeue, At
    <3> QED BY <1>3, <3>1 DEF SerialInv, OneServed
  <2> QED BY <2>1, <2>2 DEF Serve
<1> QED BY <1>1, <1>4

\* What a statement that serves c does to keep SerialInv.
Serial(c) ==
    /\ Sound(calls'[c], registered', pending')
    /\ \A t \in Tasks :
         /\ Done(t) => Done(t)'
         /\ Abandoned(t) => Abandoned(t)'
         /\ Listed(pending, t) \/ Carries(calls[c], t) =>
              Listed(pending', t) \/ Carries(calls'[c], t) \/ Done(t)' \/ Abandoned(t)'
    /\ \A w \in Workers, t \in Tasks :
         current'[w] = t =>
           /\ w \in registered' /\ status'[w] = "busy"
           /\ Brings(calls'[c], w, t) \/ (current[w] = t /\ ~Brings(calls[c], w, t))

LEMMA SerialKeeps ==
  ASSUME SerialInv, IInv', PoolSize = 1, NEW c \in Calls, Serve(c), Serial(c),
         UNCHANGED <<workerVars, clientVars>>
  PROVE  SerialInv'
<1>1. OneCall(c) /\ \A d \in Calls \ {c} : calls[d].at \in {"sent", "answer"}
  BY OthersRest, ServesOne DEF SerialInv
<1>2. loop' = loop /\ hand' = hand /\ submitted' = submitted
  BY DEF workerVars, clientVars
<1>3. ASSUME NEW d \in Calls \ {c}
      PROVE  /\ calls'[d] = calls[d]
             /\ Sound(calls'[d], registered', pending')
  <2>1. Sound(calls[d], registered, pending) /\ calls[d].at \in {"sent", "answer"}
    BY <1>1 DEF SerialInv, AllSound
  <2>2. calls[d] \in CallRecords BY DEF SerialInv, IInv, CallsOK, CallOK
  <2>3. calls[d].bound = FALSE BY <2>1, <2>2 DEF Sound, CallRecords
  <2>4. [calls[d] EXCEPT !.bound = FALSE] = calls[d] BY <2>2, <2>3 DEF CallRecords
  <2>5. calls'[d] = calls[d] BY <1>1, <2>4 DEF OneCall
  <2> QED BY <2>1, <2>5 DEF Sound
<1>4. OneServed'
  <2>1. \A d \in Calls \ {c} : d \notin Served' BY <1>1, <1>3 DEF Served
  <2> QED BY <2>1 DEF OneServed, Served
<1>5. AllSound' BY <1>3 DEF AllSound, Serial
<1>6. ASSUME NEW t \in Tasks PROVE Present(t)'
  <2>1. Present(t) BY DEF SerialInv, NothingLost
  <2>2. CASE \E d \in Calls \ {c} : Carries(calls[d], t) BY <1>3, <2>2 DEF Present
  <2>3. CASE Listed(pending, t) \/ Carries(calls[c], t) BY <2>3 DEF Serial, Present
  <2>4. CASE \/ t \notin submitted \/ Done(t) \/ Abandoned(t)
             \/ \E w \in Workers : hand[w] = t /\ loop[w] = "handling"
    BY <1>2, <2>4 DEF Serial, Present
  <2> QED BY <2>1, <2>2, <2>3, <2>4 DEF Present
<1>7. TableTrue'
  <2> SUFFICES ASSUME NEW w \in Workers, NEW t \in Tasks, current'[w] = t
               PROVE  w \in registered' /\ status'[w] = "busy" /\ HasTask(w, t)'
    BY DEF TableTrue
  <2>1. w \in registered' /\ status'[w] = "busy" BY DEF Serial
  <2>2. CASE Brings(calls'[c], w, t) BY <2>1, <2>2 DEF HasTask
  <2>3. CASE current[w] = t /\ ~Brings(calls[c], w, t)
    <3>1. HasTask(w, t) BY <2>3 DEF SerialInv, TableTrue
    <3>2. HasTask(w, t)' BY <1>2, <1>3, <2>3, <3>1 DEF HasTask
    <3> QED BY <2>1, <3>2
  <2> QED BY <2>2, <2>3 DEF Serial
<1> QED BY <1>4, <1>5, <1>6, <1>7 DEF SerialInv, NothingLost

\* The statement moves no task into a list or out of it.
LEMMA SerialQuiet ==
  ASSUME SerialInv, NEW c \in Calls, Sound(calls'[c], registered', pending'),
         UNCHANGED <<queue, ledgers>>,
         \A t \in Tasks : Carries(calls[c], t) => Carries(calls'[c], t),
         \A w \in Workers, t \in Tasks :
           current'[w] = t =>
             /\ w \in registered' /\ status'[w] = "busy"
             /\ Brings(calls'[c], w, t) \/ (current[w] = t /\ ~Brings(calls[c], w, t))
  PROVE  Serial(c)
<1>1. \A t \in Tasks : (Done(t)' <=> Done(t)) /\ (Abandoned(t)' <=> Abandoned(t))
  BY DEF ledgers, Done, Abandoned
<1>2. pending' = pending BY DEF queue
<1> QED BY <1>1, <1>2 DEF Serial

\* Nor does it change the table.
LEMMA SerialSame ==
  ASSUME SerialInv, NEW c \in Calls, Sound(calls'[c], registered', pending'),
         UNCHANGED <<table, queue, ledgers>>,
         \A t \in Tasks : Carries(calls[c], t) => Carries(calls'[c], t),
         \A w \in registered, t \in Tasks : Brings(calls[c], w, t) => Brings(calls'[c], w, t)
  PROVE  Serial(c)
<1>1. /\ registered' = registered /\ status' = status /\ current' = current
      /\ UNCHANGED <<queue, ledgers>>
  BY DEF table
<1>2. \A w \in Workers, t \in Tasks :
        current'[w] = t =>
          /\ w \in registered' /\ status'[w] = "busy"
          /\ Brings(calls'[c], w, t) \/ (current[w] = t /\ ~Brings(calls[c], w, t))
  BY <1>1 DEF SerialInv, TableTrue
<1> QED BY <1>1, <1>2, SerialQuiet

LEMMA SerialCall ==
  ASSUME SerialInv, NEW c \in Calls
  PROVE  /\ IInv /\ CallOK(calls[c]) /\ DOMAIN calls = Calls
         /\ calls[c] \in CallRecords /\ calls[c].at \in Stages(calls[c].op)
         /\ Sound(calls[c], registered, pending)
         /\ calls[c].op \notin {"free", "submit"} => calls[c].from \in Workers
BY DEF SerialInv, IInv, CallsOK, CallOK, CallRecords, AllSound, Sound

\* What a request with this operation carries and brings.
LEMMA CarriesByOp ==
  ASSUME NEW call, CallOK(call), NEW t \in Tasks
  PROVE  /\ call.op \in {"register", "heartbeat"} => ~Carries(call, t)
         /\ call.op = "poll" => (Carries(call, t) <=> call.task = t)
         /\ call.op = "complete" => (Carries(call, t) <=> call.task = t /\ call.at # "answer")
         /\ call.op = "submit" /\ call.at \notin {"sent", "sorting"} => ~Carries(call, t)
         /\ \A w : call.op = "poll" => (Brings(call, w, t) <=> call.from = w /\ call.task = t)
         /\ \A w : call.op \in {"free", "register", "heartbeat", "submit"} => ~Brings(call, w, t)
<1>1. Listed(call.saved, t) => call.op = "submit" /\ call.at = "sorting"
  <2>1. call.at # "sorting" => ~Listed(call.saved, t) BY EmptyList DEF CallOK
  <2> QED BY <2>1, OpOfStage
<1> QED BY <1>1 DEF Carries, Brings

LEMMA SerialAnswer ==
  ASSUME SerialInv, NEW c \in Calls, calls[c].op # "free", NEW ok \in BOOLEAN, Answer(c, ok),
         calls[c].op = "poll" /\ calls[c].task # None => ok
  PROVE  /\ Sound(calls'[c], registered', pending') /\ CallOK(calls'[c])
         /\ calls'[c].op = calls[c].op /\ calls'[c].at = "answer"
         /\ calls'[c].from = calls[c].from /\ calls'[c].task = calls[c].task
<1>1. CallOK(calls[c]) /\ Sound(calls[c], registered, pending) /\ DOMAIN calls = Calls
  BY SerialCall
<1> DEFINE new == Answered(calls[c], ok)
<1>2. Sound(new, registered', pending') BY <1>1, AnsweredIs, SchedulerAssumption
<1>3. /\ CallOK(new) /\ new.op = calls[c].op /\ new.at = "answer"
      /\ new.from = calls[c].from /\ new.task = calls[c].task
  BY <1>1, AnsweredOK, SchedulerAssumption
<1>4. calls'[c] = new BY <1>1 DEF Answer
<1> QED BY <1>2, <1>3, <1>4

\* An answer that leaves the table and the tasks as they are.
LEMMA SerialAnswered ==
  ASSUME SerialInv, NEW c \in Calls, calls[c].op \in {"register", "heartbeat", "poll"},
         NEW ok \in BOOLEAN, Answer(c, ok), calls[c].op = "poll" /\ calls[c].task # None => ok,
         UNCHANGED <<table, queue, ledgers>>
  PROVE  Serial(c)
<1>1. /\ Sound(calls'[c], registered', pending') /\ CallOK(calls'[c]) /\ CallOK(calls[c])
      /\ calls'[c].op = calls[c].op
      /\ calls'[c].from = calls[c].from /\ calls'[c].task = calls[c].task
  BY SerialAnswer, SerialCall
<1>2. \A t \in Tasks : Carries(calls[c], t) => Carries(calls'[c], t)
  BY <1>1, CarriesByOp
<1>3. \A w \in registered, t \in Tasks : Brings(calls[c], w, t) => Brings(calls'[c], w, t)
  BY <1>1, CarriesByOp
<1> QED BY <1>1, <1>2, <1>3, SerialSame

LEMMA SerialStore ==
  ASSUME SerialInv, NEW c \in Calls, Store(c)
  PROVE  Serial(c)
<1> DEFINE w == calls[c].by  u == Unbound(w)[c]
<1>1. /\ calls[c].op = "register" /\ CallOK(calls[c]) /\ DOMAIN calls = Calls
      /\ Sound(calls[c], registered, pending) /\ calls[c] \in CallRecords
  BY SerialCall DEF Store, Arrives, At
<1>2. u = [calls[c] EXCEPT !.bound = FALSE] BY DEF Unbound
<1> HIDE DEF u
<1>3. CallOK(u) /\ u.op = "register" BY <1>1, <1>2, UnboundOK DEF Alike
<1>4. Sound(u, registered, pending) BY <1>1, <1>2 DEF Sound, CallRecords
<1>5. PICK ok \in BOOLEAN : ok = TRUE OBVIOUS
<1>6. calls'[c] = Answered(u, ok) BY <1>1, <1>5 DEF Store, Unbound, u
<1>7. Sound(calls'[c], registered', pending')
  BY <1>3, <1>4, <1>6, AnsweredIs, SchedulerAssumption
<1>8. \A t \in Tasks : ~Carries(calls[c], t) /\ \A v : ~Brings(calls[c], v, t)
  BY <1>1, CarriesByOp
<1>9. /\ registered' = registered \cup {w} /\ status' = [status EXCEPT ![w] = "idle"]
      /\ current' = [current EXCEPT ![w] = None] /\ UNCHANGED <<queue, ledgers>>
  BY DEF Store
<1>10. ASSUME NEW v \in Workers, NEW t \in Tasks, current'[v] = t
       PROVE  v \in registered' /\ status'[v] = "busy" /\ current[v] = t
  <2>1. /\ status \in [Workers -> {"idle", "busy"}]
        /\ current \in [Workers -> Tasks \cup {None}]
    BY DEF SerialInv, IInv, Types
  <2>2. v # w /\ current[v] = t BY <1>9, <1>10, <2>1, SchedulerAssumption
  <2> QED BY <1>9, <2>1, <2>2 DEF SerialInv, TableTrue
<1> QED BY <1>7, <1>8, <1>9, <1>10, SerialQuiet

\* A thread that goes on with a poll, or with a heartbeat or result of a worker
\* in the table.
LEMMA GoneOn ==
  ASSUME NEW call, CallOK(call), NEW known, NEW list, Sound(call, known, list),
         NEW at \in Stages(call.op),
         call.op \in {"heartbeat", "poll", "complete"},
         at \notin {"sent", "answer", "assign", "sorting"},
         at = "touch" => call.by \in known,
         call.bound => at \in {"scan", "pop"},
         call.op = "poll" => call.task = None,
         call.at \notin {"sorting", "answer"}
  PROVE  /\ Sound([call EXCEPT !.at = at], known, list) /\ CallOK([call EXCEPT !.at = at])
         /\ [call EXCEPT !.at = at].op = call.op /\ [call EXCEPT !.at = at].at = at
         /\ [call EXCEPT !.at = at].from = call.from /\ [call EXCEPT !.at = at].task = call.task
<1> DEFINE new == [call EXCEPT !.at = at]
<1>1. /\ CallOK(new) /\ new.op = call.op /\ new.at = at /\ new.from = call.from
      /\ new.task = call.task
  BY MovedOK DEF Ops
<1>2. new.by = call.by /\ new.bound = call.bound BY DEF CallOK, CallRecords
<1> HIDE DEF new
<1>3. Sound(new, known, list) BY <1>1, <1>2 DEF Sound
<1> QED BY <1>1, <1>3 DEF new

LEMMA SerialGoto ==
  ASSUME SerialInv, NEW c \in Calls, NEW at \in Stages(calls[c].op), Goto(c, at),
         calls[c].op \in {"heartbeat", "poll", "complete"},
         at \notin {"sent", "answer", "assign", "sorting"},
         at = "touch" => calls[c].by \in registered,
         calls[c].bound => at \in {"scan", "pop"},
         calls[c].op = "poll" => calls[c].task = None,
         calls[c].at \notin {"sorting", "answer"}
  PROVE  /\ Sound(calls'[c], registered, pending) /\ CallOK(calls'[c])
         /\ calls'[c].op = calls[c].op /\ calls'[c].at = at
         /\ calls'[c].from = calls[c].from /\ calls'[c].task = calls[c].task
<1>1. CallOK(calls[c]) /\ Sound(calls[c], registered, pending) /\ DOMAIN calls = Calls
  BY SerialCall
<1>2. calls'[c] = [calls[c] EXCEPT !.at = at] BY <1>1 DEF Goto
<1> DEFINE new == [calls[c] EXCEPT !.at = at]
<1>3. /\ Sound(new, registered, pending) /\ CallOK(new)
      /\ new.op = calls[c].op /\ new.at = at
      /\ new.from = calls[c].from /\ new.task = calls[c].task
  BY <1>1, GoneOn
<1> QED BY <1>2, <1>3

LEMMA SerialKnown ==
  ASSUME SerialInv, NEW c \in Calls, Known(c)
  PROVE  Serial(c)
<1>1. /\ calls[c].op \in {"heartbeat", "complete"} /\ calls[c].at = "sent"
      /\ UNCHANGED <<table, queue, ledgers>>
  BY DEF Known, Arrives, At
<1>2. /\ CallOK(calls[c]) /\ Sound(calls[c], registered, pending)
      /\ ~calls[c].bound /\ calls[c].by = calls[c].from
  BY <1>1, SerialCall DEF Sound
<1>3. registered' = registered /\ pending' = pending BY <1>1 DEF table, queue
<1>4. ASSUME NEW at \in {"touch", "record"}, Goto(c, at),
             at = "touch" => calls[c].by \in registered,
             at = "record" => calls[c].op = "complete" /\ calls[c].by \notin registered
      PROVE  Serial(c)
  <2>1. at \in Stages(calls[c].op) BY <1>1, <1>4 DEF Stages
  <2>2. /\ Sound(calls'[c], registered, pending) /\ CallOK(calls'[c])
        /\ calls'[c].op = calls[c].op /\ calls'[c].at = at
        /\ calls'[c].from = calls[c].from /\ calls'[c].task = calls[c].task
    BY <1>1, <1>2, <1>4, <2>1, SerialGoto
  <2>3. \A t \in Tasks : Carries(calls[c], t) => Carries(calls'[c], t)
    BY <1>1, <1>2, <1>4, <2>2, CarriesByOp
  <2>4. \A w \in registered, t \in Tasks : Brings(calls[c], w, t) => Brings(calls'[c], w, t)
    BY <1>1, <1>2, <1>4, <2>2 DEF Brings
  <2> QED BY <1>1, <1>3, <2>2, <2>3, <2>4, SerialSame
<1>5. CASE calls[c].by \in registered
  <2>1. Goto(c, "touch") BY <1>5 DEF Known
  <2> QED BY <1>4, <1>5, <2>1
<1>6. CASE calls[c].by \notin registered /\ calls[c].op = "complete"
  <2>1. Goto(c, "record") BY <1>6 DEF Known, UnknownWorker
  <2> QED BY <1>4, <1>6, <2>1
<1>7. CASE calls[c].by \notin registered /\ calls[c].op = "heartbeat"
  <2>1. PICK ok \in BOOLEAN : ok = TRUE OBVIOUS
  <2>2. Answer(c, ok) BY <1>7, <2>1 DEF Known, UnknownWorker
  <2> QED BY <1>1, <1>7, <2>2, SerialAnswered
<1> QED BY <1>1, <1>5, <1>6, <1>7

\* A worker that asks for something else has no task.
LEMMA AskerHasNone ==
  ASSUME SerialInv, NEW c \in Calls, NEW w \in Workers, calls[c].from = w,
         calls[c].op \in {"register", "heartbeat"}
  PROVE  current[w] = None
<1>1. Awaits(loop[w], calls[c].op) /\ \A d \in Waiting(w) : d = c
  BY DEF SerialInv, IInv, WaitsOnce, Waiting
<1>2. loop[w] # "handling" BY <1>1 DEF Awaits
<1>3. \A t \in Tasks : ~HasTask(w, t)
  <2> SUFFICES ASSUME NEW t \in Tasks, HasTask(w, t) PROVE FALSE OBVIOUS
  <2>1. PICK d \in Calls : Brings(calls[d], w, t) BY <1>2 DEF HasTask
  <2>2. d = c BY <1>1, <2>1 DEF Brings, Waiting
  <2> QED BY <2>1, <2>2 DEF Brings
<1>4. current[w] \in Tasks \cup {None} BY DEF SerialInv, IInv, Types
<1> QED BY <1>3, <1>4 DEF SerialInv, TableTrue

LEMMA SerialTouch ==
  ASSUME SerialInv, NEW c \in Calls, TouchHeartbeat(c)
  PROVE  Serial(c)
<1> DEFINE w == calls[c].by
<1>1. /\ calls[c].op = "heartbeat" /\ calls[c].at = "touch"
      /\ UNCHANGED <<registered, current, queue, ledgers>>
  BY DEF TouchHeartbeat, At
<1>2. /\ CallOK(calls[c]) /\ w \in registered /\ calls[c].from = w /\ w \in Workers
  BY <1>1, SerialCall DEF Sound
<1>3. PICK ok \in BOOLEAN : ok = TRUE OBVIOUS
<1>4. Answer(c, ok) /\ status' = [status EXCEPT ![w] = "idle"]
  BY <1>2, <1>3 DEF TouchHeartbeat
<1>5. /\ Sound(calls'[c], registered', pending') /\ CallOK(calls'[c])
  BY <1>1, <1>4, SerialAnswer
<1>6. \A t \in Tasks : ~Carries(calls[c], t) /\ \A v : ~Brings(calls[c], v, t)
  BY <1>1, <1>2, CarriesByOp
<1>7. current[w] = None BY <1>1, <1>2, AskerHasNone
<1>8. status \in [Workers -> {"idle", "busy"}] BY DEF SerialInv, IInv, Types
<1> HIDE DEF w
<1>9. ASSUME NEW v \in Workers, NEW t \in Tasks, current'[v] = t
      PROVE  v \in registered' /\ status'[v] = "busy" /\ current[v] = t
  BY <1>1, <1>4, <1>7, <1>8, <1>9, SchedulerAssumption DEF SerialInv, TableTrue
<1> QED BY <1>1, <1>5, <1>6, <1>9, SerialQuiet

\* A poll that goes on without a task.
LEMMA SerialPoll ==
  ASSUME SerialInv, NEW c \in Calls, calls[c].op = "poll", calls[c].task = None,
         Sound(calls'[c], registered', pending'), UNCHANGED <<table, queue, ledgers>>
  PROVE  Serial(c)
<1>1. CallOK(calls[c]) BY SerialCall
<1>2. \A t \in Tasks : ~Carries(calls[c], t) /\ \A w : ~Brings(calls[c], w, t)
  BY <1>1, CarriesByOp, SchedulerAssumption
<1> QED BY <1>2, SerialSame

LEMMA PrunedSound ==
  ASSUME NEW call, call \in CallRecords, NEW S, NEW known, NEW list,
         Sound(call, known, list), call.op = "poll", call.task = None, call.at # "answer",
         ~call.bound, NEW known2, NEW list2
  PROVE  Sound(Pruned([call EXCEPT !.stale = S]), known2, list2)
<1> DEFINE one == [call EXCEPT !.stale = S]
           at == IF S # {} THEN "delete" ELSE "find"
           new == [one EXCEPT !.at = at]
<1>1. /\ one.op = "poll" /\ one.from = call.from /\ one.by = call.by /\ one.task = None
      /\ one.bound = call.bound /\ DOMAIN one = DOMAIN call /\ one.stale = S
  BY DEF CallRecords
<1>2. Pruned(one) = new BY <1>1 DEF Pruned
<1>3. at \notin {"answer", "sorting", "touch"} OBVIOUS
<1> HIDE DEF one, at
<1>4. /\ new.op = "poll" /\ new.from = call.from /\ new.by = call.by /\ new.task = None
      /\ new.bound = call.bound /\ new.at = at
  BY <1>1 DEF CallRecords
<1> HIDE DEF new
<1>5. Sound(new, known2, list2) BY <1>3, <1>4 DEF Sound
<1> QED BY <1>2, <1>5 DEF one

LEMMA SerialSnapshot ==
  ASSUME SerialInv, NEW c \in Calls, Snapshot(c)
  PROVE  Serial(c)
<1>1. /\ calls[c].op = "poll" /\ calls[c].at = "sent" /\ UNCHANGED <<table, queue, ledgers>>
  BY DEF Snapshot, Arrives, At
<1>2. /\ calls[c] \in CallRecords /\ Sound(calls[c], registered, pending) /\ ~calls[c].bound
      /\ calls[c].task = None /\ DOMAIN calls = Calls
  BY <1>1, SerialCall DEF Sound
<1>3. calls'[c] = Pruned([calls[c] EXCEPT !.stale = registered \ fresh])
  BY <1>2 DEF Snapshot
<1>4. Sound(calls'[c], registered', pending') BY <1>1, <1>2, <1>3, PrunedSound
<1> QED BY <1>1, <1>2, <1>4, SerialPoll

LEMMA SerialDelete ==
  ASSUME SerialInv, NEW c \in Calls, Delete(c)
  PROVE  Serial(c)
<1>1. /\ calls[c].op = "poll" /\ calls[c].at = "delete" /\ CallOK(calls[c])
      /\ UNCHANGED <<queue, ledgers>>
  BY SerialCall, OpOfStage DEF Delete
<1>2. /\ calls[c] \in CallRecords /\ Sound(calls[c], registered, pending) /\ ~calls[c].bound
      /\ calls[c].task = None /\ DOMAIN calls = Calls
  BY <1>1, SerialCall DEF Sound
<1>3. PICK w \in calls[c].stale :
          IF w \in registered
          THEN /\ registered' = registered \ {w} /\ fresh' = fresh \ {w}
               /\ status' = [status EXCEPT ![w] = "idle"]
               /\ current' = [current EXCEPT ![w] = None]
               /\ calls' = [Unbound(w) EXCEPT
                              ![c] = Pruned([@ EXCEPT !.stale = calls[c].stale \ {w}])]
          ELSE Answer(c, FALSE) /\ UNCHANGED table
  BY DEF Delete
<1>4. CASE w \in registered
  <2> DEFINE u == Unbound(w)[c]  S == calls[c].stale \ {w}
  <2>1. u \in {calls[c], [calls[c] EXCEPT !.bound = FALSE]} BY DEF Unbound
  <2>2. u = calls[c] BY <1>2, <2>1 DEF CallRecords
  <2>3. calls'[c] = Pruned([u EXCEPT !.stale = S]) BY <1>2, <1>3, <1>4 DEF Unbound
  <2> HIDE DEF u, S
  <2>4. Sound(calls'[c], registered', pending') BY <1>1, <1>2, <2>2, <2>3, PrunedSound
  <2>5. \A t \in Tasks : ~Carries(calls[c], t) /\ \A v : ~Brings(calls[c], v, t)
    BY <1>1, <1>2, CarriesByOp, SchedulerAssumption
  <2>6. /\ status \in [Workers -> {"idle", "busy"}]
        /\ current \in [Workers -> Tasks \cup {None}]
    BY DEF SerialInv, IInv, Types
  <2>7. ASSUME NEW v \in Workers, NEW t \in Tasks, current'[v] = t
        PROVE  v \in registered' /\ status'[v] = "busy" /\ current[v] = t
    <3>1. v # w /\ current[v] = t BY <1>3, <1>4, <2>6, <2>7, SchedulerAssumption
    <3> QED BY <1>3, <1>4, <2>6, <3>1 DEF SerialInv, TableTrue
  <2> QED BY <1>1, <2>4, <2>5, <2>7, SerialQuiet
<1>5. CASE w \notin registered
  <2>1. PICK ok \in BOOLEAN : ok = FALSE OBVIOUS
  <2>2. Answer(c, ok) /\ UNCHANGED table BY <1>3, <1>5, <2>1
  <2> QED BY <1>1, <1>2, <2>2, SerialAnswered
<1> QED BY <1>4, <1>5

LEMMA SerialFind ==
  ASSUME SerialInv, NEW c \in Calls, Find(c)
  PROVE  Serial(c)
<1>1. /\ calls[c].op = "poll" /\ calls[c].at = "find" /\ CallOK(calls[c])
      /\ UNCHANGED <<table, queue, ledgers>>
  BY SerialCall, OpOfStage DEF Find
<1>2. /\ calls[c] \in CallRecords /\ Sound(calls[c], registered, pending)
      /\ calls[c].task = None /\ DOMAIN calls = Calls
  BY <1>1, SerialCall DEF Sound
<1>3. CASE calls[c].by \in registered /\ status[calls[c].by] = "idle"
  <2> DEFINE one == [calls[c] EXCEPT !.at = "scan"]  new == [one EXCEPT !.bound = TRUE]
  <2>1. calls' = [calls EXCEPT ![c] = new] BY <1>3 DEF Find
  <2>2. calls'[c] = new BY <1>2, <2>1
  <2>3. /\ new.op = "poll" /\ new.at = "scan" /\ new.by = calls[c].by
        /\ new.from = calls[c].from /\ new.task = None
    BY <1>1, <1>2 DEF CallRecords
  <2> HIDE DEF new
  <2>4. registered' = registered BY <1>1 DEF table
  <2>5. Sound(new, registered', pending') BY <1>1, <1>2, <1>3, <2>3, <2>4 DEF Sound
  <2> QED BY <1>1, <1>2, <2>2, <2>5, SerialPoll
<1>4. CASE ~(calls[c].by \in registered /\ status[calls[c].by] = "idle")
  <2>1. PICK ok \in BOOLEAN : ok = TRUE OBVIOUS
  <2>2. Answer(c, ok) BY <1>4, <2>1 DEF Find
  <2> QED BY <1>1, <1>2, <2>2, SerialAnswered
<1> QED BY <1>3, <1>4

LEMMA SerialScan ==
  ASSUME SerialInv, NEW c \in Calls, Scan(c)
  PROVE  Serial(c)
<1>1. /\ calls[c].op = "poll" /\ calls[c].at = "scan" /\ CallOK(calls[c])
      /\ UNCHANGED <<table, queue, ledgers>>
  BY SerialCall, OpOfStage DEF Scan
<1>2. /\ calls[c] \in CallRecords /\ Sound(calls[c], registered, pending)
      /\ calls[c].task = None /\ DOMAIN calls = Calls
  BY <1>1, SerialCall DEF Sound
<1>3. registered' = registered /\ pending' = pending BY <1>1 DEF table, queue
<1>4. PICK ok \in BOOLEAN : ok = TRUE OBVIOUS
<1>5. CASE Answer(c, ok) BY <1>1, <1>2, <1>5, SerialAnswered
<1>6. CASE Goto(c, "pop")
  <2>1. "pop" \in Stages(calls[c].op) BY <1>1 DEF Stages
  <2>2. PICK at \in Stages(calls[c].op) : at = "pop" BY <2>1
  <2>3. Sound(calls'[c], registered, pending) BY <1>1, <1>2, <1>6, <2>2, SerialGoto
  <2> QED BY <1>1, <1>2, <1>3, <2>3, SerialPoll
<1>7. CASE calls' = [calls EXCEPT ![c].next = calls[c].next + 1]
  <2> DEFINE new == [calls[c] EXCEPT !.next = calls[c].next + 1]
  <2>1. calls'[c] = new BY <1>2, <1>7
  <2>2. /\ new.op = "poll" /\ new.at = "scan" /\ new.by = calls[c].by
        /\ new.from = calls[c].from /\ new.task = None /\ new.bound = calls[c].bound
    BY <1>1, <1>2 DEF CallRecords
  <2> HIDE DEF new
  <2>3. Sound(new, registered', pending') BY <1>1, <1>2, <1>3, <2>2 DEF Sound
  <2> QED BY <1>1, <1>2, <2>1, <2>3, SerialPoll
<1> QED BY <1>4, <1>5, <1>6, <1>7 DEF Scan

LEMMA RemovedOnly ==
  ASSUME NEW s \in Seq(Entries), NEW i \in 1..Len(s), NEW t, Listed(s, t)
  PROVE  Listed(RemoveAt(s, i), t) \/ s[i].task = t
<1> DEFINE a == SubSeq(s, 1, i - 1)  b == SubSeq(s, i + 1, Len(s))  r == a \o b
<1>0. Len(s) \in Nat /\ i \in Nat /\ 1 <= i /\ i <= Len(s) OBVIOUS
<1>1. a \in Seq(Entries) /\ Len(a) = i - 1 /\ \A j \in 1..(i - 1) : a[j] = s[j] BY <1>0
<1>2. /\ b \in Seq(Entries) /\ Len(b) = Len(s) - i
      /\ \A j \in 1..(Len(s) - i) : b[j] = s[j + i]
  BY <1>0
<1>3. RemoveAt(s, i) = r BY DEF RemoveAt
<1> HIDE DEF a, b
<1>4. /\ Len(r) = Len(a) + Len(b)
      /\ \A j \in 1..Len(a) : r[j] = a[j]
      /\ \A j \in 1..Len(b) : r[Len(a) + j] = b[j]
  <2>1. PICK S : S = Entries OBVIOUS
  <2>2. a \in Seq(S) /\ b \in Seq(S) BY <1>1, <1>2, <2>1
  <2> QED BY <2>2, Joined
<1> HIDE DEF r
<1>5. PICK k \in 1..Len(s) : s[k].task = t BY DEF Listed
<1>6. CASE k = i BY <1>5, <1>6
<1>7. CASE k < i
  <2>1. k \in 1..Len(a) /\ k \in 1..Len(r) /\ k \in 1..(i - 1)
    BY <1>0, <1>1, <1>2, <1>4, <1>7
  <2>2. r[k].task = t BY <1>1, <1>4, <1>5, <2>1
  <2> QED BY <1>3, <2>1, <2>2 DEF Listed
<1>8. CASE k > i
  <2> DEFINE j == k - i
  <2>1. /\ j \in 1..Len(b) /\ j \in 1..(Len(s) - i) /\ j + i = k
        /\ Len(a) + j \in 1..Len(r)
    BY <1>0, <1>1, <1>2, <1>4, <1>8
  <2> HIDE DEF j
  <2>2. r[Len(a) + j].task = t BY <1>2, <1>4, <1>5, <2>1
  <2> QED BY <1>3, <2>1, <2>2 DEF Listed
<1> QED BY <1>0, <1>6, <1>7, <1>8

LEMMA SerialPop ==
  ASSUME SerialInv, NEW c \in Calls, Pop(c)
  PROVE  Serial(c)
<1> DEFINE i == calls[c].next
<1>1. /\ calls[c].op = "poll" /\ calls[c].at = "pop" /\ CallOK(calls[c]) /\ i \in Nat \ {0}
      /\ UNCHANGED <<table, detached, ledgers>>
  BY SerialCall, CallsTyped, OpOfStage DEF Pop
<1>2. /\ calls[c] \in CallRecords /\ Sound(calls[c], registered, pending)
      /\ calls[c].task = None /\ DOMAIN calls = Calls
  BY <1>1, SerialCall DEF Sound
<1>3. CASE i > Len(pending)
  <2>1. PICK ok \in BOOLEAN : ok = FALSE OBVIOUS
  <2>2. Answer(c, ok) /\ UNCHANGED queue BY <1>1, <1>3, <2>1 DEF Pop, queue
  <2> QED BY <1>1, <1>2, <2>2, SerialAnswered
<1>4. CASE ~(i > Len(pending))
  <2>1. pending \in Seq(Entries) /\ Len(pending) \in Nat BY DEF SerialInv, IInv, Types
  <2>2. i \in 1..Len(pending) BY <1>1, <1>4, <2>1
  <2>3. PICK t0 : t0 = pending[i].task OBVIOUS
  <2>4. t0 \in Tasks BY <2>2, <2>3, InList DEF SerialInv
  <2> DEFINE new == [calls[c] EXCEPT !.task = t0, !.at = "assign", !.next = 1]
  <2>5. pending' = RemoveAt(pending, i) /\ calls' = [calls EXCEPT ![c] = new]
    BY <1>4, <2>3 DEF Pop, Without
  <2>6. CallOK(new) /\ new.op = "poll" /\ new.from = calls[c].from /\ new.task = t0
    <3>1. CallOK(calls[c]) /\ calls[c].op = "poll" /\ calls[c].at = "pop" BY <1>1
    <3> QED BY <2>4, <3>1, PoppedOK
  <2>7. new.at = "assign" /\ new.by = calls[c].by /\ new.bound = calls[c].bound
    BY <1>2 DEF CallRecords
  <2> HIDE DEF new, i
  <2>8. calls'[c] = new BY <1>2, <2>5
  <2>9. /\ registered' = registered /\ status' = status /\ current' = current
    BY <1>1 DEF table
  <2>10. Sound(calls'[c], registered', pending')
    BY <1>1, <1>2, <2>6, <2>7, <2>8, <2>9 DEF Sound
  <2>11. \A t \in Tasks : ~Carries(calls[c], t) /\ \A w : ~Brings(calls[c], w, t)
    BY <1>1, <1>2, CarriesByOp, SchedulerAssumption
  <2>12. \A t \in Tasks : Listed(pending, t) => Listed(pending', t) \/ t = t0
    BY <2>1, <2>2, <2>3, <2>5, RemovedOnly
  <2>13. \A t \in Tasks : t = t0 => Carries(calls'[c], t) BY <2>6, <2>8, CarriesByOp
  <2>14. \A t \in Tasks : (Done(t)' <=> Done(t)) /\ (Abandoned(t)' <=> Abandoned(t))
    BY <1>1 DEF ledgers, Done, Abandoned
  <2>15. \A w \in Workers, t \in Tasks :
            current'[w] = t => w \in registered' /\ status'[w] = "busy" /\ current[w] = t
    BY <2>9 DEF SerialInv, TableTrue
  <2> QED BY <2>10, <2>11, <2>12, <2>13, <2>14, <2>15 DEF Serial
<1> QED BY <1>3, <1>4

LEMMA SerialAssign ==
  ASSUME SerialInv, NEW c \in Calls, Assign(c)
  PROVE  Serial(c)
<1> DEFINE w == calls[c].by
<1>1. /\ calls[c].op = "poll" /\ calls[c].at = "assign" /\ CallOK(calls[c])
      /\ UNCHANGED <<registered, fresh, queue, ledgers>>
  BY SerialCall, OpOfStage DEF Assign
<1>2. PICK ok \in BOOLEAN : ok = TRUE OBVIOUS
<1>3. /\ Sound(calls'[c], registered', pending') /\ CallOK(calls'[c])
      /\ calls'[c].op = "poll" /\ calls'[c].from = calls[c].from
      /\ calls'[c].task = calls[c].task
  <2>1. Answer(c, ok) BY <1>2 DEF Assign
  <2> QED BY <1>1, <1>2, <2>1, SerialAnswer
<1>4. /\ calls[c].from = w /\ w \in Workers
      /\ calls[c].bound => w \in registered
  BY <1>1, SerialCall DEF Sound
<1>5. \A t \in Tasks :
        /\ Carries(calls[c], t) => Carries(calls'[c], t)
        /\ \A v : /\ Brings(calls'[c], v, t) <=> v = w /\ calls[c].task = t
                 /\ Brings(calls[c], v, t) <=> v = w /\ calls[c].task = t
  BY <1>1, <1>3, <1>4, CarriesByOp
<1>6. /\ status \in [Workers -> {"idle", "busy"}]
      /\ current \in [Workers -> Tasks \cup {None}]
  BY DEF SerialInv, IInv, Types
<1> HIDE DEF w
<1>7. ASSUME NEW v \in Workers, NEW t \in Tasks, current'[v] = t
      PROVE  /\ v \in registered' /\ status'[v] = "busy"
             /\ Brings(calls'[c], v, t) \/ (current[v] = t /\ ~Brings(calls[c], v, t))
  <2>1. CASE calls[c].bound
    <3>1. /\ status' = [status EXCEPT ![w] = "busy"]
          /\ current' = [current EXCEPT ![w] = calls[c].task]
      BY <2>1 DEF Assign, w
    <3>2. CASE v = w BY <1>1, <1>4, <1>5, <1>6, <1>7, <2>1, <3>1, <3>2
    <3>3. CASE v # w
      <4>1. current[v] = t /\ status'[v] = status[v] BY <1>4, <1>6, <1>7, <3>1, <3>3
      <4> QED BY <1>1, <1>5, <3>3, <4>1 DEF SerialInv, TableTrue
    <3> QED BY <3>2, <3>3
  <2>2. CASE ~calls[c].bound
    <3>1. status' = status /\ current' = current BY <2>2 DEF Assign
    <3> QED BY <1>1, <1>5, <1>7, <3>1 DEF SerialInv, TableTrue
  <2> QED BY <2>1, <2>2
<1> QED BY <1>1, <1>3, <1>5, <1>7, SerialQuiet

\* What a submission does changes nothing in the table.
LEMMA SerialSubmit ==
  ASSUME SerialInv, NEW c \in Calls, calls[c].op = "submit", calls'[c].op = "submit",
         ~calls'[c].bound, calls'[c].at # "touch", calls'[c].at = "sorting" => pending' = <<>>,
         UNCHANGED <<table, ledgers>>,
         \A t \in Tasks : Listed(pending, t) \/ Carries(calls[c], t) =>
            Listed(pending', t) \/ Carries(calls'[c], t)
  PROVE  Serial(c)
<1>1. Sound(calls'[c], registered', pending') BY DEF Sound
<1>2. \A t \in Tasks : (Done(t)' <=> Done(t)) /\ (Abandoned(t)' <=> Abandoned(t))
  BY DEF ledgers, Done, Abandoned
<1>3. \A w, t : ~Brings(calls[c], w, t) BY DEF Brings
<1>4. registered' = registered /\ status' = status /\ current' = current BY DEF table
<1>5. \A w \in Workers, t \in Tasks :
         current'[w] = t => w \in registered' /\ status'[w] = "busy" /\ current[w] = t
  BY <1>4 DEF SerialInv, TableTrue
<1> QED BY <1>1, <1>2, <1>3, <1>5 DEF Serial

LEMMA SerialAppend ==
  ASSUME SerialInv, NEW c \in Calls, AppendTask(c)
  PROVE  Serial(c)
<1> DEFINE new == [calls[c] EXCEPT !.at = "sort"]
<1>1. /\ calls[c].op = "submit" /\ calls[c].at = "sent" /\ CallOK(calls[c])
      /\ calls[c] \in CallRecords /\ calls[c].task \in Tasks /\ DOMAIN calls = Calls
      /\ UNCHANGED <<table, ledgers>> /\ pending' = Append(pending, Entry(calls[c].task))
      /\ calls' = [calls EXCEPT ![c] = new]
  BY SerialCall DEF AppendTask, Arrives, At, CallOK, AddEntry, Goto
<1>2. ~calls[c].bound BY <1>1, SerialCall DEF Sound
<1>3. calls'[c] = new BY <1>1
<1>4. new.op = "submit" /\ new.at = "sort" /\ ~new.bound BY <1>1, <1>2 DEF CallRecords
<1> HIDE DEF new
<1>5. Entry(calls[c].task) \in Entries /\ Entry(calls[c].task).task = calls[c].task
  BY <1>1, EntryTyped
<1>6. pending \in Seq(Entries) BY DEF SerialInv, IInv, Types
<1>7. \A t : Listed(pending', t) <=> Listed(pending, t) \/ calls[c].task = t
  BY <1>1, <1>5, <1>6, AppendList
<1>8. \A t : Carries(calls[c], t) => calls[c].task = t
  BY <1>1, EmptyList DEF Carries, CallOK
<1> QED BY <1>1, <1>3, <1>4, <1>7, <1>8, SerialSubmit

LEMMA SerialBeginSort ==
  ASSUME SerialInv, NEW c \in Calls, BeginSort(c)
  PROVE  Serial(c)
<1> DEFINE new == [calls[c] EXCEPT !.saved = pending, !.mark = detached, !.at = "sorting"]
<1>1. /\ calls[c].op = "submit" /\ calls[c].at = "sort" /\ CallOK(calls[c])
      /\ calls[c] \in CallRecords /\ DOMAIN calls = Calls
      /\ UNCHANGED <<table, ledgers>> /\ pending' = <<>>
      /\ calls' = [calls EXCEPT ![c] = new]
  BY SerialCall, OpOfStage DEF BeginSort
<1>2. ~calls[c].bound BY <1>1, SerialCall DEF Sound
<1>3. calls'[c] = new BY <1>1
<1>4. new.op = "submit" /\ new.at = "sorting" /\ ~new.bound /\ new.saved = pending
  BY <1>1, <1>2 DEF CallRecords
<1> HIDE DEF new
<1>5. \A t \in Tasks : ~Carries(calls[c], t) BY <1>1, CarriesByOp
<1>6. \A t \in Tasks : Listed(pending, t) => Carries(calls'[c], t)
  BY <1>3, <1>4 DEF Carries
<1> QED BY <1>1, <1>3, <1>4, <1>5, <1>6, SerialSubmit

LEMMA SerialEndSort ==
  ASSUME SerialInv, NEW c \in Calls, EndSort(c)
  PROVE  Serial(c)
<1> DEFINE s == calls[c].saved
<1>1. /\ calls[c].op = "submit" /\ calls[c].at = "sorting" /\ CallOK(calls[c])
      /\ UNCHANGED <<table, ledgers>> /\ s \in Seq(Entries)
      /\ Answer(c, detached) /\ detached \in BOOLEAN
  BY SerialCall, OpOfStage DEF EndSort, CallOK, CallRecords, SerialInv, IInv, Types
<1>2. PICK p \in Sortings(s) : pending' = [i \in DOMAIN p |-> s[p[i]]] BY DEF EndSort
<1>3. \A t \in Tasks : Carries(calls[c], t) => Listed(s, t) BY <1>1 DEF Carries
<1> HIDE DEF s
<1>4. \A t : Listed(pending', t) <=> Listed(s, t) BY <1>1, <1>2, SortList
<1>5. pending = <<>> BY <1>1, SerialCall DEF Sound
<1>6. \A t : ~Listed(pending, t) BY <1>5, EmptyList
<1>7. PICK ok \in BOOLEAN : ok = detached BY <1>1
<1>8. /\ Sound(calls'[c], registered', pending') /\ calls'[c].op = "submit"
      /\ calls'[c].at = "answer"
  BY <1>1, <1>7, SerialAnswer
<1>9. ~calls'[c].bound BY <1>8 DEF Sound
<1> QED BY <1>1, <1>3, <1>4, <1>6, <1>8, <1>9, SerialSubmit

LEMMA SerialRelease ==
  ASSUME SerialInv, NEW c \in Calls, Release(c)
  PROVE  Serial(c)
<1> DEFINE w == calls[c].by
<1>1. /\ calls[c].op = "complete" /\ calls[c].at = "touch" /\ CallOK(calls[c])
      /\ UNCHANGED <<registered, fresh, queue, ledgers>>
  BY SerialCall DEF Release, At
<1>2. /\ Sound(calls[c], registered, pending) /\ ~calls[c].bound
      /\ w \in registered /\ calls[c].from = w /\ w \in Workers
  BY <1>1, SerialCall DEF Sound
<1>3. /\ status' = [status EXCEPT ![w] = "idle"] /\ current' = [current EXCEPT ![w] = None]
      /\ Goto(c, "record")
  BY <1>2 DEF Release, Released
<1>4. PICK at \in Stages(calls[c].op) : at = "record" BY <1>1 DEF Stages
<1>5. /\ Sound(calls'[c], registered, pending) /\ CallOK(calls'[c])
      /\ calls'[c].op = "complete" /\ calls'[c].at = "record"
      /\ calls'[c].task = calls[c].task
  BY <1>1, <1>2, <1>3, <1>4, SerialGoto
<1>6. \A t \in Tasks : Carries(calls[c], t) => Carries(calls'[c], t)
  BY <1>1, <1>5, CarriesByOp
<1>7. Sound(calls'[c], registered', pending') BY <1>1, <1>5 DEF queue
<1>8. /\ status \in [Workers -> {"idle", "busy"}]
      /\ current \in [Workers -> Tasks \cup {None}]
  BY DEF SerialInv, IInv, Types
<1> HIDE DEF w
<1>9. ASSUME NEW v \in Workers, NEW t \in Tasks, current'[v] = t
      PROVE  /\ v \in registered' /\ status'[v] = "busy"
             /\ current[v] = t /\ ~Brings(calls[c], v, t)
  <2>1. v # w /\ current[v] = t /\ status'[v] = status[v]
    BY <1>3, <1>8, <1>9, SchedulerAssumption
  <2> QED BY <1>1, <1>2, <2>1 DEF SerialInv, TableTrue, Brings
<1> QED BY <1>1, <1>6, <1>7, <1>9, SerialQuiet

LEMMA SerialRequeue ==
  ASSUME SerialInv, NEW c \in Calls, Requeue(c)
  PROVE  Serial(c)
<1>1. /\ calls[c].op = "complete" /\ calls[c].at = "requeue" /\ CallOK(calls[c])
      /\ calls[c].task \in Tasks /\ UNCHANGED <<table, ledgers>>
      /\ pending' = Append(pending, Requeued(calls[c].task))
  BY SerialCall, OpOfStage DEF Requeue, CallOK, AddEntry
<1>2. PICK ok \in BOOLEAN : ok = TRUE OBVIOUS
<1>3. Sound(calls'[c], registered', pending')
  <2>1. Answer(c, ok) BY <1>2 DEF Requeue
  <2> QED BY <1>1, <2>1, SerialAnswer
<1>4. /\ Requeued(calls[c].task) \in Entries
      /\ Requeued(calls[c].task).task = calls[c].task /\ pending \in Seq(Entries)
  BY <1>1, EntryTyped DEF SerialInv, IInv, Types
<1>5. \A t : Listed(pending', t) <=> Listed(pending, t) \/ calls[c].task = t
  BY <1>1, <1>4, AppendList
<1>6. \A t \in Tasks : Carries(calls[c], t) => calls[c].task = t BY <1>1, CarriesByOp
<1>7. \A t \in Tasks : (Done(t)' <=> Done(t)) /\ (Abandoned(t)' <=> Abandoned(t))
  BY <1>1 DEF ledgers, Done, Abandoned
<1>8. registered' = registered /\ status' = status /\ current' = current
  BY <1>1 DEF table
<1>9. \A w \in Workers, t \in Tasks :
         current'[w] = t =>
           w \in registered' /\ status'[w] = "busy" /\ current[w] = t /\ ~Brings(calls[c], w, t)
  BY <1>1, <1>8 DEF SerialInv, TableTrue, Brings
<1> QED BY <1>3, <1>5, <1>6, <1>7, <1>9 DEF Serial

LEMMA SerialRecord ==
  ASSUME SerialInv, NEW c \in Calls, Record(c)
  PROVE  Serial(c)
<1>0. /\ calls[c].op = "complete" /\ calls[c].at = "record" /\ CallOK(calls[c])
      /\ calls[c].task \in Tasks /\ UNCHANGED <<table, queue>>
  BY SerialCall, OpOfStage DEF Record, CallOK
<1>1. PICK t \in Tasks : t = calls[c].task BY <1>0
<1>2. Sound(calls[c], registered, pending) /\ ~calls[c].bound
  BY <1>0, <1>1, SerialCall DEF Sound
<1>3. \A u \in Tasks : Carries(calls[c], u) => u = t BY <1>0, <1>1, CarriesByOp
<1>4. /\ registered' = registered /\ status' = status /\ current' = current
      /\ pending' = pending
  BY <1>0 DEF table, queue
<1>5. \A w \in Workers, u \in Tasks :
         current'[w] = u =>
           w \in registered' /\ status'[w] = "busy" /\ current[w] = u /\ ~Brings(calls[c], w, u)
  BY <1>0, <1>1, <1>4 DEF SerialInv, TableTrue, Brings
<1>6. PICK ok \in BOOLEAN : ok = TRUE OBVIOUS
<1>7. /\ completed \in Seq(Tasks) /\ failed \in [Tasks -> 0..MaxRetries] /\ MaxRetries \in Nat
      /\ failed[t] \in Nat
  BY <1>0, <1>1, SchedulerAssumption DEF SerialInv, IInv, Types
<1>8. CASE calls[c].ok
  <2>1. completed' = Append(completed, t) /\ failed' = failed /\ Answer(c, ok)
    BY <1>1, <1>6, <1>8 DEF Record
  <2>2. Sound(calls'[c], registered', pending') BY <1>0, <1>1, <2>1, SerialAnswer
  <2>3. /\ Len(completed') = Len(completed) + 1 /\ Len(completed) \in Nat
        /\ completed'[Len(completed) + 1] = t
        /\ \A i \in 1..Len(completed) : completed'[i] = completed[i]
    BY <1>0, <1>1, <1>7, <2>1
  <2>4. Done(t)'
    <3>1. Len(completed) + 1 \in 1..Len(completed') BY <2>3
    <3> QED BY <2>3, <3>1 DEF Done
  <2>5. ASSUME NEW u \in Tasks, Done(u) PROVE Done(u)'
    <3>1. PICK i \in 1..Len(completed) : completed[i] = u BY <2>5 DEF Done
    <3>2. i \in 1..Len(completed') /\ completed'[i] = u BY <2>3, <3>1
    <3> QED BY <3>2 DEF Done
  <2>6. \A u \in Tasks : Abandoned(u) => Abandoned(u)' BY <2>1 DEF Abandoned
  <2> QED BY <1>3, <1>4, <1>5, <2>2, <2>4, <2>5, <2>6 DEF Serial
<1>9. CASE ~calls[c].ok
  <2>1. /\ failed' = [failed EXCEPT ![t] = @ + 1] /\ completed' = completed
        /\ IF Retried(failed[t] + 1) THEN Goto(c, "requeue") ELSE Answer(c, ok)
    BY <1>1, <1>6, <1>9 DEF Record
  <2>2. /\ \A u \in Tasks : Done(u) => Done(u)'
        /\ failed'[t] = failed[t] + 1
        /\ \A u \in Tasks : failed'[u] = failed[u] \/ failed'[u] = failed[u] + 1
    BY <1>0, <1>1, <1>7, <2>1 DEF Done
  <2>3. \A u \in Tasks : Abandoned(u) => Abandoned(u)'
    <3>1. \A u \in Tasks : failed[u] \in Nat BY <1>7
    <3> QED BY <1>7, <2>2, <3>1 DEF Abandoned
  <2>4. CASE Retried(failed[t] + 1)
    <3>1. PICK at \in Stages(calls[c].op) : at = "requeue" BY <1>0 DEF Stages
    <3>2. Goto(c, at) BY <2>1, <2>4, <3>1
    <3>3. /\ Sound(calls'[c], registered, pending) /\ CallOK(calls'[c])
          /\ calls'[c].op = "complete" /\ calls'[c].at = "requeue"
          /\ calls'[c].task = t
      BY <1>0, <1>1, <1>2, <3>1, <3>2, SerialGoto
    <3>4. Carries(calls'[c], t) BY <1>0, <1>1, <3>3, CarriesByOp
    <3> QED BY <1>3, <1>4, <1>5, <2>2, <2>3, <3>3, <3>4 DEF Serial
  <2>5. CASE ~Retried(failed[t] + 1)
    <3>1. Sound(calls'[c], registered', pending')
      BY <1>0, <1>1, <2>1, <2>5, SerialAnswer
    <3>2. Abandoned(t)' BY <1>7, <2>2, <2>5 DEF Abandoned, Retried
    <3> QED BY <1>3, <1>4, <1>5, <2>2, <2>3, <3>1, <3>2 DEF Serial
  <2> QED BY <2>4, <2>5
<1> QED BY <1>8, <1>9

LEMMA SerialServes ==
  ASSUME SerialInv, IInv', PoolSize = 1, NEW c \in Calls, Serve(c),
         UNCHANGED <<workerVars, clientVars>>
  PROVE  SerialInv'
<1>1. Serial(c)
  BY SerialStore, SerialKnown, SerialTouch, SerialSnapshot, SerialDelete, SerialFind,
     SerialScan, SerialPop, SerialAssign, SerialAppend, SerialBeginSort, SerialEndSort,
     SerialRelease, SerialRecord, SerialRequeue DEF Serve
<1> QED BY <1>1, SerialKeeps

\* What a worker or a client does with one request keeps SerialInv when no task
\* and no assignment gets lost on the way.
LEMMA SerialOutside ==
  ASSUME SerialInv, IInv', NEW c \in Calls, DOMAIN calls' = Calls,
         \A d \in Calls \ {c} : calls'[d] = calls[d],
         calls'[c].at = "sent", Sound(calls'[c], registered, pending),
         UNCHANGED <<table, queue, ledgers>>,
         \A t \in Tasks :
           \/ t \notin submitted \/ Carries(calls[c], t)
           \/ \E w \in Workers : hand[w] = t /\ loop[w] = "handling"
           => \/ t \notin submitted' \/ Carries(calls'[c], t)
              \/ \E w \in Workers : hand'[w] = t /\ loop'[w] = "handling",
         \A w \in Workers, t \in Tasks :
           (loop[w] = "handling" /\ hand[w] = t) \/ Brings(calls[c], w, t) =>
             (loop'[w] = "handling" /\ hand'[w] = t) \/ Brings(calls'[c], w, t)
  PROVE  SerialInv'
<1>1. /\ registered' = registered /\ status' = status /\ current' = current
      /\ pending' = pending /\ completed' = completed /\ failed' = failed
  BY DEF table, queue, ledgers
<1>2. OneServed'
  <2>1. Served' \subseteq Served BY DEF Served
  <2> QED BY <2>1 DEF SerialInv, OneServed
<1>3. AllSound' BY <1>1 DEF SerialInv, AllSound
<1>4. ASSUME NEW t \in Tasks PROVE Present(t)'
  <2>1. Present(t) BY DEF SerialInv, NothingLost
  <2>2. CASE Listed(pending, t) \/ Done(t) \/ Abandoned(t)
    BY <1>1, <2>2 DEF Present, Done, Abandoned
  <2>3. CASE \E d \in Calls \ {c} : Carries(calls[d], t) BY <2>3 DEF Present
  <2>4. CASE \/ t \notin submitted \/ Carries(calls[c], t)
             \/ \E w \in Workers : hand[w] = t /\ loop[w] = "handling"
    BY <2>4 DEF Present
  <2> QED BY <2>1, <2>2, <2>3, <2>4 DEF Present
<1>5. ASSUME NEW w \in Workers, NEW t \in Tasks, HasTask(w, t) PROVE HasTask(w, t)'
  BY <1>5 DEF HasTask
<1>6. TableTrue' BY <1>1, <1>5 DEF SerialInv, TableTrue
<1> QED BY <1>2, <1>3, <1>4, <1>6 DEF SerialInv, NothingLost

LEMMA RequestHolds ==
  ASSUME SchedulerAssumption, NEW op, NEW by, NEW from, NEW task, NEW ok
  PROVE  Request(op, by, from, task, ok).by = by /\ ~Request(op, by, from, task, ok).bound
<1>1. Free \in CallRecords /\ ~Free.bound BY FreeOK DEF CallOK, Free
<1> QED BY <1>1 DEF Request, CallRecords

\* A new request, whose sender had nothing in hand or sends what it had.
LEMMA SerialSent ==
  ASSUME SerialInv, IInv', NEW r, CallOK(r), Send(r),
         r.at = "sent", ~r.bound,
         r.op \notin {"free", "submit"} => r.from # None /\ r.by = r.from,
         r.op = "poll" => r.task = None,
         UNCHANGED <<table, queue, ledgers>>,
         \A t \in Tasks :
           \/ t \notin submitted
           \/ \E w \in Workers : hand[w] = t /\ loop[w] = "handling"
           => \/ t \notin submitted' \/ Carries(r, t)
              \/ \E w \in Workers : hand'[w] = t /\ loop'[w] = "handling",
         \A w \in Workers, t \in Tasks :
           loop[w] = "handling" /\ hand[w] = t =>
             (loop'[w] = "handling" /\ hand'[w] = t) \/ Brings(r, w, t)
  PROVE  SerialInv'
<1>1. PICK c \in Calls : calls[c].op = "free" /\ calls' = [calls EXCEPT ![c] = r]
  BY DEF Send, FreeCalls
<1>2. /\ DOMAIN calls' = Calls /\ calls'[c] = r
      /\ \A d \in Calls \ {c} : calls'[d] = calls[d]
  BY <1>1 DEF SerialInv, IInv, CallsOK
<1>3. Sound(r, registered, pending) BY DEF Sound
<1>4. CallOK(calls[c]) /\ calls[c].at = "sent" BY <1>1, SerialCall DEF Stages
<1>5. \A t \in Tasks : ~Carries(calls[c], t)
  <2>1. \A t \in Tasks : Listed(calls[c].saved, t) => FALSE
    BY <1>4, EmptyList DEF CallOK
  <2> QED BY <1>1, <2>1 DEF Carries
<1>6. \A w \in Workers, t \in Tasks : ~Brings(calls[c], w, t) BY <1>1 DEF Brings
<1> QED BY <1>2, <1>3, <1>5, <1>6, SerialOutside

LEMMA SerialAsk ==
  ASSUME SerialInv, IInv', NEW w \in Workers, NEW from \in {"off", "top", "beaten"},
         NEW op \in {"register", "heartbeat", "poll"},
         NEW to \in {"registering", "beating", "polling"}, Ask(w, from, op, to)
  PROVE  SerialInv'
<1> DEFINE r == Request(op, w, w, None, FALSE)
<1>1. /\ loop[w] = from /\ Send(r) /\ loop' = [loop EXCEPT ![w] = to]
      /\ UNCHANGED <<table, queue, ledgers>> /\ hand' = hand /\ submitted' = submitted
  BY DEF Ask, clientVars
<1>2. /\ CallOK(r) /\ r.op = op /\ r.at = "sent" /\ r.from = w /\ r.task = None
  <2>1. op \in Ops \ {"free"} /\ w \in Workers \cup {None} /\ None \in Tasks \cup {None}
        /\ op \notin {"submit", "complete"}
    BY DEF Ops
  <2>2. PICK ok \in BOOLEAN : ok = FALSE OBVIOUS
  <2>3. r = Request(op, w, w, None, ok) BY <2>2
  <2> HIDE DEF r
  <2> QED BY <2>1, <2>3, RequestOK, SchedulerAssumption
<1>3. r.by = w /\ ~r.bound BY RequestHolds, SchedulerAssumption
<1>4. w # None BY SchedulerAssumption
<1>5. \A v \in Workers : loop[v] = "handling" => loop'[v] = "handling"
  BY <1>1 DEF SerialInv, IInv, Types
<1> HIDE DEF r
<1> QED BY <1>1, <1>2, <1>3, <1>4, <1>5, SerialSent

LEMMA SerialHandle ==
  ASSUME SerialInv, IInv', NEW w \in Workers, Handle(w)
  PROVE  SerialInv'
<1>1. PICK ok \in BOOLEAN : Send(Request("complete", w, w, hand[w], ok)) BY DEF Handle
<1>2. /\ loop[w] = "handling" /\ loop' = [loop EXCEPT ![w] = "reporting"]
      /\ UNCHANGED <<table, queue, ledgers>> /\ hand' = hand /\ submitted' = submitted
  BY DEF Handle, clientVars
<1>3. PICK t0 \in Tasks : t0 = hand[w] BY <1>2 DEF SerialInv, IInv, WaitsOnce
<1> DEFINE r == Request("complete", w, w, t0, ok)
<1>4. /\ CallOK(r) /\ r.op = "complete" /\ r.at = "sent" /\ r.from = w /\ r.task = t0
  <2>1. "complete" \in Ops \ {"free"} /\ w \in Workers \cup {None} /\ t0 \in Tasks \cup {None}
    BY DEF Ops
  <2>2. PICK op \in Ops \ {"free"} : op = "complete" BY <2>1
  <2>3. op # "submit" /\ r = Request(op, w, w, t0, ok) BY <2>2
  <2> HIDE DEF r
  <2> QED BY <2>1, <2>2, <2>3, RequestOK, SchedulerAssumption
<1>5. r.by = w /\ ~r.bound /\ Send(r) /\ w # None
  BY <1>1, <1>3, RequestHolds, SchedulerAssumption
<1> HIDE DEF r
<1>6. Carries(r, t0) /\ Brings(r, w, t0) BY <1>4 DEF Carries, Brings
<1>7. \A v \in Workers \ {w} : loop'[v] = loop[v] BY <1>2 DEF SerialInv, IInv, Types
<1>8. ASSUME NEW v \in Workers, NEW t \in Tasks, loop[v] = "handling" /\ hand[v] = t
      PROVE  (loop'[v] = "handling" /\ hand'[v] = t) \/ (Brings(r, v, t) /\ Carries(r, t))
  BY <1>2, <1>3, <1>6, <1>7, <1>8
<1>9. /\ r.op \notin {"free", "submit"} => r.from # None /\ r.by = r.from
      /\ r.op = "poll" => r.task = None
  BY <1>4, <1>5
<1>10. \A t \in Tasks :
         \/ t \notin submitted
         \/ \E v \in Workers : hand[v] = t /\ loop[v] = "handling"
         => \/ t \notin submitted' \/ Carries(r, t)
            \/ \E v \in Workers : hand'[v] = t /\ loop'[v] = "handling"
  BY <1>2, <1>8
<1>11. \A v \in Workers, t \in Tasks :
         loop[v] = "handling" /\ hand[v] = t =>
           (loop'[v] = "handling" /\ hand'[v] = t) \/ Brings(r, v, t)
  BY <1>8
<1>12. CallOK(r) /\ Send(r) /\ r.at = "sent" /\ ~r.bound
       /\ UNCHANGED <<table, queue, ledgers>>
  BY <1>2, <1>4, <1>5
<1> QED BY <1>9, <1>10, <1>11, <1>12, SerialSent

LEMMA SerialClientSubmits ==
  ASSUME SerialInv, IInv', NEW t0 \in Tasks, Submit(t0)
  PROVE  SerialInv'
<1> DEFINE r == Request("submit", None, None, t0, FALSE)
<1>1. /\ Send(r) /\ submitted' = submitted \cup {t0} /\ UNCHANGED <<table, queue, ledgers>>
      /\ loop' = loop /\ hand' = hand
  BY DEF Submit, workerVars
<1>2. /\ CallOK(r) /\ r.op = "submit" /\ r.at = "sent" /\ r.task = t0
  <2>1. "submit" \in Ops \ {"free"} /\ None \in Workers \cup {None}
        /\ t0 \in Tasks \cup {None} /\ FALSE \in BOOLEAN
    BY DEF Ops
  <2>2. PICK op \in Ops \ {"free"} : op = "submit" BY <2>1
  <2>3. PICK ok \in BOOLEAN : ok = FALSE OBVIOUS
  <2>4. r = Request(op, None, None, t0, ok) BY <2>2, <2>3
  <2> HIDE DEF r
  <2> QED BY <2>1, <2>2, <2>4, RequestOK, SchedulerAssumption
<1>3. ~r.bound BY RequestHolds, SchedulerAssumption
<1> HIDE DEF r
<1>4. Carries(r, t0) BY <1>2 DEF Carries
<1>5. /\ r.op \notin {"free", "submit"} => r.from # None /\ r.by = r.from
      /\ r.op = "poll" => r.task = None
  BY <1>2
<1>6. \A t \in Tasks :
        \/ t \notin submitted
        \/ \E v \in Workers : hand[v] = t /\ loop[v] = "handling"
        => \/ t \notin submitted' \/ Carries(r, t)
           \/ \E v \in Workers : hand'[v] = t /\ loop'[v] = "handling"
  BY <1>1, <1>4
<1> QED BY <1>1, <1>2, <1>3, <1>5, <1>6, SerialSent

\* A worker that is answered takes the task that the answer brings.
LEMMA SerialReceive ==
  ASSUME SerialInv, IInv', NEW c \in Calls, Receive(c)
  PROVE  SerialInv'
<1> DEFINE w == calls[c].from  task == calls[c].task  to == After(w, calls[c])
<1>1. /\ calls[c].op # "free" /\ calls[c].at = "answer" /\ calls' = [calls EXCEPT ![c] = Free]
      /\ UNCHANGED <<table, queue, ledgers>> /\ submitted' = submitted
  BY DEF Receive
<1>2. IF w = None THEN UNCHANGED workerVars
      ELSE /\ loop' = [loop EXCEPT ![w] = to]
           /\ hand' = [hand EXCEPT ![w] = IF to = "handling" THEN task ELSE None]
  BY DEF Receive
<1>3. /\ CallOK(calls[c]) /\ Sound(calls[c], registered, pending)
      /\ w \in Workers \cup {None} /\ calls[c].op \in Ops
  BY SerialCall DEF CallRecords
<1>4. /\ DOMAIN calls' = Calls /\ calls'[c] = Free
      /\ \A d \in Calls \ {c} : calls'[d] = calls[d]
  BY <1>1 DEF SerialInv, IInv, CallsOK
<1>5. Sound(Free, registered, pending) /\ Free.at = "sent" BY DEF Sound, Free
<1>6. ASSUME NEW t \in Tasks, Carries(calls[c], t) PROVE calls[c].op = "poll" /\ task = t
  BY <1>1, <1>3, <1>6, CarriesByOp DEF Ops
<1>7. ASSUME NEW v \in Workers, NEW t \in Tasks, Brings(calls[c], v, t)
      PROVE  calls[c].op = "poll" /\ task = t /\ w = v
  BY <1>1, <1>3, <1>7, CarriesByOp DEF Ops, Brings
<1>8. /\ loop \in [Workers -> Locations] /\ hand \in [Workers -> Tasks \cup {None}]
  BY DEF SerialInv, IInv, Types
<1>9. ASSUME w # None
      PROVE  /\ w \in Workers /\ loop[w] # "handling"
             /\ calls[c].op = "poll" => loop[w] = "polling"
             /\ loop'[w] = to /\ (to = "handling" => hand'[w] = task)
             /\ \A v \in Workers \ {w} : loop'[v] = loop[v] /\ hand'[v] = hand[v]
  <2>1. w \in Workers /\ c \in Waiting(w) BY <1>3, <1>9 DEF Waiting
  <2>2. Awaits(loop[w], calls[c].op) BY <2>1 DEF SerialInv, IInv, WaitsOnce
  <2> HIDE DEF w, task, to
  <2> QED BY <1>2, <1>8, <1>9, <2>1, <2>2 DEF Awaits
<1>10. ASSUME NEW t \in Tasks, calls[c].op = "poll", task = t
       PROVE  w \in Workers /\ loop'[w] = "handling" /\ hand'[w] = t
  <2>1. t # None BY SchedulerAssumption
  <2>2. w # None /\ calls[c].ok BY <1>1, <1>3, <1>10, <2>1 DEF Sound
  <2>3. loop[w] = "polling" BY <1>9, <1>10, <2>2
  <2>4. to = "handling" BY <1>10, <2>1, <2>2, <2>3 DEF After
  <2> QED BY <1>9, <1>10, <2>2, <2>4
<1>11. ASSUME NEW v \in Workers, NEW t \in Tasks, loop[v] = "handling", hand[v] = t
       PROVE  loop'[v] = "handling" /\ hand'[v] = t
  <2>1. CASE w = None BY <1>2, <1>11, <2>1 DEF workerVars
  <2>2. CASE w # None BY <1>9, <1>11, <2>2
  <2> QED BY <2>1, <2>2
<1> HIDE DEF w, task, to
<1>12. \A t \in Tasks :
         \/ t \notin submitted \/ Carries(calls[c], t)
         \/ \E v \in Workers : hand[v] = t /\ loop[v] = "handling"
         => \/ t \notin submitted' \/ Carries(calls'[c], t)
            \/ \E v \in Workers : hand'[v] = t /\ loop'[v] = "handling"
  BY <1>1, <1>6, <1>10, <1>11
<1>13. \A v \in Workers, t \in Tasks :
         (loop[v] = "handling" /\ hand[v] = t) \/ Brings(calls[c], v, t) =>
           (loop'[v] = "handling" /\ hand'[v] = t) \/ Brings(calls'[c], v, t)
  BY <1>7, <1>10, <1>11
<1> QED BY <1>1, <1>4, <1>5, <1>12, <1>13, SerialOutside

\* Time passes.
LEMMA SerialStays ==
  ASSUME SerialInv, IInv',
         UNCHANGED <<registered, status, current, pending, completed, failed, calls, loop, hand,
                     submitted>>
  PROVE  SerialInv'
<1>1. OneServed' /\ AllSound' /\ TableTrue'
  BY DEF SerialInv, OneServed, AllSound, TableTrue, Served, HasTask
<1>2. NothingLost' BY DEF SerialInv, NothingLost, Present, Done, Abandoned
<1> QED BY <1>1, <1>2 DEF SerialInv

LEMMA SerialNext ==
  ASSUME PoolSize = 1, Faults \subseteq {"slow"}, SerialInv, [Next]_vars
  PROVE  SerialInv'
<1>1. IInv' BY StepKeeps DEF SerialInv
<1>2. ASSUME NEW c \in Calls, CallStep(c) PROVE SerialInv'
  BY <1>1, <1>2, SerialServes, SerialReceive DEF CallStep
<1>3. ASSUME NEW t \in Tasks, Submit(t) PROVE SerialInv'
  BY <1>1, <1>3, SerialClientSubmits
<1>4. ASSUME NEW w \in Workers, WorkerStep(w) \/ Timeout(w) \/ Crash(w) \/ Elapse(w)
      PROVE  SerialInv'
  <2>1. CASE Register(w) BY <1>1, <2>1, SerialAsk DEF Register
  <2>2. CASE Beat(w) BY <1>1, <2>2, SerialAsk DEF Beat
  <2>3. CASE Poll(w) BY <1>1, <2>3, SerialAsk DEF Poll
  <2>4. CASE Handle(w) BY <1>1, <2>4, SerialHandle
  <2>5. CASE Elapse(w)
    BY <1>1, <2>5, SerialStays DEF Elapse, queue, ledgers, workerVars, clientVars
  <2>6. ~Timeout(w) /\ ~Crash(w) BY DEF Timeout, Crash
  <2> QED BY <1>4, <2>1, <2>2, <2>3, <2>4, <2>5, <2>6 DEF WorkerStep
<1>5. CASE UNCHANGED vars BY <1>1, <1>5, SerialStays
     DEF vars, serverVars, table, queue, ledgers, workerVars, clientVars
<1> QED BY <1>2, <1>3, <1>4, <1>5 DEF Next

LEMMA SerialInit == Init => SerialInv
<1> SUFFICES ASSUME Init PROVE SerialInv OBVIOUS
<1>1. /\ calls = [c \in Calls |-> Free] /\ current = [w \in Workers |-> None]
      /\ submitted = {}
  BY DEF Init, ServerInit
<1>2. OneServed BY <1>1 DEF OneServed, Served, Free
<1>3. AllSound BY <1>1 DEF AllSound, Sound, Free
<1>4. NothingLost BY <1>1 DEF NothingLost, Present
<1>5. TableTrue BY <1>1, SchedulerAssumption DEF TableTrue
<1> QED BY <1>2, <1>3, <1>4, <1>5, InitKeeps DEF SerialInv

LEMMA SerialImplies == SerialInv => TasksAccounted
<1> SUFFICES ASSUME SerialInv PROVE TasksAccounted OBVIOUS
<1>0. IInv /\ PlacesRight BY PlacesAre DEF SerialInv
<1>1. ASSUME NEW t \in accepted PROVE Place(t) # "lost"
  <2>1. t \in Tasks /\ t \in submitted BY <1>0 DEF IInv, Types
  <2>2. Present(t) BY <2>1 DEF SerialInv, NothingLost
  <2>3. CASE Listed(pending, t) \/ Done(t) \/ Abandoned(t)
    BY <1>0, <2>1, <2>3 DEF PlacesRight
  <2>4. CASE \E w \in Workers : hand[w] = t /\ loop[w] = "handling"
    BY <1>0, <2>1, <2>4 DEF PlacesRight
  <2>5. ASSUME NEW c \in Calls, Carries(calls[c], t) PROVE Place(t) # "lost"
    <3>1. calls[c].op = "poll" => calls[c].from # None BY SerialCall DEF Sound
    <3>2. CallPlace(calls[c]) # "lost" BY <3>1 DEF CallPlace
    <3> QED BY <1>0, <2>1, <2>5, <3>2 DEF PlacesRight
  <2> QED BY <2>1, <2>2, <2>3, <2>4, <2>5 DEF Present
<1>2. ASSUME NEW w \in registered, current[w] # None
      PROVE  /\ status[w] = "busy"
             /\ \/ w \in Handling(current[w])
                \/ \E c \in Assigning(current[w]) \cup Reporting(current[w]) :
                      calls[c].from = w
  <2>1. w \in Workers /\ current[w] \in Tasks BY <1>0, <1>2 DEF IInv, Types
  <2>2. PICK t \in Tasks : t = current[w] BY <2>1
  <2>3. status[w] = "busy" /\ HasTask(w, t) BY <2>1, <2>2 DEF SerialInv, TableTrue
  <2>4. CASE loop[w] = "handling" /\ hand[w] = t BY <2>1, <2>2, <2>3, <2>4 DEF Handling
  <2>5. ASSUME NEW c \in Calls, Brings(calls[c], w, t)
        PROVE  c \in Assigning(t) \cup Reporting(t) /\ calls[c].from = w
    BY <2>5 DEF Brings, Assigning, Reporting
  <2> QED BY <2>2, <2>3, <2>4, <2>5 DEF HasTask
<1> QED BY <1>1, <1>2 DEF TasksAccounted, AcceptedIsKept, TableAgrees

\* A coordinator with one serving thread, whose workers are only slow: an
\* accepted task is never lost and the table agrees with the workers, for every
\* number of workers, tasks, requests and retries (TaskScheduler, RemoteWorker.run).
THEOREM SerialAccounted ==
  ASSUME PoolSize = 1, Faults \subseteq {"slow"}
  PROVE  Spec => []TasksAccounted
<1>1. SerialInv /\ [Next]_vars => SerialInv' BY SerialNext
<1> QED BY <1>1, SerialInit, SerialImplies, PTL DEF Spec
=============================================================================
