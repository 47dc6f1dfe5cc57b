------------------------------ MODULE RunLedger -----------------------------
(***************************************************************************)
(* core/ledger.py: RunLedger, the event log every run writes.              *)
(*                                                                         *)
(* A run directory holds ledger.jsonl (events), ledger.hash (their         *)
(* hashes), ledger.index and checkpoints/.  A RunLedger object is a handle *)
(* on it: it keeps the next sequence number, an in-memory index and a      *)
(* threading.Lock.  emit_event is modelled one file access at a time, so   *)
(* two handles on one directory interleave as two processes or two         *)
(* requests would, and a process may die between any two accesses.         *)
(*                                                                         *)
(* Next             the handles are opened by RunLedger.create (or coder   *)
(*                  _open_ledger), which restore the sequence number.      *)
(* ResumeNext       a run is also reopened by ResumeOrchestrator.resume,   *)
(*                  which builds the handle with its defaults.             *)
(* FaultNext        a process may die, and a write may raise, in the       *)
(*                  middle of emit_event.                                  *)
(***************************************************************************)
EXTENDS Naturals, Sequences, FiniteSets

CONSTANTS
    Handles,    \* RunLedger objects on the run directory
    Threads,    \* threads that call emit_event
    Runner,     \* the thread that drives WorkflowRunner.run: the only one
                \* that saves checkpoints
    Tags,       \* (dimension, value) pairs an event may be indexed under
    CkptTag,    \* event_type = CHECKPOINT_SAVED
    NoHash,     \* previous_hash = None
    NoThread,   \* the lock is free
    MaxEvents,  \* bound: events emitted in a behaviour
    MaxFaults   \* bound: crashes, and failed writes, in a behaviour

ASSUME LedgerAssumption ==
    /\ Runner \in Threads /\ NoThread \notin Threads
    /\ CkptTag \in Tags
    /\ NoHash = 0
    /\ MaxEvents \in Nat /\ MaxFaults \in Nat

VARIABLES
    ledger,       \* ledger.jsonl: sequence of events
    torn,         \* a line of ledger.jsonl is cut short
    hashFile,     \* ledger.hash: the lines that end with a newline
    hashTail,     \* what stands after the last of them, or NoHash
    indexFile,    \* ledger.index: tag -> sequence numbers
    checkpoints,  \* checkpoints/: sequence number -> the saved state
    saves,        \* states saved so far; the n-th state is the number n
    live,         \* handles that are open
    sequence,     \* RunLedger._sequence
    index,        \* RunLedger._index: tag -> sequence numbers
    lock,         \* RunLedger._lock: the thread that holds it
    pc,           \* where each thread is in emit_event or save_checkpoint
    on,           \* the handle each thread is using
    event,        \* the event each thread is emitting
    issued,       \* events begun so far, the source of fresh event ids
    crashes,      \* processes that died so far
    failedWrites  \* appends that raised so far

disk == <<ledger, torn, hashFile, hashTail, indexFile, checkpoints, saves>>
memory == <<live, sequence, index, lock>>
faults == <<crashes, failedWrites>>
vars == <<disk, memory, pc, on, event, issued, faults>>

Event == [id : Nat, seq : Nat, prev : Nat, tags : SUBSET Tags]

\* The event_id is a fresh uuid4, so the hash identifies the event.
HashOf(e) == e.id

\* A line of ledger.hash that is the hash of no event.
Garbled == MaxEvents + 1

\* The lines of ledger.hash as its readers split them.
HashLines == IF hashTail = NoHash THEN hashFile ELSE Append(hashFile, hashTail)

LastHash(hashes) == IF hashes = <<>> THEN NoHash ELSE hashes[Len(hashes)]

Sequences(events) == {events[i].seq : i \in 1..Len(events)}

Greatest(S) == CHOOSE m \in S : \A n \in S : n <= m

EmptyIndex == [tag \in Tags |-> {}]

NoEvent == [id |-> 0, seq |-> 0, prev |-> NoHash, tags |-> {}]

----------------------------------------------------------------------------
(* Opening and closing a handle.                                           *)

\* The dataclass default.
RestartedSequence == 0

\* Mutant: counts the lines of the hash file instead.
RestoredFromHashes == Len(hashFile)

\* One past the greatest number in the ledger.
RestoredSequence ==
    IF ledger = <<>> THEN 0 ELSE Greatest(Sequences(ledger)) + 1

Open(h, first) ==
    /\ h \notin live
    /\ ~torn          \* read_ledger raises on a line it cannot parse
    /\ live' = live \cup {h}
    /\ sequence' = [sequence EXCEPT ![h] = first]
    /\ UNCHANGED <<disk, index, lock, pc, on, event, issued, faults>>

Create(h) == Open(h, RestoredSequence)

\* ResumeOrchestrator.resume and the resume command: the dataclass default
\* _sequence = 0 stays, whatever the ledger holds.
Attach(h) == ledger # <<>> /\ Open(h, RestartedSequence)

\* The thread is inside emit_event or save_checkpoint on handle h.
Using(t, h) == pc[t] # "idle" /\ on[t] = h

\* What the object kept in memory is gone.
Forget(h) ==
    /\ live' = live \ {h}
    /\ sequence' = [sequence EXCEPT ![h] = 0]
    /\ index' = [index EXCEPT ![h] = EmptyIndex]
    /\ lock' = [lock EXCEPT ![h] = NoThread]

Close(h) ==
    /\ h \in live
    /\ \A t \in Threads : ~Using(t, h)
    /\ Forget(h)
    /\ UNCHANGED <<disk, pc, on, event, issued, faults>>

----------------------------------------------------------------------------
(* emit_event.                                                             *)

Goto(t, from, to) == pc[t] = from /\ pc' = [pc EXCEPT ![t] = to]

Draft(t, tags) ==
    /\ issued' = issued + 1
    /\ event' = [event EXCEPT ![t] = [id |-> issued + 1, seq |-> 0,
                                      prev |-> NoHash, tags |-> tags]]

Emit(t, h, tags) ==
    /\ h \in live
    /\ issued < MaxEvents
    /\ Goto(t, "idle", "lock")
    /\ on' = [on EXCEPT ![t] = h]
    /\ Draft(t, tags)
    /\ UNCHANGED <<disk, memory, faults>>

\* Mutant: the with block is dropped.
LockIgnored(h) == TRUE

LockFree(h) == lock[h] = NoThread

Acquire(t) ==
    /\ LockFree(on[t])
    /\ Goto(t, "lock", "create")
    /\ lock' = [lock EXCEPT ![on[t]] = t]
    /\ UNCHANGED <<disk, live, sequence, index, on, event, issued, faults>>

\* _read_last_hash goes to the file, not to what the handle wrote.
ReadLastHash(h) == LastHash(HashLines)

CreateEvent(t) ==
    /\ Goto(t, "create", "append")
    /\ event' = [event EXCEPT ![t].seq = sequence[on[t]],
                              ![t].prev = ReadLastHash(on[t])]
    /\ UNCHANGED <<disk, memory, on, issued, faults>>

\* Mutant: the file is rewritten up to the handle's own position.
RewrittenLine(lines, line, h) ==
    IF sequence[h] < Len(lines) THEN Append(SubSeq(lines, 1, sequence[h]), line)
                                ELSE Append(lines, line)

\* path.open("a"): a line goes to the end of the file, wherever that is.
AppendedLine(lines, line, h) == Append(lines, line)

\* A line appended to a torn line is lost with it.
AppendToLedger(t) ==
    /\ Goto(t, "append", "index")
    /\ ledger' = IF torn THEN ledger ELSE AppendedLine(ledger, event[t], on[t])
    /\ UNCHANGED <<torn, hashFile, hashTail, indexFile, checkpoints, saves, memory, on,
                   event, issued, faults>>

UnderTag(e, tag, seqs) == IF tag \in e.tags THEN seqs \cup {e.seq} ELSE seqs

UpdateIndex(t) ==
    /\ Goto(t, "index", "hash")
    /\ index' = [index EXCEPT ![on[t]] =
                   [tag \in Tags |-> UnderTag(event[t], tag, @[tag])]]
    /\ UNCHANGED <<disk, live, sequence, lock, on, event, issued, faults>>

\* What is written behind half a line becomes one line with it.
HashLine(e) == IF hashTail = NoHash THEN HashOf(e) ELSE Garbled

AppendHash(t) ==
    /\ Goto(t, "hash", "advance")
    /\ hashFile' = AppendedLine(hashFile, HashLine(event[t]), on[t])
    /\ hashTail' = NoHash
    /\ UNCHANGED <<ledger, torn, indexFile, checkpoints, saves, memory, on,
                   event, issued, faults>>

\* The with block is left and the locals of emit_event are gone.
Leave(t) ==
    /\ lock' = [lock EXCEPT ![on[t]] = NoThread]
    /\ event' = [event EXCEPT ![t] = NoEvent]

\* Mutant: _sequence stays.
SameSequence(h) == sequence[h]

NextSequence(h) == sequence[h] + 1

Advance(t) ==
    /\ Goto(t, "advance", "idle")
    /\ sequence' = [sequence EXCEPT ![on[t]] = NextSequence(on[t])]
    /\ Leave(t)
    /\ UNCHANGED <<disk, live, index, on, issued, faults>>

----------------------------------------------------------------------------
(* save_checkpoint: the file is named by the number the caller read        *)
(* without the lock; then the index is written; then CHECKPOINT_SAVED is   *)
(* emitted like any event.                                                 *)

\* Mutant: the number of the last event instead of the next one.
CheckpointNamePrevious(h) == sequence[h] - 1

CheckpointName(h) == sequence[h]

WriteCheckpoint(h) ==
    /\ h \in live
    /\ issued < MaxEvents
    /\ Goto(Runner, "idle", "persist")
    /\ on' = [on EXCEPT ![Runner] = h]
    /\ saves' = saves + 1
    /\ checkpoints' = [n \in DOMAIN checkpoints \cup {CheckpointName(h)} |->
                         IF n = CheckpointName(h) THEN saves + 1
                                                  ELSE checkpoints[n]]
    /\ Draft(Runner, {CkptTag})
    /\ UNCHANGED <<ledger, torn, hashFile, hashTail, indexFile, memory, faults>>

PersistIndex ==
    /\ Goto(Runner, "persist", "lock")
    /\ indexFile' = index[on[Runner]]
    /\ UNCHANGED <<ledger, torn, hashFile, hashTail, checkpoints, saves, memory, on,
                   event, issued, faults>>

----------------------------------------------------------------------------
(* Faults.                                                                 *)

\* The append of t's hash leaves a part of it, or all but its newline.
TearHash(t) ==
    /\ pc[t] = "hash"
    /\ hashTail' \in {Garbled} \cup (IF hashTail = NoHash THEN {HashOf(event[t])} ELSE {})

\* The process that owns h dies: its files stay as they are, everything in
\* memory is gone.  A write in progress may leave a part of the line; a line
\* of the ledger without its newline is torn at once, not by the next line.
Crash(h) ==
    /\ h \in live
    /\ crashes < MaxFaults
    /\ crashes' = crashes + 1
    /\ pc' = [t \in Threads |-> IF on[t] = h THEN "idle" ELSE pc[t]]
    /\ torn' \in {torn, torn \/ \E t \in Threads : Using(t, h) /\ pc[t] = "append"}
    /\ UNCHANGED hashTail \/ \E t \in Threads : Using(t, h) /\ TearHash(t)
    /\ event' = [t \in Threads |-> IF on[t] = h THEN NoEvent ELSE event[t]]
    /\ Forget(h)
    /\ UNCHANGED <<ledger, hashFile, indexFile, checkpoints, saves, on, issued,
                   failedWrites>>

\* One of the two appends raises (disk full, permission): the exception
\* leaves the with block, the lock is released, _sequence stays.
AppendRaises(t) ==
    /\ pc[t] \in {"append", "hash"}
    /\ failedWrites < MaxFaults
    /\ failedWrites' = failedWrites + 1
    /\ pc' = [pc EXCEPT ![t] = "idle"]
    /\ torn' \in {torn, torn \/ pc[t] = "append"}
    /\ UNCHANGED hashTail \/ TearHash(t)
    /\ Leave(t)
    /\ UNCHANGED <<ledger, hashFile, indexFile, checkpoints, saves, live,
                   sequence, index, on, issued, crashes>>

----------------------------------------------------------------------------
Init ==
    /\ ledger = <<>> /\ torn = FALSE /\ hashFile = <<>> /\ hashTail = NoHash
    /\ indexFile = EmptyIndex /\ checkpoints = <<>> /\ saves = 0
    /\ live = {}
    /\ sequence = [h \in Handles |-> 0]
    /\ index = [h \in Handles |-> EmptyIndex]
    /\ lock = [h \in Handles |-> NoThread]
    /\ pc = [t \in Threads |-> "idle"]
    /\ on \in [Threads -> {CHOOSE h \in Handles : TRUE}]
    /\ event = [t \in Threads |-> NoEvent]
    /\ issued = 0 /\ crashes = 0 /\ failedWrites = 0

EmitStep(t) ==
    \/ \E h \in Handles, tags \in SUBSET Tags : Emit(t, h, tags)
    \/ Acquire(t)
    \/ CreateEvent(t)
    \/ AppendToLedger(t)
    \/ UpdateIndex(t)
    \/ AppendHash(t)
    \/ Advance(t)

Next ==
    \/ \E h \in Handles : Create(h) \/ Close(h) \/ WriteCheckpoint(h)
    \/ PersistIndex
    \/ \E t \in Threads : EmitStep(t)

ResumeNext == Next \/ \E h \in Handles : Attach(h)

FaultNext ==
    \/ Next
    \/ \E h \in Handles : Crash(h)
    \/ \E t \in Threads : AppendRaises(t)

Spec == Init /\ [][Next]_vars
ResumeSpec == Init /\ [][ResumeNext]_vars
FaultSpec == Init /\ [][FaultNext]_vars

----------------------------------------------------------------------------
(* Properties.                                                             *)

\* Every variable holds what the code can put in it.
TypeOK ==
    /\ ledger \in Seq(Event) /\ torn \in BOOLEAN /\ hashFile \in Seq(Nat)
    /\ hashTail \in Nat /\ indexFile \in [Tags -> SUBSET Nat]
    /\ DOMAIN checkpoints \subseteq Nat
    /\ \A n \in DOMAIN checkpoints : checkpoints[n] \in 1..saves
    /\ saves \in Nat
    /\ live \subseteq Handles
    /\ sequence \in [Handles -> Nat]
    /\ index \in [Handles -> [Tags -> SUBSET Nat]]
    /\ lock \in [Handles -> Threads \cup {NoThread}]
    /\ pc \in [Threads -> {"idle", "persist", "lock", "create", "append",
                           "index", "hash", "advance"}]
    /\ on \in [Threads -> Handles]
    /\ event \in [Threads -> Event]
    /\ issued \in Nat /\ crashes \in Nat /\ failedWrites \in Nat

\* No thread is between its first append and the end of emit_event.
Quiet == \A t \in Threads : pc[t] \notin {"index", "hash", "advance"}

\* What verify_chain computes.
VerifyChain ==
    /\ ledger # <<>> => ledger[1].prev = NoHash
    /\ \A i \in 2..Len(ledger) : ledger[i].prev = HashOf(ledger[i - 1])
    /\ HashLines # <<>> /\ ledger # <<>> =>
         /\ Len(HashLines) = Len(ledger)
         /\ \A i \in 1..Len(ledger) : HashLines[i] = HashOf(ledger[i])

\* The ledger of a run, read between two emissions, passes verify_chain:
\* no interleaving of the emitting threads, and no reopening, makes the
\* tamper check report a break that nobody caused.
ChainVerifies == Quiet /\ ~torn => VerifyChain

\* load_last_checkpoint, which takes the file with the greatest name,
\* returns the state that was saved last.
LastCheckpointIsNewest ==
    saves > 0 => checkpoints[Greatest(DOMAIN checkpoints)] = saves

\* Events are numbered in the order they stand in the ledger.
SequenceIsMonotonic ==
    \A i, j \in 1..Len(ledger) : i < j => ledger[i].seq < ledger[j].seq

InOrder(hashes) ==
    \A j, k \in 1..Len(hashes) : j <= k /\ hashes[j] # Garbled /\ hashes[k] # Garbled =>
        \E a, b \in 1..Len(ledger) :
            /\ a <= b /\ (j < k => a < b)
            /\ hashes[j] = HashOf(ledger[a])
            /\ hashes[k] = HashOf(ledger[b])

\* The whole hashes on disk are those of events on disk, in the order of the
\* ledger, whatever crashes and failed writes left out or cut short.
HashesInOrder == ~torn => InOrder(HashLines)

\* Only a failed write makes a sequence number appear twice: a run reopened
\* by create after a crash goes on with a fresh number.
NumbersRepeatOnlyOnFailedWrites ==
    Quiet /\ ~torn =>
        Len(ledger) - Cardinality(Sequences(ledger)) <= failedWrites

Ids == {ledger[i].id : i \in 1..Len(ledger)}

Whole(hashes) == {hashes[i] : i \in 1..Len(hashes)} \ {Garbled}

\* Whoever writes, and whatever dies, between emissions no event is written
\* twice, every whole hash is that of an event and stands there once, and each
\* crash or failed write costs the hashes of two events at most, its own and
\* the one that is joined to half a line: two handles may interleave their
\* lines, but they overwrite, lose and repeat none.
DamageBounded ==
    Quiet /\ ~torn =>
        /\ Cardinality(Ids) = Len(ledger)
        /\ Whole(HashLines) \subseteq Ids
        /\ \A i, j \in 1..Len(HashLines) :
             HashLines[i] = HashLines[j] /\ HashLines[i] # Garbled => i = j
        /\ Cardinality(Ids \ Whole(HashLines)) <= 2 * (crashes + failedWrites)

Log == INSTANCE AuditLog WITH log <- ledger, sealed <- hashFile, Ids <- 1..MaxEvents

\* One handle at a time, opened by create, with any number of threads,
\* implements the append-only hash-chained log.
ImplementsAuditLog == Log!ASpec
=============================================================================
