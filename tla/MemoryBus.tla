------------------------------ MODULE MemoryBus -----------------------------
(***************************************************************************)
(* Structured memory: MemoryBus of memory/bus.py over the backends of      *)
(* memory/backends, as GET and PUT /api/memory/{scope}/{key} use it.       *)
(*                                                                         *)
(* Processes (API server, web interface, a script) share the directory     *)
(* .ai-team/memory; threads of a process share its bus.  A write holds the *)
(* lock of the bus and a lock file, a read the lock of the bus only.  One  *)
(* key stands for all; a value is named by the call that writes it.        *)
(***************************************************************************)
EXTENDS Naturals, Sequences, FiniteSets

CONSTANTS
    MemoryCalls,    \* calls of the bus, one operation each
    ProcessOf,      \* the process each of them runs in
    RequestsOf,     \* what each of them may ask for: [op, backend]
    MemoryCrashes,  \* may processes die?
    NoValue         \* no value, no process, no thread

Backends == {"jsonl", "sqlite", "vector"}

Processes == {ProcessOf[t] : t \in MemoryCalls}

\* "nested": the caller holds the bus itself when it writes.
MemoryOps == {"read", "write", "nested"}

ASSUME MemoryAssumption ==
    /\ IsFiniteSet(MemoryCalls)
    /\ NoValue \notin MemoryCalls \cup Processes
    /\ \A t \in MemoryCalls :
         RequestsOf[t] \subseteq [op : MemoryOps, backend : Backends \cup {"global"}]
    /\ MemoryCrashes \in BOOLEAN

VARIABLES
    lines,     \* the lines of the key's .jsonl file
    row,       \* its row of the SQLite table
    index,     \* vector_index.json: [is, value]
    lockFile,  \* the process that holds .memory.bus.lock
    bus,       \* the bus of each process: [lock, holder, loaded, value]
    memory,    \* the calls: [at, op, backend, depth, copy, value]
    serial,    \* history: how many writes came before each finished write
    before     \* history: writes finished when the call began

memoryVars == <<lines, row, index, lockFile, bus, memory, serial, before>>

NewBus == [lock |-> NoValue, holder |-> NoValue, loaded |-> FALSE, value |-> NoValue]

NewMemoryCall == [at |-> "new", op |-> "read", backend |-> "jsonl", depth |-> 0,
                  copy |-> <<>>, value |-> NoValue]

BusOf(t) == bus[ProcessOf[t]]

MemoryAt(t, at) == memory' = [memory EXCEPT ![t].at = at]

----------------------------------------------------------------------------
(* exclusive and shared.                                                   *)

Written == {t \in MemoryCalls : memory[t].at = "done" /\ memory[t].op \in {"write", "nested"}}

\* The endpoints pass the scope of the request where the bus expects the name
\* of a backend: a scope that is not one is unknown to it.
StartMemory(t, op, backend) ==
    /\ memory[t].at = "new"
    /\ memory' = [memory EXCEPT ![t].at = "lock", ![t].op = op, ![t].backend = backend]
    /\ before' = [before EXCEPT ![t] = Written]
    /\ UNCHANGED <<lines, row, index, lockFile, bus, serial>>

\* RLock: the thread that holds it may take it again.
ThreadMayLock(t) == BusOf(t).lock \in {NoValue, t}

LockThread(t) ==
    LET p == ProcessOf[t] IN
    /\ memory[t].at = "lock"
    /\ ThreadMayLock(t)
    /\ bus' = [bus EXCEPT ![p].lock = t]
    /\ memory' = [memory EXCEPT ![t].depth = @ + 1,
                    ![t].at = IF memory[t].op = "read" THEN "backend" ELSE "lockfile"]
    /\ UNCHANGED <<lines, row, index, lockFile, serial, before>>

\* Mutant: a thread waits for the lock file whatever it holds.
HoldsNothing(t) == FALSE

AlreadyHolds(t) == BusOf(t).holder = t

\* Mutant: the lock file is not looked at.
NoLockFile(t) == TRUE

LockFileFree(t) == lockFile = NoValue

\* A caller that holds the bus itself (op "nested") goes on to write, which
\* takes it a second time.
LockTheFile(t) ==
    LET p == ProcessOf[t] IN
    /\ memory[t].at = "lockfile"
    /\ \/ AlreadyHolds(t) /\ UNCHANGED <<bus, lockFile>>
       \/ /\ ~AlreadyHolds(t) /\ LockFileFree(t)
          /\ lockFile' = p
          /\ bus' = [bus EXCEPT ![p].holder = t]
    /\ MemoryAt(t, IF memory[t].op = "nested" /\ memory[t].depth = 1 THEN "lock" ELSE "backend")
    /\ UNCHANGED <<lines, row, index, serial, before>>

\* The lock file cannot be opened or locked: both locks are taken before the
\* try, so the call raises and its thread keeps the lock of the bus.
LockFileRefused(t) ==
    /\ memory[t].at = "lockfile" /\ ~AlreadyHolds(t)
    /\ MemoryAt(t, "refused")
    /\ UNCHANGED <<lines, row, index, lockFile, bus, serial, before>>

\* The finally clauses, of the inner and of the outer context.
Unlock(t) ==
    LET p == ProcessOf[t]
        outer == memory[t].depth = 1
    IN
    /\ memory[t].at = "unlock"
    /\ memory' = [memory EXCEPT ![t].depth = @ - 1, ![t].at = IF outer THEN "done" ELSE @]
    /\ bus' = IF outer THEN [bus EXCEPT ![p].lock = NoValue, ![p].holder = NoValue] ELSE bus
    /\ lockFile' = IF outer /\ bus[p].holder = t THEN NoValue ELSE lockFile
    /\ UNCHANGED <<lines, row, index, serial, before>>

----------------------------------------------------------------------------
(* _get_backend, and the backends.                                         *)

\* mapping[name] raises for what is not a backend, and the vector index is
\* read when the process first uses it, which fails on half a file.
GetBackend(t) ==
    LET p == ProcessOf[t]
        vector == memory[t].backend = "vector"
    IN
    /\ memory[t].at = "backend"
    /\ \/ /\ memory[t].backend \notin Backends \/ (vector /\ ~bus[p].loaded /\ index.is = "torn")
          /\ memory' = [memory EXCEPT ![t].at = "unlock", ![t].op = "failed"]
          /\ UNCHANGED bus
       \/ /\ memory[t].backend \in Backends
          /\ vector => bus[p].loaded \/ index.is = "whole"
          /\ bus' = IF vector /\ ~bus[p].loaded
                    THEN [bus EXCEPT ![p].loaded = TRUE, ![p].value = index.value]
                    ELSE bus
          /\ MemoryAt(t, IF memory[t].op = "read" THEN "read" ELSE "write")
    /\ UNCHANGED <<lines, row, index, lockFile, serial, before>>

LastLine == IF lines = <<>> THEN NoValue ELSE lines[Len(lines)]

ReadValue(t) ==
    /\ memory[t].at = "read"
    /\ memory' = [memory EXCEPT ![t].at = "unlock", ![t].value =
         CASE @ = NoValue /\ memory[t].backend = "jsonl" -> LastLine
           [] @ = NoValue /\ memory[t].backend = "sqlite" -> row
           [] OTHER -> BusOf(t).value]
    /\ UNCHANGED <<lines, row, index, lockFile, bus, serial, before>>

\* The write is there: it has a place among the writes.
Commit(t) ==
    /\ memory' = [memory EXCEPT ![t].at = "unlock", ![t].copy = <<>>]
    /\ serial' = [serial EXCEPT ![t] =
         1 + Cardinality({u \in MemoryCalls : serial[u] > 0})]

\* The lines are copied into a temporary file, ...
CopyLines(t) ==
    /\ memory[t].at = "write" /\ memory[t].backend = "jsonl"
    /\ memory' = [memory EXCEPT ![t].at = "replace", ![t].copy = lines]
    /\ UNCHANGED <<lines, row, index, lockFile, bus, serial, before>>

\* ... which replaces the file.
ReplaceFile(t) ==
    /\ memory[t].at = "replace"
    /\ lines' = Append(memory[t].copy, t)
    /\ Commit(t)
    /\ UNCHANGED <<row, index, lockFile, bus, before>>

\* INSERT ... ON CONFLICT: one transaction.
Upsert(t) ==
    /\ memory[t].at = "write" /\ memory[t].backend = "sqlite"
    /\ row' = t
    /\ Commit(t)
    /\ UNCHANGED <<lines, index, lockFile, bus, before>>

\* The entry is changed in memory and the whole index is written over.
RewriteIndex(t) ==
    LET p == ProcessOf[t] IN
    /\ memory[t].at = "write" /\ memory[t].backend = "vector"
    /\ bus' = [bus EXCEPT ![p].value = t]
    /\ index' = [is |-> "torn", value |-> NoValue]
    /\ MemoryAt(t, "dump")
    /\ UNCHANGED <<lines, row, lockFile, serial, before>>

DumpIndex(t) ==
    /\ memory[t].at = "dump"
    /\ index' = [is |-> "whole", value |-> BusOf(t).value]
    /\ Commit(t)
    /\ UNCHANGED <<lines, row, lockFile, bus, before>>

----------------------------------------------------------------------------
\* A process dies: the operating system frees its lock.
ProcessDies(p) ==
    /\ MemoryCrashes
    /\ \E t \in MemoryCalls : ProcessOf[t] = p /\ memory[t].at \notin {"new", "done", "dead"}
    /\ memory' = [t \in MemoryCalls |->
         IF ProcessOf[t] = p /\ memory[t].at \notin {"new", "done"}
         THEN [NewMemoryCall EXCEPT !.at = "dead"] ELSE memory[t]]
    /\ bus' = [bus EXCEPT ![p] = NewBus]
    /\ lockFile' = IF lockFile = p THEN NoValue ELSE lockFile
    /\ UNCHANGED <<lines, row, index, serial, before>>

MemoryInit ==
    /\ lines = <<>> /\ row = NoValue
    /\ index = [is |-> "whole", value |-> NoValue]
    /\ lockFile = NoValue
    /\ bus = [p \in Processes |-> NewBus]
    /\ memory = [t \in MemoryCalls |-> NewMemoryCall]
    /\ serial = [t \in MemoryCalls |-> 0]
    /\ before = [t \in MemoryCalls |-> {}]

MemoryStep(t) ==
    \/ LockThread(t) \/ LockTheFile(t) \/ LockFileRefused(t) \/ Unlock(t)
    \/ GetBackend(t) \/ ReadValue(t) \/ CopyLines(t) \/ ReplaceFile(t) \/ Upsert(t) \/ RewriteIndex(t) \/ DumpIndex(t)

MemoryNext ==
    \/ \E t \in MemoryCalls :
         \/ \E r \in RequestsOf[t] : StartMemory(t, r.op, r.backend)
         \/ MemoryStep(t)
    \/ \E p \in Processes : ProcessDies(p)

MemorySpec == MemoryInit /\ [][MemoryNext]_memoryVars

----------------------------------------------------------------------------
\* A value is as new as every write that was finished when the call began, of
\* its own process if the vectors, which each process keeps, are asked.
NewerThan(t, w) ==
    /\ memory[w].backend = memory[t].backend
    /\ memory[t].backend = "vector" => ProcessOf[w] = ProcessOf[t]
    => memory[t].value # NoValue /\ serial[memory[t].value] >= serial[w]

\* Threads and processes that read and write in any overlap, hold the bus
\* twice or die: a write that was answered stays in the file, once and in its
\* order, and no later read returns a value older than it.
MemoryKept ==
    /\ \A i, j \in DOMAIN lines : i < j => serial[lines[i]] < serial[lines[j]]
    /\ \A t \in Written : memory[t].backend = "jsonl" => \E i \in DOMAIN lines : lines[i] = t
    /\ \A t \in MemoryCalls :
         memory[t].at = "done" /\ memory[t].op = "read" /\ memory[t].backend \in Backends =>
             \A w \in before[t] : NewerThan(t, w)

\* A call waits for the two locks only, and for a backend that is none: what
\* ENABLED MemoryStep(t) says, but for an error of the lock file.
CanStep(t) ==
    \/ memory[t].at = "lock" /\ ThreadMayLock(t)
    \/ memory[t].at = "lockfile" /\ (AlreadyHolds(t) \/ LockFileFree(t))
    \/ memory[t].at = "write" /\ memory[t].backend \in Backends
    \/ memory[t].at \in {"backend", "read", "replace", "dump", "unlock"}

\* The bus of p is with a thread that could not have the lock file.
Forsaken(p) == bus[p].lock # NoValue /\ memory[bus[p].lock].at = "refused"

\* No order of the two locks, no second taking of them, no failing backend and
\* no death of a process makes the calls wait for each other: while one is
\* under way whose bus an error of the lock file has not left locked, one can
\* go on, whatever became of the other processes.
MemoryNeverStuck ==
    (\E t \in MemoryCalls : /\ memory[t].at \notin {"new", "done", "dead"}
                            /\ ~Forsaken(ProcessOf[t]))
        => \E t \in MemoryCalls : CanStep(t)

\* The bus keeps what it was given, and stays able to answer.
MemoryServes == MemoryKept /\ MemoryNeverStuck
=============================================================================
