--------------------------- MODULE RunLedgerProofs --------------------------
(***************************************************************************)
(* What RunLedger guarantees for every number of threads, events and tags  *)
(* when one handle at a time is open on the run directory: the hash chain  *)
(* verifies, and the ledger implements AuditLog.                           *)
(*                                                                         *)
(* ChainVerifies is not inductive: it says nothing while a thread is       *)
(* inside emit_event, so Inv adds what is true there: who holds the lock   *)
(* (LockInv), how far the two files have got (Progress) and which ids are  *)
(* still free (FreshIds).                                                  *)
(*                                                                         *)
(* What damages a run directory is the matter of DamageInv, for any number *)
(* of handles, faults and resumes: an id is used once (IdsAreFresh), and a *)
(* hash is lost only with a fault (LostExplained).  WriterInv says of one  *)
(* handle at a time that who owes a hash wrote last (OwedIsLast), and when *)
(* the next number may be an old one (RepeatsExplained).                   *)
(*                                                                         *)
(* And what the steps of AnswerPipelines hand on to each other, which in   *)
(* the attempt that ran them is what the ledger says they completed.       *)
(***************************************************************************)
EXTENDS MCRepository, FiniteSetTheorems, WellFoundedInduction, TLAPS

SingleHandle == \E h : Handles = {h}

Unlocked == {"idle", "persist", "lock"}
Writing == {"index", "hash", "advance"}

\* A thread past Acquire holds the lock of an open handle.
LockInv ==
    \A t \in Threads :
        /\ pc[t] # "idle" => on[t] \in live
        /\ pc[t] \notin Unlocked => lock[on[t]] = t

\* Every event carries its position and the hash of the event before it,
\* and the hash file is the same length or one short.
Linked ==
    /\ \A i \in 1..Len(ledger) : ledger[i].seq = i - 1
    /\ \A i \in 2..Len(ledger) : ledger[i].prev = HashOf(ledger[i - 1])
    /\ ledger # <<>> => ledger[1].prev = NoHash
    /\ Len(hashFile) <= Len(ledger)
    /\ \A i \in 1..Len(hashFile) : hashFile[i] = HashOf(ledger[i])

\* Where each thread in emit_event has got, and where the handle stands when
\* no thread is past its first append.
Progress ==
    /\ Quiet => /\ Len(hashFile) = Len(ledger)
                /\ \A h \in live : sequence[h] = Len(ledger)
    /\ \A t \in Threads :
         /\ pc[t] = "append" => /\ event[t].seq = Len(ledger)
                                /\ event[t].prev = LastHash(hashFile)
         /\ pc[t] \in {"index", "hash"} =>
              /\ Len(ledger) = Len(hashFile) + 1
              /\ sequence[on[t]] = Len(hashFile)
              /\ event[t] = ledger[Len(ledger)]
         /\ pc[t] = "advance" => /\ Len(ledger) = Len(hashFile)
                                 /\ sequence[on[t]] + 1 = Len(ledger)

\* Ids are handed out once.
FreshIds ==
    /\ issued <= MaxEvents
    /\ \A i \in 1..Len(ledger) : ledger[i].id \in 1..issued
    /\ \A t \in Threads : pc[t] # "idle" => event[t].id \in 1..issued
    /\ \A t, u \in Threads :
         pc[t] # "idle" /\ pc[u] # "idle" /\ t # u => event[t].id # event[u].id
    /\ \A t \in Threads : pc[t] \in {"persist", "lock", "create", "append"} =>
         \A i \in 1..Len(ledger) : ledger[i].id # event[t].id

Inv == TypeOK /\ torn = FALSE /\ hashTail = NoHash /\ LockInv /\ Linked /\ Progress /\ FreshIds

----------------------------------------------------------------------------
(* Lemmas.                                                                 *)

\* _restore_sequence_from_ledger returns the length of a ledger numbered
\* from 0.
LEMMA RestoreLemma ==
    ASSUME ledger \in Seq(Event), \A i \in 1..Len(ledger) : ledger[i].seq = i - 1
    PROVE  RestoredSequence = Len(ledger)
<1>1. CASE ledger = <<>> BY <1>1 DEF RestoredSequence
<1>2. CASE ledger # <<>>
  <2>1. Len(ledger) \in Nat \ {0} BY <1>2
  <2>2. Sequences(ledger) = 0..(Len(ledger) - 1)
    <3>1. ASSUME NEW n \in 0..(Len(ledger) - 1) PROVE n \in Sequences(ledger)
      <4>1. n + 1 \in 1..Len(ledger) /\ ledger[n + 1].seq = n BY <2>1
      <4>2. QED BY <4>1 DEF Sequences
    <3>2. Sequences(ledger) \subseteq 0..(Len(ledger) - 1) BY <2>1 DEF Sequences
    <3>3. QED BY <3>1, <3>2
  <2>3. \E m \in 0..(Len(ledger) - 1) : \A n \in 0..(Len(ledger) - 1) : n <= m
    <3>1. /\ Len(ledger) - 1 \in 0..(Len(ledger) - 1)
          /\ \A n \in 0..(Len(ledger) - 1) : n <= Len(ledger) - 1
      BY <2>1
    <3>2. QED BY <3>1
  <2>4. Greatest(Sequences(ledger)) = Len(ledger) - 1
    <3>1. /\ Greatest(Sequences(ledger)) \in 0..(Len(ledger) - 1)
          /\ \A n \in 0..(Len(ledger) - 1) : n <= Greatest(Sequences(ledger))
      BY <2>2, <2>3 DEF Greatest
    <3>2. QED BY <3>1, <2>1
  <2>5. QED BY <2>1, <2>4, <1>2 DEF RestoredSequence
<1>3. QED BY <1>1, <1>2

\* Two threads past Acquire are the same thread.
LEMMA MutualExclusion ==
    ASSUME SingleHandle, TypeOK, LockInv,
           NEW t \in Threads, NEW u \in Threads,
           pc[t] \notin Unlocked, pc[u] \notin Unlocked
    PROVE  t = u
BY DEF SingleHandle, TypeOK, LockInv, Unlocked

LEMMA InitInv == ASSUME SingleHandle PROVE Init => Inv
<1> SUFFICES ASSUME Init PROVE Inv OBVIOUS
<1> USE DEF Init
<1>1. (CHOOSE h \in Handles : TRUE) \in Handles BY DEF SingleHandle
<1>2. TypeOK
  <2>1. NoEvent \in Event BY LedgerAssumption DEF NoEvent, Event
  <2>0. hashTail \in Nat BY LedgerAssumption
  <2>2. EmptyIndex \in [Tags -> SUBSET Nat] BY DEF EmptyIndex
  <2>3. ledger \in Seq(Event) /\ hashFile \in Seq(Nat) OBVIOUS
  <2>4. DOMAIN checkpoints = {} OBVIOUS
  <2>5. on \in [Threads -> Handles] BY <1>1
  <2>6. QED BY <2>0, <2>1, <2>2, <2>3, <2>4, <2>5 DEF TypeOK
<1>3. LockInv BY DEF LockInv, Unlocked
<1>4. Linked BY DEF Linked
<1>5. Progress BY DEF Progress, Quiet
<1>6. FreshIds BY LedgerAssumption DEF FreshIds, Unlocked
<1>7. QED BY <1>2, <1>3, <1>4, <1>5, <1>6 DEF Inv

\* Every step leaves every variable in its type.
LEMMA NextType == ASSUME SingleHandle, Inv, Next PROVE TypeOK' /\ torn' = FALSE /\ hashTail' = NoHash
<1> USE DEF Inv, vars, disk, memory, faults, TypeOK, EmptyIndex, Event
<1>a. RestoredSequence \in Nat
  <2>1. ledger \in Seq(Event) /\ \A i \in 1..Len(ledger) : ledger[i].seq = i - 1
    BY DEF Linked
  <2>2. RestoredSequence = Len(ledger) BY <2>1, RestoreLemma
  <2>3. Len(ledger) \in Nat BY ONLY <2>1
  <2>4. QED BY ONLY <2>2, <2>3
<1>b. LastHash(hashFile) \in Nat BY LedgerAssumption DEF LastHash
<1>1. ASSUME NEW h \in Handles, Create(h)
     PROVE TypeOK' /\ torn' = FALSE /\ hashTail' = NoHash
  BY <1>1, LedgerAssumption, <1>a DEF Create, Open
<1>2. ASSUME NEW h \in Handles, Close(h)
     PROVE TypeOK' /\ torn' = FALSE /\ hashTail' = NoHash
  BY <1>2, LedgerAssumption DEF Close, Forget, Using
<1>3. ASSUME NEW h \in Handles, WriteCheckpoint(h)
     PROVE TypeOK' /\ torn' = FALSE /\ hashTail' = NoHash
  BY <1>3, LedgerAssumption DEF WriteCheckpoint, Goto, Draft, NoEvent, CheckpointName
<1>4. ASSUME PersistIndex
     PROVE TypeOK' /\ torn' = FALSE /\ hashTail' = NoHash
  BY <1>4, LedgerAssumption DEF PersistIndex, Goto
<1>5. ASSUME NEW t \in Threads, NEW h \in Handles, NEW tags \in SUBSET Tags, Emit(t, h, tags)
     PROVE TypeOK' /\ torn' = FALSE /\ hashTail' = NoHash
  BY <1>5, LedgerAssumption DEF Emit, Goto, Draft, NoEvent
<1>6. ASSUME NEW t \in Threads, Acquire(t)
     PROVE TypeOK' /\ torn' = FALSE /\ hashTail' = NoHash
  BY <1>6, LedgerAssumption DEF Acquire, Goto, LockFree
<1>7. ASSUME NEW t \in Threads, CreateEvent(t)
     PROVE TypeOK' /\ torn' = FALSE /\ hashTail' = NoHash
  <2>1. event' \in [Threads -> Event]
    <3>1. sequence[on[t]] \in Nat /\ event \in [Threads -> Event] OBVIOUS
    <3>2. event' = [event EXCEPT ![t] = [@ EXCEPT !.seq = sequence[on[t]],
                                                  !.prev = LastHash(hashFile)]]
      BY ONLY <1>7, <3>1, hashTail = NoHash DEF CreateEvent, ReadLastHash, HashLines
    <3>3. [event[t] EXCEPT !.seq = sequence[on[t]], !.prev = LastHash(hashFile)] \in Event
      BY ONLY <1>b, <3>1 DEF Event
    <3>4. QED BY ONLY <3>1, <3>2, <3>3
  <2>2. /\ UNCHANGED <<disk, memory, on, issued, faults>>
        /\ pc' = [pc EXCEPT ![t] = "append"]
    BY <1>7 DEF CreateEvent, Goto
  <2>3. QED BY <2>1, <2>2
<1>8. ASSUME NEW t \in Threads, AppendToLedger(t)
     PROVE TypeOK' /\ torn' = FALSE /\ hashTail' = NoHash
  BY <1>8, LedgerAssumption DEF AppendToLedger, Goto, AppendedLine
<1>9. ASSUME NEW t \in Threads, UpdateIndex(t)
     PROVE TypeOK' /\ torn' = FALSE /\ hashTail' = NoHash
  BY <1>9, LedgerAssumption DEF UpdateIndex, Goto, UnderTag
<1>10. ASSUME NEW t \in Threads, AppendHash(t)
      PROVE TypeOK' /\ torn' = FALSE /\ hashTail' = NoHash
  BY <1>10, LedgerAssumption DEF AppendHash, Goto, AppendedLine, HashLine, HashOf
<1>11. ASSUME NEW t \in Threads, Advance(t)
      PROVE TypeOK' /\ torn' = FALSE /\ hashTail' = NoHash
  BY <1>11, LedgerAssumption DEF Advance, Goto, Leave, NextSequence, NoEvent
<1>12. QED BY <1>1, <1>2, <1>3, <1>4, <1>5, <1>6, <1>7, <1>8, <1>9, <1>10, <1>11
  DEF Next, EmitStep

\* Every step respects the lock.
LEMMA NextLock == ASSUME SingleHandle, Inv, Next PROVE LockInv'
<1> USE DEF Inv, vars, disk, memory, faults, TypeOK, LockInv, Unlocked, SingleHandle
<1>1. ASSUME NEW h \in Handles, Create(h)
     PROVE LockInv'
  BY <1>1, LedgerAssumption DEF Create, Open
<1>2. ASSUME NEW h \in Handles, Close(h)
     PROVE LockInv'
  BY <1>2, LedgerAssumption DEF Close, Forget, Using
<1>3. ASSUME NEW h \in Handles, WriteCheckpoint(h)
     PROVE LockInv'
  BY <1>3, LedgerAssumption DEF WriteCheckpoint, Goto, Draft, NoEvent, CheckpointName
<1>4. ASSUME PersistIndex
     PROVE LockInv'
  BY <1>4, LedgerAssumption DEF PersistIndex, Goto
<1>5. ASSUME NEW t \in Threads, NEW h \in Handles, NEW tags \in SUBSET Tags, Emit(t, h, tags)
     PROVE LockInv'
  BY <1>5, LedgerAssumption DEF Emit, Goto, Draft, NoEvent
<1>6. ASSUME NEW t \in Threads, Acquire(t)
     PROVE LockInv'
  BY <1>6, LedgerAssumption DEF Acquire, Goto, LockFree
<1>7. ASSUME NEW t \in Threads, CreateEvent(t)
     PROVE LockInv'
  BY <1>7, LedgerAssumption DEF CreateEvent, Goto, ReadLastHash, HashLines
<1>8. ASSUME NEW t \in Threads, AppendToLedger(t)
     PROVE LockInv'
  BY <1>8, LedgerAssumption DEF AppendToLedger, Goto, AppendedLine
<1>9. ASSUME NEW t \in Threads, UpdateIndex(t)
     PROVE LockInv'
  BY <1>9, LedgerAssumption DEF UpdateIndex, Goto, UnderTag
<1>10. ASSUME NEW t \in Threads, AppendHash(t)
      PROVE LockInv'
  BY <1>10, LedgerAssumption DEF AppendHash, Goto, AppendedLine, HashLine
<1>11. ASSUME NEW t \in Threads, Advance(t)
      PROVE LockInv'
  BY <1>11, LedgerAssumption DEF Advance, Goto, Leave, NextSequence, NoEvent
<1>12. QED BY <1>1, <1>2, <1>3, <1>4, <1>5, <1>6, <1>7, <1>8, <1>9, <1>10, <1>11
  DEF Next, EmitStep

\* Every step keeps the chain linked.
LEMMA NextLinked == ASSUME SingleHandle, Inv, Next PROVE Linked'
<1> USE DEF Inv, vars, disk, memory, faults, TypeOK, Linked, HashOf
<1>a. Quiet => Len(hashFile) = Len(ledger) BY DEF Progress
<1>1. ASSUME NEW h \in Handles, Create(h)
     PROVE Linked'
  BY <1>1 DEF Create, Open
<1>2. ASSUME NEW h \in Handles, Close(h)
     PROVE Linked'
  BY <1>2 DEF Close, Forget, Using
<1>3. ASSUME NEW h \in Handles, WriteCheckpoint(h)
     PROVE Linked'
  BY <1>3 DEF WriteCheckpoint, Goto, Draft, NoEvent, CheckpointName
<1>4. ASSUME PersistIndex
     PROVE Linked'
  BY <1>4 DEF PersistIndex, Goto
<1>5. ASSUME NEW t \in Threads, NEW h \in Handles, NEW tags \in SUBSET Tags, Emit(t, h, tags)
     PROVE Linked'
  BY <1>5 DEF Emit, Goto, Draft, NoEvent
<1>6. ASSUME NEW t \in Threads, Acquire(t)
     PROVE Linked'
  BY <1>6 DEF Acquire, Goto, LockFree
<1>7. ASSUME NEW t \in Threads, CreateEvent(t)
     PROVE Linked'
  BY <1>7 DEF CreateEvent, Goto, ReadLastHash, HashLines
<1>8. ASSUME NEW t \in Threads, AppendToLedger(t)
     PROVE Linked'
  <2>1. pc[t] = "append" /\ Quiet
    BY <1>8, MutualExclusion DEF AppendToLedger, Goto, Quiet, Unlocked
  <2>2. ledger' = Append(ledger, event[t]) /\ hashFile' = hashFile
    BY <1>8 DEF AppendToLedger, AppendedLine
  <2>3. event[t].seq = Len(ledger) /\ event[t].prev = LastHash(hashFile)
    BY <2>1 DEF Progress
  <2>4. Len(hashFile) = Len(ledger) BY <2>1, <1>a
  <2>5. ledger # <<>> => event[t].prev = HashOf(ledger[Len(ledger)])
    BY <2>3, <2>4 DEF LastHash
  <2>6. ledger = <<>> => event[t].prev = NoHash BY <2>3, <2>4 DEF LastHash
  <2>7. QED BY <2>2, <2>3, <2>4, <2>5, <2>6
<1>9. ASSUME NEW t \in Threads, UpdateIndex(t)
     PROVE Linked'
  BY <1>9 DEF UpdateIndex, Goto, UnderTag
<1>10. ASSUME NEW t \in Threads, AppendHash(t)
      PROVE Linked'
  <2>1. /\ Len(ledger) = Len(hashFile) + 1
        /\ event[t] = ledger[Len(ledger)]
    BY <1>10 DEF AppendHash, Goto, Progress
  <2>2. hashFile' = Append(hashFile, HashOf(event[t])) /\ ledger' = ledger
    BY <1>10 DEF AppendHash, AppendedLine, HashLine
  <2>3. ASSUME NEW i \in 1..Len(hashFile') PROVE hashFile'[i] = HashOf(ledger'[i])
    <3>1. CASE i \in 1..Len(hashFile) BY <3>1, <2>2
    <3>2. CASE i = Len(hashFile) + 1 BY <3>2, <2>1, <2>2
    <3>3. QED BY <3>1, <3>2, <2>2
  <2>4. Len(hashFile') <= Len(ledger') BY <2>1, <2>2
  <2>5. /\ \A i \in 1..Len(ledger') : ledger'[i].seq = i - 1
        /\ \A i \in 2..Len(ledger') : ledger'[i].prev = HashOf(ledger'[i - 1])
        /\ ledger' # <<>> => ledger'[1].prev = NoHash
    BY ONLY <2>2, Inv DEF Inv, Linked
  <2>6. \A i \in 1..Len(hashFile') : hashFile'[i] = HashOf(ledger'[i]) BY ONLY <2>3
  <2>7. QED BY ONLY <2>4, <2>5, <2>6 DEF Linked
<1>11. ASSUME NEW t \in Threads, Advance(t)
      PROVE Linked'
  BY <1>11 DEF Advance, Goto, Leave, NextSequence, NoEvent
<1>12. QED BY <1>1, <1>2, <1>3, <1>4, <1>5, <1>6, <1>7, <1>8, <1>9, <1>10, <1>11
  DEF Next, EmitStep

\* Every step leaves each thread where Progress says.
LEMMA NextProgress == ASSUME SingleHandle, Inv, Next PROVE Progress'
<1> USE DEF Inv, vars, disk, memory, faults, TypeOK, LockInv, Progress, Quiet, SingleHandle, Unlocked
<1>a. RestoredSequence = Len(ledger) BY RestoreLemma DEF Linked
<1>b. ASSUME NEW t \in Threads, NEW u \in Threads \ {t},
            pc[t] \notin Unlocked
     PROVE  pc[u] \in Unlocked
  BY <1>b, MutualExclusion
<1>c. Len(ledger) \in Nat /\ Len(hashFile) \in Nat OBVIOUS
<1>1. ASSUME NEW h \in Handles, Create(h)
     PROVE Progress'
  BY <1>1, LedgerAssumption, <1>a DEF Create, Open
<1>2. ASSUME NEW h \in Handles, Close(h)
     PROVE Progress'
  BY <1>2, LedgerAssumption DEF Close, Forget, Using
<1>3. ASSUME NEW h \in Handles, WriteCheckpoint(h)
     PROVE Progress'
  BY <1>3, LedgerAssumption DEF WriteCheckpoint, Goto, Draft, NoEvent, CheckpointName
<1>4. ASSUME PersistIndex
     PROVE Progress'
  BY <1>4, LedgerAssumption DEF PersistIndex, Goto
<1>5. ASSUME NEW t \in Threads, NEW h \in Handles, NEW tags \in SUBSET Tags, Emit(t, h, tags)
     PROVE Progress'
  BY <1>5, LedgerAssumption DEF Emit, Goto, Draft, NoEvent
<1>6. ASSUME NEW t \in Threads, Acquire(t)
     PROVE Progress'
  BY <1>6, LedgerAssumption DEF Acquire, Goto, LockFree
<1>7. ASSUME NEW t \in Threads, CreateEvent(t)
     PROVE Progress'
  <2>1. pc[t] = "create" /\ Quiet /\ on[t] \in live BY <1>7, <1>b DEF CreateEvent, Goto
  <2>2. /\ pc' = [pc EXCEPT ![t] = "append"]
        /\ event'[t].seq = sequence[on[t]] /\ event'[t].prev = LastHash(hashFile)
        /\ \A u \in Threads \ {t} : event'[u] = event[u]
        /\ UNCHANGED <<ledger, hashFile, sequence, on, live>>
    BY <1>7 DEF CreateEvent, Goto, ReadLastHash, HashLines, Event
  <2>3. event'[t].seq = Len(ledger) BY <2>1, <2>2
  <2>4. LastHash(hashFile)' = LastHash(hashFile) BY <2>2 DEF LastHash
  <2>5. QED BY <2>1, <2>2, <2>3, <2>4
<1>8. ASSUME NEW t \in Threads, AppendToLedger(t)
     PROVE Progress'
  <2>1. pc[t] = "append" /\ Quiet /\ on[t] \in live
    BY <1>8, <1>b DEF AppendToLedger, Goto
  <2>2. /\ pc' = [pc EXCEPT ![t] = "index"]
        /\ ledger' = Append(ledger, event[t])
        /\ UNCHANGED <<hashFile, sequence, on, live, event>>
    BY <1>8 DEF AppendToLedger, Goto, AppendedLine
  <2>3. Len(ledger') = Len(ledger) + 1 /\ ledger'[Len(ledger')] = event[t] BY <2>2
  <2>4. \A u \in Threads \ {t} : pc[u] \in Unlocked BY <2>1, <1>b
  <2>5. \A u \in Threads \ {t} : pc'[u] \in Unlocked BY <2>2, <2>4
  <2>6. QED BY <2>1, <2>2, <2>3, <2>5, <1>c
<1>9. ASSUME NEW t \in Threads, UpdateIndex(t)
     PROVE Progress'
  BY <1>9, LedgerAssumption DEF UpdateIndex, Goto, UnderTag
<1>10. ASSUME NEW t \in Threads, AppendHash(t)
      PROVE Progress'
  <2>1. pc[t] = "hash" /\ \A u \in Threads \ {t} : pc[u] \in Unlocked
    BY <1>10, <1>b DEF AppendHash, Goto
  <2>2. /\ pc' = [pc EXCEPT ![t] = "advance"]
        /\ hashFile' = Append(hashFile, HashOf(event[t]))
        /\ UNCHANGED <<ledger, sequence, on, live, event>>
    BY <1>10 DEF AppendHash, Goto, AppendedLine, HashLine
  <2>3. Len(hashFile') = Len(hashFile) + 1 BY <2>2
  <2>4. Len(ledger) = Len(hashFile) + 1 /\ sequence[on[t]] = Len(hashFile) BY <2>1
  <2>5. /\ pc'[t] = "advance" /\ Len(ledger') = Len(hashFile')
        /\ sequence'[on'[t]] + 1 = Len(ledger')
    BY <2>1, <2>2, <2>3, <2>4, <1>c
  <2>6. ASSUME NEW u \in Threads \ {t} PROVE pc'[u] \in Unlocked BY <2>1, <2>2
  <2>7. QED BY ONLY <2>5, <2>6 DEF Progress, Quiet, Unlocked
<1>11. ASSUME NEW t \in Threads, Advance(t)
      PROVE Progress'
  <2>1. pc[t] = "advance" /\ \A u \in Threads \ {t} : pc[u] \in Unlocked
    BY <1>11, <1>b DEF Advance, Goto
  <2>2. /\ pc' = [pc EXCEPT ![t] = "idle"]
        /\ sequence' = [sequence EXCEPT ![on[t]] = @ + 1]
        /\ UNCHANGED <<ledger, hashFile, on, live>>
    BY <1>11 DEF Advance, Goto, NextSequence
  <2>3. \A u \in Threads : pc'[u] \in Unlocked BY <2>1, <2>2
  <2>4. \A h \in live : h = on[t] OBVIOUS
  <2>5. Len(hashFile') = Len(ledger') /\ \A h \in live' : sequence'[h] = Len(ledger')
    BY <2>1, <2>2, <2>4, <1>c
  <2>6. QED BY ONLY <2>3, <2>5 DEF Progress, Quiet, Unlocked
<1>12. QED BY <1>1, <1>2, <1>3, <1>4, <1>5, <1>6, <1>7, <1>8, <1>9, <1>10, <1>11
  DEF Next, EmitStep

\* No step hands out or writes an id twice.
LEMMA NextFresh == ASSUME SingleHandle, Inv, Next PROVE FreshIds'
<1> USE DEF Inv, vars, disk, memory, faults, TypeOK, FreshIds, Unlocked, Event
<1>a. ASSUME NEW t \in Threads, pc[t] = "idle", NEW tags, Draft(t, tags), issued < MaxEvents,
            ledger' = ledger, \E where \in {"persist", "lock"} : pc' = [pc EXCEPT ![t] = where]
     PROVE  FreshIds'
  <2>1. issued + 1 \in Nat /\ issued + 1 <= MaxEvents /\ issued' = issued + 1
    BY <1>a, LedgerAssumption DEF Draft
  <2>2. event'[t].id = issued + 1 /\ \A u \in Threads \ {t} : event'[u] = event[u]
    BY <1>a DEF Draft
  <2>3. \A n \in 1..issued : n \in 1..issued' /\ n # issued + 1 BY <2>1
  <2>4. issued + 1 \in 1..issued' BY <2>1
  <2>5. \A u \in Threads \ {t} : pc'[u] = pc[u] BY <1>a
  <2>6. pc'[t] \in {"persist", "lock"} BY <1>a
  <2>7. \A i \in 1..Len(ledger') : ledger'[i].id \in 1..issued' /\ ledger'[i].id # issued + 1
    BY <1>a, <2>3
  <2>8. \A u \in Threads \ {t} : pc'[u] # "idle" =>
          /\ event'[u].id \in 1..issued' /\ event'[u].id # event'[t].id
    BY <2>2, <2>3, <2>5
  <2>9. ASSUME NEW u \in Threads, pc'[u] \in {"persist", "lock", "create", "append"}
        PROVE  \A i \in 1..Len(ledger') : ledger'[i].id # event'[u].id
    <3>1. CASE u = t BY <3>1, <2>2, <2>7
    <3>2. CASE u # t
      <4>1. pc[u] \in {"persist", "lock", "create", "append"} /\ event'[u] = event[u]
        BY <3>2, <2>9, <2>5, <2>2
      <4>2. \A i \in 1..Len(ledger) : ledger[i].id # event[u].id BY <4>1
      <4>3. QED BY ONLY <4>1, <4>2, <1>a
    <3>3. QED BY ONLY <3>1, <3>2
  <2>10. ASSUME NEW u \in Threads, pc'[u] # "idle" PROVE event'[u].id \in 1..issued'
    BY <2>10, <2>2, <2>4, <2>8
  <2>11. ASSUME NEW u \in Threads, NEW v \in Threads,
                pc'[u] # "idle", pc'[v] # "idle", u # v
         PROVE  event'[u].id # event'[v].id
    <3>1. CASE u = t \/ v = t
      <4>1. \A w \in Threads \ {t} : pc'[w] # "idle" => event'[w].id # event'[t].id
        BY ONLY <2>8
      <4>2. QED BY ONLY <3>1, <4>1, <2>11
    <3>2. CASE u # t /\ v # t
      <4>1. pc[u] # "idle" /\ pc[v] # "idle" BY ONLY <3>2, <2>5, <2>11
      <4>2. event[u].id # event[v].id BY <4>1, <2>11
      <4>3. QED BY ONLY <3>2, <4>2, <2>2
    <3>3. QED BY <3>1, <3>2
  <2>12. QED BY <2>1, <2>7, <2>9, <2>10, <2>11
<1>1. ASSUME NEW h \in Handles, Create(h)
     PROVE FreshIds'
  BY <1>1, LedgerAssumption DEF Create, Open
<1>2. ASSUME NEW h \in Handles, Close(h)
     PROVE FreshIds'
  BY <1>2, LedgerAssumption DEF Close, Forget, Using
<1>3. ASSUME NEW h \in Handles, WriteCheckpoint(h)
     PROVE FreshIds'
  <2>1. Runner \in Threads BY LedgerAssumption
  <2>2. QED BY <1>3, <1>a, <2>1 DEF WriteCheckpoint, Goto
<1>4. ASSUME PersistIndex
     PROVE FreshIds'
  BY <1>4, LedgerAssumption DEF PersistIndex, Goto
<1>5. ASSUME NEW t \in Threads, NEW h \in Handles, NEW tags \in SUBSET Tags, Emit(t, h, tags)
     PROVE FreshIds'
  BY <1>5, <1>a DEF Emit, Goto
<1>6. ASSUME NEW t \in Threads, Acquire(t)
     PROVE FreshIds'
  BY <1>6, LedgerAssumption DEF Acquire, Goto, LockFree
<1>7. ASSUME NEW t \in Threads, CreateEvent(t)
     PROVE FreshIds'
  <2>1. event'[t].id = event[t].id /\ \A u \in Threads \ {t} : event'[u] = event[u]
    BY <1>7 DEF CreateEvent
  <2>2. pc[t] = "create" /\ pc' = [pc EXCEPT ![t] = "append"]
    BY <1>7 DEF CreateEvent, Goto
  <2>3. UNCHANGED <<ledger, issued>> BY <1>7 DEF CreateEvent
  <2>4. \A u \in Threads : event'[u].id = event[u].id BY ONLY <2>1
  <2>5. \A u \in Threads : /\ pc'[u] # "idle" => pc[u] # "idle"
                           /\ pc'[u] \in {"persist", "lock", "create", "append"} =>
                              pc[u] \in {"persist", "lock", "create", "append"}
    BY <2>2
  <2>6. FreshIds OBVIOUS
  <2>7. QED BY ONLY <2>3, <2>4, <2>5, <2>6 DEF FreshIds
<1>8. ASSUME NEW t \in Threads, AppendToLedger(t)
     PROVE FreshIds'
  <2>1. pc[t] = "append" /\ pc' = [pc EXCEPT ![t] = "index"]
    BY <1>8 DEF AppendToLedger, Goto
  <2>2. ledger' = Append(ledger, event[t]) /\ UNCHANGED <<event, issued>>
    BY <1>8 DEF AppendToLedger, AppendedLine
  <2>3. ASSUME NEW i \in 1..Len(ledger')
        PROVE  ledger'[i] = event[t] \/ \E j \in 1..Len(ledger) : ledger'[i] = ledger[j]
    <3>1. event[t] \in Event /\ Len(ledger') = Len(ledger) + 1 BY <2>2
    <3>2. CASE i = Len(ledger) + 1 BY <3>1, <3>2, <2>2
    <3>3. CASE i \in 1..Len(ledger) BY <3>1, <3>3, <2>2
    <3>4. QED BY <3>1, <3>2, <3>3
  <2>4. /\ event[t].id \in 1..issued
        /\ \A j \in 1..Len(ledger) : ledger[j].id \in 1..issued
    BY <2>1
  <2>5. \A i \in 1..Len(ledger') : ledger'[i].id \in 1..issued' BY ONLY <2>2, <2>3, <2>4
  <2>6. ASSUME NEW u \in Threads, pc'[u] \in {"persist", "lock", "create", "append"}
        PROVE  \A i \in 1..Len(ledger') : ledger'[i].id # event'[u].id
    <3>1. u # t /\ pc[u] = pc'[u] BY <2>1, <2>6
    <3>2. event[u].id # event[t].id BY <3>1, <2>1, <2>6
    <3>3. \A j \in 1..Len(ledger) : ledger[j].id # event[u].id BY <3>1, <2>6
    <3>4. QED BY ONLY <2>2, <2>3, <3>2, <3>3
  <2>7. ASSUME NEW u \in Threads, pc'[u] # "idle" PROVE pc[u] # "idle" BY <2>1, <2>7
  <2>8. UNCHANGED <<event, issued>> BY <2>2
  <2>9. QED BY <2>5, <2>6, <2>7, <2>8
<1>9. ASSUME NEW t \in Threads, UpdateIndex(t)
     PROVE FreshIds'
  BY <1>9, LedgerAssumption DEF UpdateIndex, Goto, UnderTag
<1>10. ASSUME NEW t \in Threads, AppendHash(t)
      PROVE FreshIds'
  BY <1>10, LedgerAssumption DEF AppendHash, Goto, AppendedLine, HashLine
<1>11. ASSUME NEW t \in Threads, Advance(t)
      PROVE FreshIds'
  BY <1>11, LedgerAssumption DEF Advance, Goto, Leave, NextSequence, NoEvent
<1>12. QED BY <1>1, <1>2, <1>3, <1>4, <1>5, <1>6, <1>7, <1>8, <1>9, <1>10, <1>11
  DEF Next, EmitStep

----------------------------------------------------------------------------
(* Theorems.                                                               *)

\* Inv is an invariant: what the four lemmas above add up to.
THEOREM Invariance == ASSUME SingleHandle PROVE Spec => []Inv
<1>1. Init => Inv BY InitInv
<1>2. Inv /\ [Next]_vars => Inv'
  <2> SUFFICES ASSUME Inv, [Next]_vars PROVE Inv' OBVIOUS
  <2>1. CASE Next
    BY <2>1, NextType, NextLock, NextLinked, NextProgress, NextFresh DEF Inv
  <2>2. CASE UNCHANGED vars
    BY <2>2 DEF Inv, vars, disk, memory, faults, TypeOK, LockInv, Linked,
                Progress, Quiet, FreshIds, Unlocked, HashOf, LastHash, Event
  <2>3. QED BY <2>1, <2>2
<1>3. QED BY <1>1, <1>2, PTL DEF Spec

\* Type correctness of a run directory with one open handle.
THEOREM TypeCorrect == ASSUME SingleHandle PROVE Spec => []TypeOK
<1>1. Inv => TypeOK BY DEF Inv
<1>2. QED BY <1>1, Invariance, PTL

\* Whatever the number of threads that emit and of times the run is closed
\* and reopened by create, verify_chain passes between two emissions.
THEOREM ChainTheorem == ASSUME SingleHandle PROVE Spec => []ChainVerifies
<1>1. Inv => ChainVerifies
  <2> SUFFICES ASSUME Inv, Quiet PROVE VerifyChain BY DEF ChainVerifies
  <2>1. Len(hashFile) = Len(ledger) BY DEF Inv, Progress
  <2>2. QED BY <2>1 DEF Inv, Linked, VerifyChain, HashLines
<1>2. QED BY <1>1, Invariance, PTL

\* The numbers in the ledger count its lines: with one open handle they
\* never repeat and never leave a gap.
THEOREM SequenceTheorem == ASSUME SingleHandle PROVE Spec => []SequenceIsMonotonic
<1>1. Inv => SequenceIsMonotonic
  <2> SUFFICES ASSUME Inv, NEW i \in 1..Len(ledger), NEW j \in 1..Len(ledger), i < j
               PROVE  ledger[i].seq < ledger[j].seq
    BY DEF SequenceIsMonotonic
  <2>1. ledger[i].seq = i - 1 /\ ledger[j].seq = j - 1 BY DEF Inv, Linked
  <2>2. QED BY <2>1
<1>2. QED BY <1>1, Invariance, PTL

\* Every step of the fine-grained ledger is an append, a seal or nothing in
\* AuditLog.
LEMMA StepRefines == ASSUME SingleHandle, Inv, [Next]_vars PROVE [Log!ANext]_(Log!avars)
<1> USE DEF Log!avars
<1>1. ASSUME NEW t \in Threads, AppendToLedger(t)
      PROVE  Log!ANext
  <2>1. pc[t] = "append" /\ Quiet
    BY <1>1, MutualExclusion DEF Inv, AppendToLedger, Goto, Quiet, Unlocked
  <2>2. /\ ledger' = Append(ledger, event[t]) /\ hashFile' = hashFile
    BY <1>1 DEF Inv, AppendToLedger, AppendedLine
  <2>3. Len(hashFile) = Len(ledger) BY <2>1 DEF Inv, Progress
  <2>4. /\ event[t].seq = Len(ledger) /\ event[t].prev = LastHash(hashFile)
        /\ event[t].id \in 1..MaxEvents
        /\ \A i \in 1..Len(ledger) : ledger[i].id # event[t].id
    BY <2>1, LedgerAssumption DEF Inv, TypeOK, Progress, FreshIds
  <2>5. event[t] \in Event BY DEF Inv, TypeOK
  <2>6. event[t] = [id |-> event[t].id, seq |-> Len(ledger),
                    prev |-> Log!LastHash(hashFile), tags |-> event[t].tags]
    BY <2>4, <2>5 DEF Event, LastHash, Log!LastHash
  <2>7. event[t].tags \in SUBSET Tags BY <2>5 DEF Event
  <2>8. Log!AppendEntry BY <2>2, <2>3, <2>4, <2>6, <2>7 DEF Log!AppendEntry
  <2>9. QED BY <2>8 DEF Log!ANext
<1>2. ASSUME NEW t \in Threads, AppendHash(t)
      PROVE  Log!ANext
  <2>1. Len(ledger) = Len(hashFile) + 1 /\ event[t] = ledger[Len(ledger)]
    BY <1>2 DEF Inv, Progress, AppendHash, Goto
  <2>2. hashFile' = Append(hashFile, HashOf(event[t])) /\ ledger' = ledger
    BY <1>2 DEF Inv, AppendHash, AppendedLine, HashLine
  <2>3. hashFile \in Seq(Nat) /\ Len(hashFile) \in Nat BY DEF Inv, TypeOK
  <2>4. Log!Seal BY <2>1, <2>2, <2>3 DEF Log!Seal, HashOf, Log!HashOf
  <2>5. QED BY <2>4 DEF Log!ANext
<1>3. ASSUME NEW h \in Handles, Create(h) \/ Close(h) \/ WriteCheckpoint(h)
      PROVE  UNCHANGED <<ledger, hashFile>>
  BY <1>3 DEF Create, Open, Close, WriteCheckpoint, disk
<1>4. ASSUME PersistIndex PROVE UNCHANGED <<ledger, hashFile>> BY <1>4 DEF PersistIndex
<1>5. ASSUME NEW t \in Threads, Acquire(t) \/ CreateEvent(t) \/ UpdateIndex(t) \/ Advance(t)
      PROVE  UNCHANGED <<ledger, hashFile>>
  BY <1>5 DEF Acquire, CreateEvent, UpdateIndex, Advance, disk
<1>6. ASSUME NEW t \in Threads, NEW h \in Handles, NEW tags \in SUBSET Tags, Emit(t, h, tags)
      PROVE  UNCHANGED <<ledger, hashFile>>
  BY <1>6 DEF Emit, disk
<1>7. CASE UNCHANGED vars BY <1>7 DEF vars, disk
<1>8. QED BY <1>1, <1>2, <1>3, <1>4, <1>5, <1>6, <1>7 DEF Next, EmitStep

\* One handle at a time with any number of threads implements the
\* append-only hash-chained log.
THEOREM Refinement == ASSUME SingleHandle PROVE Spec => ImplementsAuditLog
<1>1. Init => Log!AInit BY DEF Init, Log!AInit
<1>2. Inv /\ [Next]_vars => [Log!ANext]_(Log!avars) BY StepRefines
<1>3. QED BY <1>1, <1>2, Invariance, PTL DEF Spec, ImplementsAuditLog, Log!ASpec

----------------------------------------------------------------------------
(* What faults and shared directories do to a ledger, for any handles.     *)

\* The event of the thread is not in the ledger yet.
Drafting(t) == pc[t] \in {"persist", "lock", "create", "append"}

\* It is there, or was to be, and its hash is not in the hash file yet.
Owing(t) == pc[t] \in {"index", "hash"}

Places == {"idle", "persist", "lock", "create", "append", "index", "hash", "advance"}

DamageTypes ==
    /\ ledger \in Seq(Event) /\ torn \in BOOLEAN
    /\ hashFile \in Seq(Nat) /\ hashTail \in Nat
    /\ live \subseteq Handles
    /\ sequence \in [Handles -> Nat]
    /\ lock \in [Handles -> Threads \cup {NoThread}]
    /\ pc \in [Threads -> Places]
    /\ on \in [Threads -> Handles \cup {CHOOSE h \in Handles : TRUE}]
    /\ event \in [Threads -> Event]
    /\ issued \in Nat /\ crashes \in Nat /\ failedWrites \in Nat

Written == {ledger[i].id : i \in 1..Len(ledger)}
Hashed == Whole(HashLines)

\* No whole hash stands there twice.
Tidy(hashes) ==
    \A i, j \in 1..Len(hashes) : hashes[i] = hashes[j] /\ hashes[i] # Garbled => i = j

\* Every id is used once, on disk and in the hands of the threads.
IdsAreFresh ==
    /\ issued <= MaxEvents /\ Written \subseteq 1..issued /\ Hashed \subseteq 1..issued
    /\ \A i, j \in 1..Len(ledger) : ledger[i].id = ledger[j].id => i = j
    /\ Tidy(HashLines)
    /\ \A t \in Threads : Drafting(t) => event[t].id \in (1..issued) \ (Written \cup Hashed)
    /\ \A t \in Threads : Owing(t) => event[t].id \in (1..issued) \ Hashed
    /\ \A t, u \in Threads :
         (Drafting(t) \/ Owing(t)) /\ (Drafting(u) \/ Owing(u)) /\ t # u =>
             event[t].id # event[u].id

\* As long as no line is cut short, what has a hash is in the ledger.
HashedIsWritten ==
    ~torn => Hashed \subseteq Written /\ \A t \in Threads : Owing(t) => event[t].id \in Written

\* Events in the ledger whose hash is on no line that ends, and which nobody
\* is about to write.
Lost == (Written \ Whole(hashFile)) \ {event[t].id : t \in {u \in Threads : Owing(u)}}

\* What is left of a line will cost the next hash.
Doomed == IF hashTail = NoHash THEN 0 ELSE 1

LostExplained == ~torn => Cardinality(Lost) + Doomed <= 2 * (crashes + failedWrites)

\* The numbers in the ledger do not grow for ever, so there is a greatest.
NumbersEnd == \E m \in Nat : \A i \in 1..Len(ledger) : ledger[i].seq <= m

DamageInv ==
    DamageTypes /\ LockInv /\ IdsAreFresh /\ HashedIsWritten /\ LostExplained /\ NumbersEnd

DamageNext == ResumeNext \/ FaultNext

LEMMA LostIsFinite == ASSUME IdsAreFresh, issued \in Nat PROVE IsFiniteSet(Lost)
<1>1. Lost \in SUBSET (1..issued) BY DEF Lost, IdsAreFresh
<1>2. IsFiniteSet(1..issued) BY FS_Interval
<1> QED BY <1>1, <1>2, FS_Subset

\* A set of natural numbers that is not empty has its least element.
LEMMA LeastNumber ==
    ASSUME NEW S \in SUBSET Nat, S # {}
    PROVE  \E x \in S : \A y \in S : x <= y
<1> DEFINE R == OpToRel(<, Nat)
<1>1. IsWellFoundedOn(R, Nat) BY NatLessThanWellFounded
<1>2. \A x, y \in Nat : y < x => <<y, x>> \in R BY DEF OpToRel
<1> HIDE DEF R
<1>3. PICK x \in S : \A y \in S : ~(<<y, x>> \in R) BY <1>1, WFMin, Zenon
<1>4. \A y \in S : ~(y < x) BY <1>2, <1>3
<1> QED BY <1>4

\* A handle that is opened by create goes on after the greatest number.
LEMMA RestoredIsNew ==
    ASSUME ledger \in Seq(Event), NumbersEnd
    PROVE  /\ RestoredSequence \in Nat
           /\ \A i \in 1..Len(ledger) : ledger[i].seq < RestoredSequence
<1>1. CASE ledger = <<>> BY <1>1 DEF RestoredSequence
<1>2. CASE ledger # <<>>
  <2>1. PICK S : S = Sequences(ledger) OBVIOUS
  <2>2. \A i \in 1..Len(ledger) : ledger[i].seq \in Nat
    <3>1. \A i \in 1..Len(ledger) : ledger[i] \in Event OBVIOUS
    <3> QED BY <3>1 DEF Event
  <2>3. S \subseteq Nat /\ \A i \in 1..Len(ledger) : ledger[i].seq \in S
    BY <2>1, <2>2 DEF Sequences
  <2>4. PICK k \in S : k \in Nat
    <3>1. 1 \in 1..Len(ledger) BY <1>2
    <3> QED BY <2>2, <2>3, <3>1
  <2> DEFINE Bounds == {m \in Nat : \A n \in S : n <= m}
  <2>5. Bounds \in SUBSET Nat /\ Bounds # {} BY <2>1 DEF NumbersEnd, Sequences
  <2>6. PICK u \in Bounds : \A m \in Bounds : u <= m BY <2>5, LeastNumber
  <2>7. u \in S
    <3> SUFFICES ASSUME u \notin S PROVE FALSE OBVIOUS
    <3>1. u \in Nat /\ \A n \in S : n <= u /\ n # u BY <2>6
    <3>2. \A n \in S : n <= u - 1 BY <2>3, <3>1
    <3>3. u - 1 \in Nat BY <2>3, <2>4, <3>1
    <3>4. u - 1 \in Bounds BY <3>2, <3>3
    <3> QED BY <2>6, <3>1, <3>4
  <2>8. \A n \in S : n <= u BY <2>6
  <2>9. Greatest(S) \in S /\ \A n \in S : n <= Greatest(S) BY <2>7, <2>8 DEF Greatest
  <2>10. RestoredSequence = Greatest(S) + 1 BY <1>2, <2>1 DEF RestoredSequence
  <2>11. Greatest(S) \in Nat BY <2>3, <2>9
  <2>12. \A i \in 1..Len(ledger) : ledger[i].seq \in Nat /\ ledger[i].seq <= Greatest(S)
    BY <2>2, <2>3, <2>9
  <2> QED BY <2>10, <2>11, <2>12
<1> QED BY <1>1, <1>2

\* A fault pays for two hashes more, and every later bound is kept.
LEMMA CostOfFault ==
    \A n, m, x, y, c, f, d, g \in Nat :
       n <= m + 1 /\ y <= x + 1 /\ m + x <= 2 * (c + f) /\ c + f + 1 <= d + g =>
         n + y <= 2 * (d + g)
OBVIOUS

LEMMA CostOfNone ==
    \A n, m, x, y, c, f, d, g \in Nat :
       n <= m /\ y <= x /\ m + x <= 2 * (c + f) /\ c + f <= d + g => n + y <= 2 * (d + g)
OBVIOUS

\* A hash that is joined to what is left of a line was paid for.
LEMMA CostOfJoining ==
    \A n, m, b \in Nat : n <= m + 1 /\ m + 1 <= b => n + 0 <= b
OBVIOUS

LEMMA GarbledIsNumber == Garbled \in Nat /\ Garbled # NoHash
BY LedgerAssumption DEF Garbled

\* A line more in the hash file.
LEMMA LineMore ==
    ASSUME NEW H \in Seq(Nat), NEW x \in Nat
    PROVE  /\ Append(H, x) \in Seq(Nat) /\ Len(H) \in Nat
           /\ Len(Append(H, x)) = Len(H) + 1
           /\ 1..Len(Append(H, x)) = 1..Len(H) \cup {Len(H) + 1}
           /\ \A i \in 1..Len(H) : Append(H, x)[i] = H[i]
           /\ Append(H, x)[Len(H) + 1] = x
           /\ Whole(Append(H, x)) = Whole(H) \cup ({x} \ {Garbled})
<1>1. /\ Append(H, x) \in Seq(Nat) /\ Len(H) \in Nat
      /\ Len(Append(H, x)) = Len(H) + 1
      /\ \A i \in 1..Len(H) : Append(H, x)[i] = H[i]
      /\ Append(H, x)[Len(H) + 1] = x
  OBVIOUS
<1>2. 1..Len(Append(H, x)) = 1..Len(H) \cup {Len(H) + 1} BY <1>1
<1>3. Whole(Append(H, x)) = Whole(H) \cup ({x} \ {Garbled}) BY <1>1, <1>2 DEF Whole
<1> QED BY <1>1, <1>2, <1>3

LEMMA TidyMore ==
    ASSUME NEW H \in Seq(Nat), NEW x \in Nat, Tidy(H), x = Garbled \/ x \notin Whole(H)
    PROVE  Tidy(Append(H, x))
<1>1. PICK L : L = Append(H, x) OBVIOUS
<1>2. /\ Len(L) = Len(H) + 1 /\ 1..Len(L) = 1..Len(H) \cup {Len(H) + 1}
      /\ \A i \in 1..Len(H) : L[i] = H[i]
      /\ L[Len(H) + 1] = x
  BY <1>1, LineMore
<1>3. \A i \in 1..Len(H) : H[i] # Garbled => H[i] # x BY DEF Whole
<1>4. Tidy(L)
  <2> SUFFICES ASSUME NEW i \in 1..Len(L), NEW j \in 1..Len(L), L[i] = L[j], L[i] # Garbled
               PROVE  i = j
    BY DEF Tidy
  <2>1. CASE i \in 1..Len(H) /\ j \in 1..Len(H) BY <1>2, <2>1 DEF Tidy
  <2>2. CASE i = Len(H) + 1 \/ j = Len(H) + 1 BY <1>2, <1>3, <2>2
  <2> QED BY <1>2, <2>1, <2>2
<1> QED BY <1>1, <1>4

LEMMA TidyLess ==
    ASSUME NEW H \in Seq(Nat), NEW x \in Nat, Tidy(Append(H, x))
    PROVE  Tidy(H)
<1>1. PICK L : L = Append(H, x) OBVIOUS
<1>2. 1..Len(H) \subseteq 1..Len(L) /\ \A i \in 1..Len(H) : L[i] = H[i]
  BY <1>1, LineMore
<1> QED BY <1>1, <1>2 DEF Tidy

\* The lines with what is left of the last one.
LEMMA LinesKnown ==
    ASSUME DamageInv
    PROVE  /\ hashFile \in Seq(Nat) /\ HashLines \in Seq(Nat)
           /\ Tidy(hashFile) /\ Whole(hashFile) \subseteq Hashed
<1>1. hashFile \in Seq(Nat) /\ hashTail \in Nat /\ Tidy(HashLines)
  BY DEF DamageInv, DamageTypes, IdsAreFresh
<1>2. CASE hashTail = NoHash BY <1>1, <1>2 DEF HashLines, Hashed
<1>3. CASE hashTail # NoHash
  <2>1. HashLines = Append(hashFile, hashTail) BY <1>3 DEF HashLines
  <2>2. HashLines \in Seq(Nat) /\ Whole(HashLines) = Whole(hashFile) \cup ({hashTail} \ {Garbled})
    BY <1>1, <2>1, LineMore
  <2>3. Tidy(hashFile) BY <1>1, <2>1, TidyLess
  <2> QED BY <1>1, <2>2, <2>3 DEF Hashed
<1> QED BY <1>2, <1>3

\* What a step of x may do to the lines of the hash file.
Relined(x) ==
    \/ HashLines' = HashLines
    \/ HashLines' = Append(hashFile, Garbled)
    \/ HashLines' = Append(HashLines, event[x].id) /\ Owing(x) /\ ~Owing(x)'

\* Who carries what does not change, except that x may give up or be done.
LEMMA FreshRests ==
    ASSUME DamageInv, ledger' = ledger, torn => torn', issued' = issued, NEW x \in Threads,
           Relined(x),
           \A t \in Threads :
              \/ ~Drafting(t)' /\ ~Owing(t)' /\ (Owing(t) => t = x)
              \/ Drafting(t) /\ Drafting(t)' /\ event'[t].id = event[t].id
              \/ Owing(t) /\ Owing(t)' /\ event'[t].id = event[t].id
    PROVE  Written' = Written /\ IdsAreFresh' /\ HashedIsWritten'
<1>1. Written' = Written BY DEF Written
<1>2. PICK L : L = HashLines' OBVIOUS
<1>3. /\ hashFile \in Seq(Nat) /\ HashLines \in Seq(Nat) /\ Tidy(HashLines)
      /\ Tidy(hashFile) /\ Whole(hashFile) \subseteq Hashed
  BY LinesKnown DEF DamageInv, IdsAreFresh
<1>4. Tidy(L) /\ Whole(L) \subseteq Hashed \cup {event[x].id}
      /\ (Whole(L) \subseteq Hashed \/ (Owing(x) /\ ~Owing(x)'))
  <2>1. CASE L = HashLines BY <1>3, <2>1 DEF Hashed
  <2>2. CASE L = Append(hashFile, Garbled)
    <3>1. Tidy(L) BY <1>3, <2>2, GarbledIsNumber, TidyMore
    <3>2. Whole(Append(hashFile, Garbled)) = Whole(hashFile) \cup ({Garbled} \ {Garbled})
      BY <1>3, GarbledIsNumber, LineMore
    <3>3. Whole(L) = Whole(hashFile) BY <2>2, <3>2
    <3> QED BY <1>3, <3>1, <3>3
  <2>3. CASE L = Append(HashLines, event[x].id) /\ Owing(x) /\ ~Owing(x)'
    <3>1. event[x].id \in Nat /\ event[x].id \notin Whole(HashLines)
      BY <2>3 DEF DamageInv, IdsAreFresh, Hashed, DamageTypes, Event
    <3>2. Tidy(L) BY <1>3, <2>3, <3>1, TidyMore
    <3>3. Whole(L) \subseteq Whole(HashLines) \cup {event[x].id}
      BY <1>3, <2>3, <3>1, LineMore
    <3> QED BY <2>3, <3>2, <3>3 DEF Hashed
  <2> QED BY <1>2, <2>1, <2>2, <2>3 DEF Relined
<1>5. Hashed' = Whole(L) BY <1>2 DEF Hashed, Whole
<1>6. Tidy(HashLines)' BY <1>2, <1>4 DEF Tidy
<1>7. \A t \in Threads : Drafting(t)' => Drafting(t) /\ event'[t].id = event[t].id
  BY DEF Drafting, Owing
<1>8. \A t \in Threads : Owing(t)' => Owing(t) /\ event'[t].id = event[t].id
  BY DEF Drafting, Owing
<1>9. ASSUME NEW t \in Threads, Drafting(t)' \/ Owing(t)' PROVE event[t].id \notin Hashed'
  <2>1. event[t].id \notin Hashed BY <1>7, <1>8, <1>9 DEF DamageInv, IdsAreFresh
  <2>2. CASE Whole(L) \subseteq Hashed BY <1>5, <2>1, <2>2
  <2>3. CASE Owing(x) /\ ~Owing(x)'
    <3>1. t # x BY <1>7, <1>9, <2>3 DEF Drafting, Owing
    <3>2. event[t].id # event[x].id
      BY <1>7, <1>8, <1>9, <2>3, <3>1 DEF DamageInv, IdsAreFresh
    <3> QED BY <1>4, <1>5, <2>1, <3>2
  <2> QED BY <1>4, <2>2, <2>3
<1>10. Hashed' \subseteq 1..issued BY <1>4, <1>5 DEF DamageInv, IdsAreFresh
<1>11. IdsAreFresh' BY <1>1, <1>6, <1>7, <1>8, <1>9, <1>10 DEF DamageInv, IdsAreFresh
<1>12. HashedIsWritten'
  <2> SUFFICES ASSUME ~torn' PROVE HashedIsWritten' BY DEF HashedIsWritten
  <2>1. Hashed \subseteq Written /\ \A t \in Threads : Owing(t) => event[t].id \in Written
    BY DEF DamageInv, HashedIsWritten
  <2>2. Hashed' \subseteq Written BY <1>4, <1>5, <2>1
  <2> QED BY <1>1, <1>8, <2>1, <2>2 DEF HashedIsWritten
<1> QED BY <1>1, <1>11, <1>12

\* Every line that ends stays; x may give up, and leave a part of its line:
\* then the step is a fault.
LEMMA DamageRests ==
    ASSUME DamageInv, DamageTypes', LockInv', UNCHANGED <<ledger, hashFile>>, torn => torn',
           issued' = issued, NEW x \in Threads,
           crashes + failedWrites <= (crashes + failedWrites)',
           \/ UNCHANGED hashTail /\ (Owing(x) => Owing(x)')
           \/ crashes + failedWrites + 1 <= (crashes + failedWrites)',
           \/ UNCHANGED hashTail
           \/ hashTail' = Garbled
           \/ hashTail = NoHash /\ hashTail' = event[x].id /\ Owing(x) /\ ~Owing(x)',
           \A t \in Threads :
              \/ ~Drafting(t)' /\ ~Owing(t)' /\ (Owing(t) => t = x)
              \/ Drafting(t) /\ Drafting(t)' /\ event'[t].id = event[t].id
              \/ Owing(t) /\ Owing(t)' /\ event'[t].id = event[t].id
    PROVE  DamageInv'
<1>1. Relined(x)
  <2>1. CASE UNCHANGED hashTail BY <2>1 DEF Relined, HashLines
  <2>2. CASE hashTail' = Garbled BY <2>2, GarbledIsNumber DEF Relined, HashLines
  <2>3. CASE hashTail = NoHash /\ hashTail' = event[x].id /\ Owing(x) /\ ~Owing(x)'
    <3>1. event[x].id # NoHash
      <4>1. event[x].id \in 1..issued BY <2>3 DEF DamageInv, IdsAreFresh
      <4> QED BY <4>1, LedgerAssumption
    <3>2. HashLines = hashFile /\ HashLines' = Append(hashFile, event[x].id)
      BY <2>3, <3>1 DEF HashLines
    <3> QED BY <2>3, <3>2 DEF Relined
  <2> QED BY <2>1, <2>2, <2>3
<1>2. Written' = Written /\ IdsAreFresh' /\ HashedIsWritten' BY <1>1, FreshRests
<1>3. Whole(hashFile)' = Whole(hashFile) BY DEF Whole
<1>4. LostExplained'
  <2> SUFFICES ASSUME ~torn' PROVE Cardinality(Lost') + Doomed' <= 2 * (crashes + failedWrites)'
    BY DEF LostExplained
  <2>1. IsFiniteSet(Lost) BY LostIsFinite DEF DamageInv, DamageTypes
  <2>2. Cardinality(Lost) \in Nat /\ Cardinality(Lost) + Doomed <= 2 * (crashes + failedWrites)
    BY <2>1, FS_CardinalityType DEF DamageInv, LostExplained
  <2>3. /\ crashes \in Nat /\ failedWrites \in Nat /\ crashes' \in Nat /\ failedWrites' \in Nat
        /\ Doomed \in Nat /\ Doomed' \in Nat /\ Doomed' <= Doomed + 1
    BY DEF DamageInv, DamageTypes, Doomed
  <2>4. \A t \in Threads : Owing(t) /\ t # x => Owing(t)' /\ event'[t].id = event[t].id
    BY DEF Drafting, Owing
  <2>5. Owing(x) => ~Owing(x)' \/ (Owing(x)' /\ event'[x].id = event[x].id)
    BY DEF Drafting, Owing
  <2>6. Lost' \subseteq Lost \cup {event[x].id} BY <1>2, <1>3, <2>4 DEF Lost
  <2>7. IsFiniteSet(Lost \cup {event[x].id}) BY <2>1, FS_AddElement
  <2>8. Cardinality(Lost \cup {event[x].id}) <= Cardinality(Lost) + 1
    <3>1. Cardinality(Lost \cup {event[x].id}) =
            IF event[x].id \in Lost THEN Cardinality(Lost) ELSE Cardinality(Lost) + 1
      BY <2>1, FS_AddElement
    <3> QED BY ONLY <2>2, <3>1
  <2>9. IsFiniteSet(Lost') /\ Cardinality(Lost') <= Cardinality(Lost \cup {event[x].id})
    BY <2>6, <2>7, FS_Subset
  <2>10. Cardinality(Lost \cup {event[x].id}) \in Nat /\ Cardinality(Lost') \in Nat
    BY <2>7, <2>9, FS_CardinalityType
  <2>11. Cardinality(Lost') <= Cardinality(Lost) + 1 BY ONLY <2>2, <2>8, <2>9, <2>10
  <2>12. CASE crashes + failedWrites + 1 <= (crashes + failedWrites)'
    <3>1. crashes + failedWrites + 1 <= crashes' + failedWrites' BY <2>12
    <3>2. Cardinality(Lost') + Doomed' <= 2 * (crashes' + failedWrites')
      BY ONLY <2>2, <2>3, <2>10, <2>11, <3>1, CostOfFault
    <3> QED BY <3>2
  <2>13. CASE UNCHANGED hashTail /\ (Owing(x) => Owing(x)')
    <3>1. Lost' \subseteq Lost BY <1>2, <1>3, <2>4, <2>5, <2>13 DEF Lost
    <3>2. Cardinality(Lost') <= Cardinality(Lost) BY <2>1, <3>1, FS_Subset
    <3>3. Doomed' <= Doomed BY <2>3, <2>13 DEF Doomed
    <3>4. crashes + failedWrites <= crashes' + failedWrites' OBVIOUS
    <3>5. Cardinality(Lost') + Doomed' <= 2 * (crashes' + failedWrites')
      BY ONLY <2>2, <2>3, <2>10, <3>2, <3>3, <3>4, CostOfNone
    <3> QED BY <3>5
  <2> QED BY <2>12, <2>13
<1>5. NumbersEnd' BY DEF DamageInv, NumbersEnd
<1> QED BY <1>2, <1>4, <1>5 DEF DamageInv

\* A thread begins to emit: it gets the next id.
LEMMA DamageDrafts ==
    ASSUME DamageInv, DamageTypes', LockInv', NEW t \in Threads, ~Drafting(t), ~Owing(t),
           UNCHANGED <<ledger, hashFile, hashTail, torn, crashes, failedWrites>>,
           issued < MaxEvents,
           issued' = issued + 1, event'[t].id = issued + 1, Drafting(t)',
           \A u \in Threads \ {t} : pc'[u] = pc[u] /\ event'[u] = event[u]
    PROVE  DamageInv'
<1>1. Written' = Written /\ HashLines' = HashLines /\ Hashed' = Hashed
  BY DEF Written, Hashed, HashLines, Whole
<1>2. issued \in Nat /\ issued' \in Nat /\ issued' <= MaxEvents
  BY LedgerAssumption DEF DamageInv, DamageTypes
<1>3. 1..issued \subseteq 1..issued' /\ issued + 1 \in 1..issued' /\ issued + 1 \notin 1..issued
  BY <1>2
<1>4. \A u \in Threads \ {t} : /\ Drafting(u)' = Drafting(u) /\ Owing(u)' = Owing(u)
                               /\ event'[u].id = event[u].id
  BY DEF Drafting, Owing
<1>5. ~Owing(t)' BY DEF Drafting, Owing
<1>6. IdsAreFresh'
  <2>1. Tidy(HashLines)' BY <1>1 DEF DamageInv, IdsAreFresh, Tidy
  <2> QED BY <1>1, <1>2, <1>3, <1>4, <1>5, <2>1 DEF DamageInv, IdsAreFresh
<1>7. HashedIsWritten' BY <1>1, <1>4, <1>5 DEF DamageInv, HashedIsWritten
<1>8. {u \in Threads : Owing(u)}' = {u \in Threads : Owing(u)} BY <1>4, <1>5
<1>9. Lost' = Lost /\ Doomed' = Doomed
  <2>1. Whole(hashFile)' = Whole(hashFile) BY DEF Whole
  <2> QED BY <1>1, <1>4, <1>8, <2>1 DEF Lost, Doomed
<1>10. LostExplained' BY <1>9 DEF DamageInv, LostExplained
<1>11. NumbersEnd' BY DEF DamageInv, NumbersEnd
<1> QED BY <1>6, <1>7, <1>10, <1>11 DEF DamageInv

LEMMA DamageStart == Init => DamageInv
<1> SUFFICES ASSUME Init PROVE DamageInv OBVIOUS
<1> USE DEF Init
<1>1. DamageTypes
  <2>1. NoEvent \in Event BY LedgerAssumption DEF NoEvent, Event
  <2>2. on \in [Threads -> Handles \cup {CHOOSE h \in Handles : TRUE}] OBVIOUS
  <2>3. ledger \in Seq(Event) /\ hashFile \in Seq(Nat) /\ hashTail \in Nat
    BY LedgerAssumption
  <2>4. event \in [Threads -> Event] /\ pc \in [Threads -> Places] BY <2>1 DEF Places
  <2>5. sequence \in [Handles -> Nat] /\ lock \in [Handles -> Threads \cup {NoThread}]
    OBVIOUS
  <2> QED BY <2>2, <2>3, <2>4, <2>5 DEF DamageTypes
<1>2. LockInv BY DEF LockInv, Unlocked
<1>3. Written = {} /\ Hashed = {} /\ Tidy(HashLines)
  BY DEF Written, Hashed, HashLines, Whole, Tidy
<1>4. \A t \in Threads : ~Drafting(t) /\ ~Owing(t) BY DEF Drafting, Owing
<1>5. IdsAreFresh BY <1>3, <1>4, LedgerAssumption DEF IdsAreFresh
<1>6. HashedIsWritten BY <1>3, <1>4 DEF HashedIsWritten
<1>7. Lost = {} /\ Doomed = 0 BY <1>3 DEF Lost, Doomed
<1>8. LostExplained BY <1>7, FS_EmptySet DEF LostExplained
<1>9. NumbersEnd BY DEF NumbersEnd
<1> QED BY <1>1, <1>2, <1>5, <1>6, <1>8, <1>9 DEF DamageInv

LEMMA OpenRests ==
    ASSUME DamageInv, NEW h \in Handles, NEW n \in Nat, Open(h, n)
    PROVE  DamageInv'
<1>1. /\ live' = live \cup {h} /\ sequence' = [sequence EXCEPT ![h] = n]
      /\ UNCHANGED <<ledger, torn, hashFile, hashTail, lock, pc, on, event,
                     issued, crashes, failedWrites>>
  BY DEF Open, disk, faults
<1>2. DamageTypes' BY <1>1 DEF DamageInv, DamageTypes
<1>3. LockInv' BY <1>1 DEF DamageInv, LockInv
<1>4. \A t \in Threads : Drafting(t)' = Drafting(t) /\ Owing(t)' = Owing(t)
  BY <1>1 DEF Drafting, Owing
<1>5. Runner \in Threads /\ crashes + failedWrites <= (crashes + failedWrites)'
  BY <1>1, LedgerAssumption DEF DamageInv, DamageTypes
<1> QED BY <1>1, <1>2, <1>3, <1>4, <1>5, DamageRests

LEMMA CloseRests ==
    ASSUME DamageInv, NEW h \in Handles, Close(h)
    PROVE  DamageInv'
<1>1. DamageTypes' BY DEF DamageInv, DamageTypes, Close, Forget, disk, faults
<1>2. \A t \in Threads : on[t] = h => pc[t] = "idle" BY DEF Close, Using
<1>3. lock' = [lock EXCEPT ![h] = NoThread] /\ live' = live \ {h} /\ UNCHANGED <<pc, on>>
  BY DEF Close, Forget
<1>4. LockInv' BY <1>2, <1>3 DEF DamageInv, DamageTypes, LockInv, Unlocked
<1>5. UNCHANGED <<ledger, torn, hashFile, hashTail, pc, event, issued, crashes, failedWrites>>
  BY DEF Close, disk, faults
<1>6. \A t \in Threads : Drafting(t)' = Drafting(t) /\ Owing(t)' = Owing(t)
  BY <1>5 DEF Drafting, Owing
<1>7. Runner \in Threads /\ crashes + failedWrites <= (crashes + failedWrites)'
  BY <1>5, LedgerAssumption DEF DamageInv, DamageTypes
<1> QED BY <1>1, <1>4, <1>5, <1>6, <1>7, DamageRests

LEMMA DraftKeeps ==
    ASSUME DamageInv, NEW t \in Threads, NEW h \in live, NEW tags \in SUBSET Tags,
           Draft(t, tags), NEW where \in {"persist", "lock"}, Goto(t, "idle", where),
           on' = [on EXCEPT ![t] = h], issued < MaxEvents,
           UNCHANGED <<ledger, torn, hashFile, hashTail, live, sequence, lock, crashes, failedWrites>>
    PROVE  DamageInv'
<1>1. event' = [event EXCEPT ![t] = [id |-> issued + 1, seq |-> 0, prev |-> NoHash, tags |-> tags]]
      /\ issued' = issued + 1
  BY DEF Draft
<1>2. issued \in Nat /\ h \in Handles BY DEF DamageInv, DamageTypes
<1>3. [id |-> issued + 1, seq |-> 0, prev |-> NoHash, tags |-> tags] \in Event
  BY <1>2, LedgerAssumption DEF Event
<1>4. pc[t] = "idle" /\ pc' = [pc EXCEPT ![t] = where] /\ where \in Places \cap Unlocked
  BY DEF Goto, Places, Unlocked
<1>5. DamageTypes' BY <1>1, <1>2, <1>3, <1>4 DEF DamageInv, DamageTypes
<1>6. LockInv' BY <1>2, <1>4 DEF DamageInv, DamageTypes, LockInv
<1>7. event'[t].id = issued + 1 BY <1>1 DEF DamageInv, DamageTypes
<1>8. Drafting(t)' /\ ~Drafting(t) /\ ~Owing(t)
  BY <1>4 DEF Drafting, Owing, DamageInv, DamageTypes
<1>9. \A u \in Threads \ {t} : pc'[u] = pc[u] /\ event'[u] = event[u]
  BY <1>1, <1>4 DEF DamageInv, DamageTypes
<1> QED BY <1>1, <1>5, <1>6, <1>7, <1>8, <1>9, DamageDrafts

\* A step inside emit_event that touches no file.
LEMMA ThreadTyped ==
    ASSUME DamageInv, NEW t \in Threads, NEW from \in Places, NEW to \in Places,
           Goto(t, from, to), from # "idle", from \notin Unlocked \/ to \in Unlocked,
           to # "idle", UNCHANGED <<ledger, torn, hashFile, hashTail, live, sequence, lock, on, issued,
           crashes, failedWrites>>, event' \in [Threads -> Event]
    PROVE  DamageTypes' /\ LockInv'
BY DEF DamageInv, DamageTypes, LockInv, Goto

LEMMA ThreadRests ==
    ASSUME DamageInv, DamageTypes', LockInv', NEW t \in Threads,
           UNCHANGED <<ledger, hashFile, hashTail, torn, issued, crashes, failedWrites>>,
           \A u \in Threads \ {t} : pc'[u] = pc[u] /\ event'[u] = event[u],
           \/ Drafting(t) /\ Drafting(t)' /\ event'[t].id = event[t].id
           \/ Owing(t) /\ Owing(t)' /\ event'[t].id = event[t].id
           \/ ~Drafting(t)' /\ ~Owing(t)' /\ ~Owing(t)
    PROVE  DamageInv'
<1>1. crashes + failedWrites <= (crashes + failedWrites)' BY DEF DamageInv, DamageTypes
<1>2. \A u \in Threads \ {t} : Drafting(u)' = Drafting(u) /\ Owing(u)' = Owing(u)
  BY DEF Drafting, Owing
<1>3. ~(Owing(t) /\ ~Owing(t)') BY DEF Drafting, Owing
<1>4. \A u \in Threads :
        \/ ~Drafting(u)' /\ ~Owing(u)' /\ (Owing(u) => u = t)
        \/ Drafting(u) /\ Drafting(u)' /\ event'[u].id = event[u].id
        \/ Owing(u) /\ Owing(u)' /\ event'[u].id = event[u].id
  BY <1>2
<1> QED BY <1>1, <1>3, <1>4, DamageRests

LEMMA AcquireKeepsIds ==
    ASSUME DamageInv, NEW t \in Threads, Acquire(t)
    PROVE  DamageInv'
<1>1. /\ pc[t] = "lock" /\ pc' = [pc EXCEPT ![t] = "create"]
      /\ lock[on[t]] = NoThread /\ lock' = [lock EXCEPT ![on[t]] = t]
      /\ UNCHANGED <<ledger, torn, hashFile, hashTail, live, sequence, on, event,
                     issued, crashes, failedWrites>>
  BY DEF Acquire, Goto, LockFree, disk, faults
<1>2. on[t] \in Handles BY <1>1 DEF DamageInv, DamageTypes, LockInv
<1>3. DamageTypes' BY <1>1, <1>2 DEF DamageInv, DamageTypes, Places
<1>4. LockInv'
  BY <1>1, <1>2, LedgerAssumption DEF DamageInv, DamageTypes, LockInv, Unlocked
<1>5. Drafting(t) /\ Drafting(t)' BY <1>1 DEF Drafting, DamageInv, DamageTypes
<1>6. \A u \in Threads \ {t} : pc'[u] = pc[u] /\ event'[u] = event[u]
  BY <1>1 DEF DamageInv, DamageTypes
<1> QED BY <1>1, <1>3, <1>4, <1>5, <1>6, ThreadRests

LEMMA CreateEventKeepsIds ==
    ASSUME DamageInv, NEW t \in Threads, CreateEvent(t)
    PROVE  DamageInv'
<1>1. /\ Goto(t, "create", "append")
      /\ UNCHANGED <<ledger, torn, hashFile, hashTail, live, sequence, lock, on,
                     issued, crashes, failedWrites>>
  BY DEF CreateEvent, disk, memory, faults
<1>2. PICK e : e = [event[t] EXCEPT !.seq = sequence[on[t]], !.prev = ReadLastHash(on[t])]
  OBVIOUS
<1>3. event' = [event EXCEPT ![t] = e] BY <1>2 DEF CreateEvent, DamageInv, DamageTypes
<1>4. event[t] \in Event /\ event \in [Threads -> Event] BY DEF DamageInv, DamageTypes
<1>5. sequence[on[t]] \in Nat /\ ReadLastHash(on[t]) \in Nat
  <2>1. on[t] \in Handles BY <1>1 DEF DamageInv, DamageTypes, LockInv, Goto
  <2> QED
    BY <2>1, LinesKnown, LedgerAssumption DEF DamageInv, DamageTypes, ReadLastHash, LastHash
<1>6. e \in Event /\ e.id = event[t].id BY <1>2, <1>4, <1>5 DEF Event
<1>7. event' \in [Threads -> Event] /\ event'[t].id = event[t].id BY <1>3, <1>4, <1>6
<1>8. DamageTypes' /\ LockInv' BY <1>1, <1>7, ThreadTyped DEF Places, Unlocked
<1>9. Drafting(t) /\ Drafting(t)' BY <1>1 DEF Drafting, DamageInv, DamageTypes, Goto
<1>10. \A u \in Threads \ {t} : pc'[u] = pc[u] /\ event'[u] = event[u]
  BY <1>1, <1>3 DEF DamageInv, DamageTypes, Goto
<1> QED BY <1>1, <1>7, <1>8, <1>9, <1>10, ThreadRests

LEMMA UpdateIndexKeepsIds ==
    ASSUME DamageInv, NEW t \in Threads, UpdateIndex(t)
    PROVE  DamageInv'
<1>1. /\ Goto(t, "index", "hash")
      /\ UNCHANGED <<ledger, torn, hashFile, hashTail, live, sequence, lock, on, event, issued, crashes,
                     failedWrites>>
  BY DEF UpdateIndex, disk, faults
<1>2. DamageTypes' /\ LockInv'
  BY <1>1, ThreadTyped DEF Places, Unlocked, DamageInv, DamageTypes
<1>3. Owing(t) /\ Owing(t)' BY <1>1 DEF Owing, DamageInv, DamageTypes, Goto
<1>4. \A u \in Threads \ {t} : pc'[u] = pc[u] /\ event'[u] = event[u]
  BY <1>1 DEF DamageInv, DamageTypes, Goto
<1> QED BY <1>1, <1>2, <1>3, <1>4, ThreadRests

LEMMA PersistKeepsIds == ASSUME DamageInv, PersistIndex PROVE DamageInv'
<1>1. /\ Goto(Runner, "persist", "lock") /\ Runner \in Threads
      /\ UNCHANGED <<ledger, torn, hashFile, hashTail, live, sequence, lock, on, event, issued, crashes,
                     failedWrites>>
  BY LedgerAssumption DEF PersistIndex, memory, faults
<1>2. DamageTypes' /\ LockInv'
  BY <1>1, ThreadTyped DEF Places, Unlocked, DamageInv, DamageTypes
<1>3. Drafting(Runner) /\ Drafting(Runner)'
  BY <1>1 DEF Drafting, DamageInv, DamageTypes, Goto
<1>4. \A u \in Threads \ {Runner} : pc'[u] = pc[u] /\ event'[u] = event[u]
  BY <1>1 DEF DamageInv, DamageTypes, Goto
<1> QED BY <1>1, <1>2, <1>3, <1>4, ThreadRests

\* A thread that holds the lock of its handle gives it up, and its event.
LEMMA LeaveTyped ==
    ASSUME DamageInv, NEW t \in Threads, pc[t] \notin Unlocked, Leave(t),
           pc' = [pc EXCEPT ![t] = "idle"], sequence' \in [Handles -> Nat],
           torn' \in BOOLEAN, hashTail' \in Nat, crashes' \in Nat, failedWrites' \in Nat,
           UNCHANGED <<ledger, hashFile, live, on, issued>>
    PROVE  /\ DamageTypes' /\ LockInv'
           /\ \A u \in Threads \ {t} : pc'[u] = pc[u] /\ event'[u] = event[u]
           /\ ~Drafting(t)' /\ ~Owing(t)'
<1>1. pc[t] # "idle" /\ on[t] \in Handles
  BY DEF DamageInv, DamageTypes, LockInv, Unlocked
<1>2. NoEvent \in Event BY LedgerAssumption DEF NoEvent, Event
<1>3. DamageTypes' BY <1>1, <1>2 DEF DamageInv, DamageTypes, Leave, Places
<1>4. lock' = [lock EXCEPT ![on[t]] = NoThread] BY DEF Leave
<1>5. LockInv' BY <1>1, <1>4 DEF DamageInv, DamageTypes, LockInv, Unlocked
<1>6. \A u \in Threads \ {t} : pc'[u] = pc[u] /\ event'[u] = event[u]
  BY DEF DamageInv, DamageTypes, Leave
<1>7. ~Drafting(t)' /\ ~Owing(t)' BY DEF Drafting, Owing, DamageInv, DamageTypes
<1> QED BY <1>3, <1>5, <1>6, <1>7

LEMMA AdvanceKeepsIds ==
    ASSUME DamageInv, NEW t \in Threads, Advance(t)
    PROVE  DamageInv'
<1>1. /\ pc[t] = "advance" /\ pc' = [pc EXCEPT ![t] = "idle"] /\ Leave(t)
      /\ sequence' = [sequence EXCEPT ![on[t]] = NextSequence(on[t])]
      /\ UNCHANGED <<ledger, torn, hashFile, hashTail, live, on, issued, crashes, failedWrites>>
  BY DEF Advance, Goto, disk, faults
<1>2. pc[t] \notin Unlocked /\ on[t] \in Handles
  BY <1>1 DEF DamageInv, DamageTypes, LockInv, Unlocked
<1>3. sequence' \in [Handles -> Nat]
  BY <1>1, <1>2 DEF DamageInv, DamageTypes, NextSequence
<1>4. torn' \in BOOLEAN /\ hashTail' \in Nat /\ crashes' \in Nat /\ failedWrites' \in Nat
  BY <1>1 DEF DamageInv, DamageTypes
<1>5. /\ DamageTypes' /\ LockInv'
      /\ \A u \in Threads \ {t} : pc'[u] = pc[u] /\ event'[u] = event[u]
      /\ ~Drafting(t)' /\ ~Owing(t)'
  BY <1>1, <1>2, <1>3, <1>4, LeaveTyped
<1>6. ~Owing(t) BY <1>1 DEF Owing
<1> QED BY <1>1, <1>5, <1>6, ThreadRests

LEMMA RaiseKeepsIds ==
    ASSUME DamageInv, NEW t \in Threads, AppendRaises(t)
    PROVE  DamageInv'
<1>1. /\ pc[t] \in {"append", "hash"} /\ pc' = [pc EXCEPT ![t] = "idle"] /\ Leave(t)
      /\ failedWrites' = failedWrites + 1
      /\ UNCHANGED <<ledger, hashFile, live, sequence, on, issued, crashes>>
  BY DEF AppendRaises
<1>2. /\ torn' \in BOOLEAN /\ (torn => torn')
      /\ UNCHANGED hashTail \/ TearHash(t)
  BY DEF AppendRaises, DamageInv, DamageTypes
<1>3. /\ pc[t] \notin Unlocked /\ crashes \in Nat /\ failedWrites \in Nat
      /\ sequence \in [Handles -> Nat]
  BY <1>1 DEF DamageInv, DamageTypes, Unlocked
<1>4. crashes' \in Nat /\ failedWrites' \in Nat /\ sequence' \in [Handles -> Nat]
  BY <1>1, <1>3
<1>8. TearHash(t) =>
        /\ Owing(t)
        /\ hashTail' = Garbled \/ (hashTail = NoHash /\ hashTail' = event[t].id)
  BY DEF TearHash, HashOf, Owing
<1>9. hashTail' \in Nat BY <1>2, <1>8, GarbledIsNumber DEF DamageInv, DamageTypes, Event
<1>5. /\ DamageTypes' /\ LockInv'
      /\ \A u \in Threads \ {t} : pc'[u] = pc[u] /\ event'[u] = event[u]
      /\ ~Drafting(t)' /\ ~Owing(t)'
  BY <1>1, <1>2, <1>3, <1>4, <1>9, LeaveTyped
<1>6. /\ crashes + failedWrites <= (crashes + failedWrites)'
      /\ crashes + failedWrites + 1 <= (crashes + failedWrites)'
  BY <1>1, <1>3
<1>7. \A u \in Threads :
        \/ ~Drafting(u)' /\ ~Owing(u)' /\ (Owing(u) => u = t)
        \/ Drafting(u) /\ Drafting(u)' /\ event'[u].id = event[u].id
        \/ Owing(u) /\ Owing(u)' /\ event'[u].id = event[u].id
  BY <1>5 DEF Drafting, Owing
<1>10. \/ UNCHANGED hashTail
       \/ hashTail' = Garbled
       \/ hashTail = NoHash /\ hashTail' = event[t].id /\ Owing(t) /\ ~Owing(t)'
  BY <1>2, <1>5, <1>8
<1> QED BY <1>1, <1>2, <1>5, <1>6, <1>7, <1>10, DamageRests

LEMMA CrashKeepsIds ==
    ASSUME DamageInv, NEW h \in Handles, Crash(h)
    PROVE  DamageInv'
<1>1. /\ pc' = [t \in Threads |-> IF on[t] = h THEN "idle" ELSE pc[t]]
      /\ event' = [t \in Threads |-> IF on[t] = h THEN NoEvent ELSE event[t]]
      /\ crashes' = crashes + 1 /\ live' = live \ {h}
      /\ sequence' = [sequence EXCEPT ![h] = 0] /\ lock' = [lock EXCEPT ![h] = NoThread]
      /\ UNCHANGED <<ledger, hashFile, on, issued, failedWrites>>
  BY DEF Crash, Forget
<1>2. torn' \in BOOLEAN /\ (torn => torn') BY DEF Crash, DamageInv, DamageTypes
<1>3. NoEvent \in Event BY LedgerAssumption DEF NoEvent, Event
<1>10. \/ UNCHANGED hashTail
       \/ \E t \in Threads :
            /\ on[t] = h /\ Owing(t) /\ ~Owing(t)'
            /\ hashTail' = Garbled \/ (hashTail = NoHash /\ hashTail' = event[t].id)
  <2>1. ASSUME NEW t \in Threads, Using(t, h), TearHash(t)
        PROVE  /\ on[t] = h /\ Owing(t) /\ ~Owing(t)'
               /\ hashTail' = Garbled \/ (hashTail = NoHash /\ hashTail' = event[t].id)
    BY <1>1, <2>1 DEF Using, TearHash, HashOf, Owing
  <2>2. UNCHANGED hashTail \/ \E t \in Threads : Using(t, h) /\ TearHash(t) BY DEF Crash
  <2> QED BY <2>1, <2>2
<1>11. hashTail' \in Nat BY <1>10, GarbledIsNumber DEF DamageInv, DamageTypes, Event
<1>4. DamageTypes' BY <1>1, <1>2, <1>3, <1>11 DEF DamageInv, DamageTypes, Places
<1>5. LockInv' BY <1>1 DEF DamageInv, DamageTypes, LockInv, Unlocked
<1>6. /\ crashes + failedWrites <= (crashes + failedWrites)'
      /\ crashes + failedWrites + 1 <= (crashes + failedWrites)'
  BY <1>1 DEF DamageInv, DamageTypes
<1>7. \A t, u \in Threads : Owing(t) /\ Owing(u) /\ on[t] = h /\ on[u] = h => t = u
  BY DEF DamageInv, LockInv, Owing, Unlocked
<1>8. PICK x \in Threads : \A t \in Threads : Owing(t) /\ on[t] = h => t = x
  BY <1>7, LedgerAssumption
<1>9. \A t \in Threads :
        \/ ~Drafting(t)' /\ ~Owing(t)' /\ (Owing(t) => t = x)
        \/ Drafting(t) /\ Drafting(t)' /\ event'[t].id = event[t].id
        \/ Owing(t) /\ Owing(t)' /\ event'[t].id = event[t].id
  <2> TAKE t \in Threads
  <2>1. CASE on[t] = h BY <1>1, <1>8, <2>1 DEF Drafting, Owing
  <2>2. CASE on[t] # h
    <3>1. pc'[t] = pc[t] /\ event'[t] = event[t] BY <1>1, <2>2
    <3>2. Drafting(t)' = Drafting(t) /\ Owing(t)' = Owing(t) BY <3>1 DEF Drafting, Owing
    <3> QED BY <3>1, <3>2
  <2> QED BY <2>1, <2>2
<1>12. \/ UNCHANGED hashTail
       \/ hashTail' = Garbled
       \/ hashTail = NoHash /\ hashTail' = event[x].id /\ Owing(x) /\ ~Owing(x)'
  BY <1>8, <1>10
<1> QED BY <1>1, <1>2, <1>4, <1>5, <1>6, <1>9, <1>12, DamageRests

LEMMA AppendKeepsIds ==
    ASSUME DamageInv, NEW t \in Threads, AppendToLedger(t)
    PROVE  DamageInv'
<1>1. /\ pc[t] = "append" /\ pc' = [pc EXCEPT ![t] = "index"] /\ Goto(t, "append", "index")
      /\ ledger' = IF torn THEN ledger ELSE Append(ledger, event[t])
      /\ UNCHANGED <<torn, hashFile, hashTail, live, sequence, lock, on, event,
                     issued, crashes, failedWrites>>
  BY DEF AppendToLedger, AppendedLine, Goto, memory, faults
<1>2. event[t] \in Event /\ ledger \in Seq(Event) BY DEF DamageInv, DamageTypes
<1>3. DamageTypes' BY <1>1, <1>2 DEF DamageInv, DamageTypes, Places
<1>4. LockInv' BY <1>1 DEF DamageInv, DamageTypes, LockInv, Unlocked
<1>5. Drafting(t) /\ ~Owing(t) /\ Owing(t)' /\ ~Drafting(t)'
  BY <1>1 DEF Drafting, Owing, DamageInv, DamageTypes
<1>6. \A u \in Threads \ {t} : Drafting(u)' = Drafting(u) /\ Owing(u)' = Owing(u)
  BY <1>1 DEF Drafting, Owing, DamageInv, DamageTypes
<1>7. Hashed' = Hashed /\ event' = event /\ HashLines' = HashLines
      /\ Whole(hashFile)' = Whole(hashFile) /\ Doomed' = Doomed
  BY <1>1 DEF Hashed, HashLines, Whole, Doomed
<1>8. event[t].id \in (1..issued) \ (Written \cup Hashed)
  BY <1>5 DEF DamageInv, IdsAreFresh
<1>9. CASE torn
  <2>1. Written' = Written /\ ledger' = ledger BY <1>1, <1>9 DEF Written
  <2>2. IdsAreFresh'
    BY <1>1, <1>5, <1>6, <1>7, <1>8, <2>1 DEF DamageInv, IdsAreFresh, Tidy
  <2>3. HashedIsWritten' /\ LostExplained'
    BY <1>1, <1>9 DEF HashedIsWritten, LostExplained
  <2>4. NumbersEnd' BY <2>1 DEF DamageInv, NumbersEnd
  <2> QED BY <1>3, <1>4, <2>2, <2>3, <2>4 DEF DamageInv
<1>10. CASE ~torn
  <2>1. ledger' = Append(ledger, event[t]) BY <1>1, <1>10
  <2>2. /\ Len(ledger') = Len(ledger) + 1 /\ Len(ledger) \in Nat
        /\ \A i \in 1..Len(ledger) : ledger'[i] = ledger[i]
        /\ ledger'[Len(ledger) + 1] = event[t]
    BY <1>2, <2>1
  <2>3. \A i \in 1..Len(ledger') : i \in 1..Len(ledger) \/ i = Len(ledger) + 1 BY <2>2
  <2>4. 1..Len(ledger') = 1..Len(ledger) \cup {Len(ledger) + 1} BY <2>2
  <2>5. Written' = Written \cup {event[t].id} BY <2>2, <2>4 DEF Written
  <2>6. \A i \in 1..Len(ledger) : ledger[i].id \in Written BY DEF Written
  <2>7. \A i, j \in 1..Len(ledger') : ledger'[i].id = ledger'[j].id => i = j
    <3> SUFFICES ASSUME NEW i \in 1..Len(ledger'), NEW j \in 1..Len(ledger'),
                        ledger'[i].id = ledger'[j].id
                 PROVE  i = j
      OBVIOUS
    <3>1. CASE i \in 1..Len(ledger) /\ j \in 1..Len(ledger)
      BY <2>2, <3>1 DEF DamageInv, IdsAreFresh
    <3>2. CASE i = Len(ledger) + 1 \/ j = Len(ledger) + 1
      BY <1>8, <2>2, <2>3, <2>6, <3>2
    <3> QED BY <2>3, <3>1, <3>2
  <2>8. IdsAreFresh'
    <3>1. \A u \in Threads : Drafting(u)' => u # t /\ Drafting(u) BY <1>5, <1>6
    <3>2. \A u \in Threads : Drafting(u)' => event[u].id # event[t].id
      BY <1>5, <3>1 DEF DamageInv, IdsAreFresh
    <3>3. \A u \in Threads : Drafting(u)' => event'[u].id \in (1..issued') \ (Written' \cup Hashed')
      BY <1>1, <1>7, <2>5, <3>1, <3>2 DEF DamageInv, IdsAreFresh
    <3>4. \A u \in Threads : Owing(u)' => event'[u].id \in (1..issued') \ Hashed'
      BY <1>1, <1>5, <1>6, <1>7, <1>8 DEF DamageInv, IdsAreFresh
    <3>5. \A u \in Threads : Drafting(u)' \/ Owing(u)' => Drafting(u) \/ Owing(u)
      BY <1>5, <1>6
    <3>6. Written' \subseteq 1..issued' /\ Hashed' \subseteq 1..issued'
      BY <1>1, <1>7, <1>8, <2>5 DEF DamageInv, IdsAreFresh
    <3>7. issued' <= MaxEvents /\ Tidy(HashLines)'
      BY <1>1, <1>7 DEF DamageInv, IdsAreFresh, Tidy
    <3>8. \A u, v \in Threads :
            (Drafting(u)' \/ Owing(u)') /\ (Drafting(v)' \/ Owing(v)') /\ u # v =>
                event'[u].id # event'[v].id
      BY <1>7, <3>5 DEF DamageInv, IdsAreFresh
    <3> QED BY <2>7, <3>3, <3>4, <3>6, <3>7, <3>8 DEF IdsAreFresh
  <2>9. Hashed \subseteq Written /\ \A u \in Threads : Owing(u) => event[u].id \in Written
    BY <1>10 DEF DamageInv, HashedIsWritten
  <2>10. HashedIsWritten' BY <1>5, <1>6, <1>7, <2>5, <2>9 DEF HashedIsWritten
  <2>11. Lost' = Lost
    <3>1. {u \in Threads : Owing(u)}' = {u \in Threads : Owing(u)} \cup {t}
      BY <1>5, <1>6
    <3>2. event[t].id \notin Written BY <1>8
    <3> QED BY <1>7, <2>5, <3>1, <3>2 DEF Lost
  <2>12. LostExplained' BY <1>1, <1>7, <2>11 DEF DamageInv, LostExplained
  <2>13. NumbersEnd'
    <3>1. PICK m \in Nat : \A i \in 1..Len(ledger) : ledger[i].seq <= m
      BY DEF DamageInv, NumbersEnd
    <3>2. event[t].seq \in Nat /\ \A i \in 1..Len(ledger) : ledger[i].seq \in Nat
      <4>1. \A i \in 1..Len(ledger) : ledger[i] \in Event BY <1>2
      <4> QED BY <1>2, <4>1 DEF Event
    <3>3. m + event[t].seq \in Nat BY <3>1, <3>2
    <3>4. \A i \in 1..Len(ledger') : ledger'[i].seq <= m + event[t].seq
      BY <2>2, <2>3, <3>1, <3>2
    <3> QED BY <3>3, <3>4 DEF NumbersEnd
  <2> QED BY <1>3, <1>4, <2>8, <2>10, <2>12, <2>13 DEF DamageInv
<1> QED BY <1>9, <1>10

LEMMA HashKeepsIds ==
    ASSUME DamageInv, NEW t \in Threads, AppendHash(t)
    PROVE  DamageInv'
<1>1. /\ pc[t] = "hash" /\ pc' = [pc EXCEPT ![t] = "advance"]
      /\ hashFile' = Append(hashFile, HashLine(event[t])) /\ hashTail' = NoHash
      /\ UNCHANGED <<ledger, torn, live, sequence, lock, on, event,
                     issued, crashes, failedWrites>>
  BY DEF AppendHash, AppendedLine, Goto, memory, faults
<1>2. event[t] \in Event /\ hashFile \in Seq(Nat) BY DEF DamageInv, DamageTypes
<1>3. event[t].id \in Nat /\ HashLine(event[t]) \in Nat
  BY <1>2, GarbledIsNumber DEF Event, HashLine, HashOf
<1>4. DamageTypes'
  BY <1>1, <1>2, <1>3, LedgerAssumption DEF DamageInv, DamageTypes, Places
<1>5. LockInv' BY <1>1 DEF DamageInv, DamageTypes, LockInv, Unlocked
<1>6. Owing(t) /\ ~Owing(t)' /\ ~Drafting(t)'
  BY <1>1 DEF Drafting, Owing, DamageInv, DamageTypes
<1>7. \A u \in Threads \ {t} : Drafting(u)' = Drafting(u) /\ Owing(u)' = Owing(u)
  BY <1>1 DEF Drafting, Owing, DamageInv, DamageTypes
<1>8. Relined(t) BY <1>1, <1>6 DEF Relined, HashLines, HashLine, HashOf
<1>9. Written' = Written /\ IdsAreFresh' /\ HashedIsWritten'
  <2>1. \A u \in Threads :
          \/ ~Drafting(u)' /\ ~Owing(u)' /\ (Owing(u) => u = t)
          \/ Drafting(u) /\ Drafting(u)' /\ event'[u].id = event[u].id
          \/ Owing(u) /\ Owing(u)' /\ event'[u].id = event[u].id
    BY <1>1, <1>6, <1>7
  <2> QED BY <1>1, <1>8, <2>1, FreshRests
<1>10. {u \in Threads : Owing(u)} = {u \in Threads : Owing(u)}' \cup {t} BY <1>6, <1>7
<1>11. Whole(hashFile)' = Whole(hashFile) \cup ({HashLine(event[t])} \ {Garbled})
  <2>1. PICK L : L = Append(hashFile, HashLine(event[t])) OBVIOUS
  <2>2. Whole(L) = Whole(hashFile) \cup ({HashLine(event[t])} \ {Garbled})
    BY <1>2, <1>3, <2>1, LineMore
  <2>3. Whole(hashFile)' = Whole(L) BY <1>1, <2>1 DEF Whole
  <2> QED BY <2>2, <2>3
<1>12. Doomed' = 0 BY <1>1 DEF Doomed
<1>13. LostExplained'
  <2> SUFFICES ASSUME ~torn PROVE Cardinality(Lost') + 0 <= 2 * (crashes + failedWrites)
    BY <1>1, <1>12 DEF LostExplained
  <2>1. IsFiniteSet(Lost) BY LostIsFinite DEF DamageInv, DamageTypes
  <2>2. Cardinality(Lost) \in Nat /\ Cardinality(Lost) + Doomed <= 2 * (crashes + failedWrites)
    BY <2>1, FS_CardinalityType DEF DamageInv, LostExplained
  <2>3. 2 * (crashes + failedWrites) \in Nat BY DEF DamageInv, DamageTypes
  <2>4. CASE hashTail = NoHash
    <3>1. event[t].id \in 1..MaxEvents
      BY <1>6, LedgerAssumption DEF DamageInv, DamageTypes, IdsAreFresh
    <3>2. event[t].id # Garbled BY <3>1, LedgerAssumption DEF Garbled
    <3>3. Whole(hashFile)' = Whole(hashFile) \cup {event[t].id}
      BY <1>11, <2>4, <3>2 DEF HashLine, HashOf
    <3>4. Lost' = Lost BY <1>1, <1>9, <1>10, <3>3 DEF Lost
    <3>5. Doomed = 0 BY <2>4 DEF Doomed
    <3> QED BY <2>2, <3>4, <3>5
  <2>5. CASE hashTail # NoHash
    <3>1. Whole(hashFile) \subseteq Whole(hashFile)' BY <1>11
    <3>2. Lost' \subseteq Lost \cup {event[t].id} BY <1>1, <1>9, <1>10, <3>1 DEF Lost
    <3>3. IsFiniteSet(Lost \cup {event[t].id}) BY <2>1, FS_AddElement
    <3>4. Cardinality(Lost \cup {event[t].id}) <= Cardinality(Lost) + 1
      <4>1. Cardinality(Lost \cup {event[t].id}) =
              IF event[t].id \in Lost THEN Cardinality(Lost) ELSE Cardinality(Lost) + 1
        BY <2>1, FS_AddElement
      <4> QED BY ONLY <2>2, <4>1
    <3>5. IsFiniteSet(Lost') /\ Cardinality(Lost') <= Cardinality(Lost \cup {event[t].id})
      BY <3>2, <3>3, FS_Subset
    <3>6. Cardinality(Lost \cup {event[t].id}) \in Nat /\ Cardinality(Lost') \in Nat
      BY <3>3, <3>5, FS_CardinalityType
    <3>7. Cardinality(Lost') <= Cardinality(Lost) + 1 BY ONLY <2>2, <3>4, <3>5, <3>6
    <3>8. Cardinality(Lost) + 1 <= 2 * (crashes + failedWrites) BY <2>2, <2>5 DEF Doomed
    <3> QED BY ONLY <2>2, <2>3, <3>6, <3>7, <3>8, CostOfJoining
  <2> QED BY <2>4, <2>5
<1>14. NumbersEnd' BY <1>1 DEF DamageInv, NumbersEnd
<1> QED BY <1>4, <1>5, <1>9, <1>13, <1>14 DEF DamageInv

LEMMA DamageStep == ASSUME DamageInv, [DamageNext]_vars PROVE DamageInv'
<1>1. ASSUME NEW h \in Handles, Create(h) \/ Attach(h) PROVE DamageInv'
  <2>1. RestoredSequence \in Nat /\ RestartedSequence \in Nat
    BY RestoredIsNew DEF DamageInv, DamageTypes, RestartedSequence
  <2> QED BY <1>1, <2>1, OpenRests DEF Create, Attach
<1>2. ASSUME NEW h \in Handles, Close(h) PROVE DamageInv' BY <1>2, CloseRests
<1>3. ASSUME NEW h \in Handles, WriteCheckpoint(h) PROVE DamageInv'
  <2>1. Runner \in Threads /\ {CkptTag} \in SUBSET Tags BY LedgerAssumption
  <2>2. /\ h \in live /\ Draft(Runner, {CkptTag}) /\ Goto(Runner, "idle", "persist")
        /\ on' = [on EXCEPT ![Runner] = h]
        /\ issued < MaxEvents
        /\ UNCHANGED <<ledger, torn, hashFile, hashTail, live, sequence, lock, crashes,
                       failedWrites>>
    BY <1>3 DEF WriteCheckpoint, memory, faults
  <2> QED BY <2>1, <2>2, DraftKeeps
<1>4. ASSUME PersistIndex PROVE DamageInv' BY <1>4, PersistKeepsIds
<1>5. ASSUME NEW t \in Threads, EmitStep(t) PROVE DamageInv'
  <2>1. ASSUME NEW h \in Handles, NEW tags \in SUBSET Tags, Emit(t, h, tags) PROVE DamageInv'
    <3>1. /\ h \in live /\ Draft(t, tags) /\ Goto(t, "idle", "lock")
          /\ on' = [on EXCEPT ![t] = h]
          /\ issued < MaxEvents
          /\ UNCHANGED <<ledger, torn, hashFile, hashTail, live, sequence, lock, crashes,
                         failedWrites>>
      BY <2>1 DEF Emit, disk, memory, faults
    <3> QED BY <3>1, DraftKeeps
  <2> QED
    BY <1>5, <2>1, AcquireKeepsIds, CreateEventKeepsIds, AppendKeepsIds, UpdateIndexKeepsIds,
       HashKeepsIds, AdvanceKeepsIds DEF EmitStep
<1>6. ASSUME NEW h \in Handles, Crash(h) PROVE DamageInv' BY <1>6, CrashKeepsIds
<1>7. ASSUME NEW t \in Threads, AppendRaises(t) PROVE DamageInv' BY <1>7, RaiseKeepsIds
<1>8. CASE UNCHANGED vars
  <2>1. /\ UNCHANGED <<ledger, torn, hashFile, hashTail, live, sequence, lock, pc, on, event>>
        /\ UNCHANGED <<issued, crashes, failedWrites>>
    BY <1>8 DEF vars, disk, memory, faults
  <2>2. DamageTypes' /\ LockInv' BY <2>1 DEF DamageInv, DamageTypes, LockInv
  <2>3. \A t \in Threads : Drafting(t)' = Drafting(t) /\ Owing(t)' = Owing(t)
    BY <2>1 DEF Drafting, Owing
  <2>4. Runner \in Threads /\ crashes + failedWrites <= (crashes + failedWrites)'
    BY <2>1, LedgerAssumption DEF DamageInv, DamageTypes
  <2> QED BY <2>1, <2>2, <2>3, <2>4, DamageRests
<1> QED
  BY <1>1, <1>2, <1>3, <1>4, <1>5, <1>6, <1>7, <1>8 DEF DamageNext, ResumeNext, FaultNext, Next

\* The elements of a sequence without repetitions are as many as its length.
LEMMA DistinctCount ==
    ASSUME NEW n \in Nat, NEW f, \A i, j \in 1..n : f[i] = f[j] => i = j
    PROVE  /\ IsFiniteSet({f[i] : i \in 1..n})
           /\ Cardinality({f[i] : i \in 1..n}) = n
<1>1. PICK S : S = {f[i] : i \in 1..n} OBVIOUS
<1>2. PICK g : g = [i \in 1..n |-> f[i]] OBVIOUS
<1>3. g \in [1..n -> S] /\ \A i \in 1..n : g[i] = f[i] BY <1>1, <1>2
<1>7. g \in Injection(1..n, S)
  <2>1. \A i, j \in 1..n : g[i] = g[j] => i = j BY <1>3
  <2> QED BY <1>3, <2>1 DEF Injection, IsInjective
<1>8. g \in Surjection(1..n, S) BY <1>1, <1>3 DEF Surjection
<1>9. g \in Bijection(1..n, S) BY <1>7, <1>8 DEF Bijection
<1>4. ExistsBijection(1..n, S) BY <1>9 DEF ExistsBijection
<1>5. IsFiniteSet(1..n) /\ Cardinality(1..n) = n BY FS_Interval
<1>6. IsFiniteSet(S) /\ Cardinality(S) = n BY <1>4, <1>5, FS_Bijection
<1> QED BY <1>1, <1>6

LEMMA DamageSound == DamageInv => DamageBounded
<1> SUFFICES ASSUME DamageInv, Quiet, ~torn
             PROVE  /\ Cardinality(Written) = Len(ledger)
                    /\ Hashed \subseteq Written
                    /\ \A i, j \in 1..Len(HashLines) :
                         HashLines[i] = HashLines[j] /\ HashLines[i] # Garbled => i = j
                    /\ Cardinality(Written \ Hashed) <= 2 * (crashes + failedWrites)
  BY DEF DamageBounded, Written, Hashed, Ids
<1>1. Len(ledger) \in Nat BY DEF DamageInv, DamageTypes
<1>2. Cardinality(Written) = Len(ledger)
  <2>1. PICK n \in Nat : n = Len(ledger) BY <1>1
  <2>2. PICK f : f = [i \in 1..n |-> ledger[i].id] OBVIOUS
  <2>3. \A i, j \in 1..n : f[i] = f[j] => i = j BY <2>1, <2>2 DEF DamageInv, IdsAreFresh
  <2>4. PICK S : S = {f[i] : i \in 1..n} OBVIOUS
  <2>5. IsFiniteSet(S) /\ Cardinality(S) = n BY <2>3, <2>4, DistinctCount
  <2>6. Written = S BY <2>1, <2>2, <2>4 DEF Written
  <2> QED BY <2>1, <2>5, <2>6
<1>3. Hashed \subseteq Written /\ Tidy(HashLines)
  BY DEF DamageInv, HashedIsWritten, IdsAreFresh
<1>4. Lost = Written \ Whole(hashFile) BY DEF Lost, Owing, Quiet
<1>5. Written \ Hashed \subseteq Lost BY <1>4, LinesKnown
<1>6. IsFiniteSet(Lost) BY LostIsFinite DEF DamageInv, DamageTypes
<1>7. IsFiniteSet(Written \ Hashed) /\ Cardinality(Written \ Hashed) <= Cardinality(Lost)
  BY <1>5, <1>6, FS_Subset
<1>8. /\ Cardinality(Lost) \in Nat /\ Cardinality(Written \ Hashed) \in Nat
      /\ Doomed \in Nat /\ 2 * (crashes + failedWrites) \in Nat
  BY <1>6, <1>7, FS_CardinalityType DEF Doomed, DamageInv, DamageTypes
<1>9. Cardinality(Lost) + Doomed <= 2 * (crashes + failedWrites)
  BY DEF DamageInv, LostExplained
<1>10. Cardinality(Written \ Hashed) <= 2 * (crashes + failedWrites)
  BY ONLY <1>7, <1>8, <1>9
<1> QED BY <1>2, <1>3, <1>10 DEF Tidy

----------------------------------------------------------------------------
(* A ledger with one handle that dies and whose writes raise.              *)

Filing(t) == pc[t] \in {"index", "hash", "advance"}

\* Who owes the hash of an event wrote it last.
OwedIsLast ==
    ~torn => \A t \in Threads : Owing(t) =>
        Len(ledger) > 0 /\ ledger[Len(ledger)].id = event[t].id

\* The number an event gets is that of the handle until it is filed.
NumberedByHandle ==
    /\ \A h \in live : \A i \in 1..Len(ledger) : ledger[i].seq <= sequence[h]
    /\ \A t \in Threads : pc[t] = "append" => event[t].seq = sequence[on[t]]

Repeated == Len(ledger) - Cardinality(Sequences(ledger))

\* A number repeats when a write has failed, and once more may be about to.
RepeatsExplained ==
    ~torn =>
        /\ Repeated <= failedWrites
        /\ Quiet => \A h \in live :
             sequence[h] \in Sequences(ledger) => Repeated + 1 <= failedWrites

WriterInv ==
    live \subseteq {h1} /\ OwedIsLast /\ HashesInOrder /\ NumberedByHandle /\ RepeatsExplained

\* A line that is no hash, or is that of the last event, keeps the order.
LEMMA OrderMore ==
    ASSUME ledger \in Seq(Event), NEW H \in Seq(Nat), InOrder(H), NEW x \in Nat,
           \/ x = Garbled
           \/ x \notin Whole(H) /\ Len(ledger) > 0 /\ x = HashOf(ledger[Len(ledger)])
    PROVE  InOrder(Append(H, x))
<1>1. PICK L : L = Append(H, x) OBVIOUS
<1>2. /\ Len(H) \in Nat /\ Len(ledger) \in Nat
      /\ 1..Len(L) = 1..Len(H) \cup {Len(H) + 1}
      /\ \A i \in 1..Len(H) : L[i] = H[i]
      /\ L[Len(H) + 1] = x
  BY <1>1, LineMore
<1>3. \A j, k \in 1..Len(H) : j <= k /\ H[j] # Garbled /\ H[k] # Garbled =>
        \E a, b \in 1..Len(ledger) :
            /\ a <= b /\ (j < k => a < b)
            /\ H[j] = HashOf(ledger[a])
            /\ H[k] = HashOf(ledger[b])
  BY DEF InOrder
<1>4. ASSUME NEW j \in 1..Len(L), NEW k \in 1..Len(L), j <= k, L[j] # Garbled, L[k] # Garbled
      PROVE  \E a, b \in 1..Len(ledger) :
                 /\ a <= b /\ (j < k => a < b)
                 /\ L[j] = HashOf(ledger[a])
                 /\ L[k] = HashOf(ledger[b])
  <2>1. CASE k \in 1..Len(H)
    <3>1. j \in 1..Len(H) BY <1>2, <1>4, <2>1
    <3>2. L[j] = H[j] /\ L[k] = H[k] BY ONLY <1>2, <2>1, <3>1
    <3>3. \E a, b \in 1..Len(ledger) :
              /\ a <= b /\ (j < k => a < b)
              /\ H[j] = HashOf(ledger[a])
              /\ H[k] = HashOf(ledger[b])
      BY ONLY <1>3, <1>4, <2>1, <3>1, <3>2
    <3> QED BY ONLY <3>2, <3>3
  <2>2. CASE k = Len(H) + 1
    <3>1. x \notin Whole(H) /\ Len(ledger) > 0 /\ x = HashOf(ledger[Len(ledger)])
      BY <1>2, <1>4, <2>2
    <3>2. Len(ledger) \in 1..Len(ledger) BY <1>2, <3>1
    <3>3. CASE j = Len(H) + 1 BY <1>2, <2>2, <3>1, <3>2, <3>3
    <3>4. CASE j \in 1..Len(H)
      <4>1. L[j] = H[j] /\ H[j] # x BY <1>2, <1>4, <3>1, <3>4 DEF Whole
      <4>2. PICK a \in 1..Len(ledger) : H[j] = HashOf(ledger[a])
        BY <1>2, <1>3, <1>4, <3>4, <4>1
      <4>3. a < Len(ledger) BY <1>2, <3>1, <4>1, <4>2
      <4> QED BY <1>2, <2>2, <3>1, <3>2, <4>1, <4>2, <4>3
    <3> QED BY <1>2, <3>3, <3>4
  <2> QED BY <1>2, <2>1, <2>2
<1>5. InOrder(L) BY ONLY <1>4 DEF InOrder
<1> QED BY <1>1, <1>5

LEMMA OrderLess ==
    ASSUME NEW H \in Seq(Nat), NEW x \in Nat, InOrder(Append(H, x))
    PROVE  InOrder(H)
<1>1. PICK L : L = Append(H, x) OBVIOUS
<1>2. 1..Len(H) \subseteq 1..Len(L) /\ \A i \in 1..Len(H) : L[i] = H[i]
  BY <1>1, LineMore
<1>3. InOrder(L) BY <1>1
<1>4. ASSUME NEW j \in 1..Len(H), NEW k \in 1..Len(H), j <= k, H[j] # Garbled, H[k] # Garbled
      PROVE  \E a, b \in 1..Len(ledger) :
                 /\ a <= b /\ (j < k => a < b)
                 /\ H[j] = HashOf(ledger[a])
                 /\ H[k] = HashOf(ledger[b])
  <2>1. j \in 1..Len(L) /\ k \in 1..Len(L) /\ L[j] = H[j] /\ L[k] = H[k] BY <1>2
  <2> QED BY <1>3, <1>4, <2>1 DEF InOrder
<1> QED BY ONLY <1>4 DEF InOrder

\* What a step of one thread does to the hash file keeps the order.
LEMMA OrderRests ==
    ASSUME DamageInv, WriterInv, ledger' = ledger, torn => torn', NEW x \in Threads, Relined(x)
    PROVE  HashesInOrder'
<1> SUFFICES ASSUME ~torn' PROVE InOrder(HashLines)' BY DEF HashesInOrder
<1>1. PICK L : L = HashLines' OBVIOUS
<1>2. /\ hashFile \in Seq(Nat) /\ hashTail \in Nat /\ HashLines \in Seq(Nat)
      /\ ledger \in Seq(Event) /\ InOrder(HashLines)
  BY LinesKnown DEF DamageInv, DamageTypes, WriterInv, HashesInOrder
<1>3. InOrder(hashFile)
  <2>1. CASE hashTail = NoHash BY <1>2, <2>1 DEF HashLines
  <2>2. CASE hashTail # NoHash
    <3>1. HashLines = Append(hashFile, hashTail) BY <2>2 DEF HashLines
    <3> QED BY <1>2, <3>1, OrderLess
  <2> QED BY <2>1, <2>2
<1>4. InOrder(L)
  <2>1. CASE L = HashLines BY <1>2, <2>1
  <2>2. CASE L = Append(hashFile, Garbled)
    BY <1>2, <1>3, <2>2, GarbledIsNumber, OrderMore
  <2>3. CASE L = Append(HashLines, event[x].id) /\ Owing(x)
    <3>1. event[x].id \in Nat /\ event[x].id \notin Whole(HashLines)
      BY <2>3 DEF DamageInv, IdsAreFresh, Hashed, DamageTypes, Event
    <3>2. Len(ledger) > 0 /\ event[x].id = HashOf(ledger[Len(ledger)])
      BY <2>3 DEF WriterInv, OwedIsLast, HashOf
    <3> QED BY <1>2, <2>3, <3>1, <3>2, OrderMore
  <2> QED BY <1>1, <2>1, <2>2, <2>3 DEF Relined
<1> QED BY <1>1, <1>4 DEF InOrder, HashOf

LEMMA WriterStart == Init => WriterInv
<1> SUFFICES ASSUME Init PROVE WriterInv OBVIOUS
<1>1. ledger = <<>> /\ HashLines = <<>> /\ live = {} /\ failedWrites = 0
      /\ \A t \in Threads : pc[t] = "idle"
  BY DEF Init, HashLines
<1>2. Sequences(ledger) = {} /\ Len(ledger) = 0 /\ Len(HashLines) = 0
  BY <1>1 DEF Sequences
<1>3. Repeated = 0 BY <1>2, FS_EmptySet DEF Repeated
<1>4. OwedIsLast BY <1>1 DEF OwedIsLast, Owing
<1>5. HashesInOrder BY <1>2 DEF HashesInOrder, InOrder
<1>6. NumberedByHandle BY <1>1 DEF NumberedByHandle
<1>7. RepeatsExplained BY <1>1, <1>3 DEF RepeatsExplained
<1> QED BY <1>1, <1>4, <1>5, <1>6, <1>7 DEF WriterInv

LEMMA OneWrites ==
    ASSUME LockInv, live \subseteq {h1}, NEW t \in Threads, NEW u \in Threads,
           pc[t] \notin Unlocked, pc[u] \notin Unlocked
    PROVE  t = u
BY DEF LockInv, Unlocked

\* A step that does not write the ledger.
LEMMA WriterRests ==
    ASSUME DamageInv, WriterInv, DamageInv', live' \subseteq {h1},
           ledger' = ledger, torn => torn', \E x \in Threads : Relined(x),
           failedWrites <= failedWrites',
           \A t \in Threads : Owing(t)' => Owing(t) /\ event'[t].id = event[t].id,
           \A t \in Threads : pc'[t] = "append" => event'[t].seq = sequence'[on'[t]],
           \A h \in live' : \A i \in 1..Len(ledger) : ledger[i].seq <= sequence'[h],
           ~torn' /\ Quiet' =>
              \/ failedWrites < failedWrites'
              \/ \A h \in live' : sequence'[h] \notin Sequences(ledger)
              \/ Quiet /\ \A h \in live' : h \in live /\ sequence'[h] = sequence[h]
    PROVE  WriterInv'
<1>1. OwedIsLast' BY DEF WriterInv, OwedIsLast
<1>2. HashesInOrder' BY OrderRests
<1>3. NumberedByHandle' BY DEF NumberedByHandle
<1>4. Repeated' = Repeated /\ Sequences(ledger)' = Sequences(ledger)
  BY DEF Repeated, Sequences
<1>5. Len(ledger) \in Nat /\ failedWrites \in Nat /\ failedWrites' \in Nat
  BY DEF DamageInv, DamageTypes
<1>6. IsFiniteSet(Sequences(ledger))
  <2>1. PICK n \in Nat : n = Len(ledger) BY <1>5
  <2>2. PICK f : f = [i \in 1..n |-> ledger[i].seq] OBVIOUS
  <2>3. f \in Surjection(1..n, Sequences(ledger))
    BY <2>1, <2>2 DEF Surjection, Sequences
  <2>4. ExistsSurjection(1..n, Sequences(ledger)) BY <2>3 DEF ExistsSurjection
  <2> QED BY <2>1, <2>4, FS_NatSurjection
<1>7. Repeated \in Int BY <1>5, <1>6, FS_CardinalityType DEF Repeated
<1>8. RepeatsExplained'
  <2> SUFFICES ASSUME ~torn' PROVE RepeatsExplained' BY DEF RepeatsExplained
  <2>1. Repeated <= failedWrites BY DEF WriterInv, RepeatsExplained
  <2>2. Repeated' <= failedWrites' BY <1>4, <1>5, <1>7, <2>1
  <2>3. ASSUME Quiet', NEW h \in live', sequence'[h] \in Sequences(ledger)'
        PROVE  Repeated' + 1 <= failedWrites'
    <3>1. CASE failedWrites < failedWrites' BY <1>4, <1>5, <1>7, <2>1, <3>1
    <3>2. CASE Quiet /\ h \in live /\ sequence'[h] = sequence[h]
      <4>1. Repeated + 1 <= failedWrites
        BY <1>4, <2>3, <3>2 DEF WriterInv, RepeatsExplained
      <4> QED BY <1>4, <1>5, <1>7, <4>1
    <3> QED BY <1>4, <2>3, <3>1, <3>2
  <2> QED BY <2>2, <2>3 DEF RepeatsExplained
<1> QED BY <1>1, <1>2, <1>3, <1>8 DEF WriterInv

LEMMA WriterAppends ==
    ASSUME DamageInv, WriterInv, NEW t \in Threads, AppendToLedger(t), DamageInv'
    PROVE  WriterInv'
<1>1. /\ pc[t] = "append" /\ pc' = [pc EXCEPT ![t] = "index"]
      /\ ledger' = IF torn THEN ledger ELSE Append(ledger, event[t])
      /\ UNCHANGED <<torn, hashFile, hashTail, live, sequence, lock, on, event,
                     issued, crashes, failedWrites>>
  BY DEF AppendToLedger, AppendedLine, Goto, memory, faults
<1>2. pc \in [Threads -> Places] /\ LockInv /\ live \subseteq {h1}
  BY DEF DamageInv, DamageTypes, WriterInv
<1>3. \A u \in Threads \ {t} : pc[u] \in Unlocked /\ pc'[u] = pc[u]
  BY <1>1, <1>2, OneWrites DEF Unlocked
<1>4. pc'[t] = "index" /\ ~Quiet' /\ Quiet BY <1>1, <1>2, <1>3 DEF Quiet, Unlocked
<1>5. event[t].seq = sequence[on[t]] /\ on[t] \in live
  BY <1>1, <1>2 DEF WriterInv, NumberedByHandle, LockInv
<1>6. event[t] \in Event /\ ledger \in Seq(Event) /\ Len(ledger) \in Nat /\ event[t].seq \in Nat
  <2>1. event[t] \in Event /\ ledger \in Seq(Event) BY DEF DamageInv, DamageTypes
  <2> QED BY <2>1 DEF Event
<1>7. \A h \in live : h = on[t] BY <1>2, <1>5
<1>8. CASE torn
  <2>1. ledger' = ledger BY <1>1, <1>8
  <2>2. OwedIsLast' /\ HashesInOrder' /\ RepeatsExplained'
    BY <1>1, <1>8 DEF OwedIsLast, HashesInOrder, RepeatsExplained
  <2>3. NumberedByHandle'
    BY <1>1, <1>3, <1>4, <2>1 DEF WriterInv, NumberedByHandle, Unlocked
  <2> QED BY <1>1, <1>2, <2>2, <2>3 DEF WriterInv
<1>9. CASE ~torn
  <2>1. ledger' = Append(ledger, event[t]) BY <1>1, <1>9
  <2>2. /\ Len(ledger') = Len(ledger) + 1
        /\ \A i \in 1..Len(ledger) : ledger'[i] = ledger[i]
        /\ ledger'[Len(ledger) + 1] = event[t]
        /\ 1..Len(ledger') = 1..Len(ledger) \cup {Len(ledger) + 1}
    BY <1>6, <2>1
  <2>3. OwedIsLast'
    <3>1. \A u \in Threads : Owing(u)' => u = t BY <1>3 DEF Owing, Unlocked
    <3>2. Len(ledger') > 0 /\ ledger'[Len(ledger')].id = event'[t].id
      BY <1>1, <1>6, <2>2
    <3> QED BY <3>1, <3>2 DEF OwedIsLast
  <2>4. HashesInOrder'
    <3>1. PICK L : L = HashLines OBVIOUS
    <3>2. HashLines' = L BY <1>1, <3>1 DEF HashLines
    <3>3. \A j, k \in 1..Len(L) : j <= k /\ L[j] # Garbled /\ L[k] # Garbled =>
            \E a, b \in 1..Len(ledger) :
                /\ a <= b /\ (j < k => a < b)
                /\ L[j] = HashOf(ledger[a])
                /\ L[k] = HashOf(ledger[b])
      BY <1>9, <3>1 DEF WriterInv, HashesInOrder, InOrder
    <3>4. \A a \in 1..Len(ledger) : a \in 1..Len(ledger') /\ HashOf(ledger'[a]) = HashOf(ledger[a])
      BY <2>2 DEF HashOf
    <3>5. ASSUME NEW j \in 1..Len(L), NEW k \in 1..Len(L), j <= k, L[j] # Garbled, L[k] # Garbled
          PROVE  \E a, b \in 1..Len(ledger') :
                     /\ a <= b /\ (j < k => a < b)
                     /\ L[j] = HashOf(ledger'[a])
                     /\ L[k] = HashOf(ledger'[b])
      <4>1. PICK a \in 1..Len(ledger), b \in 1..Len(ledger) :
              /\ a <= b /\ (j < k => a < b)
              /\ L[j] = HashOf(ledger[a])
              /\ L[k] = HashOf(ledger[b])
        BY <3>3, <3>5
      <4>2. /\ a \in 1..Len(ledger') /\ HashOf(ledger'[a]) = HashOf(ledger[a])
            /\ b \in 1..Len(ledger') /\ HashOf(ledger'[b]) = HashOf(ledger[b])
        BY <3>4
      <4> QED BY <4>1, <4>2
    <3> QED BY <3>2, <3>5 DEF HashesInOrder, InOrder, HashOf
  <2>5. \A i \in 1..Len(ledger) : ledger[i].seq <= event[t].seq
    BY <1>5 DEF WriterInv, NumberedByHandle
  <2>6. NumberedByHandle'
    <3>1. \A h \in live' : \A i \in 1..Len(ledger') : ledger'[i].seq <= sequence'[h]
      BY <1>1, <1>5, <1>6, <1>7, <2>2, <2>5
    <3>2. \A u \in Threads : pc'[u] = "append" => event'[u].seq = sequence'[on'[u]]
      BY <1>3, <1>4 DEF Unlocked
    <3> QED BY <3>1, <3>2 DEF NumberedByHandle
  <2>7. Sequences(ledger') = Sequences(ledger) \cup {event[t].seq} BY <2>2 DEF Sequences
  <2>8. IsFiniteSet(Sequences(ledger)) /\ Cardinality(Sequences(ledger)) \in Nat
    <3>1. PICK n \in Nat : n = Len(ledger) BY <1>6
    <3>2. PICK f : f = [i \in 1..n |-> ledger[i].seq] OBVIOUS
    <3>3. f \in Surjection(1..n, Sequences(ledger))
      BY <3>1, <3>2 DEF Surjection, Sequences
    <3>4. ExistsSurjection(1..n, Sequences(ledger)) BY <3>3 DEF ExistsSurjection
    <3>5. IsFiniteSet(Sequences(ledger)) BY <3>1, <3>4, FS_NatSurjection
    <3> QED BY <3>5, FS_CardinalityType
  <2>9. Cardinality(Sequences(ledger')) =
          IF event[t].seq \in Sequences(ledger) THEN Cardinality(Sequences(ledger))
          ELSE Cardinality(Sequences(ledger)) + 1
    BY <2>7, <2>8, FS_AddElement
  <2>10. failedWrites \in Nat /\ failedWrites' = failedWrites
    BY <1>1 DEF DamageInv, DamageTypes
  <2>11. Repeated <= failedWrites BY <1>9 DEF WriterInv, RepeatsExplained
  <2>12. event[t].seq \in Sequences(ledger) => Repeated + 1 <= failedWrites
    BY <1>4, <1>5, <1>9 DEF WriterInv, RepeatsExplained
  <2>13. Repeated' = Len(ledger') - Cardinality(Sequences(ledger'))
    BY DEF Repeated, Sequences
  <2>14. Repeated' <= failedWrites'
    BY <1>6, <2>2, <2>8, <2>9, <2>10, <2>11, <2>12, <2>13 DEF Repeated
  <2>15. RepeatsExplained' BY <1>4, <2>14 DEF RepeatsExplained
  <2> QED BY <1>1, <1>2, <2>3, <2>4, <2>6, <2>15 DEF WriterInv
<1> QED BY <1>8, <1>9

LEMMA WriterHashes ==
    ASSUME DamageInv, WriterInv, NEW t \in Threads, AppendHash(t), DamageInv'
    PROVE  WriterInv'
<1>1. /\ pc[t] = "hash" /\ pc' = [pc EXCEPT ![t] = "advance"]
      /\ hashFile' = Append(hashFile, HashLine(event[t])) /\ hashTail' = NoHash
      /\ UNCHANGED <<ledger, torn, live, sequence, lock, on, event,
                     issued, crashes, failedWrites>>
  BY DEF AppendHash, AppendedLine, Goto, memory, faults
<1>2. pc \in [Threads -> Places] /\ live \subseteq {h1}
  BY DEF DamageInv, DamageTypes, WriterInv
<1>3. pc'[t] = "advance" /\ \A u \in Threads \ {t} : pc'[u] = pc[u] BY <1>1, <1>2
<1>4. OwedIsLast' BY <1>1, <1>3 DEF WriterInv, OwedIsLast, Owing
<1>5. NumberedByHandle' BY <1>1, <1>3 DEF WriterInv, NumberedByHandle
<1>6. ~Quiet' BY <1>3 DEF Quiet
<1>7. RepeatsExplained' BY <1>1, <1>6 DEF WriterInv, RepeatsExplained, Repeated
<1>8. HashesInOrder'
  <2>1. Owing(t) /\ ~Owing(t)' BY <1>1, <1>3 DEF Owing
  <2>2. Relined(t) BY <1>1, <2>1 DEF Relined, HashLines, HashLine, HashOf
  <2> QED BY <1>1, <2>2, OrderRests
<1> QED BY <1>1, <1>2, <1>4, <1>5, <1>7, <1>8 DEF WriterInv

\* A thread moves on in emit_event and touches no file.
LEMMA WriterMoves ==
    ASSUME DamageInv, WriterInv, DamageInv', NEW t \in Threads,
           UNCHANGED <<ledger, hashFile, hashTail, torn, live, sequence, failedWrites>>,
           \A u \in Threads \ {t} : pc'[u] = pc[u] /\ on'[u] = on[u] /\ event'[u] = event[u],
           Owing(t)' => Owing(t) /\ event'[t].id = event[t].id,
           pc'[t] = "append" => event'[t].seq = sequence[on'[t]],
           pc[t] \in {"index", "hash", "advance"} => pc'[t] \in {"index", "hash", "advance"}
    PROVE  WriterInv'
<1>1. \A u \in Threads : Owing(u)' => Owing(u) /\ event'[u].id = event[u].id
  BY DEF Owing
<1>2. \A u \in Threads : pc'[u] = "append" => event'[u].seq = sequence'[on'[u]]
  BY DEF WriterInv, NumberedByHandle
<1>3. Quiet' => Quiet BY DEF Quiet
<1>4. live' \subseteq {h1} /\ \A h \in live' : \A i \in 1..Len(ledger) : ledger[i].seq <= sequence'[h]
  BY DEF WriterInv, NumberedByHandle
<1>5. failedWrites <= failedWrites' /\ Relined(t)
  BY DEF DamageInv, DamageTypes, Relined, HashLines
<1> QED BY <1>1, <1>2, <1>3, <1>4, <1>5, WriterRests

LEMMA WriterOpens ==
    ASSUME DamageInv, WriterInv, DamageInv', live' \subseteq {h1}, NEW h \in Handles, Create(h)
    PROVE  WriterInv'
<1>1. /\ h \notin live /\ live' = live \cup {h}
      /\ sequence' = [sequence EXCEPT ![h] = RestoredSequence]
      /\ UNCHANGED <<ledger, torn, hashFile, hashTail, pc, on, event, failedWrites>>
  BY DEF Create, Open, disk, faults
<1>2. live = {} /\ live' = {h} BY <1>1 DEF WriterInv
<1>3. \A t \in Threads : pc[t] = "idle" BY <1>2 DEF DamageInv, LockInv
<1>4. RestoredSequence \in Nat /\ \A i \in 1..Len(ledger) : ledger[i].seq < RestoredSequence
  BY RestoredIsNew DEF DamageInv, DamageTypes
<1>5. sequence'[h] = RestoredSequence BY <1>1 DEF DamageInv, DamageTypes
<1>6. \A i \in 1..Len(ledger) : ledger[i].seq \in Nat
  <2>1. \A i \in 1..Len(ledger) : ledger[i] \in Event BY DEF DamageInv, DamageTypes
  <2> QED BY <2>1 DEF Event
<1>7. sequence'[h] \notin Sequences(ledger) BY <1>4, <1>5, <1>6 DEF Sequences
<1>8. \A i \in 1..Len(ledger) : ledger[i].seq <= sequence'[h] BY <1>4, <1>5, <1>6
<1>9. failedWrites <= failedWrites' /\ Runner \in Threads /\ Relined(Runner)
  BY <1>1, LedgerAssumption DEF DamageInv, DamageTypes, Relined, HashLines
<1>10. \A t \in Threads : ~Owing(t)' /\ pc'[t] # "append" BY <1>1, <1>3 DEF Owing
<1> QED BY <1>1, <1>2, <1>7, <1>8, <1>9, <1>10, WriterRests

\* The handle is closed, or its process dies.
LEMMA WriterEnds ==
    ASSUME DamageInv, WriterInv, DamageInv', NEW h \in live, live' = live \ {h},
           UNCHANGED <<ledger, on, failedWrites>>, torn => torn', \E x \in Threads : Relined(x),
           \A t \in Threads : on[t] = h => pc'[t] = "idle",
           \A t \in Threads : on[t] # h => pc'[t] = pc[t]
    PROVE  WriterInv'
<1>1. live' = {} /\ \A g \in live : g = h BY DEF WriterInv
<1>2. \A t \in Threads : pc'[t] = "idle" BY <1>1 DEF DamageInv, LockInv
<1>3. failedWrites <= failedWrites' BY DEF DamageInv, DamageTypes
<1>4. \A t \in Threads : ~Owing(t)' /\ pc'[t] # "append" BY <1>2 DEF Owing
<1> QED BY <1>1, <1>3, <1>4, WriterRests

LEMMA WriterAdvances ==
    ASSUME DamageInv, WriterInv, DamageInv', NEW t \in Threads, Advance(t)
    PROVE  WriterInv'
<1>1. /\ pc[t] = "advance" /\ pc' = [pc EXCEPT ![t] = "idle"]
      /\ event' = [event EXCEPT ![t] = NoEvent]
      /\ sequence' = [sequence EXCEPT ![on[t]] = sequence[on[t]] + 1]
      /\ UNCHANGED <<ledger, torn, hashFile, hashTail, live, on, failedWrites>>
  BY DEF Advance, Goto, Leave, NextSequence, disk, faults
<1>2. /\ pc \in [Threads -> Places] /\ event \in [Threads -> Event] /\ live \subseteq {h1}
      /\ LockInv /\ sequence \in [Handles -> Nat] /\ live \subseteq Handles
  BY DEF DamageInv, DamageTypes, WriterInv
<1>3. \A u \in Threads \ {t} : pc[u] \in Unlocked BY <1>1, <1>2, OneWrites DEF Unlocked
<1>4. on[t] \in live /\ on[t] \in Handles /\ \A h \in live : h = on[t]
  BY <1>1, <1>2 DEF LockInv
<1>5. \A u \in Threads : ~Owing(u)' /\ pc'[u] # "append"
  BY <1>1, <1>2, <1>3 DEF Owing, Unlocked
<1>6. sequence[on[t]] \in Nat /\ sequence'[on[t]] = sequence[on[t]] + 1
  BY <1>1, <1>2, <1>4
<1>7. \A i \in 1..Len(ledger) : ledger[i].seq \in Nat /\ ledger[i].seq <= sequence[on[t]]
  <2>1. \A i \in 1..Len(ledger) : ledger[i] \in Event BY DEF DamageInv, DamageTypes
  <2> QED BY <1>4, <2>1 DEF Event, WriterInv, NumberedByHandle
<1>8. \A i \in 1..Len(ledger) : ledger[i].seq <= sequence'[on[t]] /\ ledger[i].seq # sequence'[on[t]]
  BY <1>6, <1>7
<1>9. sequence'[on[t]] \notin Sequences(ledger) BY <1>8 DEF Sequences
<1>10. \A h \in live' : h = on[t] BY <1>1, <1>4
<1>11. failedWrites <= failedWrites' /\ Relined(t)
  BY <1>1 DEF DamageInv, DamageTypes, Relined, HashLines
<1> QED BY <1>1, <1>2, <1>5, <1>8, <1>9, <1>10, <1>11, WriterRests

\* What a fault leaves of a line is a line of its own, or one joined to another.
LEMMA TornLine ==
    ASSUME DamageInv, hashFile' = hashFile, NEW t \in Threads,
           UNCHANGED hashTail \/ (TearHash(t) /\ ~Owing(t)')
    PROVE  Relined(t)
<1>1. CASE UNCHANGED hashTail BY <1>1 DEF Relined, HashLines
<1>2. CASE TearHash(t) /\ ~Owing(t)'
  <2>1. Owing(t) /\ (hashTail' = Garbled \/ (hashTail = NoHash /\ hashTail' = event[t].id))
    BY <1>2 DEF TearHash, HashOf, Owing
  <2>2. event[t].id # NoHash
    <3>1. event[t].id \in 1..issued BY <2>1 DEF DamageInv, IdsAreFresh
    <3> QED BY <3>1, LedgerAssumption
  <2>3. CASE hashTail' = Garbled BY <2>3, GarbledIsNumber DEF Relined, HashLines
  <2>4. CASE hashTail = NoHash /\ hashTail' = event[t].id
    <3>1. HashLines = hashFile /\ HashLines' = Append(hashFile, event[t].id)
      BY <2>2, <2>4 DEF HashLines
    <3> QED BY <1>2, <2>1, <3>1 DEF Relined
  <2> QED BY <2>1, <2>3, <2>4
<1> QED BY <1>1, <1>2

LEMMA WriterRaises ==
    ASSUME DamageInv, WriterInv, DamageInv', NEW t \in Threads, AppendRaises(t)
    PROVE  WriterInv'
<1>1. /\ pc' = [pc EXCEPT ![t] = "idle"] /\ event' = [event EXCEPT ![t] = NoEvent]
      /\ failedWrites' = failedWrites + 1
      /\ UNCHANGED <<ledger, hashFile, live, sequence, on>>
  BY DEF AppendRaises, Leave
<1>2. torn => torn' BY DEF AppendRaises, DamageInv, DamageTypes
<1>9. Relined(t)
  <2>1. TearHash(t) => ~Owing(t)' BY <1>1 DEF Owing, DamageInv, DamageTypes
  <2>2. UNCHANGED hashTail \/ TearHash(t) BY DEF AppendRaises
  <2> QED BY <1>1, <2>1, <2>2, TornLine
<1>3. failedWrites \in Nat /\ pc \in [Threads -> Places] /\ event \in [Threads -> Event]
  BY DEF DamageInv, DamageTypes
<1>4. failedWrites < failedWrites' /\ failedWrites <= failedWrites' BY <1>1, <1>3
<1>5. pc'[t] = "idle" /\ \A u \in Threads \ {t} : pc'[u] = pc[u] /\ event'[u] = event[u]
  BY <1>1, <1>3
<1>6. \A u \in Threads : Owing(u)' => Owing(u) /\ event'[u].id = event[u].id
  BY <1>5 DEF Owing
<1>7. \A u \in Threads : pc'[u] = "append" => event'[u].seq = sequence'[on'[u]]
  BY <1>1, <1>5 DEF WriterInv, NumberedByHandle
<1>8. live' \subseteq {h1} /\ \A h \in live' : \A i \in 1..Len(ledger) : ledger[i].seq <= sequence'[h]
  BY <1>1 DEF WriterInv, NumberedByHandle
<1> QED BY <1>1, <1>2, <1>4, <1>6, <1>7, <1>8, <1>9, WriterRests

LEMMA WriterStep ==
    ASSUME DamageInv, WriterInv, DamageInv', [FaultNext /\ OneHandle]_vars
    PROVE  WriterInv'
<1>0. /\ pc \in [Threads -> Places] /\ event \in [Threads -> Event]
      /\ on \in [Threads -> Handles \cup {CHOOSE h \in Handles : TRUE}]
  BY DEF DamageInv, DamageTypes
<1>1. ASSUME NEW h \in Handles, Create(h), OneHandle PROVE WriterInv'
  BY <1>1, WriterOpens DEF OneHandle
<1>2. ASSUME NEW h \in Handles, Close(h) PROVE WriterInv'
  <2>1. /\ h \in live /\ live' = live \ {h}
        /\ UNCHANGED <<ledger, torn, hashFile, hashTail, on, failedWrites, pc>>
        /\ \A t \in Threads : on[t] = h => pc[t] = "idle"
    BY <1>2 DEF Close, Forget, Using, disk, faults
  <2>2. Runner \in Threads /\ Relined(Runner) BY <2>1, LedgerAssumption, TornLine
  <2> QED BY <2>1, <2>2, WriterEnds
<1>3. ASSUME NEW t \in Threads, NEW h, NEW tags, NEW where \in {"persist", "lock"},
             Draft(t, tags), Goto(t, "idle", where), on' = [on EXCEPT ![t] = h],
             UNCHANGED <<ledger, torn, hashFile, hashTail, live, sequence, failedWrites>>
      PROVE  WriterInv'
  <2>1. /\ pc[t] = "idle" /\ pc'[t] = where
        /\ \A u \in Threads \ {t} : pc'[u] = pc[u] /\ on'[u] = on[u] /\ event'[u] = event[u]
    BY <1>0, <1>3 DEF Goto, Draft
  <2>2. ~Owing(t)' /\ pc'[t] # "append" /\ pc[t] \notin {"index", "hash", "advance"}
    BY <2>1 DEF Owing
  <2> QED BY <1>3, <2>1, <2>2, WriterMoves
<1>4. ASSUME NEW h \in Handles, WriteCheckpoint(h) PROVE WriterInv'
  <2>1. /\ Draft(Runner, {CkptTag}) /\ Goto(Runner, "idle", "persist")
        /\ on' = [on EXCEPT ![Runner] = h]
        /\ UNCHANGED <<ledger, torn, hashFile, hashTail, live, sequence, failedWrites>>
        /\ Runner \in Threads
    BY <1>4, LedgerAssumption DEF WriteCheckpoint, memory, faults
  <2> QED BY <1>3, <2>1
<1>5. ASSUME NEW t \in Threads, NEW h \in Handles, NEW tags, Emit(t, h, tags) PROVE WriterInv'
  <2>1. /\ Draft(t, tags) /\ Goto(t, "idle", "lock") /\ on' = [on EXCEPT ![t] = h]
        /\ UNCHANGED <<ledger, torn, hashFile, hashTail, live, sequence, failedWrites>>
    BY <1>5 DEF Emit, disk, memory, faults
  <2> QED BY <1>3, <2>1
<1>6. ASSUME PersistIndex PROVE WriterInv'
  <2>1. /\ Runner \in Threads /\ pc[Runner] = "persist" /\ pc' = [pc EXCEPT ![Runner] = "lock"]
        /\ UNCHANGED <<ledger, torn, hashFile, hashTail, live, sequence, failedWrites, on, event>>
    BY <1>6, LedgerAssumption DEF PersistIndex, Goto, memory, faults
  <2>2. ~Owing(Runner)' /\ pc'[Runner] = "lock" /\ \A u \in Threads \ {Runner} : pc'[u] = pc[u]
    BY <1>0, <2>1 DEF Owing
  <2> QED BY <2>1, <2>2, WriterMoves
<1>7. ASSUME NEW t \in Threads, Acquire(t) PROVE WriterInv'
  <2>1. /\ pc[t] = "lock" /\ pc' = [pc EXCEPT ![t] = "create"]
        /\ UNCHANGED <<ledger, torn, hashFile, hashTail, live, sequence, failedWrites, on, event>>
    BY <1>7 DEF Acquire, Goto, disk, faults
  <2>2. ~Owing(t)' /\ pc'[t] = "create" /\ \A u \in Threads \ {t} : pc'[u] = pc[u]
    BY <1>0, <2>1 DEF Owing
  <2> QED BY <2>1, <2>2, WriterMoves
<1>8. ASSUME NEW t \in Threads, CreateEvent(t) PROVE WriterInv'
  <2>1. /\ pc[t] = "create" /\ pc' = [pc EXCEPT ![t] = "append"]
        /\ UNCHANGED <<ledger, torn, hashFile, hashTail, live, sequence, failedWrites, on>>
    BY <1>8 DEF CreateEvent, Goto, disk, memory, faults
  <2>2. ~Owing(t)' /\ pc'[t] = "append" /\ \A u \in Threads \ {t} : pc'[u] = pc[u]
    BY <1>0, <2>1 DEF Owing
  <2>3. event[t] = [id |-> event[t].id, seq |-> event[t].seq, prev |-> event[t].prev,
                    tags |-> event[t].tags]
    BY <1>0 DEF Event
  <2>4. event'[t].seq = sequence[on[t]] /\ \A u \in Threads \ {t} : event'[u] = event[u]
    BY <1>0, <1>8, <2>3 DEF CreateEvent
  <2> QED BY <2>1, <2>2, <2>4, WriterMoves
<1>9. ASSUME NEW t \in Threads, UpdateIndex(t) PROVE WriterInv'
  <2>1. /\ pc[t] = "index" /\ pc' = [pc EXCEPT ![t] = "hash"]
        /\ UNCHANGED <<ledger, torn, hashFile, hashTail, live, sequence, failedWrites, on, event>>
    BY <1>9 DEF UpdateIndex, Goto, disk, faults
  <2>2. Owing(t) /\ pc'[t] = "hash" /\ \A u \in Threads \ {t} : pc'[u] = pc[u]
    BY <1>0, <2>1 DEF Owing
  <2> QED BY <2>1, <2>2, WriterMoves
<1>10. ASSUME NEW h \in Handles, Crash(h) PROVE WriterInv'
  <2>1. /\ h \in live /\ live' = live \ {h}
        /\ pc' = [t \in Threads |-> IF on[t] = h THEN "idle" ELSE pc[t]]
        /\ UNCHANGED <<ledger, hashFile, on, failedWrites>>
    BY <1>10 DEF Crash, Forget
  <2>2. torn => torn' BY <1>10 DEF Crash, DamageInv, DamageTypes
  <2>3. \E x \in Threads : Relined(x)
    <3>1. CASE UNCHANGED hashTail BY <2>1, <3>1, LedgerAssumption, TornLine
    <3>2. ASSUME NEW t \in Threads, Using(t, h), TearHash(t) PROVE Relined(t)
      <4>1. ~Owing(t)' BY <2>1, <3>2 DEF Owing, Using
      <4> QED BY <2>1, <3>2, <4>1, TornLine
    <3>3. UNCHANGED hashTail \/ \E t \in Threads : Using(t, h) /\ TearHash(t)
      BY <1>10 DEF Crash
    <3> QED BY <3>1, <3>2, <3>3
  <2> QED BY <2>1, <2>2, <2>3, WriterEnds
<1>11. CASE UNCHANGED vars
  <2>1. /\ Runner \in Threads
        /\ UNCHANGED <<ledger, torn, hashFile, hashTail, live, sequence, failedWrites, pc, on, event>>
    BY <1>11, LedgerAssumption DEF vars, disk, memory, faults
  <2>2. /\ Owing(Runner)' = Owing(Runner)
        /\ pc[Runner] = "append" => event[Runner].seq = sequence[on[Runner]]
    BY <2>1 DEF Owing, WriterInv, NumberedByHandle
  <2> QED BY <2>1, <2>2, WriterMoves
<1>12. ASSUME NEW t \in Threads, EmitStep(t) PROVE WriterInv'
  BY <1>5, <1>7, <1>8, <1>9, <1>12, WriterAppends, WriterHashes, WriterAdvances DEF EmitStep
<1> QED BY <1>1, <1>2, <1>4, <1>6, <1>10, <1>11, <1>12, WriterRaises DEF FaultNext, Next

\* Damage to a run directory stays within what the faults explain.  Whatever
\* number of handles share it, however they are opened and whichever of them
\* die or fail to write, no event is written twice, every whole hash is that of
\* an event and stands there once, and each fault costs two hashes at most, its
\* own and the one that is joined to half a line; and with
\* one handle at a time the hashes are in the order of the ledger, and a
\* sequence number repeats only where a write failed (RunLedger.emit_event,
\* create, resume).
THEOREM DamageStaysBounded == MCSpec => []RunDirectoryHolds
<1> DEFINE RunDirectoryInv == DamageInv /\ (part = "faulty" => WriterInv)
<1>1. MCInit => RunDirectoryInv BY DamageStart, WriterStart DEF MCInit
<1>2. RunDirectoryInv /\ [MCNext]_repositoryVars => RunDirectoryInv'
  <2> SUFFICES ASSUME RunDirectoryInv, [MCNext]_repositoryVars PROVE RunDirectoryInv'
    OBVIOUS
  <2>1. part' = part /\ [DamageNext]_vars /\ (part = "faulty" => [FaultNext /\ OneHandle]_vars)
    BY DEF MCNext, Only, repositoryVars, DamageNext
  <2>2. DamageInv' BY <2>1, DamageStep
  <2> QED BY <2>1, <2>2, WriterStep
<1>3. RunDirectoryInv => RunDirectoryHolds
  <2> SUFFICES ASSUME DamageInv, part = "faulty" => WriterInv PROVE RunDirectoryHolds
    OBVIOUS
  <2>1. WriterInv => HashesInOrder /\ NumbersRepeatOnlyOnFailedWrites
    BY DEF WriterInv, RepeatsExplained, Repeated, NumbersRepeatOnlyOnFailedWrites
  <2> QED BY <2>1, DamageSound DEF RunDirectoryHolds, OneWriterInOrder
<1> HIDE DEF RunDirectoryInv
<1> QED BY <1>1, <1>2, <1>3, PTL DEF MCSpec

----------------------------------------------------------------------------
(* AnswerPipelines.                                                        *)
DocumentSteps == {"index", "retrieve", "answer"}
ResearchSteps == {"gather", "summarize", "report"}
Ends == {"new", "verified", "over", "failed", "dead"}

IsPipe(p) ==
    p = [kind |-> p.kind, at |-> p.at, attempt |-> p.attempt, logged |-> p.logged,
         listed |-> p.listed, stale |-> p.stale, words |-> p.words, report |-> p.report]

\* Where a run is, and which of its steps are in the ledger.
Placed(p) ==
    /\ p.attempt \in {1, 2}
    /\ \/ p.kind = "documents" /\ p.at \in DocumentSteps \cup Ends \cup {"listed"}
            /\ p.logged \subseteq DocumentSteps
       \/ p.kind = "research" /\ p.at \in ResearchSteps \cup Ends
            /\ p.logged \subseteq ResearchSteps

\* In the first attempt the steps come in order.
InTurn(p) ==
    p.attempt = 1 =>
      /\ p.at \in {"new", "index", "listed", "gather"} => p.logged = {}
      /\ p.at = "retrieve" => p.logged = {"index"}
      /\ p.at = "answer" => p.logged = {"index", "retrieve"}
      /\ p.at = "summarize" => p.logged = {"gather"}
      /\ p.at = "report" => p.logged = {"gather", "summarize"}
      /\ p.at = "verified" => p.logged \in {DocumentSteps, ResearchSteps}
      /\ p.logged \in {{}, {"index"}, {"index", "retrieve"}, DocumentSteps,
                       {"gather"}, {"gather", "summarize"}, ResearchSteps}

\* The first chunk could be found if the search found it; without a chunk
\* there is nothing to be found.
Searched(words, texts, chunks) ==
    /\ chunks = <<>> /\ words => NothingToFind(texts)
    /\ chunks # <<>> =>
         /\ chunks[1] = [path |-> chunks[1].path, by |-> chunks[1].by]
         /\ chunks[1].by = "search" => words /\ MayBeFound(texts, chunks[1].path)

Cited(words, texts, chunks, cites) ==
    /\ cites = <<>> /\ words => NothingToFind(texts)
    /\ \A i \in DOMAIN cites : cites[i].by = "chunk" =>
         /\ chunks[1].path = cites[i].path
         /\ chunks[1].by = "search" => words /\ MayBeFound(texts, chunks[1].path)

\* What the steps of the first attempt have handed on belongs together.
HandedTrue(p, h) ==
    p.attempt = 1 /\ p.at # "dead" =>
      /\ DOMAIN h = p.logged
      /\ "retrieve" \in p.logged => Searched(p.words, h["index"], h["retrieve"])
      /\ "answer" \in p.logged => Cited(p.words, h["index"], h["retrieve"], h["answer"].cites)
      /\ "summarize" \in p.logged => h["summarize"].rests
      /\ p.kind = "research" /\ "report" \in p.logged => h["report"].rests

ReportTrue(p, h) ==
    p.report # NoData =>
      /\ p.attempt = 1 => p.at = "over"
      /\ p.kind = "research" => p.report.rests /\ p.report.asked /\ p.report.warns = p.stale
      /\ p.kind = "documents" /\ p.report.status = "done" =>
           /\ p.logged = DocumentSteps
           /\ p.attempt = 1 => Cited(p.words, h["index"], h["retrieve"], p.report.cites)

PipeSound(p, h) == IsPipe(p) /\ Placed(p) /\ InTurn(p) /\ HandedTrue(p, h) /\ ReportTrue(p, h)

PipelineInv == PipeSound(pipeline, handed)

\* The lists of words and the place after a step.
LEMMA StepOrder ==
  /\ pipeline.kind = "documents" =>
       /\ StepAt(1) = "index" /\ StepAt(2) = "retrieve" /\ StepAt(3) = "answer"
       /\ AfterStep("index") = "retrieve" /\ AfterStep("retrieve") = "answer"
       /\ AfterStep("answer") = "verified"
  /\ pipeline.kind = "research" =>
       /\ StepAt(1) = "gather" /\ StepAt(2) = "summarize" /\ StepAt(3) = "report"
       /\ AfterStep("gather") = "summarize" /\ AfterStep("summarize") = "report"
       /\ AfterStep("report") = "verified"
<1>1. ASSUME pipeline.kind = "documents"
      PROVE  /\ StepAt(1) = "index" /\ StepAt(2) = "retrieve" /\ StepAt(3) = "answer"
             /\ AfterStep("index") = "retrieve" /\ AfterStep("retrieve") = "answer"
             /\ AfterStep("answer") = "verified"
  <2>1. StepAt(1) = "index" /\ StepAt(2) = "retrieve" /\ StepAt(3) = "answer"
    BY <1>1 DEF StepAt, PipelineSteps
  <2>2. (CHOOSE i \in 1..2 : StepAt(i) = "index") = 1 BY <2>1
  <2>3. (CHOOSE i \in 1..2 : StepAt(i) = "retrieve") = 2 BY <2>1
  <2>4. AfterStep("index") = StepAt(1 + 1) BY <2>1, <2>2 DEF AfterStep
  <2>5. AfterStep("retrieve") = StepAt(1 + 2) BY <2>1, <2>3 DEF AfterStep
  <2>6. AfterStep("answer") = "verified" BY <2>1 DEF AfterStep
  <2>7. 1 + 1 = 2 /\ 1 + 2 = 3 OBVIOUS
  <2> QED BY <2>1, <2>4, <2>5, <2>6, <2>7
<1>2. ASSUME pipeline.kind = "research"
      PROVE  /\ StepAt(1) = "gather" /\ StepAt(2) = "summarize" /\ StepAt(3) = "report"
             /\ AfterStep("gather") = "summarize" /\ AfterStep("summarize") = "report"
             /\ AfterStep("report") = "verified"
  <2>1. StepAt(1) = "gather" /\ StepAt(2) = "summarize" /\ StepAt(3) = "report"
    BY <1>2 DEF StepAt, PipelineSteps
  <2>2. (CHOOSE i \in 1..2 : StepAt(i) = "gather") = 1 BY <2>1
  <2>3. (CHOOSE i \in 1..2 : StepAt(i) = "summarize") = 2 BY <2>1
  <2>4. AfterStep("gather") = StepAt(1 + 1) BY <2>1, <2>2 DEF AfterStep
  <2>5. AfterStep("summarize") = StepAt(1 + 2) BY <2>1, <2>3 DEF AfterStep
  <2>6. AfterStep("report") = "verified" BY <2>1 DEF AfterStep
  <2>7. 1 + 1 = 2 /\ 1 + 2 = 3 OBVIOUS
  <2> QED BY <2>1, <2>4, <2>5, <2>6, <2>7
<1> QED BY <1>1, <1>2

LEMMA PipelineStart == PipelineInit => PipelineInv
<1> SUFFICES ASSUME PipelineInit PROVE PipelineInv OBVIOUS
<1>1. PICK k \in {"documents", "research"}, stale \in BOOLEAN, words \in BOOLEAN :
        pipeline = [Pipe(k, "new", 1, {}) EXCEPT !.stale = stale, !.words = words]
  <2>1. DOMAIN PipelineSteps = {"documents", "research"} BY DEF PipelineSteps
  <2>2. PICK k \in DOMAIN PipelineSteps, stale \in BOOLEAN, words \in BOOLEAN :
          /\ IF k = "documents" THEN ~stale ELSE words
          /\ pipeline = [Pipe(k, "new", 1, {}) EXCEPT !.stale = stale, !.words = words]
          /\ library \in [Documents -> Textures(words)]
    BY ZenonT(30) DEF PipelineInit
  <2> QED BY <2>1, <2>2, ZenonT(30)
<1>2. PICK p : p = pipeline OBVIOUS
<1>3. p = [kind |-> k, at |-> "new", attempt |-> 1, logged |-> {}, listed |-> {},
           stale |-> stale, words |-> words, report |-> NoData]
  BY <1>1, <1>2 DEF Pipe
<1>4. handed = <<>> /\ DOMAIN handed = {} BY DEF PipelineInit
<1>5. IsPipe(p) /\ Placed(p) /\ InTurn(p) BY <1>3 DEF IsPipe, Placed, InTurn, Ends
<1>6. HandedTrue(p, handed) /\ ReportTrue(p, handed)
  BY <1>3, <1>4 DEF HandedTrue, ReportTrue
<1> QED BY <1>2, <1>5, <1>6 DEF PipelineInv, PipeSound

----------------------------------------------------------------------------
(* The steps that hand nothing on.                                         *)
LEMMA PipelineBegins == ASSUME PipelineInv, BeginPipeline PROVE PipelineInv'
<1>1. PICK s : s = StepAt(1) OBVIOUS
<1>2. PICK q : q = [pipeline EXCEPT !.at = s] OBVIOUS
<1>3. pipeline' = q /\ handed' = handed BY <1>1, <1>2 DEF BeginPipeline
<1>4. pipeline.at = "new" /\ IsPipe(pipeline)
  BY DEF BeginPipeline, At, PipelineInv, PipeSound
<1>5. /\ q.kind = pipeline.kind /\ q.at = s /\ q.attempt = pipeline.attempt
      /\ q.logged = pipeline.logged /\ q.stale = pipeline.stale /\ q.words = pipeline.words /\ q.report = pipeline.report
      /\ IsPipe(q)
  BY <1>2, <1>4 DEF IsPipe
<1>6. \/ pipeline.kind = "documents" /\ s = "index"
      \/ pipeline.kind = "research" /\ s = "gather"
  BY <1>1, StepOrder DEF PipelineInv, PipeSound, Placed
<1>7. Placed(q)
  BY <1>4, <1>5, <1>6 DEF PipelineInv, PipeSound, Placed, Ends, DocumentSteps, ResearchSteps
<1>8. InTurn(q) BY <1>4, <1>5, <1>6 DEF PipelineInv, PipeSound, InTurn
<1>9. HandedTrue(q, handed) BY <1>4, <1>5, <1>6 DEF PipelineInv, PipeSound, HandedTrue
<1>10. ReportTrue(q, handed) BY <1>4, <1>5, <1>6 DEF PipelineInv, PipeSound, ReportTrue
<1>11. PipeSound(q, handed) BY <1>5, <1>7, <1>8, <1>9, <1>10 DEF PipeSound
<1> QED BY <1>3, <1>11 DEF PipelineInv

LEMMA PipelineLists == ASSUME PipelineInv, ListDocuments PROVE PipelineInv'
<1>1. PICK l : l = {d \in Documents : library[d] # "gone"} OBVIOUS
<1>2. PICK q : q = [pipeline EXCEPT !.at = "listed", !.listed = l] OBVIOUS
<1>3. pipeline' = q /\ handed' = handed BY <1>1, <1>2 DEF ListDocuments
<1>4. pipeline.at = "index" /\ IsPipe(pipeline)
  BY DEF ListDocuments, At, PipelineInv, PipeSound
<1>5. /\ q.kind = pipeline.kind /\ q.at = "listed" /\ q.attempt = pipeline.attempt
      /\ q.logged = pipeline.logged /\ q.stale = pipeline.stale /\ q.words = pipeline.words /\ q.report = pipeline.report
      /\ IsPipe(q)
  BY <1>2, <1>4 DEF IsPipe
<1>6. pipeline.kind = "documents"
  BY <1>4 DEF PipelineInv, PipeSound, Placed, Ends, ResearchSteps
<1>7. Placed(q)
  BY <1>4, <1>5, <1>6 DEF PipelineInv, PipeSound, Placed, Ends, DocumentSteps, ResearchSteps
<1>8. InTurn(q) BY <1>4, <1>5, <1>6 DEF PipelineInv, PipeSound, InTurn
<1>9. HandedTrue(q, handed) BY <1>4, <1>5, <1>6 DEF PipelineInv, PipeSound, HandedTrue
<1>10. ReportTrue(q, handed) BY <1>4, <1>5, <1>6 DEF PipelineInv, PipeSound, ReportTrue
<1>11. PipeSound(q, handed) BY <1>5, <1>7, <1>8, <1>9, <1>10 DEF PipeSound
<1> QED BY <1>3, <1>11 DEF PipelineInv

LEMMA PipelineFails ==
  ASSUME PipelineInv, pipeline.at \in DocumentSteps \cup ResearchSteps \cup {"listed"}, FailStep
  PROVE PipelineInv'
<1>2. PICK q : q = [pipeline EXCEPT !.at = "failed"] OBVIOUS
<1>3. pipeline' = q /\ handed' = handed BY <1>2 DEF FailStep
<1>4. IsPipe(pipeline) /\ pipeline.at \notin {"over", "dead"}
  BY DEF PipelineInv, PipeSound, DocumentSteps, ResearchSteps
<1>5. /\ q.kind = pipeline.kind /\ q.at = "failed" /\ q.attempt = pipeline.attempt
      /\ q.logged = pipeline.logged /\ q.stale = pipeline.stale /\ q.words = pipeline.words /\ q.report = pipeline.report
      /\ IsPipe(q)
  BY <1>2, <1>4 DEF IsPipe
<1>7. Placed(q) BY <1>5 DEF PipelineInv, PipeSound, Placed, Ends
<1>8. InTurn(q) BY <1>5 DEF PipelineInv, PipeSound, InTurn
<1>9. HandedTrue(q, handed) BY <1>4, <1>5 DEF PipelineInv, PipeSound, HandedTrue
<1>10. ReportTrue(q, handed) BY <1>4, <1>5 DEF PipelineInv, PipeSound, ReportTrue
<1>11. PipeSound(q, handed) BY <1>5, <1>7, <1>8, <1>9, <1>10 DEF PipeSound
<1> QED BY <1>3, <1>11 DEF PipelineInv

LEMMA PipelineLost == ASSUME PipelineInv, LosePipeline PROVE PipelineInv'
<1>2. PICK q : q = [pipeline EXCEPT !.at = "dead"] OBVIOUS
<1>3. pipeline' = q /\ handed' = <<>> BY <1>2 DEF LosePipeline
<1>4. IsPipe(pipeline) /\ pipeline.at # "over"
  BY DEF PipelineInv, PipeSound, LosePipeline, Resting
<1>5. /\ q.kind = pipeline.kind /\ q.at = "dead" /\ q.attempt = pipeline.attempt
      /\ q.logged = pipeline.logged /\ q.stale = pipeline.stale /\ q.words = pipeline.words /\ q.report = pipeline.report
      /\ IsPipe(q)
  BY <1>2, <1>4 DEF IsPipe
<1>7. Placed(q) BY <1>5 DEF PipelineInv, PipeSound, Placed, Ends
<1>8. InTurn(q) BY <1>5 DEF PipelineInv, PipeSound, InTurn
<1>9. HandedTrue(q, <<>>) BY <1>5 DEF HandedTrue
<1>10. ReportTrue(q, <<>>) BY <1>4, <1>5 DEF PipelineInv, PipeSound, ReportTrue
<1>11. PipeSound(q, <<>>) BY <1>5, <1>7, <1>8, <1>9, <1>10 DEF PipeSound
<1> QED BY <1>3, <1>11 DEF PipelineInv

\* A resumed run begins at a step that is not in the ledger, with nothing.
LEMMA PipelineResumes == ASSUME PipelineInv, ResumePipeline PROVE PipelineInv'
<1> DEFINE left == {i \in 1..3 : StepAt(i) \notin pipeline.logged}
           next == CHOOSE i \in left : \A j \in left : i <= j
<1>1. PICK s : s = IF left = {} THEN "verified" ELSE StepAt(next) OBVIOUS
<1>2. PICK q : q = [pipeline EXCEPT !.attempt = 2, !.at = s] OBVIOUS
<1>3. pipeline' = q /\ handed' = <<>> BY <1>1, <1>2 DEF ResumePipeline
<1>4. IsPipe(pipeline) BY DEF PipelineInv, PipeSound
<1>5. /\ q.kind = pipeline.kind /\ q.at = s /\ q.attempt = 2
      /\ q.logged = pipeline.logged /\ q.stale = pipeline.stale /\ q.words = pipeline.words /\ q.report = pipeline.report
      /\ IsPipe(q)
  BY <1>2, <1>4 DEF IsPipe
<1>6. left # {} => next \in left
  <2> SUFFICES ASSUME left # {} PROVE \E i \in left : \A j \in left : i <= j OBVIOUS
  <2>1. left \subseteq 1..3 OBVIOUS
  <2>2. 1..3 = {1, 2, 3} OBVIOUS
  <2>3. CASE 1 \in left BY <2>1, <2>3
  <2>4. CASE 1 \notin left /\ 2 \in left BY <2>1, <2>2, <2>4
  <2>5. CASE 1 \notin left /\ 2 \notin left
    <3>1. left = {3} BY <2>1, <2>2, <2>5
    <3> QED BY <3>1
  <2> QED BY <2>3, <2>4, <2>5
<1>7. s = "verified" \/ s \in {StepAt(1), StepAt(2), StepAt(3)}
  <2>1. CASE left = {} BY <1>1, <2>1
  <2>2. CASE left # {}
    <3>1. next \in left /\ s = StepAt(next) BY <1>1, <1>6, <2>2
    <3>2. next \in {1, 2, 3} BY <3>1
    <3> HIDE DEF next
    <3> QED BY <3>1, <3>2
  <2> QED BY <2>1, <2>2
<1> HIDE DEF left, next
<1>8. Placed(q)
  <2>1. CASE pipeline.kind = "documents"
    <3>1. s \in DocumentSteps \cup Ends BY <1>7, <2>1, StepOrder DEF DocumentSteps, Ends
    <3> QED BY <1>5, <2>1, <3>1 DEF PipelineInv, PipeSound, Placed
  <2>2. CASE pipeline.kind = "research"
    <3>1. s \in ResearchSteps \cup Ends BY <1>7, <2>2, StepOrder DEF ResearchSteps, Ends
    <3> QED BY <1>5, <2>2, <3>1 DEF PipelineInv, PipeSound, Placed
  <2> QED BY <2>1, <2>2 DEF PipelineInv, PipeSound, Placed
<1>9. InTurn(q) /\ HandedTrue(q, <<>>) BY <1>5 DEF InTurn, HandedTrue
<1>10. ReportTrue(q, <<>>) BY <1>5 DEF PipelineInv, PipeSound, ReportTrue
<1>11. PipeSound(q, <<>>) BY <1>5, <1>8, <1>9, <1>10 DEF PipeSound
<1> QED BY <1>3, <1>11 DEF PipelineInv

----------------------------------------------------------------------------
(* A step that is completed.                                               *)

\* What a completed step leaves, whatever step it is.
WithStep(s, d, q, g) ==
    /\ q.kind = pipeline.kind /\ q.at = AfterStep(s) /\ q.attempt = pipeline.attempt
    /\ q.logged = pipeline.logged \cup {s} /\ q.stale = pipeline.stale /\ q.words = pipeline.words
    /\ q.report = pipeline.report /\ IsPipe(q)
    /\ DOMAIN g = DOMAIN handed \cup {s} /\ g[s] = d
    /\ \A x \in DOMAIN handed : x # s => g[x] = handed[x]

LEMMA StepCompleted ==
  ASSUME PipelineInv, NEW s, NEW d, CompleteWith(s, d)
  PROVE  \E q, g : pipeline' = q /\ handed' = g /\ WithStep(s, d, q, g)
<1>1. IsPipe(pipeline) BY DEF PipelineInv, PipeSound
<1>2. PICK n : n = AfterStep(s) OBVIOUS
<1>3. PICK l : l = pipeline.logged \cup {s} OBVIOUS
<1>4. PICK q : q = [pipeline EXCEPT !.at = n, !.logged = l] OBVIOUS
<1>5. PICK g : g = [x \in DOMAIN handed \cup {s} |-> IF x = s THEN d ELSE handed[x]]
  OBVIOUS
<1>6. pipeline' = q /\ handed' = g BY <1>2, <1>3, <1>4, <1>5 DEF CompleteWith
<1>7. /\ q.kind = pipeline.kind /\ q.at = n /\ q.attempt = pipeline.attempt
      /\ q.logged = l /\ q.stale = pipeline.stale /\ q.words = pipeline.words
      /\ q.report = pipeline.report /\ IsPipe(q)
  BY <1>1, <1>4 DEF IsPipe
<1>8. /\ DOMAIN g = DOMAIN handed \cup {s} /\ g[s] = d
      /\ \A x \in DOMAIN handed : x # s => g[x] = handed[x]
  BY <1>5
<1>9. WithStep(s, d, q, g) BY <1>2, <1>3, <1>7, <1>8 DEF WithStep
<1> QED BY <1>6, <1>9

LEMMA IndexCompleted ==
  ASSUME PipelineInv, At("listed"), NEW d, CompleteWith("index", d) PROVE PipelineInv'
<1>1. PICK n : n = AfterStep("index") OBVIOUS
<1>2. PICK q, g : pipeline' = q /\ handed' = g /\ WithStep("index", d, q, g)
  BY StepCompleted
<1>4. /\ pipeline' = q /\ handed' = g
      /\ q.kind = pipeline.kind /\ q.at = AfterStep("index") /\ q.attempt = pipeline.attempt
      /\ q.logged = pipeline.logged \cup {"index"} /\ q.stale = pipeline.stale /\ q.words = pipeline.words
      /\ q.report = pipeline.report /\ IsPipe(q)
      /\ DOMAIN g = DOMAIN handed \cup {"index"} /\ g["index"] = d
      /\ \A x \in DOMAIN handed : x # "index" => g[x] = handed[x]
  BY <1>2 DEF WithStep
<1>5. pipeline.at = "listed" /\ pipeline.kind = "documents"
  BY DEF At, PipelineInv, PipeSound, Placed, Ends, ResearchSteps
<1>6. n = "retrieve" /\ q.at = n BY <1>1, <1>4, <1>5, StepOrder
<1>7. Placed(q) BY <1>4, <1>5, <1>6 DEF PipelineInv, PipeSound, Placed, DocumentSteps
<1>8. InTurn(q) BY <1>4, <1>5, <1>6 DEF PipelineInv, PipeSound, InTurn
<1>9. HandedTrue(q, g)
  BY <1>4, <1>5, <1>6 DEF PipelineInv, PipeSound, InTurn, HandedTrue
<1>10. ReportTrue(q, g)
  BY <1>4, <1>5, <1>6 DEF PipelineInv, PipeSound, ReportTrue, DocumentSteps
<1>11. PipeSound(q, g) BY <1>4, <1>7, <1>8, <1>9, <1>10 DEF PipeSound
<1> QED BY <1>4, <1>11 DEF PipelineInv

LEMMA RetrieveCompleted ==
  ASSUME PipelineInv, At("retrieve"), NEW d, CompleteWith("retrieve", d),
         pipeline.attempt = 1 => Searched(pipeline.words, handed["index"], d)
  PROVE  PipelineInv'
<1>1. PICK n : n = AfterStep("retrieve") OBVIOUS
<1>2. PICK q, g : pipeline' = q /\ handed' = g /\ WithStep("retrieve", d, q, g)
  BY StepCompleted
<1>4. /\ pipeline' = q /\ handed' = g
      /\ q.kind = pipeline.kind /\ q.at = AfterStep("retrieve") /\ q.attempt = pipeline.attempt
      /\ q.logged = pipeline.logged \cup {"retrieve"} /\ q.stale = pipeline.stale /\ q.words = pipeline.words
      /\ q.report = pipeline.report /\ IsPipe(q)
      /\ DOMAIN g = DOMAIN handed \cup {"retrieve"} /\ g["retrieve"] = d
      /\ \A x \in DOMAIN handed : x # "retrieve" => g[x] = handed[x]
  BY <1>2 DEF WithStep
<1>5. pipeline.at = "retrieve" /\ pipeline.kind = "documents"
  BY DEF At, PipelineInv, PipeSound, Placed, Ends, ResearchSteps
<1>6. n = "answer" /\ q.at = n BY <1>1, <1>4, <1>5, StepOrder
<1>7. Placed(q) BY <1>4, <1>5, <1>6 DEF PipelineInv, PipeSound, Placed, DocumentSteps
<1>8. InTurn(q) BY <1>4, <1>5, <1>6 DEF PipelineInv, PipeSound, InTurn
<1>9. HandedTrue(q, g)
  <2> SUFFICES ASSUME q.attempt = 1 PROVE HandedTrue(q, g) BY DEF HandedTrue
  <2>1. pipeline.attempt = 1 /\ pipeline.logged = {"index"} /\ DOMAIN handed = {"index"}
    BY <1>4, <1>5 DEF PipelineInv, PipeSound, InTurn, HandedTrue
  <2>2. q.logged = {"index", "retrieve"} /\ DOMAIN g = {"index", "retrieve"}
    BY <1>4, <2>1
  <2>3. g["index"] = handed["index"] /\ g["retrieve"] = d BY <1>4, <2>1
  <2>4. Searched(q.words, g["index"], g["retrieve"]) BY <1>4, <2>1, <2>3
  <2> QED BY <1>6, <2>2, <2>4 DEF HandedTrue
<1>10. ReportTrue(q, g)
  BY <1>4, <1>5, <1>6 DEF PipelineInv, PipeSound, ReportTrue, DocumentSteps
<1>11. PipeSound(q, g) BY <1>4, <1>7, <1>8, <1>9, <1>10 DEF PipeSound
<1> QED BY <1>4, <1>11 DEF PipelineInv

LEMMA AnswerCompleted ==
  ASSUME PipelineInv, At("answer"), NEW d, CompleteWith("answer", d),
         pipeline.attempt = 1 => Cited(pipeline.words, handed["index"], handed["retrieve"], d.cites)
  PROVE  PipelineInv'
<1>1. PICK n : n = AfterStep("answer") OBVIOUS
<1>2. PICK q, g : pipeline' = q /\ handed' = g /\ WithStep("answer", d, q, g)
  BY StepCompleted
<1>4. /\ pipeline' = q /\ handed' = g
      /\ q.kind = pipeline.kind /\ q.at = AfterStep("answer") /\ q.attempt = pipeline.attempt
      /\ q.logged = pipeline.logged \cup {"answer"} /\ q.stale = pipeline.stale /\ q.words = pipeline.words
      /\ q.report = pipeline.report /\ IsPipe(q)
      /\ DOMAIN g = DOMAIN handed \cup {"answer"} /\ g["answer"] = d
      /\ \A x \in DOMAIN handed : x # "answer" => g[x] = handed[x]
  BY <1>2 DEF WithStep
<1>5. pipeline.at = "answer" /\ pipeline.kind = "documents"
  BY DEF At, PipelineInv, PipeSound, Placed, Ends, ResearchSteps
<1>6. n = "verified" /\ q.at = n BY <1>1, <1>4, <1>5, StepOrder
<1>7. Placed(q)
  BY <1>4, <1>5, <1>6 DEF PipelineInv, PipeSound, Placed, DocumentSteps, Ends
<1>8. InTurn(q) BY <1>4, <1>5, <1>6 DEF PipelineInv, PipeSound, InTurn, DocumentSteps
<1>9. HandedTrue(q, g)
  <2> SUFFICES ASSUME q.attempt = 1 PROVE HandedTrue(q, g) BY DEF HandedTrue
  <2>1. /\ pipeline.attempt = 1 /\ pipeline.logged = {"index", "retrieve"}
        /\ DOMAIN handed = {"index", "retrieve"}
        /\ Searched(pipeline.words, handed["index"], handed["retrieve"])
    BY <1>4, <1>5 DEF PipelineInv, PipeSound, InTurn, HandedTrue
  <2>2. q.logged = DocumentSteps /\ DOMAIN g = DocumentSteps
    BY <1>4, <2>1 DEF DocumentSteps
  <2>3. g["index"] = handed["index"] /\ g["retrieve"] = handed["retrieve"] /\ g["answer"] = d
    BY <1>4, <2>1
  <2>4. Searched(pipeline.words, g["index"], g["retrieve"]) /\ Cited(pipeline.words, g["index"], g["retrieve"], g["answer"].cites)
    BY <2>1, <2>3
  <2> QED BY <1>4, <1>5, <2>2, <2>4 DEF HandedTrue, DocumentSteps
<1>10. ReportTrue(q, g)
  BY <1>4, <1>5, <1>6 DEF PipelineInv, PipeSound, ReportTrue, DocumentSteps
<1>11. PipeSound(q, g) BY <1>4, <1>7, <1>8, <1>9, <1>10 DEF PipeSound
<1> QED BY <1>4, <1>11 DEF PipelineInv

LEMMA GatherCompleted ==
  ASSUME PipelineInv, At("gather"), NEW d, CompleteWith("gather", d) PROVE PipelineInv'
<1>1. PICK n : n = AfterStep("gather") OBVIOUS
<1>2. PICK q, g : pipeline' = q /\ handed' = g /\ WithStep("gather", d, q, g)
  BY StepCompleted
<1>4. /\ pipeline' = q /\ handed' = g
      /\ q.kind = pipeline.kind /\ q.at = AfterStep("gather") /\ q.attempt = pipeline.attempt
      /\ q.logged = pipeline.logged \cup {"gather"} /\ q.stale = pipeline.stale /\ q.words = pipeline.words
      /\ q.report = pipeline.report /\ IsPipe(q)
      /\ DOMAIN g = DOMAIN handed \cup {"gather"} /\ g["gather"] = d
      /\ \A x \in DOMAIN handed : x # "gather" => g[x] = handed[x]
  BY <1>2 DEF WithStep
<1>5. pipeline.at = "gather" /\ pipeline.kind = "research"
  BY DEF At, PipelineInv, PipeSound, Placed, Ends, DocumentSteps
<1>6. n = "summarize" /\ q.at = n BY <1>1, <1>4, <1>5, StepOrder
<1>7. Placed(q) BY <1>4, <1>5, <1>6 DEF PipelineInv, PipeSound, Placed, ResearchSteps
<1>8. InTurn(q) BY <1>4, <1>5, <1>6 DEF PipelineInv, PipeSound, InTurn
<1>9. HandedTrue(q, g)
  BY <1>4, <1>5, <1>6 DEF PipelineInv, PipeSound, InTurn, HandedTrue
<1>10. ReportTrue(q, g) BY <1>4, <1>5, <1>6 DEF PipelineInv, PipeSound, ReportTrue
<1>11. PipeSound(q, g) BY <1>4, <1>7, <1>8, <1>9, <1>10 DEF PipeSound
<1> QED BY <1>4, <1>11 DEF PipelineInv

LEMMA SummarizeCompleted ==
  ASSUME PipelineInv, At("summarize"), NEW d, CompleteWith("summarize", d),
         pipeline.attempt = 1 => d.rests
  PROVE  PipelineInv'
<1>1. PICK n : n = AfterStep("summarize") OBVIOUS
<1>2. PICK q, g : pipeline' = q /\ handed' = g /\ WithStep("summarize", d, q, g)
  BY StepCompleted
<1>4. /\ pipeline' = q /\ handed' = g
      /\ q.kind = pipeline.kind /\ q.at = AfterStep("summarize") /\ q.attempt = pipeline.attempt
      /\ q.logged = pipeline.logged \cup {"summarize"} /\ q.stale = pipeline.stale /\ q.words = pipeline.words
      /\ q.report = pipeline.report /\ IsPipe(q)
      /\ DOMAIN g = DOMAIN handed \cup {"summarize"} /\ g["summarize"] = d
      /\ \A x \in DOMAIN handed : x # "summarize" => g[x] = handed[x]
  BY <1>2 DEF WithStep
<1>5. pipeline.at = "summarize" /\ pipeline.kind = "research"
  BY DEF At, PipelineInv, PipeSound, Placed, Ends, DocumentSteps
<1>6. n = "report" /\ q.at = n BY <1>1, <1>4, <1>5, StepOrder
<1>7. Placed(q) BY <1>4, <1>5, <1>6 DEF PipelineInv, PipeSound, Placed, ResearchSteps
<1>8. InTurn(q) BY <1>4, <1>5, <1>6 DEF PipelineInv, PipeSound, InTurn
<1>9. HandedTrue(q, g)
  BY <1>4, <1>5, <1>6 DEF PipelineInv, PipeSound, InTurn, HandedTrue
<1>10. ReportTrue(q, g) BY <1>4, <1>5, <1>6 DEF PipelineInv, PipeSound, ReportTrue
<1>11. PipeSound(q, g) BY <1>4, <1>7, <1>8, <1>9, <1>10 DEF PipeSound
<1> QED BY <1>4, <1>11 DEF PipelineInv

LEMMA WriteUpCompleted ==
  ASSUME PipelineInv, At("report"), NEW d, CompleteWith("report", d),
         pipeline.attempt = 1 => d.rests
  PROVE  PipelineInv'
<1>1. PICK n : n = AfterStep("report") OBVIOUS
<1>2. PICK q, g : pipeline' = q /\ handed' = g /\ WithStep("report", d, q, g)
  BY StepCompleted
<1>4. /\ pipeline' = q /\ handed' = g
      /\ q.kind = pipeline.kind /\ q.at = AfterStep("report") /\ q.attempt = pipeline.attempt
      /\ q.logged = pipeline.logged \cup {"report"} /\ q.stale = pipeline.stale /\ q.words = pipeline.words
      /\ q.report = pipeline.report /\ IsPipe(q)
      /\ DOMAIN g = DOMAIN handed \cup {"report"} /\ g["report"] = d
      /\ \A x \in DOMAIN handed : x # "report" => g[x] = handed[x]
  BY <1>2 DEF WithStep
<1>5. pipeline.at = "report" /\ pipeline.kind = "research"
  BY DEF At, PipelineInv, PipeSound, Placed, Ends, DocumentSteps
<1>6. n = "verified" /\ q.at = n BY <1>1, <1>4, <1>5, StepOrder
<1>7. Placed(q)
  BY <1>4, <1>5, <1>6 DEF PipelineInv, PipeSound, Placed, ResearchSteps, Ends
<1>8. InTurn(q) BY <1>4, <1>5, <1>6 DEF PipelineInv, PipeSound, InTurn, ResearchSteps
<1>9. HandedTrue(q, g)
  BY <1>4, <1>5, <1>6 DEF PipelineInv, PipeSound, InTurn, HandedTrue
<1>10. ReportTrue(q, g) BY <1>4, <1>5, <1>6 DEF PipelineInv, PipeSound, ReportTrue
<1>11. PipeSound(q, g) BY <1>4, <1>7, <1>8, <1>9, <1>10 DEF PipeSound
<1> QED BY <1>4, <1>11 DEF PipelineInv

----------------------------------------------------------------------------
(* What the steps of a document chat hand on.                              *)
LEMMA NoChunks == ASSUME NEW by PROVE Chunks(<<>>, by) = <<>>
BY DEF Chunks

LEMMA OneChunk ==
  ASSUME NEW d, NEW by
  PROVE  /\ Chunks(<<d>>, by) # <<>> /\ DOMAIN Chunks(<<d>>, by) = {1}
         /\ Chunks(<<d>>, by)[1] = [path |-> d, by |-> by]
<1>1. DOMAIN <<d>> = {1} /\ <<d>>[1] = d OBVIOUS
<1>2. Chunks(<<d>>, by) = [i \in {1} |-> [path |-> <<d>>[i], by |-> by]]
  BY <1>1 DEF Chunks
<1>3. DOMAIN Chunks(<<d>>, by) = {1} /\ Chunks(<<d>>, by)[1] = [path |-> d, by |-> by]
  BY <1>1, <1>2
<1>4. DOMAIN <<>> = {} OBVIOUS
<1>5. Chunks(<<d>>, by) # <<>> BY <1>3, <1>4
<1> QED BY <1>3, <1>5

LEMMA FallbackSearched ==
  ASSUME NEW texts, texts = Contents,
         NEW paths \in RetrieverAnswers, NEW search \in WordSearches,
         NEW d, d = Fallback(Chunks(paths, "model"), Chunks(search, "search"))
  PROVE  Searched(pipeline.words, texts, d)
<1>1. \A t : Holding(t) = TextsOf(texts, t) BY DEF Holding
<1>2. CASE paths # <<>>
  <2>1. PICK x : paths = <<x>> BY <1>2 DEF RetrieverAnswers
  <2>2. d = Chunks(<<x>>, "model") /\ d # <<>> /\ d[1] = [path |-> x, by |-> "model"]
    BY <2>1, OneChunk DEF Fallback
  <2> QED BY <2>2 DEF Searched
<1>3. CASE paths = <<>>
  <2>1. d = Chunks(search, "search") BY <1>3, NoChunks DEF Fallback
  <2>2. CASE pipeline.words /\ Hits # {}
    <3>1. PICK x \in Hits : search = <<x>> BY <2>2 DEF WordSearches
    <3>2. d # <<>> /\ d[1] = [path |-> x, by |-> "search"] BY <2>1, <3>1, OneChunk
    <3>3. MayBeFound(texts, x) BY <1>1, <3>1 DEF Hits, StandIns, MayBeFound
    <3> QED BY <2>2, <3>2, <3>3 DEF Searched
  <2>3. CASE ~(pipeline.words /\ Hits # {})
    <3>1. d = <<>> BY <2>1, <2>3, NoChunks DEF WordSearches
    <3>2. Hits = {} => NothingToFind(texts) BY <1>1 DEF Hits, StandIns, NothingToFind
    <3> QED BY <2>3, <3>1, <3>2 DEF Searched
  <2> QED BY <2>2, <2>3
<1> QED BY <1>2, <1>3

LEMMA AnswerCites ==
  ASSUME NEW answer \in AnswererAnswers, answer # NoData, NEW words, NEW texts, NEW chunks,
         answer.cites = <<>> /\ words => NothingToFind(texts)
  PROVE  Cited(words, texts, chunks, answer.cites)
<1>1. answer.cites = <<>> \/ answer.cites = Chunks(<<MadeUp>>, "answer")
  BY DEF AnswererAnswers
<1>2. CASE answer.cites = <<>> BY <1>2 DEF Cited
<1>3. CASE answer.cites = Chunks(<<MadeUp>>, "answer")
  <2>1. /\ answer.cites # <<>> /\ DOMAIN answer.cites = {1}
        /\ answer.cites[1] = [path |-> MadeUp, by |-> "answer"]
    BY <1>3, OneChunk
  <2> QED BY <2>1 DEF Cited
<1> QED BY <1>1, <1>2, <1>3

LEMMA FirstCited ==
  ASSUME NEW words, NEW texts, NEW chunks, Searched(words, texts, chunks), chunks # <<>>
  PROVE  Cited(words, texts, chunks, CitesFirst(chunks).cites)
<1>1. PICK c : c = chunks[1] OBVIOUS
<1>2. c = [path |-> c.path, by |-> c.by] BY <1>1 DEF Searched
<1>3. PICK e : e = [c EXCEPT !.by = "chunk"] OBVIOUS
<1>4. e.path = c.path BY <1>2, <1>3
<1>5. CitesFirst(chunks).cites = <<e>> BY <1>1, <1>3 DEF CitesFirst
<1>6. <<e>> # <<>> /\ DOMAIN <<e>> = {1} /\ <<e>>[1] = e OBVIOUS
<1> QED BY <1>1, <1>4, <1>5, <1>6 DEF Cited, Searched

LEMMA PipelineIndexes == ASSUME PipelineInv, IndexDocuments PROVE PipelineInv'
<1>1. At("listed") BY DEF IndexDocuments
<1>2. CASE FailStep BY <1>1, <1>2, PipelineFails DEF At
<1>3. ASSUME NEW d, CompleteWith("index", d) PROVE PipelineInv'
  BY <1>1, <1>3, IndexCompleted
<1>4. PICK d : d = [x \in pipeline.listed |-> IF library[x] = "gone" THEN "empty" ELSE library[x]]
  OBVIOUS
<1>5. CompleteWith("index", d) \/ FailStep BY <1>4 DEF IndexDocuments, CompleteWith
<1> QED BY <1>2, <1>3, <1>5

LEMMA PipelineRetrieves == ASSUME PipelineInv, Retrieve PROVE PipelineInv'
<1>1. At("retrieve") BY DEF Retrieve
<1>2. CASE FailStep BY <1>1, <1>2, PipelineFails DEF At, DocumentSteps
<1>3. ASSUME NEW paths \in RetrieverAnswers, NEW search \in WordSearches,
             CompleteWith("retrieve", Fallback(Chunks(paths, "model"), Chunks(search, "search")))
      PROVE  PipelineInv'
  <2>1. PICK d : d = Fallback(Chunks(paths, "model"), Chunks(search, "search")) OBVIOUS
  <2>2. CompleteWith("retrieve", d) BY <1>3, <2>1
  <2>3. ASSUME pipeline.attempt = 1 PROVE Searched(pipeline.words, handed["index"], d)
    <3>1. DOMAIN handed = {"index"}
      BY <1>1, <2>3 DEF At, PipelineInv, PipeSound, InTurn, HandedTrue
    <3>2. PICK texts : texts = handed["index"] OBVIOUS
    <3>3. texts = Contents BY <3>1, <3>2 DEF Contents, HasData
    <3> QED BY <2>1, <3>2, <3>3, FallbackSearched
  <2> QED BY <1>1, <2>2, <2>3, RetrieveCompleted
<1>4. \/ FailStep
      \/ \E paths \in RetrieverAnswers, search \in WordSearches :
           CompleteWith("retrieve", Fallback(Chunks(paths, "model"), Chunks(search, "search")))
  BY DEF Retrieve
<1> QED BY <1>2, <1>3, <1>4

LEMMA PipelineAnswers == ASSUME PipelineInv, Answer PROVE PipelineInv'
<1>1. At("answer") BY DEF Answer
<1>2. CASE FailStep BY <1>1, <1>2, PipelineFails DEF At, DocumentSteps
<1>3. PICK texts, chunks : texts = handed["index"] /\ chunks = handed["retrieve"]
  OBVIOUS
<1>4. pipeline.attempt = 1 => Searched(pipeline.words, texts, chunks) /\ Retrieved = chunks
  BY <1>1, <1>3 DEF At, PipelineInv, PipeSound, InTurn, HandedTrue, Retrieved, HasData
<1>5. ASSUME NEW answer \in AnswererAnswers, answer # NoData, CompleteWith("answer", answer),
             Complies(answer) \/ Retrieved = <<>>
      PROVE  PipelineInv'
  <2>1. ASSUME pipeline.attempt = 1
        PROVE  Cited(pipeline.words, handed["index"], handed["retrieve"], answer.cites)
    <3>1. answer.cites = <<>> /\ pipeline.words => NothingToFind(texts)
      BY <1>4, <1>5, <2>1 DEF Complies, Searched
    <3> QED BY <1>3, <1>5, <3>1, AnswerCites
  <2> QED BY <1>1, <1>5, <2>1, AnswerCompleted
<1>6. ASSUME Retrieved # <<>>, CompleteWith("answer", CitesFirst(Retrieved))
      PROVE  PipelineInv'
  <2>1. PICK d : d = CitesFirst(Retrieved) OBVIOUS
  <2>2. CompleteWith("answer", d) BY <1>6, <2>1 DEF CompleteWith
  <2>3. ASSUME pipeline.attempt = 1
        PROVE  Cited(pipeline.words, handed["index"], handed["retrieve"], d.cites)
    BY <1>3, <1>4, <1>6, <2>1, <2>3, FirstCited
  <2> QED BY <1>1, <2>2, <2>3, AnswerCompleted
<1>7. \/ FailStep
      \/ \E answer \in AnswererAnswers :
           /\ answer # NoData /\ CompleteWith("answer", answer)
           /\ Complies(answer) \/ Retrieved = <<>>
      \/ Retrieved # <<>> /\ CompleteWith("answer", CitesFirst(Retrieved))
  BY DEF Answer, Complies
<1> QED BY <1>2, <1>5, <1>6, <1>7

LEMMA PipelineReports == ASSUME PipelineInv, ReportAnswer PROVE PipelineInv'
<1>1. /\ pipeline.kind = "documents" /\ pipeline.attempt = 1
      /\ pipeline.at \in {"verified", "failed"} /\ IsPipe(pipeline)
  BY DEF ReportAnswer, Reporting, PipelineInv, PipeSound
<1>2. PICK cites : cites = IF HasData("answer") THEN handed["answer"].cites ELSE <<>>
  OBVIOUS
<1>3. PICK status : status = IF pipeline.at = "verified" THEN "done" ELSE "failed"
  OBVIOUS
<1>4. PICK r : r = [status |-> status, cites |-> cites] OBVIOUS
<1>5. PICK q : q = [pipeline EXCEPT !.at = "over", !.report = r] OBVIOUS
<1>6. pipeline' = q /\ handed' = handed BY <1>2, <1>3, <1>4, <1>5 DEF ReportAnswer
<1>7. /\ q.kind = "documents" /\ q.at = "over" /\ q.attempt = 1
      /\ q.logged = pipeline.logged /\ q.stale = pipeline.stale /\ q.words = pipeline.words
      /\ q.report = r /\ IsPipe(q)
  BY <1>1, <1>5 DEF IsPipe
<1>8. Placed(q) /\ InTurn(q) /\ HandedTrue(q, handed)
  BY <1>1, <1>7 DEF PipelineInv, PipeSound, Placed, InTurn, HandedTrue, Ends
<1>9. ASSUME r.status = "done"
      PROVE  /\ q.logged = DocumentSteps
             /\ Cited(pipeline.words, handed["index"], handed["retrieve"], r.cites)
  <2>1. pipeline.at = "verified" BY <1>3, <1>4, <1>9
  <2>2. pipeline.logged = DocumentSteps
    BY <1>1, <2>1 DEF PipelineInv, PipeSound, Placed, InTurn, DocumentSteps, ResearchSteps
  <2>3. DOMAIN handed = DocumentSteps /\ r.cites = handed["answer"].cites
    BY <1>1, <1>2, <1>4, <2>1, <2>2 DEF PipelineInv, PipeSound, HandedTrue, HasData, DocumentSteps
  <2>4. Cited(pipeline.words, handed["index"], handed["retrieve"], handed["answer"].cites)
    BY <1>1, <2>1, <2>2 DEF PipelineInv, PipeSound, HandedTrue, DocumentSteps
  <2> QED BY <1>7, <2>2, <2>3, <2>4
<1>10. ReportTrue(q, handed) BY <1>7, <1>9 DEF ReportTrue
<1>11. PipeSound(q, handed) BY <1>7, <1>8, <1>10 DEF PipeSound
<1> QED BY <1>6, <1>11 DEF PipelineInv

----------------------------------------------------------------------------
(* What the steps of research hand on.                                     *)
LEMMA PipelineGathers == ASSUME PipelineInv, Gather PROVE PipelineInv'
<1>1. At("gather") BY DEF Gather
<1>2. CASE FailStep BY <1>1, <1>2, PipelineFails DEF At, ResearchSteps
<1>3. PICK d : d = [rests |-> TRUE] OBVIOUS
<1>4. CASE CompleteWith("gather", d) BY <1>1, <1>4, GatherCompleted
<1>5. CompleteWith("gather", d) \/ FailStep BY <1>3 DEF Gather, CompleteWith
<1> QED BY <1>2, <1>4, <1>5

LEMMA PipelineSummarizes == ASSUME PipelineInv, Summarize PROVE PipelineInv'
<1>1. At("summarize") BY DEF Summarize
<1>2. CASE FailStep BY <1>1, <1>2, PipelineFails DEF At, ResearchSteps
<1>3. PICK d : d = [rests |-> HasData("gather")] OBVIOUS
<1>4. CASE CompleteWith("summarize", d)
  <2>1. ASSUME pipeline.attempt = 1 PROVE d.rests
    BY <1>1, <1>3, <2>1 DEF At, PipelineInv, PipeSound, InTurn, HandedTrue, HasData
  <2> QED BY <1>1, <1>4, <2>1, SummarizeCompleted
<1>5. CompleteWith("summarize", d) \/ FailStep BY <1>3 DEF Summarize, CompleteWith
<1> QED BY <1>2, <1>4, <1>5

LEMMA PipelineWrites == ASSUME PipelineInv, WriteUp PROVE PipelineInv'
<1>1. At("report") BY DEF WriteUp
<1>2. CASE FailStep BY <1>1, <1>2, PipelineFails DEF At, ResearchSteps
<1>3. PICK b : b = (HasData("summarize") /\ handed["summarize"].rests) OBVIOUS
<1>4. pipeline.attempt = 1 => b
  BY <1>1, <1>3 DEF At, PipelineInv, PipeSound, InTurn, HandedTrue, HasData
<1>5. ASSUME NEW topic \in BOOLEAN, CompleteWith("report", [rests |-> b, asked |-> topic])
      PROVE  PipelineInv'
  <2>1. PICK d : d = [rests |-> b, asked |-> topic] OBVIOUS
  <2>2. CompleteWith("report", d) BY <1>5, <2>1
  <2>3. pipeline.attempt = 1 => d.rests BY <1>4, <2>1
  <2> QED BY <1>1, <2>2, <2>3, WriteUpCompleted
<1>6. \/ FailStep
      \/ \E topic \in BOOLEAN : CompleteWith("report", [rests |-> b, asked |-> topic])
  BY <1>3 DEF WriteUp, CompleteWith
<1> QED BY <1>2, <1>5, <1>6

LEMMA PipelineFinds == ASSUME PipelineInv, ReportFindings PROVE PipelineInv'
<1>1. /\ pipeline.kind = "research" /\ pipeline.attempt = 1
      /\ pipeline.at = "verified" /\ IsPipe(pipeline)
  BY DEF ReportFindings, Reporting, At, PipelineInv, PipeSound
<1>2. PICK b : b = handed["report"].rests OBVIOUS
<1>3. PICK stale : stale = pipeline.stale OBVIOUS
<1>4. PICK r : r = [rests |-> b, asked |-> TRUE, warns |-> stale] OBVIOUS
<1>5. PICK q : q = [pipeline EXCEPT !.at = "over", !.report = r] OBVIOUS
<1>6. pipeline' = q /\ handed' = handed BY <1>2, <1>3, <1>4, <1>5 DEF ReportFindings
<1>7. /\ q.kind = "research" /\ q.at = "over" /\ q.attempt = 1
      /\ q.logged = pipeline.logged /\ q.stale = stale /\ q.words = pipeline.words
      /\ q.report = r /\ IsPipe(q)
  BY <1>1, <1>3, <1>5 DEF IsPipe
<1>8. Placed(q) /\ InTurn(q) /\ HandedTrue(q, handed)
  BY <1>1, <1>7 DEF PipelineInv, PipeSound, Placed, InTurn, HandedTrue, Ends
<1>9. b
  <2>1. pipeline.logged = ResearchSteps
    BY <1>1 DEF PipelineInv, PipeSound, Placed, InTurn, DocumentSteps, ResearchSteps
  <2> QED BY <1>1, <1>2, <2>1 DEF PipelineInv, PipeSound, HandedTrue, ResearchSteps
<1>10. ReportTrue(q, handed) BY <1>4, <1>7, <1>9 DEF ReportTrue
<1>11. PipeSound(q, handed) BY <1>7, <1>8, <1>10 DEF PipeSound
<1> QED BY <1>6, <1>11 DEF PipelineInv

LEMMA PipelineKept == PipelineInv /\ [PipelineNext]_pipelineVars => PipelineInv'
<1> SUFFICES ASSUME PipelineInv, [PipelineNext]_pipelineVars PROVE PipelineInv' OBVIOUS
<1>1. CASE BeginPipeline BY <1>1, PipelineBegins
<1>2. CASE ListDocuments BY <1>2, PipelineLists
<1>3. CASE IndexDocuments BY <1>3, PipelineIndexes
<1>4. CASE Retrieve BY <1>4, PipelineRetrieves
<1>5. CASE Answer BY <1>5, PipelineAnswers
<1>6. CASE ReportAnswer BY <1>6, PipelineReports
<1>7. CASE Gather BY <1>7, PipelineGathers
<1>8. CASE Summarize BY <1>8, PipelineSummarizes
<1>9. CASE WriteUp BY <1>9, PipelineWrites
<1>10. CASE ReportFindings BY <1>10, PipelineFinds
<1>11. CASE LosePipeline BY <1>11, PipelineLost
<1>12. CASE ResumePipeline BY <1>12, PipelineResumes
<1>13. CASE UNCHANGED <<pipeline, handed>> BY <1>13 DEF PipelineInv
<1>14. ChangeDocument => UNCHANGED <<pipeline, handed>> BY DEF ChangeDocument
<1> QED
  BY <1>1, <1>2, <1>3, <1>4, <1>5, <1>6, <1>7, <1>8, <1>9, <1>10, <1>11, <1>12, <1>13, <1>14
  DEF PipelineNext, pipelineVars

LEMMA PipelineTold == PipelineInv => AnswersGrounded
<1> SUFFICES ASSUME PipelineInv, pipeline.report # NoData PROVE AnswersGrounded
  BY DEF AnswersGrounded
<1>1. CASE pipeline.kind = "research"
  BY <1>1 DEF PipelineInv, PipeSound, ReportTrue, AnswersGrounded
<1>2. CASE pipeline.kind = "documents"
  <2> SUFFICES ASSUME pipeline.report.status = "done"
               PROVE  /\ pipeline.logged = {"index", "retrieve", "answer"}
                      /\ pipeline.attempt = 1 => CitesWhatWasFound(pipeline.report.cites)
    BY <1>2 DEF AnswersGrounded
  <2>1. pipeline.logged = {"index", "retrieve", "answer"}
    BY <1>2 DEF PipelineInv, PipeSound, ReportTrue, DocumentSteps
  <2>3. ASSUME pipeline.attempt = 1 PROVE CitesWhatWasFound(pipeline.report.cites)
    <3>1. Cited(pipeline.words, handed["index"], handed["retrieve"], pipeline.report.cites)
      BY <1>2, <2>3 DEF PipelineInv, PipeSound, ReportTrue
    <3> QED BY <3>1 DEF Cited, CitesWhatWasFound
  <2> QED BY <2>1, <2>3
<1> QED BY <1>1, <1>2 DEF PipelineInv, PipeSound, Placed

\* AnswersGrounded: however the steps fail, die and are resumed, and whoever
\* changes the documents, a report that says done is the end of a chain of
\* data.  In the first attempt what a step has handed on is in the ledger and
\* the other way round, and each step's data rests on the data before it.
THEOREM AnswersRest == PipelineSpec => []AnswersGrounded
<1>1. PipelineSpec => []PipelineInv BY PipelineStart, PipelineKept, PTL DEF PipelineSpec
<1> QED BY <1>1, PipelineTold, PTL
=============================================================================
