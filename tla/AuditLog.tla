------------------------------ MODULE AuditLog ------------------------------
(***************************************************************************)
(* What core/ledger.py promises to a reader of one run directory: a log    *)
(* that only grows, whose n-th entry carries the number n (from 0) and the *)
(* hash of the entry before it, and a parallel list of hashes that is      *)
(* never more than one entry behind the log.  An entry is appended in one  *)
(* indivisible step, whatever the number of threads that emit.             *)
(***************************************************************************)
EXTENDS Naturals, Sequences

CONSTANTS
    Tags,     \* the (dimension, value) pairs an event may be indexed under
    NoHash,   \* previous_hash = None
    Ids       \* event ids

VARIABLES
    log,      \* sequence of entries [id, seq, prev, tags]
    sealed    \* sequence of the hashes of the entries of log, in order

avars == <<log, sealed>>

\* An event's hash is abstracted by the event's id (uuid4, so unique): the
\* hash covers the id, and two events never share one.
HashOf(e) == e.id

LastHash(hashes) == IF hashes = <<>> THEN NoHash ELSE hashes[Len(hashes)]

AInit == log = <<>> /\ sealed = <<>>

AppendEntry ==
    /\ Len(sealed) = Len(log)
    /\ \E id \in Ids, tags \in SUBSET Tags :
         /\ \A i \in 1..Len(log) : log[i].id # id
         /\ log' = Append(log, [id |-> id, seq |-> Len(log),
                                prev |-> LastHash(sealed), tags |-> tags])
    /\ UNCHANGED sealed

Seal ==
    /\ Len(sealed) < Len(log)
    /\ sealed' = Append(sealed, HashOf(log[Len(sealed) + 1]))
    /\ UNCHANGED log

ANext == AppendEntry \/ Seal

ASpec == AInit /\ [][ANext]_avars

=============================================================================
