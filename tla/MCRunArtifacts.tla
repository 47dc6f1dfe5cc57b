--------------------------- MODULE MCRunArtifacts --------------------------
(* What is put into the directory of a run while it goes on: the ledger,   *)
(* by the threads of the run, and snapshots of the repository, by calls of *)
(* another command.  The two share no file: each behaviour exercises one   *)
(* of them, chosen at the start.                                           *)
EXTENDS RunLedger, SnapshotArchive, TLC

CONSTANTS s1, s2

VARIABLE part

artifactVars == <<vars, snapshotVars, part>>

(* Three text files: one that is scanned and archived, one the detectors   *)
(* leave alone and one that is forbidden.                                  *)
MCTexts == {<<"plain", "secret", "plain">>}

Symmetric == Permutations(SnapshotCalls)

MCInit == Init /\ SnapshotInit /\ part \in {"ledger", "snapshots"}

MCNext ==
    /\ UNCHANGED part
    /\ \/ part = "ledger" /\ Next /\ UNCHANGED snapshotVars
       \/ part = "snapshots" /\ SnapshotNext /\ UNCHANGED vars

MCSpec == MCInit /\ [][MCNext]_artifactVars
=============================================================================
