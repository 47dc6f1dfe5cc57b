---------------------------- MODULE RunContract ----------------------------
(***************************************************************************)
(* What a run promises to whoever reads its ledger, whatever happens to    *)
(* the process: a step is settled (completed or skipped) at most once and  *)
(* only while the run is open, settled steps stay settled, and the run is  *)
(* reported as completed only when every step is settled.                  *)
(***************************************************************************)
CONSTANT Steps

VARIABLES settled, verdict

vars == <<settled, verdict>>

Init == settled = {} /\ verdict = "none"

\* A run is started or resumed.
Open == verdict' = "open" /\ UNCHANGED settled

Settle(s) ==
    /\ verdict = "open"
    /\ s \notin settled
    /\ settled' = settled \cup {s}
    /\ UNCHANGED verdict

Fail ==
    /\ verdict = "open"
    /\ verdict' = "failed"
    /\ UNCHANGED settled

Complete ==
    /\ verdict = "open" /\ settled = Steps
    /\ verdict' = "completed"
    /\ UNCHANGED settled

Next == Open \/ Fail \/ Complete \/ \E s \in Steps : Settle(s)

Spec == Init /\ [][Next]_vars
=============================================================================
