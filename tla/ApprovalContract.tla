-------------------------- MODULE ApprovalContract -------------------------
(***************************************************************************)
(* What the ledger of a mediated tool call may say.  The call is allowed,  *)
(* refused or asked for; what was asked for is granted or denied, once;    *)
(* and the tool is called only after the call was allowed or granted.      *)
(***************************************************************************)
CONSTANT Invocations

VARIABLE stage  \* the last decisive event of every call

After(s) ==
    CASE s = "new" -> {"allow", "ask", "deny"}
      [] s = "ask" -> {"asked"}
      [] s = "allow" -> {"called"}
      [] s = "asked" -> {"granted", "denied"}
      [] s = "granted" -> {"called"}
      [] s = "called" -> {"finished"}
      [] OTHER -> {}

Init == stage = [i \in Invocations |-> "new"]

Advance(i) == \E s \in After(stage[i]) : stage' = [stage EXCEPT ![i] = s]

Next == \E i \in Invocations : Advance(i)

Spec == Init /\ [][Next]_stage
=============================================================================
