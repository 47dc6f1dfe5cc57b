----------------------------- MODULE TaskContract --------------------------
(* What a coordinator promises about every task it is given: it waits or is *)
(* held by one worker, a failure puts it back at most MaxRetries - 1 times, *)
(* and a task that has settled, or was lost, never comes back.              *)
EXTENDS Naturals

CONSTANTS Tasks, MaxRetries

VARIABLES place, tries

Places == {"new", "waiting", "held", "done", "abandoned", "lost"}

Init ==
    /\ place = [t \in Tasks |-> "new"]
    /\ tries = [t \in Tasks |-> 0]

Move(t, from, to) == place[t] = from /\ place'[t] = to

Same(t) == tries'[t] = tries[t]

Fails(t) == tries'[t] = tries[t] + 1

Step(t) ==
    \/ Move(t, "new", "waiting") /\ Same(t)
    \/ Move(t, "waiting", "held") /\ Same(t)
    \/ Move(t, "held", "done") /\ Same(t)
    \/ Move(t, "held", "waiting") /\ Fails(t) /\ tries'[t] < MaxRetries
    \/ Move(t, "held", "abandoned") /\ Fails(t) /\ tries'[t] = MaxRetries
    \/ place[t] \in {"waiting", "held"} /\ place'[t] = "lost" /\ Same(t)
    \/ place'[t] = place[t] /\ Same(t)

\* One list operation of the coordinator may move several tasks.
Next == \A t \in Tasks : Step(t)

Spec == Init /\ [][Next]_<<place, tries>>
=============================================================================
