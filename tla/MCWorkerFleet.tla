---------------------------- MODULE MCWorkerFleet --------------------------
(* Small instances of WorkerFleet for TLC: two workers, of which one can do *)
(* everything, and two tasks of different kind and priority.               *)
EXTENDS WorkerFleet, TLC

CONSTANTS w1, w2, t1, t2, c1, c2, c3

MCKind == (t1 :> "code") @@ (t2 :> "test")

MCPriority == (t1 :> 0) @@ (t2 :> 1)

MCCapabilities == (w1 :> {"code", "test"}) @@ (w2 :> {"code"})

CallSymmetry == Permutations(Calls)
=============================================================================
