------------------------------ MODULE MCDocGc ------------------------------
(* Instances of DocGc for TLC: fault budgets with one fault of some kinds. *)
EXTENDS DocGc, TLC

Only(k) == [j \in FaultKind |-> IF j \in k THEN 1 ELSE 0]

NoFaults == Only({})

Refusals == Only({"crash", "broker", "db"})

DocSymmetry == Permutations(Doc)
=============================================================================
