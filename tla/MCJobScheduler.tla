--------------------------- MODULE MCJobScheduler ---------------------------
(* Small instances of JobScheduler for TLC. *)
EXTENDS JobScheduler, TLC

CONSTANTS j1, j2, n1, n2, c1, c2

AllCapacityOne == [n \in Nodes |-> 1]
OneOnProbation == [n \in Nodes |-> IF n = n2 THEN "PROBATION" ELSE "ACTIVE"]
AllSuitable == [j \in Jobs |-> Nodes]

\* Activation slots are interchangeable.
CallSymmetry == Permutations(Calls)
=============================================================================
