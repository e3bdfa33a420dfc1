--------------------------- MODULE MCPeriodicTask ---------------------------
(* Instances of PeriodicTask and IdleCheck for TLC: the rounds of the loop *)
(* and one ordinary task of higher priority that keeps a worker busy.      *)
EXTENDS IdleCheck

CONSTANTS r1, r2, t1

MCTasks == {r1, r2, t1}

MCPriority == [t \in MCTasks |-> IF t = t1 THEN 2 ELSE 1]

MCRounds == <<r1, r2>>
=============================================================================
