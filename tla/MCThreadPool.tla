---------------------------- MODULE MCThreadPool ----------------------------
(* Instances of ThreadPool for TLC: two tasks of the same priority and one *)
(* that is more urgent.                                                    *)
EXTENDS ThreadPool

CONSTANTS t1, t2, t3

MCTasks == {t1, t2, t3}

MCPriority == [t \in MCTasks |-> IF t = t3 THEN 2 ELSE 1]
=============================================================================
