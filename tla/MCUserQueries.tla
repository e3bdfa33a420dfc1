--------------------------- MODULE MCUserQueries ---------------------------
(* Instances of UserQueries for TLC: two requesters; two usable files and  *)
(* one without a password.                                                 *)
EXTENDS UserQueries

CONSTANTS r1, r2, old, new, short

MCRequesters == {r1, r2}

MCFiles == {old, new, short}

MCAssigned == [f \in MCFiles |-> IF f = short THEN 2 ELSE Len(Order)]
=============================================================================
