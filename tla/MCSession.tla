------------------------------ MODULE MCSession ------------------------------
(* Session has finite constants only; the module gives the timer's delay.  *)
EXTENDS Session

MCDeadline == 4
=============================================================================
