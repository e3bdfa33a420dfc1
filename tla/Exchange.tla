------------------------------ MODULE Exchange ------------------------------
(***************************************************************************)
(* What a session promises its client: one response per connection at      *)
(* most, started on an open connection, and one that was chosen is dropped *)
(* or cut short only after the deadline.                                   *)
(***************************************************************************)
VARIABLES
  conn,   (* "open" or "closed"                                            *)
  late,   (* has the deadline passed?                                      *)
  stage   (* "waiting", "chosen", "answering", "settled": the response     *)

vars == <<conn, late, stage>>

Init == conn = "open" /\ late = FALSE /\ stage = "waiting"

Expire == ~late /\ late' = TRUE /\ UNCHANGED <<conn, stage>>

(* The request may be dealt with on a connection that was closed too late. *)
Choose ==
  /\ stage = "waiting"
  /\ conn = "open" \/ late
  /\ stage' = "chosen"
  /\ UNCHANGED <<conn, late>>

Begin ==
  /\ stage = "chosen"
  /\ conn = "open"
  /\ stage' = "answering"
  /\ UNCHANGED <<conn, late>>

(* The write ends, for better or worse.                                    *)
Settle ==
  /\ stage = "answering"
  /\ stage' = "settled"
  /\ UNCHANGED <<conn, late>>

HangUp ==
  /\ conn = "open"
  /\ stage \in {"waiting", "settled"}
  /\ conn' = "closed"
  /\ UNCHANGED <<late, stage>>

(* The deadline closes the connection under a response.                    *)
Cut ==
  /\ late
  /\ conn = "open"
  /\ conn' = "closed"
  /\ stage' = IF stage = "answering" THEN "settled" ELSE stage
  /\ UNCHANGED late

Drop ==
  /\ stage = "chosen"
  /\ conn = "closed"
  /\ stage' = "settled"
  /\ UNCHANGED <<conn, late>>

Next == Expire \/ Choose \/ Begin \/ Settle \/ HangUp \/ Cut \/ Drop

Spec == Init /\ [][Next]_vars
=============================================================================
