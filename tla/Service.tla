------------------------------ MODULE Service ------------------------------
(***************************************************************************)
(* What the server promises a client, with no threads, no pool and no      *)
(* accept chain in sight.  A client that connects waits, is taken on once, *)
(* and is done with once; the server is open until an error makes it       *)
(* refuse clients, and is down in the end.  Going down, it cuts off a      *)
(* client that it has taken on only when it refuses clients already or is  *)
(* hurt by an exception that ended a thread or the process.                *)
(*                                                                         *)
(* Module HTTPServer is shown to implement this one.                       *)
(***************************************************************************)
CONSTANT Conns

VARIABLES
  client,  (* [Conns -> how far each client has come]                      *)
  phase,   (* "open", "refusing" or "down"                                 *)
  hurt     (* has an exception ended a thread, or the process?             *)

Init ==
  /\ client = [c \in Conns |-> "away"]
  /\ phase = "open"
  /\ hurt = FALSE

Becomes(c, before, after) ==
  /\ client[c] = before
  /\ client' = [client EXCEPT ![c] = after]

CutOff(stages) ==
  client' = [c \in Conns |-> IF client[c] \in stages THEN "dropped"
                                                     ELSE client[c]]

MayHurt == hurt' = hurt \/ hurt' = TRUE

Arrive(c) ==
  /\ phase = "open"
  /\ Becomes(c, "away", "waiting")
  /\ UNCHANGED <<phase, hurt>>

Take(c) ==
  /\ phase = "open"
  /\ Becomes(c, "waiting", "taken")
  /\ UNCHANGED <<phase, hurt>>

(* The session is over, or was never begun; an exception may end it.       *)
Complete(c) ==
  /\ phase # "down"
  /\ Becomes(c, "taken", "done")
  /\ MayHurt
  /\ UNCHANGED phase

Hurt ==
  /\ phase # "down"
  /\ hurt' = TRUE
  /\ UNCHANGED <<client, phase>>

Refuse ==
  /\ phase = "open"
  /\ phase' = "refusing"
  /\ CutOff({"waiting"})
  /\ UNCHANGED hurt

GoDown ==
  /\ phase # "down"
  /\ phase' = "down"
  /\ MayHurt
  /\ CutOff({"waiting", "taken"})
  /\ (\E c \in Conns : client[c] = "taken") => hurt' \/ phase = "refusing"

Next ==
  \/ \E c \in Conns : Arrive(c) \/ Take(c) \/ Complete(c)
  \/ Hurt
  \/ Refuse
  \/ GoDown

Spec == Init /\ [][Next]_<<client, phase, hurt>>
=============================================================================
