------------------------------ MODULE TaskPool ------------------------------
(***************************************************************************)
(* What a task pool promises its owner, with no threads, no lock and no    *)
(* condition variable in sight.  A submitted task waits in the queue,      *)
(* starts once (never before a queued task of higher priority), finishes   *)
(* once, and closing the pool takes effect only when everything submitted  *)
(* has finished.                                                           *)
(*                                                                         *)
(* A submission may fail although its task is in the queue.  The pool does *)
(* not owe such a task anything as long as it is open and no accepted task *)
(* is queued, but what it starts next may well be that task.  Module       *)
(* ThreadPool is shown to implement this one.                              *)
(***************************************************************************)
EXTENDS Integers, FiniteSets

CONSTANTS
  Tasks,      (* the tasks that may be submitted                           *)
  Priority,   (* [Tasks -> Int]: the bigger, the sooner                    *)
  Limit       (* at most this many tasks run at a time                     *)

VARIABLES
  queued,     (* submitted and not started                                 *)
  accepted,   (* submitted by a call that did not fail                     *)
  running,    (* started and not finished                                  *)
  finished,   (* the tasks whose future is ready                           *)
  phase       (* "open", "closing" or "closed"                             *)

poolVars == <<queued, accepted, running, finished, phase>>

Init ==
  /\ queued = {}
  /\ accepted = {}
  /\ running = {}
  /\ finished = {}
  /\ phase = "open"

Push(t) ==
  /\ phase = "open"
  /\ t \notin queued \cup running \cup finished
  /\ queued' = queued \cup {t}
  /\ UNCHANGED <<running, finished, phase>>

Submit(t) == Push(t) /\ accepted' = accepted \cup {t}

SubmitFails(t) == Push(t) /\ UNCHANGED accepted

Start(t) ==
  /\ t \in queued
  /\ \A u \in queued : Priority[u] <= Priority[t]
  /\ Cardinality(running) < Limit
  /\ queued' = queued \ {t}
  /\ running' = running \cup {t}
  /\ UNCHANGED <<accepted, finished, phase>>

Finish(t) ==
  /\ t \in running
  /\ running' = running \ {t}
  /\ finished' = finished \cup {t}
  /\ UNCHANGED <<queued, accepted, phase>>

Close ==
  /\ phase = "open"
  /\ phase' = "closing"
  /\ UNCHANGED <<queued, accepted, running, finished>>

Closed ==
  /\ phase = "closing"
  /\ queued = {}
  /\ running = {}
  /\ phase' = "closed"
  /\ UNCHANGED <<queued, accepted, running, finished>>

Next ==
  \/ \E t \in Tasks : Submit(t) \/ SubmitFails(t) \/ Start(t) \/ Finish(t)
  \/ Close
  \/ Closed

Safety == Init /\ [][Next]_poolVars

(* The moments at which the pool must go on starting tasks.                *)
Promised == queued \cap accepted # {} \/ phase = "closing"

Fairness ==
  /\ WF_poolVars(Promised /\ \E t \in Tasks : Start(t))
  /\ \A t \in Tasks : WF_poolVars(Finish(t))
  /\ WF_poolVars(Closed)

Spec == Safety /\ Fairness
=============================================================================
