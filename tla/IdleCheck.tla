------------------------------ MODULE IdleCheck ------------------------------
(***************************************************************************)
(* ThreadPool::isIdle, called by the owner while the pool and a periodic   *)
(* task work.  It reads the counter, then the queue, and holds no lock:    *)
(* the && of the source is a step of its own.  (The unlocked read of the   *)
(* queue is a data race; it is modelled as a read of its content.)         *)
(***************************************************************************)
EXTENDS PeriodicTask

VARIABLES
  check,    (* "none", "between" the two reads, or the last answer         *)
  wasIdle,  (* was the pool idle at some moment of the call?               *)
  popped    (* has a worker taken a task since the first read?             *)

idleVars == <<check, wasIdle, popped>>

Idle == tasks = {} /\ Busy = {}

IdleInit ==
  /\ PeriodicInit
  /\ check = "none" /\ wasIdle = FALSE /\ popped = FALSE

CounterAllows_faulty == TRUE

(* activeTasks.load() == 0                                                 *)
CounterAllows == activeTasks = 0

(* The left operand; && does not read the queue when it is false.          *)
ReadCounter ==
  /\ phase = "alive" /\ check # "between"
  /\ check' = IF CounterAllows THEN "between" ELSE "busy"
  /\ wasIdle' = Idle
  /\ popped' = FALSE
  /\ UNCHANGED allVars

(* tasks.empty()                                                           *)
ReadQueue ==
  /\ check = "between"
  /\ check' = IF tasks = {} THEN "idle" ELSE "busy"
  /\ UNCHANGED <<allVars, wasIdle, popped>>

(* The call goes on, or its answer gets old; the owner who waits for it
   does not destroy the pool.                                              *)
Meanwhile ==
  /\ check' = IF check = "between" THEN check ELSE "none"
  /\ wasIdle' = (wasIdle \/ Idle')
  /\ popped' = (popped \/ ~(tasks \subseteq tasks'))
  /\ check = "between" => phase' = phase

IdleNext ==
  /\ loop # "astray"
  /\ ReadCounter \/ ReadQueue \/ (PeriodicNext /\ Meanwhile)

IdleSafety == IdleInit /\ [][IdleNext]_<<allVars, idleVars>>

IdleSpec == IdleSafety /\ WF_<<allVars, idleVars>>(LoopStep /\ Meanwhile)
-----------------------------------------------------------------------------
IdleTypeOK ==
  /\ check \in {"none", "between", "idle", "busy"}
  /\ {wasIdle, popped} \subseteq BOOLEAN

(***************************************************************************)
(* What an answer "idle" is worth: the pool was idle at a moment of the    *)
(* call, or a worker took a task between the two reads.  Nothing else, no  *)
(* push, no end of a task and no new worker, makes it wrong.               *)
(***************************************************************************)
OnlyPopMisleadsIdle == check = "idle" => wasIdle \/ popped

(***************************************************************************)
(* "Vérifie si le pool est inactif (pas de tâches et pas de threads        *)
(* actifs)" (ThreadPool.hpp:181): when the answer is "idle", there was a   *)
(* moment of the call at which no task was queued and no worker active.    *)
(* A worker that pops the last task between the two reads breaks it.       *)
(***************************************************************************)
IdleMeansIdle == check = "idle" => wasIdle
=============================================================================
