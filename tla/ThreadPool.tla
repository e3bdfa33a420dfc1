----------------------------- MODULE ThreadPool -----------------------------
(***************************************************************************)
(* Softadastra::ThreadPool (core/threading/ThreadPool.hpp): a priority     *)
(* queue of tasks guarded by the mutex m, a condition variable on which    *)
(* idle workers sleep, an atomic counter of active tasks, and a destructor *)
(* that drains the queue and joins the workers.                            *)
(*                                                                         *)
(* A critical section on m is one action.  What the code does outside m    *)
(* (notify_one, the task itself, --activeTasks) is an action of its own,   *)
(* so that every interleaving the mutex permits is explored.               *)
(***************************************************************************)
EXTENDS Integers, FiniteSets

CONSTANTS
  Tasks,        (* the calls of enqueue, each with the task it submits     *)
  Priority,     (* [Tasks -> Int], the first argument of enqueue           *)
  ThreadCount,  (* workers started by the constructor                      *)
  MaxThreads,   (* enqueue starts no worker beyond this number             *)
  SpawnMayFail, (* may std::thread's constructor throw inside enqueue?     *)
  NoTask        (* the empty Task of a worker that holds none              *)

Limit == IF ThreadCount > MaxThreads THEN ThreadCount ELSE MaxThreads

(***************************************************************************)
(* A pool that can have no worker at all runs nothing.  With no initial    *)
(* worker, the first enqueue must be able to start one.                    *)
(***************************************************************************)
ASSUME PoolAssumption ==
  /\ IsFiniteSet(Tasks)
  /\ Priority \in [Tasks -> Int]
  /\ ThreadCount \in Nat
  /\ MaxThreads \in Nat
  /\ Limit > 0
  /\ SpawnMayFail \in BOOLEAN
  /\ SpawnMayFail => ThreadCount > 0
  /\ NoTask \notin Tasks

Workers == 0 .. Limit - 1

VARIABLES
  workers,      (* workers.size(): the workers 0 .. workers - 1 exist      *)
  tasks,        (* content of the priority_queue                           *)
  stop,         (* set by the destructor                                   *)
  stopPeriodic, (* set by stopPeriodicTasks and by the destructor          *)
  activeTasks,  (* the atomic counter that isIdle reads                    *)
  pc,           (* [Workers -> WorkerStates]: where each worker is         *)
  current,      (* [Workers -> Tasks or NoTask]: its local variable task   *)
  caller,       (* [Tasks -> CallerStates]: progress of each enqueue call  *)
  done,         (* the tasks whose packaged_task has made its future ready *)
  phase         (* "alive", then the steps of ~ThreadPool                  *)

flags == <<stop, stopPeriodic>>
hands == <<activeTasks, current>>
ledger == <<caller, done>>
vars == <<workers, tasks, flags, hands, pc, ledger, phase>>

(***************************************************************************)
(* A worker is "ready" when it is about to lock m and test the predicate,  *)
(* "blocked" when it sleeps in condition.wait, "running" inside the task,  *)
(* "finished" before --activeTasks and "notifying" before notify_one.      *)
(***************************************************************************)
WorkerStates == {"unborn", "ready", "blocked", "running", "finished",
                 "notifying", "exited"}

(***************************************************************************)
(* "pushed": the lock is released and notify_one still to come; "threw":   *)
(* the worker could not be created, enqueue left by exception.             *)
(***************************************************************************)
CallerStates == {"idle", "pushed", "returned", "threw"}

Phases == {"alive", "stopping", "joining", "destroyed"}

TypeOK ==
  /\ workers \in 0 .. Limit
  /\ tasks \in SUBSET Tasks
  /\ stop \in BOOLEAN
  /\ stopPeriodic \in BOOLEAN
  /\ activeTasks \in Int
  /\ pc \in [Workers -> WorkerStates]
  /\ current \in [Workers -> Tasks \cup {NoTask}]
  /\ caller \in [Tasks -> CallerStates]
  /\ done \in SUBSET Tasks
  /\ phase \in Phases
-----------------------------------------------------------------------------
(***************************************************************************)
(* Definitions whose name ends in _faulty are plausible mistakes in the    *)
(* definition that follows them.  No specification uses them: they serve   *)
(* to show that the properties notice the mistake.                         *)
(***************************************************************************)

(* The constructor has returned: its workers exist and start their loop.   *)
Init ==
  /\ workers = ThreadCount
  /\ tasks = {}
  /\ stop = FALSE
  /\ stopPeriodic = FALSE
  /\ activeTasks = 0
  /\ pc = [w \in Workers |-> IF w < ThreadCount THEN "ready" ELSE "unborn"]
  /\ current = [w \in Workers |-> NoTask]
  /\ caller = [t \in Tasks |-> "idle"]
  /\ done = {}
  /\ phase = "alive"

(***************************************************************************)
(* condition.notify_one when the workers are at f: one sleeping worker, no *)
(* matter which, leaves the wait; with nobody asleep the call has no       *)
(* effect.  The value is the set of possible outcomes.                     *)
(***************************************************************************)
WakeOne(f) ==
  IF \E w \in Workers : f[w] = "blocked"
  THEN {[f EXCEPT ![w] = "ready"] : w \in {v \in Workers : f[v] = "blocked"}}
  ELSE {f}

GrowsPool_faulty == workers <= MaxThreads

(* enqueue starts a worker whenever there is room, busy workers or not.    *)
GrowsPool == workers < MaxThreads

CreateThread ==
  /\ workers' = workers + 1
  /\ pc' = [pc EXCEPT ![workers] = "ready"]

(***************************************************************************)
(* The critical section of enqueue.  The push comes first: when the worker *)
(* cannot be created the exception skips notify_one but leaves the task in *)
(* the queue.                                                              *)
(***************************************************************************)
PushTask(t) ==
  /\ caller[t] = "idle"
  /\ tasks' = tasks \cup {t}
  /\ \/ /\ GrowsPool
        /\ CreateThread
        /\ caller' = [caller EXCEPT ![t] = "pushed"]
     \/ /\ GrowsPool
        /\ SpawnMayFail
        /\ caller' = [caller EXCEPT ![t] = "threw"]
        /\ UNCHANGED <<workers, pc>>
     \/ /\ ~GrowsPool
        /\ caller' = [caller EXCEPT ![t] = "pushed"]
        /\ UNCHANGED <<workers, pc>>
  /\ UNCHANGED <<flags, hands, done, phase>>

(* The owner's callers do not enqueue into a pool that is being destroyed. *)
Enqueue(t) == phase = "alive" /\ PushTask(t)

EnqueueNotify_faulty(t) ==
  /\ caller[t] = "pushed"
  /\ caller' = [caller EXCEPT ![t] = "returned"]
  /\ UNCHANGED <<workers, tasks, flags, hands, pc, done, phase>>

(* condition.notify_one() after the lock is released, and the return.      *)
EnqueueNotify(t) ==
  /\ caller[t] = "pushed"
  /\ caller' = [caller EXCEPT ![t] = "returned"]
  /\ pc' \in WakeOne(pc)
  /\ UNCHANGED <<workers, tasks, flags, hands, done, phase>>
-----------------------------------------------------------------------------
EndsWait_faulty == tasks # {}

(* The predicate of condition.wait.                                        *)
EndsWait == stop \/ tasks # {}

LeavesLoop_faulty == stop

LeavesLoop == stop /\ tasks = {}

IsTop_faulty(t) == t \in tasks /\ \A u \in tasks : Priority[t] <= Priority[u]

(* What tasks.top() may be; the order among equals is left open by the     *)
(* standard library, so any of them is.                                    *)
IsTop(t) == t \in tasks /\ \A u \in tasks : Priority[u] <= Priority[t]

Block(w) ==
  /\ pc[w] = "ready"
  /\ ~EndsWait
  /\ pc' = [pc EXCEPT ![w] = "blocked"]
  /\ UNCHANGED <<workers, tasks, flags, hands, ledger, phase>>

Exit(w) ==
  /\ pc[w] = "ready"
  /\ EndsWait
  /\ LeavesLoop
  /\ pc' = [pc EXCEPT ![w] = "exited"]
  /\ UNCHANGED <<workers, tasks, flags, hands, ledger, phase>>

Take(w) ==
  /\ pc[w] = "ready"
  /\ EndsWait
  /\ ~LeavesLoop
  /\ \E t \in Tasks :
       /\ IsTop(t)
       /\ tasks' = tasks \ {t}
       /\ current' = [current EXCEPT ![w] = t]
  /\ activeTasks' = activeTasks + 1
  /\ pc' = [pc EXCEPT ![w] = "running"]
  /\ UNCHANGED <<workers, flags, ledger, phase>>

(***************************************************************************)
(* task.func() returns.  The packaged_task catches whatever the task body  *)
(* throws, so that normal and exceptional ends both make the future ready. *)
(***************************************************************************)
Run(w) ==
  /\ pc[w] = "running"
  /\ done' = done \cup {current[w]}
  /\ pc' = [pc EXCEPT ![w] = "finished"]
  /\ UNCHANGED <<workers, tasks, flags, hands, caller, phase>>

Decrement_faulty(w) ==
  /\ pc[w] = "finished"
  /\ pc' = [pc EXCEPT ![w] = "notifying"]
  /\ current' = [current EXCEPT ![w] = NoTask]
  /\ UNCHANGED <<workers, tasks, flags, activeTasks, ledger, phase>>

Decrement(w) ==
  /\ pc[w] = "finished"
  /\ activeTasks' = activeTasks - 1
  /\ pc' = [pc EXCEPT ![w] = "notifying"]
  /\ current' = [current EXCEPT ![w] = NoTask]
  /\ UNCHANGED <<workers, tasks, flags, ledger, phase>>

WorkerNotify(w) ==
  /\ pc[w] = "notifying"
  /\ pc' \in WakeOne([pc EXCEPT ![w] = "ready"])
  /\ UNCHANGED <<workers, tasks, flags, hands, ledger, phase>>

WorkerStep(w) ==
  Block(w) \/ Exit(w) \/ Take(w) \/ Run(w) \/ Decrement(w) \/ WorkerNotify(w)

(* A wait may end without a notification; the predicate is tested again.   *)
SpuriousWake(w) ==
  /\ pc[w] = "blocked"
  /\ pc' = [pc EXCEPT ![w] = "ready"]
  /\ UNCHANGED <<workers, tasks, flags, hands, ledger, phase>>
-----------------------------------------------------------------------------
StopPeriodicTasks ==
  /\ phase = "alive"
  /\ stopPeriodic' = TRUE
  /\ UNCHANGED <<workers, tasks, stop, hands, pc, ledger, phase>>

(* ~ThreadPool sets both flags under m.                                    *)
SetStop ==
  /\ phase = "alive"
  /\ stop' = TRUE
  /\ stopPeriodic' = TRUE
  /\ phase' = "stopping"
  /\ UNCHANGED <<workers, tasks, hands, pc, ledger>>

(* No other call of the owner's is in progress then.                       *)
BeginDestroy == SetStop /\ \A t \in Tasks : caller[t] # "pushed"

NotifyAll ==
  /\ phase = "stopping"
  /\ pc' = [w \in Workers |-> IF pc[w] = "blocked" THEN "ready" ELSE pc[w]]
  /\ phase' = "joining"
  /\ UNCHANGED <<workers, tasks, flags, hands, ledger>>

(* The joins, one after the other, amount to waiting for every worker.     *)
JoinAll ==
  /\ phase = "joining"
  /\ \A w \in Workers : pc[w] \in {"unborn", "exited"}
  /\ phase' = "destroyed"
  /\ UNCHANGED <<workers, tasks, flags, hands, pc, ledger>>

(* The pool is gone; nothing more happens.                                 *)
Terminated == phase = "destroyed" /\ UNCHANGED vars

Next ==
  \/ \E t \in Tasks : Enqueue(t) \/ EnqueueNotify(t)
  \/ \E w \in Workers : WorkerStep(w) \/ SpuriousWake(w)
  \/ StopPeriodicTasks
  \/ BeginDestroy
  \/ NotifyAll
  \/ JoinAll
  \/ Terminated

Safety == Init /\ [][Next]_vars

(***************************************************************************)
(* Threads that can run do run, and the tasks return.  Nobody is obliged   *)
(* to call enqueue or to destroy the pool, and no wait ends spuriously by  *)
(* right.                                                                  *)
(***************************************************************************)
Fairness ==
  /\ \A t \in Tasks : WF_vars(EnqueueNotify(t))
  /\ \A w \in Workers : WF_vars(WorkerStep(w))
  /\ WF_vars(NotifyAll)
  /\ WF_vars(JoinAll)

Spec == Safety /\ Fairness
-----------------------------------------------------------------------------
(* The workers between the pop of a task and the decrement that follows it *)
Busy == {w \in Workers : pc[w] \in {"running", "finished"}}

(***************************************************************************)
(* The atomic counter, updated under m on one side and without it on the   *)
(* other, agrees at every moment with the number of workers that hold a    *)
(* task (++activeTasks and --activeTasks in the worker loop).              *)
(***************************************************************************)
ActiveCount == activeTasks = Cardinality(Busy)

(***************************************************************************)
(* No wakeup is lost: while a task is queued, some worker is awake or some *)
(* notification is on its way, unless an enqueue failed to start a worker  *)
(* and its exception skipped notify_one.                                   *)
(***************************************************************************)
NoLostWakeup ==
  tasks # {} =>
    \/ \E w \in Workers : pc[w] \in {"ready", "running", "finished", "notifying"}
    \/ \E t \in Tasks : caller[t] \in {"pushed", "threw"}
    \/ phase = "stopping"

(***************************************************************************)
(* When the destructor returns, the queue is empty, no task is half done   *)
(* and every task that was ever pushed, the ones whose enqueue threw       *)
(* included, has run.                                                      *)
(***************************************************************************)
DrainedOnDestroy ==
  phase = "destroyed" =>
    /\ tasks = {}
    /\ activeTasks = 0
    /\ done = {t \in Tasks : caller[t] # "idle"}

(***************************************************************************)
(* A task whose enqueue returned normally eventually runs, even if other   *)
(* calls failed to start a worker.                                         *)
(***************************************************************************)
AcceptedTasksRun ==
  \A t \in Tasks : caller[t] \in {"pushed", "returned"} ~> t \in done

(* Once begun, the destructor returns.                                     *)
DestroyTerminates == phase = "stopping" ~> phase = "destroyed"

(* The tasks whose enqueue did not throw.                                  *)
Accepted == {t \in Tasks : caller[t] \in {"pushed", "returned"}}

(***************************************************************************)
(* The pool implements module TaskPool: a task is running from its pop to  *)
(* the moment its future is ready, and closing lasts from the stop flag to *)
(* the last join.                                                          *)
(***************************************************************************)
Abstract == INSTANCE TaskPool WITH
  queued   <- tasks,
  accepted <- Accepted,
  running  <- {current[w] : w \in {v \in Workers : pc[v] = "running"}},
  finished <- done,
  phase    <- IF phase = "alive" THEN "open"
              ELSE IF phase = "destroyed" THEN "closed" ELSE "closing"

ImplementsTaskPool == Abstract!Spec

(* Its safety part, which needs no fairness of the pool.                   *)
ImplementsTaskPoolSafety == Abstract!Safety
=============================================================================
