---------------------------- MODULE PeriodicTask ----------------------------
(***************************************************************************)
(* ThreadPool::periodicTask: a detached thread that, until it sees         *)
(* stopPeriodic, enqueues the function, waits at most one interval for it, *)
(* and sleeps one interval.  The pool is the one of module ThreadPool; the *)
(* rounds of the loop are calls of enqueue like any other.                 *)
(*                                                                         *)
(* Definitions whose name ends in _faulty are plausible mistakes that no   *)
(* specification uses; they show that the properties notice them.          *)
(*                                                                         *)
(* The owner may destroy the pool, and nothing lets the destructor wait    *)
(* for the detached thread.  A loop that goes on to use the pool then is   *)
(* "astray": what the code does is not defined, and the model stops.       *)
(***************************************************************************)
EXTENDS ThreadPool, Sequences

CONSTANT Rounds  (* the successive submissions of the loop; its length     *)
                 (* bounds the rounds that are explored                    *)

RoundTasks == {Rounds[i] : i \in DOMAIN Rounds}

ASSUME RoundsAssumption ==
  /\ Rounds \in Seq(Tasks)
  /\ Cardinality(RoundTasks) = Len(Rounds)

VARIABLES
  loop,      (* where the detached thread is                               *)
  round,     (* how many rounds it has begun                               *)
  timedOut,  (* rounds it reported as "annulée pour dépassement"           *)
  late       (* rounds it pushed after stopPeriodic was set                *)

loopVars == <<loop, round, timedOut, late>>
allVars == <<vars, loopVars>>

LoopStates ==
  {"check", "enqueue", "notify", "wait", "sleep", "exited", "astray"}

PeriodicInit ==
  /\ Init
  /\ loop = "check"
  /\ round = 0
  /\ timedOut = {}
  /\ late = {}

(* The pool is gone; or its destructor walks the vector of workers that
   enqueue is about to extend, without a lock in common.                   *)
Undefined ==
  \/ phase = "destroyed" /\ loop \in {"check", "enqueue", "notify"}
  \/ phase = "joining" /\ loop = "enqueue" /\ GrowsPool

GoAstray ==
  /\ Undefined
  /\ loop' = "astray"
  /\ UNCHANGED <<vars, round, timedOut, late>>

SeesStop_faulty == stopPeriodic /\ round = 0

(* The loop condition, read once per round.                                *)
SeesStop == stopPeriodic

Check ==
  /\ loop = "check" /\ ~Undefined
  /\ IF SeesStop
     THEN loop' = "exited" /\ UNCHANGED round
     ELSE round < Len(Rounds) /\ loop' = "enqueue" /\ round' = round + 1
  /\ UNCHANGED <<vars, timedOut, late>>

(* The call of enqueue; an exception goes to the catch, then to the sleep. *)
LoopEnqueue ==
  /\ loop = "enqueue" /\ ~Undefined
  /\ PushTask(Rounds[round])
  /\ loop' = IF caller'[Rounds[round]] = "pushed" THEN "notify" ELSE "sleep"
  /\ late' = IF stopPeriodic THEN late \cup {Rounds[round]} ELSE late
  /\ UNCHANGED <<round, timedOut>>

LoopNotify ==
  /\ loop = "notify" /\ ~Undefined
  /\ EnqueueNotify(Rounds[round])
  /\ loop' = "wait"
  /\ UNCHANGED <<round, timedOut, late>>

(* The task has run, or was destroyed with the queue (a broken promise).   *)
FutureReady == Rounds[round] \in done \/ phase = "destroyed"

WaitEnds ==
  /\ loop = "wait" /\ FutureReady
  /\ loop' = "sleep"
  /\ UNCHANGED <<vars, round, timedOut, late>>

WaitTimesOut_faulty ==
  /\ loop = "wait" /\ ~FutureReady
  /\ loop' = "sleep"
  /\ UNCHANGED <<vars, round, timedOut, late>>

(* The interval is over first: a message, and nothing else.  The task stays
   where it is.                                                            *)
WaitTimesOut ==
  /\ loop = "wait" /\ ~FutureReady
  /\ loop' = "sleep"
  /\ timedOut' = timedOut \cup {Rounds[round]}
  /\ UNCHANGED <<vars, round, late>>

Sleep ==
  /\ loop = "sleep"
  /\ loop' = "check"
  /\ UNCHANGED <<vars, round, timedOut, late>>

LoopStep ==
  \/ Check \/ LoopEnqueue \/ LoopNotify \/ WaitEnds \/ WaitTimesOut \/ Sleep
  \/ GoAstray

OtherTasks == Tasks \ RoundTasks

(* The owner and the other callers keep to the order of ThreadPool!Next;
   of the loop they know nothing.                                          *)
PoolStep ==
  \/ \E t \in OtherTasks : Enqueue(t) \/ EnqueueNotify(t)
  \/ \E w \in Workers : WorkerStep(w) \/ SpuriousWake(w)
  \/ StopPeriodicTasks
  \/ SetStop /\ \A t \in OtherTasks : caller[t] # "pushed"
  \/ NotifyAll \/ JoinAll

PeriodicNext ==
  /\ loop # "astray"
  /\ LoopStep \/ (PoolStep /\ UNCHANGED loopVars)

(***************************************************************************)
(* The detached thread runs: every wait and every sleep of it is bounded   *)
(* by the interval.  The workers are owed nothing here: a task may last    *)
(* longer than any interval.                                               *)
(***************************************************************************)
PeriodicSafety == PeriodicInit /\ [][PeriodicNext]_allVars

PeriodicSpec == PeriodicSafety /\ WF_allVars(LoopStep)
-----------------------------------------------------------------------------
PeriodicTypeOK ==
  /\ TypeOK
  /\ loop \in LoopStates
  /\ round \in 0 .. Len(Rounds)
  /\ timedOut \subseteq RoundTasks
  /\ late \subseteq RoundTasks

(***************************************************************************)
(* stopPeriodicTasks takes effect at the loop condition only, yet it lets  *)
(* at most one more round through, whatever the workers do.                *)
(***************************************************************************)
AtMostOneLate == Cardinality(late) <= 1

(***************************************************************************)
(* The loop waits for a round before it begins the next, so the rounds it  *)
(* leaves unfinished behind it are the ones it reported as cancelled and   *)
(* the ones whose enqueue threw after the push.                            *)
(***************************************************************************)
UnfinishedWereReported ==
  \A i \in 1 .. round - 1 :
    \/ Rounds[i] \in done \cup timedOut
    \/ caller[Rounds[i]] = "threw"

(***************************************************************************)
(* When the destructor returns although the loop goes on, the only task    *)
(* that was pushed and has not run is one that the loop pushed after the   *)
(* stop: the draining covers every other.                                  *)
(***************************************************************************)
OnlyLateIsLost ==
  phase = "destroyed" => {t \in Tasks : caller[t] # "idle"} \ done \subseteq late

(***************************************************************************)
(* Once stopPeriodicTasks was called or the destructor begun, the detached *)
(* thread ends, or has gone on into the destroyed pool.                    *)
(***************************************************************************)
LoopEnds == stopPeriodic ~> loop \in {"exited", "astray"}
=============================================================================
