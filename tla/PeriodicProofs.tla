--------------------------- MODULE PeriodicProofs ---------------------------
(***************************************************************************)
(* The periodic task and isIdle, for any tasks, rounds and workers.  The   *)
(* loop and the owner together use the pool in ways that ThreadPool!Next   *)
(* does not allow (the loop pushes while the destructor works), so that    *)
(* what is needed of the pool is what AnyUse preserves.                    *)
(***************************************************************************)
EXTENDS IdleCheck, ThreadPoolProofs

USE DEF flags, hands, ledger, SetStop

LEMMA RoundFacts ==
  /\ Len(Rounds) \in Nat
  /\ \A i \in 1 .. Len(Rounds) : Rounds[i] \in Tasks /\ Rounds[i] \in RoundTasks
BY RoundsAssumption DEF RoundsAssumption, RoundTasks

LoopTyped ==
  /\ loop \in LoopStates
  /\ round \in 0 .. Len(Rounds)
  /\ timedOut \subseteq RoundTasks
  /\ late \subseteq RoundTasks
  /\ loop \in {"enqueue", "notify", "wait"} => round > 0

LEMMA CurrentRound ==
  ASSUME LoopTyped, loop \in {"enqueue", "notify", "wait"}
  PROVE  /\ round \in 1 .. Len(Rounds)
         /\ Rounds[round] \in Tasks /\ Rounds[round] \in RoundTasks
<1>1. round \in 1 .. Len(Rounds)
  BY RoundFacts DEF LoopTyped
<1> QED
  BY <1>1, RoundFacts

LEMMA LoopTypedInit == PeriodicInit => LoopTyped
BY RoundFacts DEF PeriodicInit, LoopTyped, LoopStates

LEMMA LoopTypedNext == LoopTyped /\ [PeriodicNext]_allVars => LoopTyped'
<1> SUFFICES ASSUME LoopTyped, [PeriodicNext]_allVars PROVE LoopTyped'
  OBVIOUS
<1>1. CASE UNCHANGED loopVars
  BY <1>1 DEF loopVars, LoopTyped
<1>2. CASE Check
  BY <1>2, RoundFacts DEF Check, LoopTyped, LoopStates
<1>3. CASE LoopEnqueue
  BY <1>3, CurrentRound DEF LoopEnqueue, LoopTyped, LoopStates
<1>4. CASE LoopNotify
  BY <1>4 DEF LoopNotify, LoopTyped, LoopStates
<1>5. CASE WaitEnds \/ Sleep \/ GoAstray
  BY <1>5 DEF WaitEnds, Sleep, GoAstray, LoopTyped, LoopStates
<1>6. CASE WaitTimesOut
  BY <1>6, CurrentRound DEF WaitTimesOut, LoopTyped, LoopStates
<1> QED
  BY <1>1, <1>2, <1>3, <1>4, <1>5, <1>6
  DEF PeriodicNext, LoopStep, allVars

(* Every step is a use of the pool, in whatever order.                     *)
LEMMA PeriodicIsUse == LoopTyped /\ [PeriodicNext]_allVars => [AnyUse]_vars
<1> SUFFICES ASSUME LoopTyped, [PeriodicNext]_allVars PROVE [AnyUse]_vars
  OBVIOUS
<1>1. CASE PoolStep
  <2>1. OtherTasks \subseteq Tasks
    BY DEF OtherTasks
  <2> QED
    BY <1>1, <2>1 DEF PoolStep, AnyUse, Enqueue
<1>2. CASE LoopEnqueue
  <2>1. PICK t \in Tasks : t = Rounds[round]
    BY <1>2, CurrentRound DEF LoopEnqueue
  <2>2. PushTask(t)
    BY <1>2, <2>1 DEF LoopEnqueue, PushTask, CreateThread
  <2> QED
    BY <2>2 DEF AnyUse
<1>3. CASE LoopNotify
  <2>1. PICK t \in Tasks : t = Rounds[round]
    BY <1>3, CurrentRound DEF LoopNotify
  <2>2. EnqueueNotify(t)
    BY <1>3, <2>1 DEF LoopNotify, EnqueueNotify
  <2> QED
    BY <2>2 DEF AnyUse
<1>4. CASE Check \/ WaitEnds \/ WaitTimesOut \/ Sleep \/ GoAstray
  BY <1>4 DEF Check, WaitEnds, WaitTimesOut, Sleep, GoAstray
<1>5. CASE UNCHANGED allVars
  BY <1>5 DEF allVars
<1> QED
  BY <1>1, <1>2, <1>3, <1>4, <1>5 DEF PeriodicNext, LoopStep

PeriodicTyped == Typed /\ LoopTyped

LEMMA PeriodicTypedInit == PeriodicInit => PeriodicTyped
BY TypedInit, LoopTypedInit DEF PeriodicInit, PeriodicTyped

LEMMA PeriodicTypedNext ==
  PeriodicTyped /\ [PeriodicNext]_allVars => PeriodicTyped'
BY LoopTypedNext, PeriodicIsUse, TypedUse DEF PeriodicTyped

(***************************************************************************)
(* Type correctness of the pool together with its periodic task.           *)
(***************************************************************************)
THEOREM PeriodicTypeCorrect == PeriodicSafety => []PeriodicTypeOK
<1>1. PeriodicTyped => PeriodicTypeOK
  BY DEF PeriodicTyped, Typed, LoopTyped, PeriodicTypeOK
<1> QED
  BY <1>1, PeriodicTypedInit, PeriodicTypedNext, PTL DEF PeriodicSafety
-----------------------------------------------------------------------------
(* The loop that pushed late saw no stop since; it will at its next check. *)
OneLate ==
  late # {} =>
    /\ stopPeriodic
    /\ loop # "enqueue"
    /\ \E t \in Tasks : late = {t}

(* The flag is never taken back.                                           *)
LEMMA StopStays ==
  ASSUME PeriodicTyped, [PeriodicNext]_allVars, stopPeriodic
  PROVE  stopPeriodic'
<1>1. [AnyUse]_vars
  BY PeriodicIsUse DEF PeriodicTyped
<1> QED
  BY <1>1
  DEF AnyUse, PushTask, EnqueueNotify, WorkerStep, Block, Exit, Take, Run,
      Decrement, WorkerNotify, SpuriousWake, StopPeriodicTasks, NotifyAll,
      JoinAll, vars

LEMMA OneLateNext ==
  PeriodicTyped /\ OneLate /\ [PeriodicNext]_allVars => OneLate'
<1> SUFFICES ASSUME PeriodicTyped, OneLate, [PeriodicNext]_allVars
             PROVE  OneLate'
  OBVIOUS
<1>1. CASE LoopEnqueue
  <2>1. late = {} /\ Rounds[round] \in Tasks
    BY <1>1, CurrentRound DEF LoopEnqueue, OneLate, PeriodicTyped
  <2>2. late' # {} => stopPeriodic /\ late' = {Rounds[round]}
    BY <1>1, <2>1 DEF LoopEnqueue
  <2>3. loop' # "enqueue"
    BY <1>1 DEF LoopEnqueue
  <2> QED
    BY <2>1, <2>2, <2>3, StopStays DEF OneLate
<1>2. CASE Check
  BY <1>2, StopStays DEF Check, SeesStop, OneLate
<1>3. CASE LoopNotify \/ WaitEnds \/ WaitTimesOut \/ Sleep \/ GoAstray
  <2>1. UNCHANGED late /\ loop' # "enqueue"
    BY <1>3 DEF LoopNotify, WaitEnds, WaitTimesOut, Sleep, GoAstray
  <2> QED
    BY <2>1, StopStays DEF OneLate
<1>4. CASE UNCHANGED loopVars
  BY <1>4, StopStays DEF loopVars, OneLate
<1> QED
  BY <1>1, <1>2, <1>3, <1>4 DEF PeriodicNext, LoopStep, allVars

(***************************************************************************)
(* At most one round is pushed after the stop, for any number of rounds.   *)
(***************************************************************************)
THEOREM OneRoundIsLate == PeriodicSafety => []AtMostOneLate
<1>1. PeriodicInit => OneLate
  BY DEF PeriodicInit, OneLate
<1>2. OneLate => AtMostOneLate
  <2>1. late = {} => Cardinality(late) = 0
    BY FS_EmptySet
  <2>2. ASSUME NEW t \in Tasks, late = {t} PROVE Cardinality(late) = 1
    BY <2>2, FS_Singleton
  <2> QED
    BY <2>1, <2>2 DEF OneLate, AtMostOneLate
<1> QED
  BY <1>1, <1>2, OneLateNext, PeriodicTypedInit, PeriodicTypedNext, PTL
  DEF PeriodicSafety
-----------------------------------------------------------------------------
(* How the rounds ended; the last one may have ended with the pool.        *)
Reported(i) ==
  Rounds[i] \in done \cup timedOut \/ caller[Rounds[i]] = "threw"

RoundsReported ==
  \A i \in 1 .. round :
    i < round \/ loop \in {"sleep", "check", "exited"} =>
      Reported(i) \/ (i = round /\ phase = "destroyed")

(* What was reported stays so, in all steps of the pool.                   *)
LEMMA ReportStays ==
  ASSUME PeriodicTyped, [PeriodicNext]_allVars, NEW t \in Tasks
  PROVE  /\ t \in done => t \in done'
         /\ caller[t] = "threw" => caller'[t] = "threw"
<1>1. [AnyUse]_vars
  BY PeriodicIsUse DEF PeriodicTyped
<1>2. ASSUME NEW u \in Tasks, PushTask(u) \/ EnqueueNotify(u)
      PROVE  /\ UNCHANGED <<done, phase>>
             /\ caller[t] = "threw" => caller'[t] = "threw"
  BY <1>2 DEF PushTask, EnqueueNotify, PeriodicTyped, Typed, TypeOK
<1> QED
  BY <1>1, <1>2
  DEF AnyUse, WorkerStep, Block, Exit, Take, Run, Decrement, WorkerNotify,
      SpuriousWake, StopPeriodicTasks, NotifyAll, JoinAll, vars

LEMMA PhaseStays ==
  ASSUME PeriodicTyped, [PeriodicNext]_allVars
  PROVE  phase = "destroyed" => phase' = "destroyed"
<1>1. [AnyUse]_vars
  BY PeriodicIsUse DEF PeriodicTyped
<1> QED
  BY <1>1
  DEF AnyUse, PushTask, EnqueueNotify, WorkerStep, Block, Exit, Take, Run,
      Decrement, WorkerNotify, SpuriousWake, StopPeriodicTasks, NotifyAll,
      JoinAll, vars

LEMMA ReportedNext ==
  PeriodicTyped /\ RoundsReported /\ [PeriodicNext]_allVars => RoundsReported'
<1> SUFFICES ASSUME PeriodicTyped, RoundsReported, [PeriodicNext]_allVars
             PROVE  RoundsReported'
  OBVIOUS
<1>1. timedOut \subseteq timedOut'
  BY DEF PeriodicNext, LoopStep, Check, LoopEnqueue, LoopNotify, WaitEnds,
         WaitTimesOut, Sleep, GoAstray, allVars, loopVars
<1>2. \A i \in 1 .. round : i \in 1 .. Len(Rounds) /\ Rounds[i] \in Tasks
  BY RoundFacts DEF PeriodicTyped, LoopTyped
<1>3. \A i \in 1 .. round : Reported(i) => Reported(i)'
  BY <1>1, <1>2, ReportStays DEF Reported
<1>4. phase = "destroyed" => phase' = "destroyed"
  BY PhaseStays
<1>5. \A i \in 1 .. round : i < round \/ i = round
  BY DEF PeriodicTyped, LoopTyped
<1>6. CASE UNCHANGED loopVars
  BY <1>3, <1>4, <1>6 DEF loopVars, RoundsReported
<1>7. CASE Check
  <2>1. phase # "destroyed" /\ loop = "check" /\ round \in Int
    BY <1>7 DEF Check, Undefined, PeriodicTyped, LoopTyped
  <2>2. \A i \in 1 .. round : Reported(i)'
    BY <1>3, <2>1 DEF RoundsReported
  <2>3. \/ round' = round
        \/ round' = round + 1 /\ loop' = "enqueue"
    BY <1>7 DEF Check
  <2> QED
    BY <2>1, <2>2, <2>3 DEF RoundsReported
<1>8. CASE LoopEnqueue
  <2>1. /\ UNCHANGED round
        /\ \/ loop' = "notify"
           \/ loop' = "sleep" /\ caller'[Rounds[round]] = "threw"
    <3>1. PICK t \in Tasks : t = Rounds[round]
      BY <1>8, CurrentRound DEF LoopEnqueue, PeriodicTyped
    <3>2. caller'[t] \in {"pushed", "threw"}
      BY <1>8, <3>1 DEF LoopEnqueue, PushTask, PeriodicTyped, Typed, TypeOK
    <3> QED
      BY <1>8, <3>1, <3>2 DEF LoopEnqueue
  <2>2. \A i \in 1 .. round : i = round => Reported(i)' \/ loop' = "notify"
    BY <2>1 DEF Reported
  <2> QED
    BY <1>3, <1>4, <1>5, <2>1, <2>2 DEF RoundsReported
<1>9. CASE WaitEnds \/ WaitTimesOut
  <2>1. /\ UNCHANGED <<round, phase>>
        /\ \A i \in 1 .. round :
             i = round => Reported(i)' \/ phase = "destroyed"
    BY <1>9 DEF WaitEnds, WaitTimesOut, FutureReady, Reported, vars
  <2> QED
    BY <1>3, <1>5, <2>1 DEF RoundsReported
<1>10. CASE LoopNotify \/ Sleep \/ GoAstray
  <2>1. /\ UNCHANGED round
        /\ loop' \in {"sleep", "check", "exited"} => loop = "sleep"
    BY <1>10 DEF LoopNotify, Sleep, GoAstray
  <2> QED
    BY <1>3, <1>4, <2>1 DEF RoundsReported
<1> QED
  BY <1>6, <1>7, <1>8, <1>9, <1>10 DEF PeriodicNext, LoopStep, allVars

(***************************************************************************)
(* The rounds that the loop leaves unfinished behind it are those that it  *)
(* reported as cancelled, and those whose enqueue threw after the push.    *)
(***************************************************************************)
THEOREM UnfinishedAreReported == PeriodicSafety => []UnfinishedWereReported
<1>1. PeriodicInit => RoundsReported
  BY DEF PeriodicInit, RoundsReported
<1>2. PeriodicTyped /\ RoundsReported => UnfinishedWereReported
  BY DEF PeriodicTyped, LoopTyped, RoundsReported, Reported,
         UnfinishedWereReported
<1> QED
  BY <1>1, <1>2, ReportedNext, PeriodicTypedInit, PeriodicTypedNext, PTL
  DEF PeriodicSafety
-----------------------------------------------------------------------------
(* What a worker that exits leaves behind comes after the stop.            *)
Ending ==
  /\ stop => stopPeriodic
  /\ stop <=> phase # "alive"
  /\ phase # "alive" => \A t \in OtherTasks : caller[t] # "pushed"
  /\ \A w \in Workers : pc[w] = "exited" => stop /\ tasks \subseteq late
  /\ phase = "destroyed" => \A w \in Workers : pc[w] \in {"unborn", "exited"}

LEMMA EndingPush ==
  ASSUME PeriodicTyped, Ending, NEW t \in Tasks, PushTask(t),
         phase # "destroyed", stop => t \notin OtherTasks,
         late' = IF stopPeriodic THEN late \cup {t} ELSE late
  PROVE  Ending'
<1>1. \A w \in Workers : pc'[w] = "exited" => pc[w] = "exited"
  BY DEF PushTask, CreateThread, PeriodicTyped, Typed, TypeOK
<1>2. /\ tasks' = tasks \cup {t} /\ UNCHANGED <<stop, stopPeriodic, phase>>
      /\ \A u \in Tasks \ {t} : caller'[u] = caller[u]
  BY DEF PushTask, PeriodicTyped, Typed, TypeOK
<1> QED
  BY <1>1, <1>2 DEF Ending, OtherTasks

LEMMA EndingNotify ==
  ASSUME PeriodicTyped, Ending, NEW t \in Tasks, EnqueueNotify(t),
         phase # "destroyed", UNCHANGED late
  PROVE  Ending'
<1>1. \A w \in Workers : pc'[w] = "exited" => pc[w] = "exited"
  BY WakeOneFacts DEF EnqueueNotify, PeriodicTyped, Typed, TypeOK
<1>2. \A u \in OtherTasks : caller[u] # "pushed" => caller'[u] # "pushed"
  BY DEF EnqueueNotify, OtherTasks, PeriodicTyped, Typed, TypeOK
<1> QED
  BY <1>1, <1>2 DEF EnqueueNotify, Ending

LEMMA EndingWorker ==
  ASSUME PeriodicTyped, Ending, NEW w \in Workers,
         WorkerStep(w) \/ SpuriousWake(w), UNCHANGED late
  PROVE  Ending'
<1> USE DEF PeriodicTyped, Typed, TypeOK
<1>1. /\ pc[w] \notin {"unborn", "exited"}
      /\ UNCHANGED <<flags, caller, phase>> /\ tasks' \subseteq tasks
  BY DEF WorkerStep, Block, Exit, Take, Run, Decrement, WorkerNotify,
         SpuriousWake
<1>2. CASE Exit(w)
  BY <1>1, <1>2 DEF Exit, LeavesLoop, Ending
<1>3. CASE WorkerNotify(w)
  <2> DEFINE f == [pc EXCEPT ![w] = "ready"]
  <2>1. f \in [Workers -> WorkerStates]
    BY DEF WorkerStates
  <2>2. \A v \in Workers :
          pc'[v] = f[v] \/ (f[v] = "blocked" /\ pc'[v] = "ready")
    BY <1>3, <2>1, WakeOneFacts DEF WorkerNotify
  <2>3. \A v \in Workers : pc'[v] = "exited" => pc[v] = "exited"
    BY <2>2
  <2> QED
    BY <1>1, <2>3 DEF Ending
<1>4. CASE Block(w) \/ Take(w) \/ Run(w) \/ Decrement(w) \/ SpuriousWake(w)
  <2>1. \A v \in Workers : pc'[v] = "exited" => pc[v] = "exited"
    BY <1>4 DEF Block, Take, Run, Decrement, SpuriousWake
  <2> QED
    BY <1>1, <2>1 DEF Ending
<1> QED
  BY <1>2, <1>3, <1>4 DEF WorkerStep

LEMMA EndingNext ==
  PeriodicTyped /\ Ending /\ [PeriodicNext]_allVars => Ending'
<1> SUFFICES ASSUME PeriodicTyped, Ending, [PeriodicNext]_allVars
             PROVE  Ending'
  OBVIOUS
<1>1. CASE LoopEnqueue
  <2>1. PICK t \in Tasks : t = Rounds[round] /\ t \notin OtherTasks
    BY <1>1, CurrentRound DEF LoopEnqueue, PeriodicTyped, OtherTasks
  <2>2. PushTask(t)
    BY <1>1, <2>1 DEF LoopEnqueue, PushTask, CreateThread
  <2>3. /\ phase # "destroyed"
        /\ late' = IF stopPeriodic THEN late \cup {t} ELSE late
    BY <1>1, <2>1 DEF LoopEnqueue, Undefined
  <2> QED
    BY <2>1, <2>2, <2>3, EndingPush
<1>2. CASE LoopNotify
  <2>1. PICK t \in Tasks : t = Rounds[round]
    BY <1>2, CurrentRound DEF LoopNotify, PeriodicTyped
  <2>2. EnqueueNotify(t)
    BY <1>2, <2>1 DEF LoopNotify, EnqueueNotify
  <2> QED
    BY <1>2, <2>2, EndingNotify DEF LoopNotify, Undefined
<1>3. CASE Check \/ WaitEnds \/ WaitTimesOut \/ Sleep \/ GoAstray
  BY <1>3 DEF Check, WaitEnds, WaitTimesOut, Sleep, GoAstray, vars, Ending
<1>4. CASE PoolStep /\ UNCHANGED loopVars
  <2>1. UNCHANGED late
    BY <1>4 DEF loopVars
  <2>2. ASSUME NEW t \in OtherTasks, Enqueue(t) PROVE Ending'
    <3>1. /\ \A w \in Workers : pc[w] # "exited"
          /\ ~stop /\ phase = "alive"
      BY <2>2 DEF Enqueue, Ending
    <3>2. /\ \A w \in Workers : pc'[w] # "exited"
          /\ UNCHANGED <<stop, stopPeriodic, phase>>
      BY <2>2, <3>1
      DEF Enqueue, PushTask, CreateThread, PeriodicTyped, Typed, TypeOK
    <3> QED
      BY <3>1, <3>2 DEF Ending
  <2>3. ASSUME NEW t \in OtherTasks, EnqueueNotify(t) PROVE Ending'
    <3>1. phase # "destroyed" /\ t \in Tasks
      BY <2>3 DEF EnqueueNotify, Ending, OtherTasks
    <3> QED
      BY <2>1, <2>3, <3>1, EndingNotify
  <2>4. CASE \/ StopPeriodicTasks \/ JoinAll
             \/ SetStop /\ \A t \in OtherTasks : caller[t] # "pushed"
    BY <2>1, <2>4 DEF StopPeriodicTasks, JoinAll, Ending
  <2>5. CASE NotifyAll
    BY <2>1, <2>5 DEF NotifyAll, Ending
  <2> QED
    BY <1>4, <2>1, <2>2, <2>3, <2>4, <2>5, EndingWorker DEF PoolStep
<1>5. CASE UNCHANGED allVars
  BY <1>5 DEF allVars, loopVars, vars, Ending
<1> QED
  BY <1>1, <1>2, <1>3, <1>4, <1>5 DEF PeriodicNext, LoopStep

(***************************************************************************)
(* What the destructor leaves undone was pushed after the stop.            *)
(***************************************************************************)
THEOREM OnlyLateRoundIsLost == PeriodicSafety => []OnlyLateIsLost
<1> DEFINE IInv == PeriodicTyped /\ Ending /\ Staffed /\ Accounted
<1>1. PeriodicInit => IInv
  BY PeriodicTypedInit, StaffedInit, AccountedInit
  DEF PeriodicInit, Init, Ending
<1>2. IInv /\ [PeriodicNext]_allVars => IInv'
  BY PeriodicTypedNext, EndingNext, PeriodicIsUse, StaffedUse, AccountedUse
  DEF PeriodicTyped
<1>3. IInv => OnlyLateIsLost
  <2> SUFFICES ASSUME IInv, phase = "destroyed",
                      NEW t \in Tasks, caller[t] # "idle", t \notin done
               PROVE  t \in late
    BY DEF OnlyLateIsLost
  <2>1. t \in tasks
    BY DEF Ending, Accounted, InHand
  <2>2. 0 \in Workers /\ pc[0] # "unborn"
    BY <2>1, LimitFacts
    DEF PeriodicTyped, Typed, TypeOK, Born, Staffed, Workers
  <2> QED
    BY <2>1, <2>2 DEF Ending
<1> QED
  BY <1>1, <1>2, <1>3, PTL DEF PeriodicSafety
-----------------------------------------------------------------------------
(* A step that takes no task out of the queue makes no worker busy.        *)
LEMMA BusyOnlyByPop ==
  ASSUME Typed, [AnyUse]_vars, tasks \subseteq tasks', Busy = {}
  PROVE  Busy' = {}
<1> USE DEF Typed, TypeOK, Busy
<1>1. ASSUME NEW t \in Tasks, PushTask(t) PROVE Busy' = {}
  BY <1>1 DEF PushTask, CreateThread
<1>2. ASSUME NEW t \in Tasks, EnqueueNotify(t) PROVE Busy' = {}
  BY <1>2, WakeOneFacts DEF EnqueueNotify
<1>3. ASSUME NEW w \in Workers, WorkerStep(w) \/ SpuriousWake(w)
      PROVE  Busy' = {}
  <2>1. CASE WorkerNotify(w)
    <3> DEFINE f == [pc EXCEPT ![w] = "ready"]
    <3>1. f \in [Workers -> WorkerStates]
      BY DEF WorkerStates
    <3>2. \A v \in Workers :
            pc'[v] = f[v] \/ (f[v] = "blocked" /\ pc'[v] = "ready")
      BY <2>1, <3>1, WakeOneFacts DEF WorkerNotify
    <3> QED
      BY <3>2
  <2>2. CASE Take(w)
    BY <2>2 DEF Take, IsTop
  <2>3. CASE Block(w) \/ Exit(w) \/ SpuriousWake(w)
    BY <2>3 DEF Block, Exit, SpuriousWake
  <2>4. CASE Run(w) \/ Decrement(w)
    BY <2>4 DEF Run, Decrement
  <2> QED
    BY <1>3, <2>1, <2>2, <2>3, <2>4 DEF WorkerStep
<1>4. CASE StopPeriodicTasks \/ SetStop \/ JoinAll \/ UNCHANGED vars
  BY <1>4 DEF StopPeriodicTasks, JoinAll, vars
<1>5. CASE NotifyAll
  BY <1>5 DEF NotifyAll
<1> QED
  BY <1>1, <1>2, <1>3, <1>4, <1>5 DEF AnyUse

(* Between the reads nobody is busy, until a worker pops a task.           *)
CallInv ==
  /\ check = "between" /\ ~popped => Busy = {} /\ (tasks = {} => wasIdle)
  /\ OnlyPopMisleadsIdle

LEMMA IdleIsPeriodic ==
  [IdleNext]_<<allVars, idleVars>> => [PeriodicNext]_allVars
BY DEF IdleNext, ReadCounter, ReadQueue

LEMMA CallNext ==
  PeriodicTyped /\ ActiveCount /\ CallInv /\ [IdleNext]_<<allVars, idleVars>>
    => CallInv'
<1> SUFFICES ASSUME PeriodicTyped, ActiveCount, CallInv,
                    [IdleNext]_<<allVars, idleVars>>
             PROVE  CallInv'
  OBVIOUS
<1>1. CASE ReadCounter
  <2>1. CounterAllows => Busy = {}
    BY BusyFinite, FS_EmptySet DEF CounterAllows, ActiveCount
  <2>2. Busy' = Busy /\ tasks' = tasks
    BY <1>1 DEF ReadCounter, allVars, vars, Busy
  <2> QED
    BY <1>1, <2>1, <2>2 DEF ReadCounter, CallInv, Idle, OnlyPopMisleadsIdle
<1>2. CASE ReadQueue
  BY <1>2 DEF ReadQueue, CallInv, OnlyPopMisleadsIdle
<1>3. CASE PeriodicNext /\ Meanwhile
  <2>1. CASE check = "between" /\ ~popped'
    <3>1. ~popped /\ tasks \subseteq tasks' /\ Busy = {}
      BY <1>3, <2>1 DEF Meanwhile, CallInv
    <3>2. [AnyUse]_vars
      BY <1>3, PeriodicIsUse DEF PeriodicTyped
    <3>3. Busy' = {}
      BY <3>1, <3>2, BusyOnlyByPop DEF PeriodicTyped
    <3> QED
      BY <1>3, <2>1, <3>1, <3>3 DEF Meanwhile, CallInv, OnlyPopMisleadsIdle
  <2>2. CASE check # "between" \/ popped'
    BY <1>3, <2>2 DEF Meanwhile, CallInv, OnlyPopMisleadsIdle
  <2> QED
    BY <2>1, <2>2
<1>4. CASE UNCHANGED <<allVars, idleVars>>
  BY <1>4 DEF allVars, idleVars, vars, CallInv, OnlyPopMisleadsIdle, Busy
<1> QED
  BY <1>1, <1>2, <1>3, <1>4 DEF IdleNext

(***************************************************************************)
(* What isIdle's answer is worth, for any pool and any periodic task.      *)
(***************************************************************************)
THEOREM IdleAnswer == IdleSafety => [](IdleTypeOK /\ OnlyPopMisleadsIdle)
<1> DEFINE IInv == PeriodicTyped /\ ActiveCount /\ CallInv /\ IdleTypeOK
<1>1. IdleInit => IInv
  BY PeriodicTypedInit, ActiveInit
  DEF IdleInit, PeriodicInit, CallInv, OnlyPopMisleadsIdle, IdleTypeOK
<1>2. IInv /\ [IdleNext]_<<allVars, idleVars>> => IInv'
  <2>1. IInv /\ [IdleNext]_<<allVars, idleVars>> => IdleTypeOK'
    BY DEF IdleNext, ReadCounter, ReadQueue, Meanwhile, Idle, IdleTypeOK,
           idleVars
  <2> QED
    BY <2>1, PeriodicTypedNext, IdleIsPeriodic, PeriodicIsUse, ActiveUse,
       CallNext DEF PeriodicTyped
<1>3. IInv => IdleTypeOK /\ OnlyPopMisleadsIdle
  BY DEF CallInv
<1> QED
  BY <1>1, <1>2, <1>3, PTL DEF IdleSafety

(***************************************************************************)
(* The calls of isIdle change nothing: what is proved of the periodic task *)
(* holds while they are made.                                              *)
(***************************************************************************)
THEOREM IdleImplementsPeriodic == IdleSafety => PeriodicSafety
<1>1. IdleInit => PeriodicInit
  BY DEF IdleInit
<1> QED
  BY <1>1, IdleIsPeriodic, PTL DEF IdleSafety, PeriodicSafety
=============================================================================
