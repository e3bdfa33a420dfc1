-------------------------- MODULE ThreadPoolProofs --------------------------
(***************************************************************************)
(* Proofs about ThreadPool for every set of tasks, every priority and any  *)
(* number of workers.  Each invariant below is inductive together with the *)
(* ones proved before it.                                                  *)
(***************************************************************************)
EXTENDS ThreadPool, FiniteSetTheorems, TLAPS

USE DEF flags, hands, ledger, SetStop

(* The pool in the hands of an owner who observes no order among calls.    *)
AnyUse ==
  \/ \E t \in Tasks : PushTask(t) \/ EnqueueNotify(t)
  \/ \E w \in Workers : WorkerStep(w) \/ SpuriousWake(w)
  \/ StopPeriodicTasks \/ SetStop \/ NotifyAll \/ JoinAll

LEMMA NextIsAnyUse == [Next]_vars => [AnyUse]_vars
BY DEF Next, AnyUse, Enqueue, BeginDestroy, Terminated

(***************************************************************************)
(* Sizes and workers: nothing outside of Workers is ever created.          *)
(***************************************************************************)
LEMMA LimitFacts ==
  /\ Limit \in Nat \ {0}
  /\ ThreadCount <= Limit
  /\ MaxThreads <= Limit
BY PoolAssumption DEF PoolAssumption, Limit

(***************************************************************************)
(* What notify_one does to the workers: each stays where it is or goes     *)
(* from "blocked" to "ready", and if any was blocked one becomes ready.    *)
(***************************************************************************)
LEMMA WakeOneFacts ==
  ASSUME NEW f \in [Workers -> WorkerStates],
         NEW g \in WakeOne(f)
  PROVE  /\ g \in [Workers -> WorkerStates]
         /\ \A w \in Workers :
              g[w] = f[w] \/ (f[w] = "blocked" /\ g[w] = "ready")
         /\ (\E w \in Workers : f[w] = "blocked")
              => \E w \in Workers : g[w] = "ready"
<1>1. CASE \E w \in Workers : f[w] = "blocked"
  <2>1. PICK w \in Workers : f[w] = "blocked" /\ g = [f EXCEPT ![w] = "ready"]
    BY <1>1 DEF WakeOne
  <2> QED
    BY <2>1 DEF WorkerStates
<1>2. CASE ~ \E w \in Workers : f[w] = "blocked"
  <2>1. g = f
    BY <1>2 DEF WakeOne
  <2> QED
    BY <1>2, <2>1
<1> QED
  BY <1>1, <1>2

(* A worker holds a task exactly from its pop to its decrement.            *)
HoldsTask ==
  \A w \in Workers :
    current[w] # NoTask <=> pc[w] \in {"running", "finished"}

(* The workers beyond workers.size() are the ones that do not exist yet.   *)
Born == \A w \in Workers : pc[w] = "unborn" <=> w >= workers

Typed == TypeOK /\ HoldsTask /\ Born

LEMMA TypedInit == Init => Typed
<1> SUFFICES ASSUME Init PROVE Typed
  OBVIOUS
<1>1. pc \in [Workers -> WorkerStates]
  <2>1. \A w \in Workers :
          (IF w < ThreadCount THEN "ready" ELSE "unborn") \in WorkerStates
    BY DEF WorkerStates
  <2> QED
    BY <2>1 DEF Init
<1>2. workers \in 0 .. Limit
  BY LimitFacts, PoolAssumption DEF PoolAssumption, Init
<1>3. TypeOK
  <2>1. current \in [Workers -> Tasks \cup {NoTask}]
    BY DEF Init
  <2>2. caller \in [Tasks -> CallerStates]
    BY DEF Init, CallerStates
  <2>3. stop \in BOOLEAN /\ stopPeriodic \in BOOLEAN
    BY DEF Init
  <2>4. tasks \in SUBSET Tasks /\ done \in SUBSET Tasks
    BY DEF Init
  <2>5. activeTasks \in Int /\ phase \in Phases
    BY DEF Init, Phases
  <2> QED
    BY <1>1, <1>2, <2>1, <2>2, <2>3, <2>4, <2>5 DEF TypeOK
<1>4. HoldsTask
  BY DEF Init, HoldsTask
<1>5. Born
  BY PoolAssumption DEF PoolAssumption, Init, Born, Workers
<1> QED
  BY <1>3, <1>4, <1>5 DEF Typed

LEMMA TypedUse == Typed /\ [AnyUse]_vars => Typed'
<1> SUFFICES ASSUME Typed, [AnyUse]_vars PROVE Typed'
  OBVIOUS
<1> USE DEF Typed
<1>1. ASSUME NEW t \in Tasks, PushTask(t) PROVE Typed'
  <2>1. GrowsPool => workers \in Workers /\ workers + 1 \in 0 .. Limit
    BY LimitFacts, PoolAssumption DEF PoolAssumption, TypeOK, GrowsPool, Workers
  <2>2. TypeOK'
    BY <1>1, <2>1
    DEF PushTask, CreateThread, TypeOK, WorkerStates, CallerStates
  <2>3. HoldsTask' /\ Born'
    <3>1. CASE GrowsPool /\ CreateThread
      <4>1. pc[workers] = "unborn"
        BY <2>1, <3>1 DEF TypeOK, Born
      <4>2. HoldsTask'
        BY <1>1, <2>1, <3>1, <4>1
        DEF PushTask, CreateThread, TypeOK, HoldsTask
      <4>3. Born'
        BY <2>1, <3>1, <4>1
        DEF CreateThread, TypeOK, Born, Workers
      <4> QED
        BY <4>2, <4>3
    <3>2. CASE UNCHANGED <<workers, pc>>
      BY <1>1, <3>2 DEF PushTask, HoldsTask, Born
    <3> QED
      BY <1>1, <3>1, <3>2 DEF PushTask
  <2> QED
    BY <2>2, <2>3
<1>2. ASSUME NEW t \in Tasks, EnqueueNotify(t) PROVE Typed'
  <2>1. /\ pc' \in [Workers -> WorkerStates]
        /\ \A w \in Workers :
             pc'[w] = pc[w] \/ (pc[w] = "blocked" /\ pc'[w] = "ready")
    BY <1>2, WakeOneFacts DEF EnqueueNotify, TypeOK
  <2>2. TypeOK'
    BY <1>2, <2>1 DEF EnqueueNotify, TypeOK, CallerStates
  <2>3. HoldsTask' /\ Born'
    BY <1>2, <2>1 DEF EnqueueNotify, HoldsTask, Born
  <2> QED
    BY <2>2, <2>3
<1>3. ASSUME NEW w \in Workers, Block(w) PROVE Typed'
  BY <1>3 DEF Block, TypeOK, HoldsTask, Born, WorkerStates
<1>4. ASSUME NEW w \in Workers, Exit(w) PROVE Typed'
  BY <1>4 DEF Exit, TypeOK, HoldsTask, Born, WorkerStates
<1>5. ASSUME NEW w \in Workers, Take(w) PROVE Typed'
  BY <1>5, PoolAssumption
  DEF PoolAssumption, Take, TypeOK, HoldsTask, Born, WorkerStates
<1>6. ASSUME NEW w \in Workers, Run(w) PROVE Typed'
  <2>1. current[w] \in Tasks
    BY <1>6 DEF Run, TypeOK, HoldsTask, Born
  <2> QED
    BY <1>6, <2>1 DEF Run, TypeOK, HoldsTask, Born, WorkerStates
<1>7. ASSUME NEW w \in Workers, Decrement(w) PROVE Typed'
  BY <1>7 DEF Decrement, TypeOK, HoldsTask, Born, WorkerStates
<1>8. ASSUME NEW w \in Workers, WorkerNotify(w) PROVE Typed'
  <2> DEFINE f == [pc EXCEPT ![w] = "ready"]
  <2>1. f \in [Workers -> WorkerStates]
    BY DEF TypeOK, WorkerStates
  <2>2. /\ pc' \in [Workers -> WorkerStates]
        /\ \A v \in Workers :
             pc'[v] = f[v] \/ (f[v] = "blocked" /\ pc'[v] = "ready")
    BY <1>8, <2>1, WakeOneFacts DEF WorkerNotify
  <2>3. TypeOK'
    BY <1>8, <2>2 DEF WorkerNotify, TypeOK
  <2>4. HoldsTask' /\ Born'
    BY <1>8, <2>2 DEF WorkerNotify, TypeOK, HoldsTask, Born
  <2> QED
    BY <2>3, <2>4
<1>9. ASSUME NEW w \in Workers, SpuriousWake(w) PROVE Typed'
  BY <1>9 DEF SpuriousWake, TypeOK, HoldsTask, Born, WorkerStates
<1>10. CASE StopPeriodicTasks
  BY <1>10 DEF StopPeriodicTasks, TypeOK, HoldsTask, Born
<1>11. CASE SetStop
  BY <1>11 DEF TypeOK, HoldsTask, Born, Phases
<1>12. CASE NotifyAll
  BY <1>12 DEF NotifyAll, TypeOK, HoldsTask, Born, Phases, WorkerStates
<1>13. CASE JoinAll
  BY <1>13 DEF JoinAll, TypeOK, HoldsTask, Born, Phases
<1>14. CASE UNCHANGED vars
  BY <1>14 DEF vars, TypeOK, HoldsTask, Born
<1> QED
  BY <1>1, <1>2, <1>3, <1>4, <1>5, <1>6, <1>7, <1>8, <1>9, <1>10, <1>11,
     <1>12, <1>13, <1>14
  DEF AnyUse, WorkerStep

LEMMA TypedNext == Typed /\ [Next]_vars => Typed'
BY TypedUse, NextIsAnyUse

LEMMA TypedAlways == Safety => []Typed
BY TypedInit, TypedNext, PTL DEF Safety

(***************************************************************************)
(* Type correctness of the pool, in every interleaving of ThreadPool.hpp.  *)
(***************************************************************************)
THEOREM TypeCorrect == Safety => []TypeOK
<1>1. Typed => TypeOK
  BY DEF Typed
<1> QED
  BY <1>1, TypedAlways, PTL

-----------------------------------------------------------------------------
(***************************************************************************)
(* The stages of ~ThreadPool, and what they exclude.                       *)
(***************************************************************************)
Closing ==
  /\ stop <=> phase # "alive"
  /\ phase # "alive" => \A t \in Tasks : caller[t] # "pushed"
  /\ \A w \in Workers : pc[w] = "exited" => stop /\ tasks = {}
  /\ phase \in {"joining", "destroyed"} => \A w \in Workers : pc[w] # "blocked"
  /\ phase = "destroyed" => \A w \in Workers : pc[w] \in {"unborn", "exited"}

LEMMA ClosingInit == Init => Closing
BY DEF Init, Closing

LEMMA ClosingNext == Typed /\ Closing /\ [Next]_vars => Closing'
<1> SUFFICES ASSUME Typed, Closing, [Next]_vars PROVE Closing'
  OBVIOUS
<1> USE DEF Typed
<1>1. ASSUME NEW t \in Tasks, Enqueue(t) PROVE Closing'
  <2>1. ~stop /\ \A w \in Workers : pc[w] # "exited"
    BY <1>1 DEF Enqueue, Closing
  <2>2. \A w \in Workers : pc'[w] # "exited"
    BY <1>1, <2>1 DEF Enqueue, PushTask, CreateThread, TypeOK
  <2> QED
    BY <1>1, <2>1, <2>2 DEF Enqueue, PushTask, Closing
<1>2. ASSUME NEW t \in Tasks, EnqueueNotify(t) PROVE Closing'
  <2>1. phase = "alive"
    BY <1>2 DEF EnqueueNotify, Closing
  <2>2. \A w \in Workers :
          pc'[w] = pc[w] \/ (pc[w] = "blocked" /\ pc'[w] = "ready")
    BY <1>2, WakeOneFacts DEF EnqueueNotify, TypeOK
  <2> QED
    BY <1>2, <2>1, <2>2 DEF EnqueueNotify, Closing
<1>3. ASSUME NEW w \in Workers, Block(w) PROVE Closing'
  <2>1. phase = "alive"
    BY <1>3 DEF Block, EndsWait, Closing
  <2> QED
    BY <1>3, <2>1 DEF Block, TypeOK, Closing
<1>4. ASSUME NEW w \in Workers, Exit(w) PROVE Closing'
  BY <1>4 DEF Exit, LeavesLoop, TypeOK, Closing
<1>5. ASSUME NEW w \in Workers, Take(w) PROVE Closing'
  <2>1. tasks # {}
    BY <1>5 DEF Take, IsTop
  <2>2. phase # "destroyed"
    BY <1>5 DEF Take, Closing
  <2> QED
    BY <1>5, <2>1, <2>2 DEF Take, TypeOK, Closing
<1>6. ASSUME NEW w \in Workers, Run(w) PROVE Closing'
  BY <1>6 DEF Run, TypeOK, Closing
<1>7. ASSUME NEW w \in Workers, Decrement(w) PROVE Closing'
  BY <1>7 DEF Decrement, TypeOK, Closing
<1>8. ASSUME NEW w \in Workers, WorkerNotify(w) PROVE Closing'
  <2> DEFINE f == [pc EXCEPT ![w] = "ready"]
  <2>1. f \in [Workers -> WorkerStates]
    BY DEF TypeOK, WorkerStates
  <2>2. \A v \in Workers :
          pc'[v] = f[v] \/ (f[v] = "blocked" /\ pc'[v] = "ready")
    BY <1>8, <2>1, WakeOneFacts DEF WorkerNotify
  <2>3. phase # "destroyed"
    BY <1>8 DEF WorkerNotify, Closing
  <2>4. \A v \in Workers :
          /\ pc'[v] = "exited" => pc[v] = "exited"
          /\ pc'[v] = "blocked" => pc[v] = "blocked"
    BY <2>2 DEF TypeOK
  <2> QED
    BY <1>8, <2>3, <2>4 DEF WorkerNotify, Closing
<1>9. ASSUME NEW w \in Workers, SpuriousWake(w) PROVE Closing'
  BY <1>9 DEF SpuriousWake, TypeOK, Closing
<1>10. CASE StopPeriodicTasks
  BY <1>10 DEF StopPeriodicTasks, Closing
<1>11. CASE BeginDestroy
  BY <1>11 DEF BeginDestroy, Closing
<1>12. CASE NotifyAll
  BY <1>12 DEF NotifyAll, TypeOK, Closing
<1>13. CASE JoinAll
  BY <1>13 DEF JoinAll, Closing
<1>14. CASE UNCHANGED vars
  BY <1>14 DEF vars, Closing
<1> QED
  BY <1>1, <1>2, <1>3, <1>4, <1>5, <1>6, <1>7, <1>8, <1>9, <1>10, <1>11,
     <1>12, <1>13, <1>14
  DEF Next, WorkerStep, Terminated

(***************************************************************************)
(* A queued task has a worker to run it: enqueue starts one if there is    *)
(* none, before its caller can go on.                                      *)
(***************************************************************************)
Staffed ==
  /\ ThreadCount <= workers
  /\ tasks # {} => workers > 0
  /\ \A t \in Tasks : caller[t] = "pushed" => workers > 0

LEMMA StaffedInit == Init => Staffed
BY PoolAssumption DEF PoolAssumption, Init, Staffed

LEMMA StaffedUse == Typed /\ Staffed /\ [AnyUse]_vars => Staffed'
<1> SUFFICES ASSUME Typed, Staffed, [AnyUse]_vars PROVE Staffed'
  OBVIOUS
<1> USE DEF Typed
<1>1. ASSUME NEW t \in Tasks, PushTask(t) PROVE Staffed'
  <2>1. workers' >= workers /\ workers' \in Nat /\ workers \in Nat
    BY <1>1, LimitFacts DEF PushTask, CreateThread, TypeOK
  <2>2. workers' > 0
    BY <1>1, <2>1, LimitFacts, PoolAssumption
    DEF PoolAssumption, PushTask, CreateThread, GrowsPool, Limit,
        TypeOK, Staffed
  <2> QED
    BY <2>1, <2>2, PoolAssumption DEF PoolAssumption, Staffed
<1>2. ASSUME NEW t \in Tasks, EnqueueNotify(t) PROVE Staffed'
  BY <1>2 DEF EnqueueNotify, TypeOK, Staffed
<1>3. ASSUME NEW w \in Workers, WorkerStep(w) \/ SpuriousWake(w)
      PROVE  Staffed'
  <2>1. tasks' \subseteq tasks /\ UNCHANGED <<workers, caller>>
    BY <1>3
    DEF WorkerStep, Block, Exit, Take, Run, Decrement, WorkerNotify, SpuriousWake
  <2> QED
    BY <2>1 DEF Staffed
<1>4. CASE StopPeriodicTasks \/ SetStop \/ NotifyAll \/ JoinAll
  BY <1>4 DEF StopPeriodicTasks, NotifyAll, JoinAll, Staffed
<1>5. CASE UNCHANGED vars
  BY <1>5 DEF vars, Staffed
<1> QED
  BY <1>1, <1>2, <1>3, <1>4, <1>5 DEF AnyUse

LEMMA StaffedNext == Typed /\ Staffed /\ [Next]_vars => Staffed'
BY StaffedUse, NextIsAnyUse

(***************************************************************************)
(* A worker that is neither asleep, gone nor still to be created.          *)
(***************************************************************************)
Awake(f, w) == f[w] \in {"ready", "running", "finished", "notifying"}

LEMMA SomeoneAwake ==
  ASSUME Typed, Closing, Staffed, tasks # {},
         \A w \in Workers : pc[w] # "blocked"
  PROVE  \E w \in Workers : Awake(pc, w)
<1>1. workers > 0 /\ workers \in 0 .. Limit
  BY DEF Typed, TypeOK, Staffed
<1>2. 0 \in Workers
  BY LimitFacts DEF Workers
<1>3. pc[0] \in WorkerStates /\ pc[0] # "unborn"
  BY <1>1, <1>2 DEF Typed, TypeOK, Born
<1>4. pc[0] # "exited" /\ pc[0] # "blocked"
  BY <1>2 DEF Closing
<1> QED
  BY <1>2, <1>3, <1>4 DEF WorkerStates, Awake

(***************************************************************************)
(* The property with its first disjunct named, as the proof needs it.      *)
(***************************************************************************)
WakeupPending ==
  tasks # {} =>
    \/ \E w \in Workers : Awake(pc, w)
    \/ \E t \in Tasks : caller[t] \in {"pushed", "threw"}
    \/ phase = "stopping"

LEMMA WakeupNext ==
  Typed /\ Closing /\ Staffed /\ Typed' /\ Closing' /\ Staffed'
  /\ WakeupPending /\ [Next]_vars
  => WakeupPending'
<1> SUFFICES ASSUME Typed, Closing, Staffed, Typed', Closing', Staffed',
                    WakeupPending, [Next]_vars, tasks' # {}
             PROVE  \/ \E w \in Workers : Awake(pc', w)
                    \/ \E t \in Tasks : caller'[t] \in {"pushed", "threw"}
                    \/ phase' = "stopping"
  BY DEF WakeupPending, Awake
<1> USE DEF Typed
<1>1. ASSUME NEW t \in Tasks, Enqueue(t)
      PROVE  caller'[t] \in {"pushed", "threw"}
  BY <1>1 DEF Enqueue, PushTask, TypeOK
<1>2. ASSUME NEW t \in Tasks, EnqueueNotify(t)
      PROVE  \E w \in Workers : Awake(pc', w)
  <2>1. CASE \E w \in Workers : pc[w] = "blocked"
    BY <1>2, <2>1, WakeOneFacts DEF EnqueueNotify, TypeOK, Awake
  <2>2. CASE \A w \in Workers : pc[w] # "blocked"
    <3>1. tasks # {} /\ pc' = pc
      BY <1>2, <2>2 DEF EnqueueNotify, WakeOne
    <3> QED
      BY <2>2, <3>1, SomeoneAwake DEF Awake
  <2> QED
    BY <2>1, <2>2
<1>3. ASSUME NEW w \in Workers, Block(w) \/ Exit(w) PROVE FALSE
  BY <1>3 DEF Block, Exit, EndsWait, LeavesLoop
<1>4. ASSUME NEW w \in Workers, Take(w) \/ Run(w) \/ Decrement(w)
      PROVE  Awake(pc', w)
  BY <1>4 DEF Take, Run, Decrement, TypeOK, Awake
<1>5. ASSUME NEW w \in Workers, WorkerNotify(w) PROVE Awake(pc', w)
  <2> DEFINE f == [pc EXCEPT ![w] = "ready"]
  <2>1. f \in [Workers -> WorkerStates] /\ f[w] = "ready"
    BY DEF TypeOK, WorkerStates
  <2>2. pc'[w] = "ready"
    BY <1>5, <2>1, WakeOneFacts DEF WorkerNotify
  <2> QED
    BY <2>2 DEF Awake
<1>6. ASSUME NEW w \in Workers, SpuriousWake(w) PROVE Awake(pc', w)
  BY <1>6 DEF SpuriousWake, TypeOK, Awake
<1>7. CASE StopPeriodicTasks
  BY <1>7 DEF StopPeriodicTasks, WakeupPending
<1>8. CASE BeginDestroy
  BY <1>8 DEF BeginDestroy
<1>9. CASE NotifyAll
  <2>1. tasks # {}
    BY <1>9 DEF NotifyAll
  <2>2. \A w \in Workers : pc'[w] # "blocked"
    BY <1>9 DEF NotifyAll
  <2>3. \A w \in Workers : pc[w] \notin {"unborn", "exited"} => Awake(pc', w)
    BY <1>9 DEF NotifyAll, TypeOK, WorkerStates, Awake
  <2>4. 0 \in Workers /\ pc[0] # "unborn"
    BY <2>1, LimitFacts DEF Staffed, TypeOK, Born, Workers
  <2>5. pc[0] # "exited"
    BY <2>1, <2>4 DEF Closing
  <2> QED
    BY <2>3, <2>4, <2>5
<1>10. CASE JoinAll
  <2>1. tasks # {} /\ UNCHANGED <<pc, caller>> /\ phase # "stopping"
    BY <1>10 DEF JoinAll
  <2> QED
    BY <2>1 DEF WakeupPending
<1>11. CASE UNCHANGED vars
  BY <1>11 DEF vars, WakeupPending
<1> QED
  BY <1>1, <1>2, <1>3, <1>4, <1>5, <1>6, <1>7, <1>8, <1>9, <1>10, <1>11
  DEF Next, WorkerStep, Terminated

(***************************************************************************)
(* No lost wakeup: notify_one after the push, outside the lock, is enough, *)
(* for any number of workers and callers.                                  *)
(***************************************************************************)
THEOREM NoWakeupIsLost == Safety => []NoLostWakeup
<1> DEFINE IInv == Typed /\ Closing /\ Staffed /\ WakeupPending
<1>1. Init => IInv
  BY TypedInit, ClosingInit, StaffedInit DEF Init, WakeupPending
<1>2. IInv /\ [Next]_vars => IInv'
  BY TypedNext, ClosingNext, StaffedNext, WakeupNext
<1>3. IInv => NoLostWakeup
  BY DEF WakeupPending, Awake, NoLostWakeup
<1> QED
  BY <1>1, <1>2, <1>3, PTL DEF Safety
-----------------------------------------------------------------------------
LEMMA BusyFinite ==
  /\ IsFiniteSet(Workers)
  /\ IsFiniteSet(Busy)
  /\ Cardinality(Busy) \in Nat
<1>1. IsFiniteSet(Workers)
  BY LimitFacts, FS_Interval DEF Workers
<1>2. IsFiniteSet(Busy)
  BY <1>1, FS_Subset DEF Busy
<1> QED
  BY <1>1, <1>2, FS_CardinalityType

LEMMA ActiveUse == Typed /\ ActiveCount /\ [AnyUse]_vars => ActiveCount'
<1> SUFFICES ASSUME Typed, ActiveCount, [AnyUse]_vars PROVE ActiveCount'
  OBVIOUS
<1> USE DEF Typed
<1>1. ASSUME NEW w \in Workers, Take(w) PROVE ActiveCount'
  <2>1. w \notin Busy /\ Busy' = Busy \cup {w}
    BY <1>1 DEF Take, TypeOK, Busy
  <2>2. Cardinality(Busy') = Cardinality(Busy) + 1
    BY <2>1, BusyFinite, FS_AddElement
  <2> QED
    BY <1>1, <2>2 DEF Take, ActiveCount
<1>2. ASSUME NEW w \in Workers, Decrement(w) PROVE ActiveCount'
  <2>1. w \in Busy /\ Busy' = Busy \ {w}
    BY <1>2 DEF Decrement, TypeOK, Busy
  <2>2. Cardinality(Busy') = Cardinality(Busy) - 1
    BY <2>1, BusyFinite, FS_RemoveElement
  <2> QED
    BY <1>2, <2>2 DEF Decrement, ActiveCount
<1>3. ASSUME Busy' = Busy, activeTasks' = activeTasks PROVE ActiveCount'
  BY <1>3 DEF ActiveCount
<1>4. ASSUME NEW t \in Tasks, PushTask(t) PROVE Busy' = Busy
  <2>1. GrowsPool => workers \in Workers /\ pc[workers] = "unborn"
    BY LimitFacts, PoolAssumption
    DEF PoolAssumption, TypeOK, GrowsPool, Born, Workers
  <2> QED
    BY <1>4, <2>1 DEF PushTask, CreateThread, TypeOK, Busy
<1>5. ASSUME NEW t \in Tasks, EnqueueNotify(t) PROVE Busy' = Busy
  BY <1>5, WakeOneFacts DEF EnqueueNotify, TypeOK, Busy
<1>6. ASSUME NEW w \in Workers,
             Block(w) \/ Exit(w) \/ Run(w) \/ SpuriousWake(w)
      PROVE  Busy' = Busy
  BY <1>6 DEF Block, Exit, Run, SpuriousWake, TypeOK, Busy
<1>7. ASSUME NEW w \in Workers, WorkerNotify(w) PROVE Busy' = Busy
  <2> DEFINE f == [pc EXCEPT ![w] = "ready"]
  <2>1. f \in [Workers -> WorkerStates]
    BY DEF TypeOK, WorkerStates
  <2>2. \A v \in Workers :
          pc'[v] = f[v] \/ (f[v] = "blocked" /\ pc'[v] = "ready")
    BY <1>7, <2>1, WakeOneFacts DEF WorkerNotify
  <2> QED
    BY <1>7, <2>2 DEF WorkerNotify, TypeOK, Busy
<1>8. CASE NotifyAll
  <2>1. Busy' = Busy
    BY <1>8 DEF NotifyAll, TypeOK, Busy
  <2> QED
    BY <1>3, <1>8, <2>1 DEF NotifyAll
<1>9. CASE StopPeriodicTasks \/ SetStop \/ JoinAll \/ UNCHANGED vars
  BY <1>9 DEF StopPeriodicTasks, JoinAll, vars, ActiveCount, Busy
<1>10. ASSUME NEW t \in Tasks, PushTask(t) \/ EnqueueNotify(t)
       PROVE  ActiveCount'
  BY <1>3, <1>4, <1>5, <1>10 DEF PushTask, EnqueueNotify
<1>11. ASSUME NEW w \in Workers,
              Block(w) \/ Exit(w) \/ Run(w) \/ SpuriousWake(w) \/ WorkerNotify(w)
       PROVE  ActiveCount'
  BY <1>3, <1>6, <1>7, <1>11
  DEF Block, Exit, Run, SpuriousWake, WorkerNotify
<1> QED
  BY <1>1, <1>2, <1>8, <1>9, <1>10, <1>11 DEF AnyUse, WorkerStep

LEMMA ActiveNext == Typed /\ ActiveCount /\ [Next]_vars => ActiveCount'
BY ActiveUse, NextIsAnyUse

LEMMA ActiveInit == Init => ActiveCount
<1> SUFFICES ASSUME Init PROVE ActiveCount
  OBVIOUS
<1>1. Busy = {}
  BY DEF Init, Busy
<1> QED
  BY <1>1, FS_EmptySet DEF Init, ActiveCount

(***************************************************************************)
(* The atomic counter is exact at every moment, although one side updates  *)
(* it under the lock and the other does not.                               *)
(***************************************************************************)
THEOREM ActiveCountIsExact == Safety => []ActiveCount
<1>1. Init => Typed /\ ActiveCount
  BY TypedInit, ActiveInit
<1>2. Typed /\ ActiveCount /\ [Next]_vars => (Typed /\ ActiveCount)'
  BY TypedNext, ActiveNext
<1> QED
  BY <1>1, <1>2, PTL DEF Safety
-----------------------------------------------------------------------------
(* The task is in the hands of a worker.                                   *)
InHand(t) == \E w \in Workers : pc[w] = "running" /\ current[w] = t

(***************************************************************************)
(* Every task is accounted for: before its enqueue it is nowhere, after    *)
(* the push it is queued, in a worker's hands, or done.                    *)
(***************************************************************************)
Accounted ==
  \A t \in Tasks :
    /\ caller[t] = "idle" =>
         /\ t \notin tasks \cup done
         /\ \A w \in Workers : current[w] # t
    /\ caller[t] # "idle" => t \in tasks \cup done \/ InHand(t)

LEMMA AccountedInit == Init => Accounted
BY PoolAssumption DEF PoolAssumption, Init, Accounted

LEMMA AccountedUse == Typed /\ Accounted /\ [AnyUse]_vars => Accounted'
<1> SUFFICES ASSUME Typed, Accounted, [AnyUse]_vars PROVE Accounted'
  OBVIOUS
<1> USE DEF Typed
(* Workers that hold a task are not disturbed by wakeups.                  *)
<1>1. ASSUME UNCHANGED <<tasks, done, current>>,
             \A t \in Tasks : caller'[t] = "idle" <=> caller[t] = "idle",
             \A w \in Workers : pc[w] = "running" => pc'[w] = "running"
      PROVE  Accounted'
  BY <1>1 DEF Accounted, InHand
<1>2. ASSUME NEW t \in Tasks, PushTask(t) PROVE Accounted'
  <2>1. GrowsPool => workers \in Workers /\ pc[workers] = "unborn"
    BY LimitFacts, PoolAssumption
    DEF PoolAssumption, TypeOK, GrowsPool, Born, Workers
  <2>2. \A w \in Workers : pc[w] = "running" => pc'[w] = "running"
    BY <1>2, <2>1 DEF PushTask, CreateThread, TypeOK
  <2>3. \A u \in Tasks : u # t => caller'[u] = caller[u]
    BY <1>2 DEF PushTask, TypeOK
  <2>4. caller'[t] # "idle"
    BY <1>2 DEF PushTask, TypeOK
  <2>5. tasks' = tasks \cup {t} /\ UNCHANGED <<done, current>>
    BY <1>2 DEF PushTask
  <2> QED
    BY <2>2, <2>3, <2>4, <2>5 DEF Accounted, InHand
<1>3. ASSUME NEW t \in Tasks, EnqueueNotify(t) PROVE Accounted'
  <2>1. \A w \in Workers : pc[w] = "running" => pc'[w] = "running"
    BY <1>3, WakeOneFacts DEF EnqueueNotify, TypeOK
  <2>2. \A u \in Tasks : caller'[u] = "idle" <=> caller[u] = "idle"
    BY <1>3 DEF EnqueueNotify, TypeOK
  <2> QED
    BY <1>1, <1>3, <2>1, <2>2 DEF EnqueueNotify
<1>4. ASSUME NEW w \in Workers, Block(w) \/ Exit(w) \/ SpuriousWake(w)
      PROVE  Accounted'
  BY <1>1, <1>4 DEF Block, Exit, SpuriousWake, TypeOK
<1>5. ASSUME NEW w \in Workers, Take(w) PROVE Accounted'
  <2>1. PICK t \in Tasks : /\ IsTop(t)
                           /\ tasks' = tasks \ {t}
                           /\ current' = [current EXCEPT ![w] = t]
    BY <1>5 DEF Take
  <2>2. pc' = [pc EXCEPT ![w] = "running"] /\ pc[w] = "ready"
    BY <1>5 DEF Take
  <2>3. InHand(t)'
    BY <2>1, <2>2 DEF TypeOK, InHand
  <2>4. ASSUME NEW u \in Tasks, u # t, InHand(u) PROVE InHand(u)'
    BY <2>1, <2>2, <2>4 DEF TypeOK, InHand
  <2>5. caller[t] # "idle"
    BY <2>1 DEF IsTop, Accounted
  <2>6. UNCHANGED <<caller, done>>
    BY <1>5 DEF Take
  <2> QED
    BY <2>1, <2>3, <2>4, <2>5, <2>6 DEF TypeOK, Accounted
<1>6. ASSUME NEW w \in Workers, Run(w) PROVE Accounted'
  <2>1. /\ pc[w] = "running"
        /\ pc' = [pc EXCEPT ![w] = "finished"]
        /\ done' = done \cup {current[w]}
        /\ UNCHANGED <<tasks, current, caller>>
    BY <1>6 DEF Run
  <2>2. ASSUME NEW u \in Tasks, u # current[w], InHand(u) PROVE InHand(u)'
    BY <2>1, <2>2 DEF TypeOK, InHand
  <2> QED
    BY <2>1, <2>2 DEF Accounted
<1>7. ASSUME NEW w \in Workers, Decrement(w) PROVE Accounted'
  <2>1. /\ pc[w] = "finished"
        /\ pc' = [pc EXCEPT ![w] = "notifying"]
        /\ current' = [current EXCEPT ![w] = NoTask]
        /\ UNCHANGED <<tasks, done, caller>>
    BY <1>7 DEF Decrement
  <2>2. ASSUME NEW u \in Tasks, InHand(u) PROVE InHand(u)'
    BY <2>1, <2>2 DEF TypeOK, InHand
  <2> QED
    BY <2>1, <2>2, PoolAssumption DEF PoolAssumption, TypeOK, Accounted
<1>8. ASSUME NEW w \in Workers, WorkerNotify(w) PROVE Accounted'
  <2> DEFINE f == [pc EXCEPT ![w] = "ready"]
  <2>1. f \in [Workers -> WorkerStates]
    BY DEF TypeOK, WorkerStates
  <2>2. \A v \in Workers :
          pc'[v] = f[v] \/ (f[v] = "blocked" /\ pc'[v] = "ready")
    BY <1>8, <2>1, WakeOneFacts DEF WorkerNotify
  <2>3. \A v \in Workers : pc[v] = "running" => pc'[v] = "running"
    BY <1>8, <2>2 DEF WorkerNotify, TypeOK
  <2> QED
    BY <1>1, <1>8, <2>3 DEF WorkerNotify
<1>9. CASE StopPeriodicTasks \/ SetStop \/ JoinAll \/ UNCHANGED vars
  BY <1>1, <1>9 DEF StopPeriodicTasks, JoinAll, vars
<1>10. CASE NotifyAll
  BY <1>1, <1>10 DEF NotifyAll, TypeOK
<1> QED
  BY <1>2, <1>3, <1>4, <1>5, <1>6, <1>7, <1>8, <1>9, <1>10
  DEF AnyUse, WorkerStep

LEMMA AccountedNext == Typed /\ Accounted /\ [Next]_vars => Accounted'
BY AccountedUse, NextIsAnyUse

(***************************************************************************)
(* ~ThreadPool returns to a queue that is empty and to tasks that have all *)
(* run, those whose enqueue threw after the push included.                 *)
(***************************************************************************)
THEOREM DestructorDrains == Safety => []DrainedOnDestroy
<1> DEFINE IInv == Typed /\ Closing /\ Staffed /\ ActiveCount /\ Accounted
<1>1. Init => IInv
  BY TypedInit, ClosingInit, StaffedInit, ActiveInit, AccountedInit
<1>2. IInv /\ [Next]_vars => IInv'
  BY TypedNext, ClosingNext, StaffedNext, ActiveNext, AccountedNext
<1>3. IInv => DrainedOnDestroy
  <2> SUFFICES ASSUME IInv, phase = "destroyed"
               PROVE  /\ tasks = {}
                      /\ activeTasks = 0
                      /\ done = {t \in Tasks : caller[t] # "idle"}
    BY DEF DrainedOnDestroy
  <2>1. \A w \in Workers : pc[w] \in {"unborn", "exited"}
    BY DEF Closing
  <2>2. tasks = {}
    <3>1. ASSUME tasks # {} PROVE \E w \in Workers : Awake(pc, w)
      BY <2>1, <3>1, SomeoneAwake
    <3> QED
      BY <2>1, <3>1 DEF Awake
  <2>3. Busy = {}
    BY <2>1 DEF Busy
  <2>4. activeTasks = 0
    BY <2>3, FS_EmptySet DEF ActiveCount
  <2>5. \A t \in Tasks : ~InHand(t)
    BY <2>1 DEF InHand
  <2>6. done \subseteq Tasks
    BY DEF Typed, TypeOK
  <2>7. done = {t \in Tasks : caller[t] # "idle"}
    BY <2>2, <2>5, <2>6 DEF Accounted
  <2> QED
    BY <2>2, <2>4, <2>7
<1> QED
  BY <1>1, <1>2, <1>3, PTL DEF Safety
-----------------------------------------------------------------------------
(***************************************************************************)
(* A task is in one place: not queued while a worker runs it, and never in *)
(* the hands of two workers.                                               *)
(***************************************************************************)
OnePlace ==
  /\ \A w \in Workers : pc[w] = "running" => current[w] \notin tasks
  /\ \A v, w \in Workers :
       pc[v] = "running" /\ pc[w] = "running" /\ current[v] = current[w]
         => v = w

LEMMA OnePlaceInit == Init => OnePlace
BY DEF Init, OnePlace

LEMMA OnePlaceNext == Typed /\ Accounted /\ OnePlace /\ [Next]_vars => OnePlace'
<1> SUFFICES ASSUME Typed, Accounted, OnePlace, [Next]_vars PROVE OnePlace'
  OBVIOUS
<1> USE DEF Typed
<1>1. ASSUME tasks' \subseteq tasks, UNCHANGED current,
             \A w \in Workers : pc'[w] = "running" => pc[w] = "running"
      PROVE  OnePlace'
  BY <1>1 DEF OnePlace
<1>2. ASSUME NEW t \in Tasks, Enqueue(t) PROVE OnePlace'
  <2>1. GrowsPool => workers \in Workers
    BY LimitFacts, PoolAssumption DEF PoolAssumption, TypeOK, GrowsPool, Workers
  <2>2. \A w \in Workers : pc'[w] = "running" => pc[w] = "running"
    BY <1>2, <2>1 DEF Enqueue, PushTask, CreateThread, TypeOK
  <2>3. \A w \in Workers : current[w] # t
    BY <1>2 DEF Enqueue, PushTask, Accounted
  <2>4. tasks' = tasks \cup {t} /\ UNCHANGED current
    BY <1>2 DEF Enqueue, PushTask
  <2> QED
    BY <2>2, <2>3, <2>4 DEF OnePlace
<1>3. ASSUME NEW t \in Tasks, EnqueueNotify(t) PROVE OnePlace'
  <2>1. \A w \in Workers : pc'[w] = "running" => pc[w] = "running"
    BY <1>3, WakeOneFacts DEF EnqueueNotify, TypeOK
  <2> QED
    BY <1>1, <1>3, <2>1 DEF EnqueueNotify
<1>4. ASSUME NEW w \in Workers,
             Block(w) \/ Exit(w) \/ Run(w) \/ SpuriousWake(w)
      PROVE  OnePlace'
  BY <1>1, <1>4 DEF Block, Exit, Run, SpuriousWake, TypeOK
<1>5. ASSUME NEW w \in Workers, Take(w) PROVE OnePlace'
  <2>1. PICK t \in Tasks : /\ t \in tasks
                           /\ tasks' = tasks \ {t}
                           /\ current' = [current EXCEPT ![w] = t]
    BY <1>5 DEF Take, IsTop
  <2>2. pc' = [pc EXCEPT ![w] = "running"]
    BY <1>5 DEF Take
  <2> QED
    BY <2>1, <2>2 DEF TypeOK, OnePlace
<1>6. ASSUME NEW w \in Workers, Decrement(w) PROVE OnePlace'
  BY <1>6 DEF Decrement, TypeOK, OnePlace
<1>7. ASSUME NEW w \in Workers, WorkerNotify(w) PROVE OnePlace'
  <2> DEFINE f == [pc EXCEPT ![w] = "ready"]
  <2>1. f \in [Workers -> WorkerStates]
    BY DEF TypeOK, WorkerStates
  <2>2. \A v \in Workers :
          pc'[v] = f[v] \/ (f[v] = "blocked" /\ pc'[v] = "ready")
    BY <1>7, <2>1, WakeOneFacts DEF WorkerNotify
  <2>3. \A v \in Workers : pc'[v] = "running" => pc[v] = "running"
    BY <2>2 DEF TypeOK
  <2> QED
    BY <1>1, <1>7, <2>3 DEF WorkerNotify
<1>8. CASE StopPeriodicTasks \/ BeginDestroy \/ JoinAll \/ UNCHANGED vars
  BY <1>1, <1>8 DEF StopPeriodicTasks, BeginDestroy, JoinAll, vars
<1>9. CASE NotifyAll
  BY <1>1, <1>9 DEF NotifyAll, TypeOK
<1> QED
  BY <1>2, <1>3, <1>4, <1>5, <1>6, <1>7, <1>8, <1>9
  DEF Next, WorkerStep, Terminated

Inv == Typed /\ Closing /\ Staffed /\ Accounted /\ OnePlace

LEMMA InvAlways == Safety => []Inv
<1>1. Init => Inv
  BY TypedInit, ClosingInit, StaffedInit, AccountedInit, OnePlaceInit DEF Inv
<1>2. Inv /\ [Next]_vars => Inv'
  BY TypedNext, ClosingNext, StaffedNext, AccountedNext, OnePlaceNext DEF Inv
<1> QED
  BY <1>1, <1>2, PTL DEF Safety

(***************************************************************************)
(* The joins of ~ThreadPool wait for nobody who might not come: after      *)
(* notify_all no worker sleeps again, so that none needs a spurious wakeup *)
(* to end, and as long as the queue is not empty a worker is left to drain *)
(* it.                                                                     *)
(***************************************************************************)
JoinsNeedNoLuck ==
  /\ phase = "joining" => \A w \in Workers : pc[w] # "blocked"
  /\ phase # "alive" /\ tasks # {} =>
       \E w \in Workers : pc[w] \notin {"unborn", "exited"}

(***************************************************************************)
(* The destructor joins awake workers only, and while something is queued  *)
(* one that can take it: the first worker is born with the first task and  *)
(* leaves its loop only when the queue is empty.                           *)
(***************************************************************************)
THEOREM JoinsAreAwaited == Safety => []JoinsNeedNoLuck
<1>1. Inv => JoinsNeedNoLuck
  <2> SUFFICES ASSUME Inv PROVE JoinsNeedNoLuck
    OBVIOUS
  <2>1. phase = "joining" => \A w \in Workers : pc[w] # "blocked"
    BY DEF Inv, Closing
  <2>2. ASSUME tasks # {}
        PROVE  \E w \in Workers : pc[w] \notin {"unborn", "exited"}
    <3>1. 0 \in Workers
      BY LimitFacts DEF Workers
    <3>2. pc[0] # "unborn"
      BY <2>2, <3>1 DEF Inv, Typed, TypeOK, Staffed, Born
    <3>3. pc[0] # "exited"
      BY <2>2, <3>1 DEF Inv, Closing
    <3> QED
      BY <3>1, <3>2, <3>3
  <2> QED
    BY <2>1, <2>2 DEF JoinsNeedNoLuck
<1> QED
  BY <1>1, InvAlways, PTL
-----------------------------------------------------------------------------
(* The values that TaskPool's variables have in ThreadPool.                *)
RunningWorkers == {v \in Workers : pc[v] = "running"}

Running == {current[w] : w \in RunningWorkers}

AbstractPhase ==
  IF phase = "alive" THEN "open"
  ELSE IF phase = "destroyed" THEN "closed" ELSE "closing"

LEMMA AbstractStutter ==
  ASSUME UNCHANGED <<tasks, done, current>>, AbstractPhase' = AbstractPhase,
         Accepted' = Accepted,
         \A w \in Workers : pc'[w] = "running" <=> pc[w] = "running"
  PROVE  UNCHANGED Abstract!poolVars
<1>1. RunningWorkers' = RunningWorkers
  BY DEF RunningWorkers
<1>2. Running' = Running
  BY <1>1 DEF Running
<1> QED
  BY <1>2 DEF Abstract!poolVars, Running, RunningWorkers, AbstractPhase

(* Each running worker runs a task, so fewer than Limit tasks run when one
   worker does not.                                                        *)
LEMMA RoomToRun ==
  ASSUME NEW w \in Workers, pc[w] # "running"
  PROVE  Cardinality(Running) < Limit
<1> DEFINE f == [v \in RunningWorkers |-> current[v]]
<1>1. IsFiniteSet(Workers) /\ Cardinality(Workers) = Limit
  <2>1. 0 \in Int /\ Limit - 1 \in Int
    BY LimitFacts
  <2>2. IsFiniteSet(0 .. (Limit - 1))
    BY <2>1, FS_Interval
  <2>3. Cardinality(0 .. (Limit - 1))
          = IF 0 > Limit - 1 THEN 0 ELSE (Limit - 1) - 0 + 1
    BY <2>1, FS_Interval, Zenon
  <2> QED
    BY <2>2, <2>3, LimitFacts DEF Workers
<1>2. /\ IsFiniteSet(Workers \ {w})
      /\ Cardinality(Workers \ {w}) = Limit - 1
  BY <1>1, FS_RemoveElement
<1>3. RunningWorkers \subseteq Workers \ {w}
  BY DEF RunningWorkers
<1>4. /\ IsFiniteSet(RunningWorkers)
      /\ Cardinality(RunningWorkers) <= Limit - 1
  BY <1>2, <1>3, FS_Subset
<1>5. f \in Surjection(RunningWorkers, Running)
  BY DEF Surjection, Running
<1>6. /\ IsFiniteSet(Running)
      /\ Cardinality(Running) <= Cardinality(RunningWorkers)
  BY <1>4, <1>5, FS_Surjection
<1>7. Cardinality(Running) \in Nat /\ Cardinality(RunningWorkers) \in Nat
  BY <1>4, <1>6, FS_CardinalityType
<1> QED
  BY <1>4, <1>6, <1>7, LimitFacts

LEMMA SameCardinality ==
  ASSUME NEW S
  PROVE  Abstract!Cardinality(S) = Cardinality(S)
BY DEF Abstract!Cardinality, Cardinality

LEMMA StepRefines == Inv /\ [Next]_vars => [Abstract!Next]_Abstract!poolVars
<1> SUFFICES ASSUME Inv, [Next]_vars
             PROVE  Abstract!Next \/ UNCHANGED Abstract!poolVars
  OBVIOUS
<1> USE DEF Inv, Typed
<1>1. ASSUME NEW t \in Tasks, Enqueue(t)
      PROVE  Abstract!Submit(t) \/ Abstract!SubmitFails(t)
  <2>1. GrowsPool => workers \in Workers /\ pc[workers] = "unborn"
    BY LimitFacts, PoolAssumption
    DEF PoolAssumption, TypeOK, GrowsPool, Born, Workers
  <2>2. RunningWorkers' = RunningWorkers
    BY <1>1, <2>1
    DEF Enqueue, PushTask, CreateThread, TypeOK, RunningWorkers
  <2>3. Running' = Running
    BY <1>1, <2>2 DEF Enqueue, PushTask, Running
  <2>4. t \notin tasks \cup Running \cup done
    BY <1>1 DEF Enqueue, PushTask, Accounted, Running, RunningWorkers
  <2>5. /\ phase = "alive" /\ phase' = "alive"
        /\ tasks' = tasks \cup {t}
        /\ done' = done
    BY <1>1 DEF Enqueue, PushTask
  <2>6. caller[t] = "idle"
    BY <1>1 DEF Enqueue, PushTask
  <2>7. CASE caller' = [caller EXCEPT ![t] = "pushed"]
    <3>1. Accepted' = Accepted \cup {t}
      BY <2>7 DEF TypeOK, Accepted
    <3> QED
      BY <3>1, <2>3, <2>4, <2>5
      DEF Abstract!Submit, Abstract!Push, Running, RunningWorkers
  <2>8. CASE caller' = [caller EXCEPT ![t] = "threw"]
    <3>1. Accepted' = Accepted
      BY <2>6, <2>8 DEF TypeOK, Accepted
    <3> QED
      BY <3>1, <2>3, <2>4, <2>5
      DEF Abstract!SubmitFails, Abstract!Push, Running, RunningWorkers
  <2> QED
    BY <1>1, <2>7, <2>8 DEF Enqueue, PushTask
<1>2. ASSUME NEW w \in Workers, Take(w)
      PROVE  \E t \in Tasks : Abstract!Start(t)
  <2>1. PICK t \in Tasks : /\ IsTop(t)
                           /\ tasks' = tasks \ {t}
                           /\ current' = [current EXCEPT ![w] = t]
    BY <1>2 DEF Take
  <2>2. /\ pc[w] = "ready"
        /\ pc' = [pc EXCEPT ![w] = "running"]
        /\ UNCHANGED <<done, phase, caller>>
    BY <1>2 DEF Take
  <2>3. RunningWorkers' = RunningWorkers \cup {w}
    BY <2>2 DEF TypeOK, RunningWorkers
  <2>4. \A v \in RunningWorkers : current'[v] = current[v]
    BY <2>1, <2>2 DEF TypeOK, RunningWorkers
  <2>5. current'[w] = t
    BY <2>1 DEF TypeOK
  <2>6. Running' = Running \cup {t}
    BY <2>3, <2>4, <2>5 DEF Running
  <2>7. Cardinality(Running) < Limit
    BY <2>2, RoomToRun
  <2>8. /\ t \in tasks
        /\ \A u \in tasks : Priority[u] <= Priority[t]
        /\ tasks' = tasks \ {t}
        /\ done' = done
        /\ AbstractPhase' = AbstractPhase
        /\ Accepted' = Accepted
    BY <2>1, <2>2 DEF IsTop, AbstractPhase, Accepted
  <2>9. Abstract!Start(t)
    BY <2>6, <2>7, <2>8, SameCardinality, Zenon
    DEF Abstract!Start, Running, RunningWorkers, AbstractPhase
  <2> QED
    BY <2>9
<1>3. ASSUME NEW w \in Workers, Run(w)
      PROVE  \E t \in Tasks : Abstract!Finish(t)
  <2>1. /\ pc[w] = "running"
        /\ pc' = [pc EXCEPT ![w] = "finished"]
        /\ done' = done \cup {current[w]}
        /\ UNCHANGED <<tasks, current, phase, caller>>
    BY <1>3 DEF Run
  <2>2. PICK t \in Tasks : current[w] = t
    BY <2>1 DEF TypeOK, HoldsTask
  <2>3. RunningWorkers' = RunningWorkers \ {w}
    BY <2>1 DEF TypeOK, RunningWorkers
  <2>4. \A v \in RunningWorkers : v # w => current[v] # t
    BY <2>1, <2>2 DEF OnePlace, RunningWorkers
  <2>5. Running' = Running \ {t} /\ t \in Running
    BY <2>1, <2>2, <2>3, <2>4 DEF Running, RunningWorkers
  <2>6. Abstract!Finish(t)
    BY <2>1, <2>2, <2>5 DEF Abstract!Finish, Accepted, Running, RunningWorkers
  <2> QED
    BY <2>6
<1>4. CASE BeginDestroy
  <2>1. /\ phase = "alive" /\ phase' = "stopping"
        /\ UNCHANGED <<tasks, done, pc, current, caller>>
    BY <1>4 DEF BeginDestroy
  <2> QED
    BY <2>1 DEF Abstract!Next, Abstract!Close, Accepted
<1>5. CASE JoinAll
  <2>1. /\ phase = "joining" /\ phase' = "destroyed"
        /\ \A w \in Workers : pc[w] \in {"unborn", "exited"}
        /\ UNCHANGED <<tasks, done, pc, current, caller>>
    BY <1>5 DEF JoinAll
  <2>2. ASSUME tasks # {} PROVE FALSE
    BY <2>1, <2>2, SomeoneAwake DEF Awake
  <2>3. Running = {} /\ RunningWorkers = {}
    BY <2>1 DEF Running, RunningWorkers
  <2> QED
    BY <2>1, <2>2, <2>3
    DEF Abstract!Next, Abstract!Closed, Accepted, Running, RunningWorkers
<1>6. ASSUME NEW t \in Tasks, EnqueueNotify(t)
      PROVE  UNCHANGED Abstract!poolVars
  <2>1. \A w \in Workers : pc'[w] = "running" <=> pc[w] = "running"
    BY <1>6, WakeOneFacts DEF EnqueueNotify, TypeOK
  <2>2. Accepted' = Accepted
    BY <1>6 DEF EnqueueNotify, Accepted, TypeOK
  <2> QED
    BY <1>6, <2>1, <2>2, AbstractStutter DEF EnqueueNotify, AbstractPhase
<1>7. ASSUME NEW w \in Workers, Block(w) \/ Exit(w) \/ SpuriousWake(w)
      PROVE  UNCHANGED Abstract!poolVars
  <2>1. \A v \in Workers : pc'[v] = "running" <=> pc[v] = "running"
    BY <1>7 DEF Block, Exit, SpuriousWake, TypeOK
  <2> QED
    BY <1>7, <2>1, AbstractStutter
    DEF Block, Exit, SpuriousWake, AbstractPhase, Accepted
<1>8. ASSUME NEW w \in Workers, Decrement(w) PROVE UNCHANGED Abstract!poolVars
  <2>1. /\ pc[w] = "finished"
        /\ pc' = [pc EXCEPT ![w] = "notifying"]
        /\ current' = [current EXCEPT ![w] = NoTask]
        /\ UNCHANGED <<tasks, done, phase, caller>>
    BY <1>8 DEF Decrement
  <2>2. RunningWorkers' = RunningWorkers
    BY <2>1 DEF TypeOK, RunningWorkers
  <2>3. \A v \in RunningWorkers : current'[v] = current[v]
    BY <2>1 DEF TypeOK, RunningWorkers
  <2>4. Running' = Running
    BY <2>2, <2>3 DEF Running
  <2> QED
    BY <2>1, <2>4 DEF Abstract!poolVars, Accepted, Running, RunningWorkers
<1>9. ASSUME NEW w \in Workers, WorkerNotify(w)
      PROVE  UNCHANGED Abstract!poolVars
  <2> DEFINE f == [pc EXCEPT ![w] = "ready"]
  <2>1. f \in [Workers -> WorkerStates]
    BY DEF TypeOK, WorkerStates
  <2>2. \A v \in Workers :
          pc'[v] = f[v] \/ (f[v] = "blocked" /\ pc'[v] = "ready")
    BY <1>9, <2>1, WakeOneFacts DEF WorkerNotify
  <2>3. \A v \in Workers : pc'[v] = "running" <=> pc[v] = "running"
    BY <1>9, <2>2 DEF WorkerNotify, TypeOK
  <2> QED
    BY <1>9, <2>3, AbstractStutter DEF WorkerNotify, AbstractPhase, Accepted
<1>10. CASE NotifyAll
  <2>1. \A v \in Workers : pc'[v] = "running" <=> pc[v] = "running"
    BY <1>10 DEF NotifyAll, TypeOK
  <2>2. phase = "stopping" /\ phase' = "joining"
    BY <1>10 DEF NotifyAll
  <2> QED
    BY <1>10, <2>1, <2>2, AbstractStutter
    DEF NotifyAll, AbstractPhase, Accepted
<1>11. CASE StopPeriodicTasks \/ UNCHANGED vars
  BY <1>11, AbstractStutter
  DEF StopPeriodicTasks, vars, AbstractPhase, Accepted
<1> QED
  BY <1>1, <1>2, <1>3, <1>4, <1>5, <1>6, <1>7, <1>8, <1>9, <1>10, <1>11
  DEF Next, WorkerStep, Terminated, Abstract!Next

(***************************************************************************)
(* Whatever the number of workers and tasks, and even when workers cannot  *)
(* be created, the pool does what TaskPool says: tasks start once, by      *)
(* priority, at most Limit at a time, and the destructor closes an empty   *)
(* pool.                                                                   *)
(***************************************************************************)
THEOREM PoolImplementsTaskPool == Safety => ImplementsTaskPoolSafety
<1>1. Init => Abstract!Init
  <2> SUFFICES ASSUME Init PROVE Abstract!Init
    OBVIOUS
  <2>1. \A w \in Workers : pc[w] # "running"
    BY DEF Init
  <2> QED
    BY <2>1 DEF Init, Abstract!Init, Accepted
<1>2. Inv /\ [Next]_vars => [Abstract!Next]_Abstract!poolVars
  BY StepRefines
<1> QED
  BY <1>1, <1>2, InvAlways, PTL
  DEF Safety, ImplementsTaskPoolSafety, Abstract!Safety
=============================================================================
