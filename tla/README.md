# Softadastra HTTP server: a TLA+ development

This directory holds specifications of the C++ HTTP server in `src/src`, the
TLC configurations that check them on small instances, and theorems about them
with proofs that TLAPS checks. The specifications are translations of the code.
Where a comment, a message or a test says something else than the code does, a
run shows it (section 6).

Contents: 1 the system, 2 the modules, 3 how they correspond to the code, 4 the
runs, 5 the proofs, 6 where the code and its words disagree, 7 what is not
modelled, 8 the plan.

## 1. The system

`main` loads a configuration, builds an `HTTPServer` and calls `run`. A client's
request goes through these parts:

    acceptor --accept handler--> thread pool --handle_client--> Session::run
      (an io_context thread)       (a worker)                       |
                                                      timer, async_read, async_write
                                                       (handlers, any io_context thread)
                                                                    |
                                     Session::handle_request -> Router -> handler -> controller

| Component | State | Operations | What is hard about it |
|---|---|---|---|
| **Thread pool** (`core/threading/ThreadPool.hpp`) | priority queue, worker vector, `stop`, `stopPeriodic`, atomic `activeTasks`, mutex `m`, condition variable | constructor, `enqueue`, worker loop, `periodicTask`, `isIdle`, `stopPeriodicTasks`, destructor | notifications after the unlock, a counter updated with and without the lock, `isIdle` without a lock, thread creation that throws after the push, draining on destruction, a detached loop |
| **HTTP server** (`core/http/HTTPServer.cpp`) | acceptor, `io_context`, io threads, the request pool, the router, in a certain order of declaration | constructor, `run`, `start_accept` and its handler, `handle_client`, destructor | an accept chain that re-arms itself from its own handler, exceptions that end the handler and the thread, `io_context::run` returning for lack of work, order of destruction |
| **Session** (`core/session/Session.cpp`) | socket, buffer, request; the 20 s timer held weakly by its handler | `run`, `read_request`, `handle_request`, `send_response`, `close_socket`, `waf_check_request` | timer, read and write handlers in different threads without a strand, a deadline that races the answer, exceptions of the controller |
| **Router and handlers** (`core/routing`) | `routes_` (an `unordered_map`), `params_` of each `DynamicRequestHandler` | `add_route`, `handle_request`, `set_params`, both `handle_request` of the handlers | one `params_` for all threads, the verdict of one candidate left in the response for the next, traversal order |
| **Home, product and test controllers** | none | registration, lambdas called by the handlers | unguarded `params.at` in `ProductController`, registrations that replace or hide each other |
| **User controller** (`UserController.hpp`) | a MySQL table | list, read, create, update | connection failures, lambdas that outlive the controller |
| **Configuration** (`config/Config.cpp`) | settings shared by all threads, a static flag | `loadConfig` (from `main`, `configure_routes` and `loadConfigOnce`), `getDbConnection` | a load that stops half way, several threads loading and reading at once without a lock |
| **Response** (`core/http/Response.hpp`) | none | builds responses | the static buffer of `gmtime` |
| **Containers** (`utils`), not used by the server | a vector, an `unordered_map` | push, pop, insert, lookup, erase, copies, moves, swap | self-assignment, an element whose copy throws, references kept across copies and moves |
| **Hash program**, **sample server**, **pages**, **unused routing code** | - | - | not part of the server |

What makes each part correct:

* *Thread pool*: an accepted task runs, once, no task before a queued one of
  higher priority; no wakeup is lost; the counter is exact; the destructor
  drains the queue and returns.
* *HTTP server*: it goes on accepting after a failed accept; an accepted
  connection gets its session or is closed; nothing uses the router or the
  `io_context` after they are destroyed; a server that can accept no more ends.
* *Session*: it ends, closes its socket, answers what it has handled unless the
  deadline intervened; a late timer does not cut a response.
* *Router*: a request reaches the route that fits it, the controller sees
  validated parameters, namely those of that request.
* *Configuration and user controller*: a connection uses loaded settings, all
  from one file; the settings come to rest.
* *Containers*: no element is lost but by an operation that says so; maps are values,
  which have nothing in common after a copy or a move, whatever references a caller kept.

The hazards behind these properties are listed, each at its line of the
source, in `PROJECT.json`.

## 2. The modules

| Module | Models | Composes |
|---|---|---|
| `TaskPool` | what a task pool promises, without threads or locks | - |
| `ThreadPool` | `ThreadPool.hpp`: workers, condition variable, `enqueue`, destructor | implements `TaskPool` |
| `PeriodicTask` | `periodicTask`, its detached loop, beside the destructor | extends `ThreadPool` |
| `IdleCheck` | `isIdle` called beside the workers and the loop | extends and implements `PeriodicTask` |
| `Service` | what the server promises a client, without threads, pool or accept chain | - |
| `HTTPServer` | `run`, accept chain, io threads, `handle_client`, destruction of the members | an instance of `TaskPool`; implements `Service` |
| `Exchange` | what a session promises its client | - |
| `Session` | one connection from `run` to its destruction | implements `Exchange` |
| `RouteTable` | what `configure_routes` and the four controllers register | - |
| `Dispatch` | `Router::handle_request`, both handlers, the refusals of `Session::handle_request` | instantiated with `RouteTable` |
| `UserQueries` | `Config`: the loads by `main` and by the threads that serve `GET /users` and `GET /users/{id}`, and how `UserController` connects and queries | - |
| `Stack` | the stack | - |
| `Dictionaries` | what a set of maps promises: independent dictionaries | - |
| `UnorderedMap` | the map: which elements its objects hold in memory, and a caller's reference | implements `Dictionaries` |
| `ThreadPoolProofs`, `PeriodicProofs`, `HTTPServerProofs`, `SessionProofs`, `DispatchProofs`, `UserQueriesProofs`, `ContainersProofs` | theorems | extend the modules they are about |
| `MC...` | model values and inputs for TLC | extend the modules they instantiate |

`HTTPServer` uses the abstract pool and not the detailed one: `ThreadPool`
implements `TaskPool`, its liveness included (run `pool`, theorem
`PoolImplementsTaskPool`), so what `HTTPServer` needs of a pool is what the code
provides. In the same way `HTTPServer` sees a session as "being served" until
it ends or throws; `Session` says what happens in between, `Exchange` what the
client may count on, and `Dispatch` what happens inside the handling of the
request.

**Names ending in `_faulty`.** Beside some definitions stands a variant with a
plausible mistake (a dropped guard, a missing notification, a swapped order).
No specification uses it. Each property is known to notice one of them:
`PROJECT.json` lists, under "mutants", which definition has to be replaced by
which variant for which property to fail in which run.

## 3. Correspondence with the code

`PROJECT.json` gives, under "map", the lines that each definition stands for.

**`ThreadPool`.** One action is one critical section on `m`, and what the code
does outside it is an action of its own: `PushTask` (lock, push, perhaps
`createThread`), `EnqueueNotify` (`notify_one` after the unlock), `Take` (leave
the wait, pop, `++activeTasks`), `Run` (`task.func()`), `Decrement` (the
unlocked `--activeTasks`), `WorkerNotify`. `Block` is the wait's release of the
mutex, atomic with the test of the predicate, as the standard has it;
`SpuriousWake` is there too. `PushTask` has a disjunct in which the creation of
the thread throws: the task stays in the queue and the notification is skipped.
The destructor is `BeginDestroy`, `NotifyAll`, `JoinAll`; as an object's lifetime
demands, no `enqueue` is in progress when it begins.

**`PeriodicTask`.** The loop is `Check`, `LoopEnqueue`, `LoopNotify`, then
`WaitEnds` or `WaitTimesOut`, then `Sleep`. A time-out changes nothing but
the report, as in the code. The history variables `timedOut` and `late` record
the reported rounds and those pushed after the stop flag. The owner and the other
callers keep to the pool's order (`PoolStep`), but nothing makes the destructor
wait for the detached thread. `enqueue` does not look at `stop`, so the loop may
push while the destructor drains; from the point where it would use a destroyed
pool, or extend the vector that the destructor is walking, the code's behaviour is
undefined (`Undefined`): the loop is then "astray" and the model stops.

**`IdleCheck`.** `activeTasks.load() == 0 && tasks.empty()` is two steps; the
second is skipped when the first is false. The read of the queue without the
lock is a data race, modelled as a read of the content at that moment. The
history variables record whether the pool was idle at some moment of the call,
and whether a worker has taken a task since its first read.

**`HTTPServer`.** `main` walks through `run` and the destruction of the members:
`Configure`, `FirstAccept`, `SpawnIoThread`, `JoinIoThreads`, `DestroyThreads`
(a joinable thread ends the process), `DestroyPool`, `DestroyRest`. The accept
chain is `AcceptCompletes`, `HandleAccept` or `HandleAcceptError`, `Rearm`. An
exception of `enqueue` leaves the handler: the thread's `io_context::run` ends
and `start_accept` is not called again (`acceptor = "broken"`), although the task
is in the queue. `io_context::run` returns everywhere once no accept and no
session is pending (`stopped`), also when that is the case only for a moment and a
worker is about to start a session. Boost's part is marked external.

**`Session`.** One session, its pool thread (`start`) and its handlers. A handler
whose operation has completed waits until one of the `live` io threads is free;
`HandlerThrows` and `OtherHandlerThrows` take threads away. `close_socket` ends
pending operations with an error and leaves completed ones as they are. The
timer's handler is in two steps, the test (`weak_timer.lock()`, `!ec`) and the
close, since another thread may act in between. Time is `elapsed`, in ticks of
5 s up to the 20 s of the code. `SocketUsers` names the code that is inside a call
that uses the socket; such calls are taken one after the other.

**`Dispatch`.** Strings are segments of paths. A route's pattern matches segment
by segment, as the regular expression that `convert_route_to_regex` builds does.
The first loop is `MatchExact`; the second takes the candidates of `order`, any
traversal order of the map, one per step: `Skip`, `RejectSanitized`,
`RejectType`, `RejectRaw`, or the assignment of `params_`, `BeginStore` and
`EndStore`. Between these two the map is empty: this and the last writer winning
are the outcomes of the data race with which the process goes on; one that
crashes the process is not modelled. The ghost variable `disturbed` remembers the
threads whose handler was written to by others. An exception that leaves a handler
ends the thread (`Die`).

**`RouteTable`.** The registrations in the order of `configure_routes`, folded by
`AddRoute`, which replaces an entry with the same method and pattern as
`routes_[{method, route}] = handler` does. Each route carries what its lambda
takes from the parameters, whether it catches what `params.at` throws, and how it
can answer. `MCDispatch` runs on this table.

**`UserQueries`.** A setting is represented by the content of `config.json` that
it was read from. `Assign` is one assignment of `loadConfig`; a file without some
key makes the load throw at that point (`LoadThrows`) and leaves what was assigned.
`main` loads, constructs the server, and loads again in
`configure_routes`. A request to a user route tests the flag of `loadConfigOnce`
(`CheckLoaded`), may load, sets the flag (`MarkLoaded`), reads the credentials one
by one, connects, reads the schema's name and queries. The file may change at
any time, so that `ReadFile` finds any content. Torn strings are not modelled: a
setting is read before or after an assignment. `createUser` and `updateUser` are
left out because nothing reaches them (section 6, number 5).

**`Stack`, `UnorderedMap`.** One action per operation that changes an object, with the
other object of a copy, move or swap as a parameter, itself included, and
`PopThrows`, in which the copy of the element fails. What the
standard containers do when a copy throws in the middle of an assignment is that of
libstdc++: the vector has assigned to some of its elements, or to all and not yet made the
rest; the hash table is empty.

A map's entries are elements in memory. An insertion takes an element that is not in use, a
copy makes elements of its own (perhaps in the place of those it overwrites, as libstdc++
does), a move hands them over. `Subscript` gives the caller a reference (`ref`), and
`Assign` is what `map[2] = "Blueberry"` of `test_unorderedMap.cpp:41` does with it, now or
after other operations. A reference to an element that was erased, cleared or assigned over
must not be used, and the model does not (`Destroyed`).

**Data left out.** Texts and headers of responses, log messages, the WAF's
regular expression (a request is "forbidden" or not), bodies (absent, text, JSON
object of strings, other JSON), bytes of the socket.

## 4. The runs

`P` is a run that passes, `V` one that TLC must find violated (section 6).

| Run | Properties | Instance |
|---|---|---|
| `pool` P | `TypeOK`, `ActiveCount`, `NoLostWakeup`, `DrainedOnDestroy`; `AcceptedTasksRun`, `DestroyTerminates`; `ImplementsTaskPool` | 3 tasks with two priorities, 1 worker growing to 3, thread creation may throw; about 51000 states |
| `periodic` P | `PeriodicTypeOK`, `AtMostOneLate`, `UnfinishedWereReported`, `OnlyLateIsLost`, `OnlyPopMisleadsIdle`; `LoopEnds` | 2 rounds and one other task, 1 worker growing to 2, creation may throw, the destructor and `isIdle` at any time; about 406000 states |
| `session` P | `TypeOK`, `OnlyDeadlineDropsReply`, `ClosedBeforeRelease`, `OnlyTimerSharesSocket`; `LateExpirySparesResponse`, `SessionEnds`, `ImplementsExchange` | 2 io threads, other sessions may end them, `run` may be slow; 4000 states |
| `dispatch` P | `TypeOK`, `ParamsValidated`, `UniqueMatchServed`, `SearchIsRight`, `OnlyOverlapMixesParams` | 2 threads, the server's table of 10 routes, 25 kinds of request, two of them received; about 41000 states |
| `server` P | `TypeOK`, `NothingOutlivesRouter`, `OnlyFailuresDrop`, `EnqueueIsWelcome`; `ImplementsService`, `KeepsAccepting`, `PooledIsTaken`, `EndsWithChain` | 3 connections, 2 io threads, a pool of 2, every failure; about 17000 states |
| `queries` P | `TypeOK`, `NoBuiltInUsed`, `MixingNeedsMishap`; `LoadsRunOut`, `SettingsSettle` | 2 requesters, two usable files and one without a password; about 38000 states |
| `containers` P | `NothingLost`; `ImplementsDictionaries` | 2 stacks, 4 elements; or 2 maps, 2 keys, 2 values, 4 elements in memory, a reference; about 24000 states |
| `idle_race` V | `IdleMeansIdle` | as `periodic` |
| `session_timeout` V | `TimeoutMeansNoRequest` | 1 io thread |
| `dispatch_mixup` V | `AnswersOwnParams` | 2 threads, the product routes |
| `dispatch_stale` V | `NotFoundMeansUnregistered` | 1 thread, the product routes |
| `dispatch_body` V | `MissingBodyMeansNoBody` | 1 thread, the `create` route |

**What they show.**

* *pool.* The notifications that are sent outside the lock suffice, the exact
  reason being that an awake worker tests the predicate again before it sleeps.
  A task whose `enqueue` returned runs even if another `enqueue` threw; a task
  whose own `enqueue` threw is promised nothing before the destructor runs or
  another wakeup comes, and `TaskPool` says so (`Promised`). The destructor
  returns without the help of spurious wakeups.
* *periodic.* Stopping takes effect at the loop condition: one more round may be
  pushed after `stopPeriodicTasks`, never two. A round that the loop has left
  behind unfinished was reported, or its `enqueue` threw. When the destructor
  returns although the loop goes on, that one late round is the only task that can be
  lost. `LoopEnds` needs no help from the workers. Although `isIdle` may be wrong, a
  worker that takes a task between its two reads is the only cause: no push, no new
  worker, no end of a task misleads it.
* *session.* A response is dropped only by the deadline and only after 20 s; the
  socket is closed by the session itself unless a controller threw; the session
  ends, unless the client never takes the response (there is no timer on the
  write) or no io thread is left. Once a single io thread is left, the `weak_ptr`
  protects the handling and the response from a late expiry. With two it does
  not: the handler can be past the test when the request arrives, or run beside
  the handling. It also takes that `run` has returned, for until then
  `read_request` itself keeps the timer. Two threads meet at the socket only when
  one of them is the timer's handler after the full 20 s. The client gets one
  response at most, and none is cut but by the deadline (`ImplementsExchange`).
* *dispatch.* The races on `params_` never let an unvalidated parameter through,
  and cost nothing to a request whose handler nobody else writes to. A request
  that a single route matches is handled by it and not refused. Where several
  match, whichever comes to handle the request spells the target or, if none does, fits
  it (`RightRouteHandles`); and a request is refused although a route would have taken
  it only because another one matched the path and rejected it first
  (`OnlyRejectersHide`, which bounds disagreement 4 of section 6; the two make up
  `SearchIsRight`). The lambdas that do not catch `out_of_range` never meet it, unless
  another thread wrote to their handler meanwhile or the path spells a placeholder.
* *containers.* Nothing is lost in whichever order stacks are copied, moved, swapped,
  assigned to themselves and interrupted, and a pop that throws has taken nothing. Seen
  from outside, each map is a function from keys to values of its own. A reference denotes
  one entry (`Places`), which it follows when the map is moved, and writing through it
  changes that entry and no other, in particular none of a copy that was made since.
* *queries.* Nothing that the constructor of `Config` made up is ever sent to a
  database: complete loads precede every request, and the flag is set after a
  complete load only. A connection may mix the settings of two
  files, but only after a load that threw half way, after two loads of different
  files at once, or when a load ran while it was made. Once a load by a request
  has succeeded, no thread begins another and those in progress run out
  (`LoadsRunOut`), so that the settings come to rest, and later changes of the file
  go unnoticed.
* *server.* Nothing uses the router after its destruction. A connection is cut
  off only after an exception. The owner keeps to what `ThreadPool` assumes of it: no
  handler can enqueue while the pool is being destroyed, and no connection is
  enqueued twice (`EnqueueIsWelcome`). Each connection is taken on and done with
  once, and nothing happens to any after the end (`ImplementsService`). A failed
  accept does not end the chain. A server whose chain broke ends and does not linger.

**Bounds.** `pool`: the code compares only "queue empty or not", "room for a
worker or not", "more urgent or not"; three tasks and three workers give each of
these both ways with a worker asleep, one running and one notifying. `periodic`:
two rounds put one unfinished round before the stop and one after it.
`session`: nothing depends on more than two threads in one session, since it has
at most two handlers queued at once. `dispatch`: every interference on `params_`
is between two threads; the budget of two requests lets each thread handle one,
or one thread two in a row; the threads are interchangeable, hence the symmetry
(the run has invariants only). `server`: three connections allow one in the
backlog, one in the pool, one served, and a pool limit of two lets one wait.
`queries`: two requesters can load at once, or one load while the other connects;
two usable files tell old from new, and one that fails in the middle leaves a
mixture. `containers`: stacks and maps share nothing, so that a behaviour of the instance
uses either; every operation has at most two objects; two keys tell one
entry from the others, and memory has room for all of them, so that nothing is refused
for lack of an element. The theorems cover all values.

**Deadlock** is checked everywhere but in `periodic` and `idle_race`, where the loop
halts when its bounded rounds are used up, or the model where the behaviour is undefined. The stuttering actions `Terminated`, `Quiet`, `Over`
and `WaitingForClients` stand for the ends that the systems really have.

**Fairness.** Weak fairness for each thread that can run: the scheduler runs
threads, tasks return, a thread that was notified gets the mutex. Nobody is
obliged to call `enqueue`, to stop or to destroy anything, no spurious wakeup
is promised, and no client is obliged to connect, to send or to receive.
In `periodic` the workers are not fair: a task may last longer than any
interval. In `Session` the handlers have strong fairness, because a queued
handler competes with others for the io threads and the `io_context` serves its
queue in order; time and the timer's expiry are weakly fair. `HTTPServer` takes
from `TaskPool` the fairness that `ThreadPool` is shown to implement.

## 5. The proofs

All constants are arbitrary, subject to named assumptions: `PoolAssumption` (finitely
many tasks, integer priorities, at least one worker possible, and an initial worker if
thread creation can fail, as the server's pool has), `RoundsAssumption` (the rounds are
different tasks), `ServerAssumption`, `SessionAssumption`, `QueriesAssumption` and `MapAssumption`, which
say of what kind the constants are, and those of `Dispatch`: keys of routes and of
placeholders are unique, a traversal meets every route, a segment with a tag is neither a
number nor a slug, and what an unguarded lambda takes are placeholders of its route.
TLC evaluates them for the server's own table.

| Theorem | Statement |
|---|---|
| `TypeCorrect` | `Safety => []TypeOK` (of `ThreadPool`) |
| `NoWakeupIsLost` | `Safety => []NoLostWakeup` |
| `ActiveCountIsExact` | `Safety => []ActiveCount` |
| `DestructorDrains` | `Safety => []DrainedOnDestroy` |
| `JoinsAreAwaited` | `Safety => []JoinsNeedNoLuck` |
| `PoolImplementsTaskPool` | `Safety => ImplementsTaskPoolSafety` |
| `PeriodicTypeCorrect` | `PeriodicSafety => []PeriodicTypeOK` |
| `OneRoundIsLate` | `PeriodicSafety => []AtMostOneLate` |
| `UnfinishedAreReported` | `PeriodicSafety => []UnfinishedWereReported` |
| `OnlyLateRoundIsLost` | `PeriodicSafety => []OnlyLateIsLost` |
| `IdleAnswer` | `IdleSafety => [](IdleTypeOK /\ OnlyPopMisleadsIdle)` |
| `IdleImplementsPeriodic` | `IdleSafety => PeriodicSafety` |
| `RouterOutlivesItsUsers` | `Safety => []NothingOutlivesRouter` |
| `ServerTypeCorrect` | `Safety => []TypeOK` (of `HTTPServer`) |
| `FailuresAloneDrop` | `Safety => []OnlyFailuresDrop` |
| `EnqueueAlwaysWelcome` | `Safety => []EnqueueIsWelcome` |
| `ServerImplementsService` | `Safety => ImplementsService` |
| `SessionTypeCorrect` | `Safety => []TypeOK` (of `Session`) |
| `DeadlineAloneDropsReplies` | `Safety => []OnlyDeadlineDropsReply` |
| `SocketClosedAtRelease` | `Safety => []ClosedBeforeRelease` |
| `TimerAloneSharesSocket` | `Safety => []OnlyTimerSharesSocket` |
| `LateExpiryIsHarmless` | `Safety => LateExpirySparesResponse`, an action property |
| `SessionImplementsExchange` | `Safety => ImplementsExchange` |
| `DispatchTypeCorrect` | `Spec => []TypeOK` (of `Dispatch`) |
| `NothingUnvalidated` | `Spec => []ParamsValidated` |
| `UniqueRouteIsServed` | `Spec => []UniqueMatchServed` |
| `RightRoute` | `Spec => []SearchIsRight` |
| `OnlyOverlap` | `Spec => []OnlyOverlapMixesParams` |
| `QueriesTypeCorrect` | `Safety => []TypeOK` (of `UserQueries`) |
| `MixingTakesMishap` | `Safety => []MixingNeedsMishap` |
| `LoadsDoRunOut` | `Safety => LoadsRunOut`, an action property |
| `OnlyLoadedSettingsUsed` | `Safety => []NoBuiltInUsed` |
| `ElementsAreKept` | `StackSpec => []NothingLost` |
| `MapsImplementDictionaries` | `MapSpec => ImplementsDictionaries` |

**The pool's inductive invariant** is a conjunction of parts, each with a lemma
for the initial state and one for the steps:

* `Typed`: `TypeOK`, and two facts it lacks: a worker holds a task exactly
  while it is running or has just finished it (`HoldsTask`), and the workers
  that exist are those below `workers` (`Born`).
* `Closing`: `stop` is set exactly from `BeginDestroy` on, no `enqueue` is in
  progress then, and a worker that has left its loop left an empty queue. The last
  clause is inductive because nothing is pushed after `stop`.
* `Staffed`: a queued task, or an `enqueue` under way, means that there is a
  worker. It uses the assumption on the initial workers.
* `WakeupPending`: `NoLostWakeup`, with a name for its first disjunct
  (`Awake`). The interesting step is `Block`: a worker goes to
  sleep only with an empty queue. The others are the notifications:
  `EnqueueNotify` and `WorkerNotify` each end a disjunct, but then they have
  woken somebody or there was no one asleep, and (lemma `SomeoneAwake`) then a
  worker that exists and has not exited is awake.
* `ActiveCount`: by counting `Busy`, one worker in or out per step.
* `Accounted`: where each task is (not pushed, queued, in the hands of a worker,
  done) as a function of its caller. It gives the last line of `DrainedOnDestroy`.
* `OnePlace`: a running task is not queued, and no two workers run the same.

`JoinsNeedNoLuck` (of `ThreadPoolProofs`) says that the destructor, once it joins,
waits for no worker that sleeps, and that a queue that is not empty has a worker left.
It follows from `Closing`, `Staffed` and `Born`: a queued task means that worker 0 was
created, and a worker leaves only an empty queue.

**The refinement** (`ImplementsTaskPoolSafety`, the safety part of the
`ImplementsTaskPool` that TLC checks) maps each step by `StepRefines`: `PushTask` to `Submit` or
`SubmitFails`, `Take` to `Start`, `Run` to `Finish`, `BeginDestroy` to `Close`,
`JoinAll` to `Closed`, all others to a stutter. `Start` has a bound on the
number of running tasks, and `RoomToRun` shows that it holds: the running tasks are
the image of the running workers, one of which, the one about to start, is
missing.

**The periodic task** uses the pool in ways that `ThreadPool!Next` excludes: the loop
pushes while the destructor works. What it needs of the pool is therefore proved for
`AnyUse`, the pool's operations in any order (`PeriodicIsUse`). `OneLate`: the loop that
has pushed late is past its enqueue, and the flag stays. `RoundsReported`: a round
that is behind the loop is done, reported or threw; the current one is what
`FutureReady` says. `Ending`: a worker that has left, left a queue that holds late
rounds only, since after `stop` nobody else pushes. For `isIdle`, `BusyOnlyByPop` is the
key: a step that takes nothing out of the queue makes no worker busy.

**The server's invariant** follows the thread that calls `run`: `Counts` (live
threads are among the spawned ones, and none exists before the loop that spawns
them), `AfterJoin` (past the joins no thread lives; after an exception, this
holds only if none had been spawned, otherwise the process has terminated) and
`PoolFollows` (how far the pool is closed, by how far the destructor is). For the
dropped connections, `Chain` says how the accept chain, the io_context and its threads
depend on each other: the io_context stops only when the chain has ended; the chain ends
by an error in `start_accept`, or by an exception that took a thread; and where no thread
was spawned, nothing was accepted. So what is left at the end was left by a failure
(`DroppedAtEnd`).

`Books` relates each connection to the sets of the pool: "pooled" is queued or running,
"serving" or "closed" is finished, "accepted" is the one connection in the hands of the
accept handler. With `AfterJoin` it gives `EnqueueIsWelcome`: while a thread lives that
could enqueue, the destructor has not reached the pool. It also carries the refinement
of `Service`, one lemma for each group of actions (`AcceptSimulates`, `ClientSimulates`,
`RunSimulates`, `DestroySimulates`). The step that matters is the one to "down": whatever
was taken on and is cut off then (`TakenAtEnd`), a thread was lost or the server refuses
clients already. That is `DropInv` again, at the moment before.

**The session's invariant** says who can have closed the socket at each stage of
the request. `Stages` orders the stages (a reply exists from "responding" on, a
write only when the read's handler is over); `AtDeadline` says that the timer
acts at the deadline only; `WhoClosed` that the reader closes before a reply
exists and the writer after the write began, which leaves the timer for the
time between; `EndsClosed` that whatever ends the session has closed the socket.

The type invariant needs `Enough`, that no more handlers are executed than there are
threads, and the refinement maps each step by the stage of the response.
For `LateExpirySparesResponse` only the timer's handler has to be looked at
(`OnlyTimerHandlerLocks`): that it may run on the one thread left means that no other
handler does, and that the timer is still alive means that the read holds it
(`LockedWhileReading`).

**The router's invariants.** A thread touches nothing of another but `params_`
(`Frame`), so each argument is about the thread that moves. `StoresValid`: a thread
that is storing has validated what it stores, by reading only its own request, so that
every reader, whenever it comes, finds what some thread validated, or nothing
(`AllTrusted`). `HeadsFor`: a request that one route alone can match has that route
ahead of it in the scan and no candidate's error in its response; here
`RawIsSanitized` matters, that what the second validation accepts the first does.
`Undisturbed`: a thread to whose handler nobody wrote holds its own path's parameters
there, because whoever writes adds it to `disturbed` (`WriteDisturbs`).
`Searching` follows one request through the table: while it is scanned, no route spells
its target, and either some route that its path matches is a rejecter, or the response
carries no error and none of the candidates so far would have taken the request; what is
stored is taken by a route that fits, and what is handled a right one handles. As `order`
meets every route, the end of the scan has passed them all.

**The invariant of the settings** has three parts beside the property: `Shapes`
(domains, and a load that assigns has parsed a file), `MainFills` (main's first
load has filled the settings up to its count, and all of them from `Construct`
on; any assignment, by whomever, puts a loaded value in the place of another)
and `RequestsComeLater` (no requester moves before `main` serves).

Types are proved apart (`DataOK`, with `UsedOK` for what a connection has used).
`MixingNeedsMishap` needs `OneFile`: as long as there was no mishap, all loads that are
half way read the same file, what each has assigned stands, and when none is half way all
settings are of one file. What a connection has used so far is then what is set
(`UsesCurrent`), unless somebody assigned meanwhile, which makes it `disturbed`. For
`LoadsRunOut`, `MarkedLater` says that the flag is set only once `main` serves, when it
has made its loads; from then on `ToAssign` never grows.

**The containers.** Of the stacks it is needed that they are sequences
(`StackTyped`); `ReplaceLosesNothing` covers clear and both kinds of copy. The invariant
of the maps is `OneOwner`, that no element belongs to two entries, with `RefOwned`, that the
reference is to an entry. Without the first, a write would show in two places, and
`Places` would not be one place. `CreateKeeps` and `Refills` carry it
through the steps that take elements: what is taken is held by no other map. For a move, it is that the
elements keep their owners up to the renaming of one map.

**Only model-checked.** Liveness (`AcceptedTasksRun`, `DestroyTerminates`,
`LoopEnds`, `SessionEnds`, `SettingsSettle`, the three of `server`) and the fairness part
of the refinement (`ImplementsTaskPool`): liveness under fairness is beyond the
prover's backends. What they share with the safety properties is proved: that
`DestroyTerminates` waits for no sleeper (`JoinsNeedNoLuck`), that `SettingsSettle` has
no load to wait for but those in progress (`LoadsRunOut`). The violated properties of
section 6 are counterexamples and need no proof. `RouteTable` is a fold over a sequence:
TLC evaluates it.

## 6. Where the code and its words disagree

Shown by runs:

1. `isIdle` answers true although the pool was idle at no moment of the call
   (`ThreadPool.hpp:184`, the comment at 181): a worker pops the last task between
   the two reads. Reading the queue first and the counter second would not have
   this outcome, as the counter is incremented before the lock is released.
2. The timer reports "No request received" after one was read completely
   (`Session.cpp:51`): the timer is cancelled by the read's handler only, and an
   expiry that is queued before it wins.
3. Two simultaneous requests for one product route may both be answered with the
   same id (`DynamicRequestHandler.cpp:117`).
4. `/products/shoe` is answered "Route Not Found" when `/products/{id}` comes
   first in the map (`Router.cpp:138`): the rejected candidate's status stays in
   the response.
5. A POST with a JSON body is answered "Missing 'body' parameter."
   (`DynamicRequestHandler.cpp:81`).

Met while modelling, visible in the modules, with no run of their own:

* The timer is set to 20 s (`Session.cpp:37`) and its message says 5 seconds.
* "Request too large" (`Session.cpp:101`) is never sent: `waf_check_request`
  tests the same bound first (`HandleRequest` of `Session`).
* `enqueue` does not look at `stop`: a detached loop can submit to a pool that is being
  destroyed, and go on after it is gone (`Undefined` of `PeriodicTask`). No code of the
  repository calls `periodicTask`, `isIdle` or `stopPeriodicTasks`.
* "Arrêter toutes les tâches périodiques" (`ThreadPool.hpp:187`) lets one more round
  through (`AtMostOneLate`).
* The handler of `/` that `HomeController` registers is replaced by that of
  `TestController` (`AddRoute` of `RouteTable`).
* `UnifiedRequestHandler` sets `keep-alive` (`UnifiedRequestHandler.hpp:68`); the session
  closes the connection after every response.
* The lambda of `/update_user/{id}` looks for an id that its target, which must spell the
  placeholder, never has (`HandleUnified`).
* An id too large for an `int` passes both validations and is read as the largest `int`
  (`UserController.hpp:67`).
* `operator[]` of a const `UnorderedMap` throws `std::out_of_range`, where "une exception
  KeyNotFoundException est levée" (`test_unorderedMap.cpp:16`); the free function `swap`
  (`UnorderedMap.hpp:138`) reads a private member and cannot be instantiated.
* The messages announced in `test_stack.cpp:114` and 123 are longer than "La pile est
  vide." (`Stack.hpp:11`).
* `hashPassword` makes a SHA-256 digest and `comparePassword` expects a bcrypt hash
  (`Hash.cpp:52`): the one never accepts what the other made.
* `/update_user/{id}` is registered with a `UnifiedRequestHandler`, which the
  second loop rejects (`Router.cpp:148`); only a path that spells the placeholder
  reaches it, and every other is answered "Route Not Found".
* "Tâche périodique annulée" (`ThreadPool.hpp:168`) cancels nothing.
* The port of the acceptor is read after the first load, and the line "server is
  running at http://127.0.0.1:{}" (`HTTPServer.cpp:89`) prints the port of the
  second.
* `loadConfigOnce` loads more than once when several threads call it first
  (`CheckLoaded` and `MarkLoaded` are two steps).
* `getDbConnection` of `UserController` reports "Erreur de connexion à la base de
  données." also when the configuration could not be loaded.
* `getDbPasswordFromEnv` announces a default password and then builds a string
  from a null pointer (`Config.cpp:96`); nothing calls it.
* Every refusal of the router is sent as 400; the 404 and 405 it chose
  select the text only (`Refusal` of `Dispatch`).
* When the creation of a worker fails in `enqueue`, the accept chain is broken for
  good, as nobody calls `start_accept` again.

## 7. What is not modelled

* Thread affinity, and the map `threadAffinity` that workers write without the
  lock (`ThreadPool.hpp:100`); it is never read, and a corrupted map has no outcome that
  could be stated.
* What a detached periodic loop does to a destroyed pool: undefined. The model goes up
  to that point.
* Two threads inside one `tcp::socket` at once: undefined, taken as one call after the
  other; which threads can be there at once is a property (`OnlyTimerSharesSocket`).
* A crash of the process by the race on `params_`, and a change of `params_` between two
  reads of one lambda: `HandleDynamicGet` reads the map once. `/products/{id}/{slug}` reads
  two keys, and its answer could take one from each of two requests.
* Memory that runs out: an `enqueue` that throws before its push (`PushTask` and
  `HandleAccept` have the failure after it, where the task is queued all the same).
* A map's reference that is used after its element is gone: undefined.
* Constructors that fail half way: `main` ends before there is a server.
* `createUser` and `updateUser`, and what their lambdas do with a body: no request
  reaches them (section 6, number 5), so that actions for them would never be taken.
* The headers and texts of `Response`, and with them the static buffer of `gmtime`
  (`Response.hpp:35`): only the text of a header depends on it.
* `UnifiedRequestHandler::validate_params`, `Router::map_to_string`, `RouteManager`,
  `SimpleRequestHandler`, `queries_db.cpp` and `getDbPasswordFromEnv`: nothing calls them.
* The hash program, the sample server, the client script and the pages: separate
  programs without a state of their own.

## 8. The plan

Done, in this order, the most important first: `TaskPool` and `ThreadPool` (every
request depends on them); `Session`; `Dispatch`; `HTTPServer` on top of
`TaskPool`; `PeriodicTask` and `IdleCheck`; `UserQueries`; then `Exchange` and the
refinement of `Session`, `RouteTable` in the place of a hand-made table, the destructor
beside the detached loop, the containers; and the theorems of section 5.

Then the proofs of what was only checked: the action property of `Session`, the types,
the mixing and the running out of the loads of `UserQueries`, `Service` and the server's
refinement of it, the search of the router in general, and the joins of the destructor.

Every invariant, action property and refinement without fairness that a passing run checks is
now a theorem. Next, proofs: an abstract search that `Dispatch` implements, with the traversal
order gone, and the pool under the detached loop up to the point where it goes astray as an
implementation of `TaskPool` with late submissions.
