----------------------------- MODULE HTTPServer -----------------------------
(***************************************************************************)
(* Softadastra::HTTPServer (core/http/HTTPServer.cpp): the thread that     *)
(* calls run and then destroys the server, the chain of async_accept, the  *)
(* io_context threads and the request pool.                                *)
(*                                                                         *)
(* Definitions whose name ends in _faulty are plausible mistakes that no   *)
(* specification uses; they show that the properties notice them.          *)
(*                                                                         *)
(* The pool is the one of module TaskPool, which ThreadPool implements; a  *)
(* session (module Session) is a connection that is being served, until a  *)
(* handler closes it or lets an exception out.                             *)
(***************************************************************************)
EXTENDS Integers, FiniteSets

CONSTANTS
  Conns,     (* the connections that clients may open                      *)
  NoConn,    (* the socket of an async_accept that has not completed       *)
  IoThreads, (* what calculate_io_thread_count returns                     *)
  PoolLimit, (* the bound of request_thread_pool_                          *)
  MayFail    (* what may throw or fail, a subset of Failures               *)

(***************************************************************************)
(* "config": loadConfig, called again by configure_routes; "arm": the call *)
(* of async_accept; "accept": its completion; "enqueue": a new worker of   *)
(* the pool; "spawn": a new io_context thread; "session": the construction *)
(* or the start of a Session; "handler": a handler of a Session.           *)
(***************************************************************************)
Failures ==
  {"config", "arm", "accept", "enqueue", "spawn", "session", "handler"}

ASSUME ServerAssumption ==
  /\ IsFiniteSet(Conns)
  /\ NoConn \notin Conns
  /\ IoThreads \in Nat \ {0}
  /\ PoolLimit \in Nat \ {0}
  /\ MayFail \subseteq Failures

VARIABLES
  main,     (* the thread in run and in ~HTTPServer                        *)
  acceptor, (* the accept chain                                            *)
  incoming, (* the connection of the accept that has completed             *)
  conn,     (* [Conns -> ConnStates]                                       *)
  spawned,  (* io_threads_.size()                                          *)
  live,     (* the io_context threads that have not ended                  *)
  lost,     (* the ones that ended by an exception                         *)
  stopped,  (* the io_context ran out of work: run returns in all threads  *)
  queued, accepted, running, finished, poolPhase  (* the request pool      *)

Pool == INSTANCE TaskPool WITH
  Tasks <- Conns, Priority <- [c \in Conns |-> 1], Limit <- PoolLimit,
  phase <- poolPhase

poolVars == <<queued, accepted, running, finished, poolPhase>>
ioVars == <<spawned, live, lost, stopped>>
netVars == <<acceptor, incoming, conn>>
vars == <<main, netVars, ioVars, poolVars>>

(***************************************************************************)
(* "bailed": an exception ended run before it joined its threads;          *)
(* "terminated": std::terminate, on the destruction of a joinable thread.  *)
(***************************************************************************)
MainStates == {"configure", "arm", "spawn", "join", "returned", "bailed",
               "closing", "closed", "gone", "terminated"}

(* "failed": completed with an error; "broken": never armed again.         *)
AcceptorStates == {"none", "armed", "ready", "failed", "rearm", "broken",
                   "closed"}

ConnStates == {"outside", "backlog", "accepted", "pooled", "serving",
               "closed", "dropped"}

Init ==
  /\ main = "configure"
  /\ acceptor = "none"
  /\ incoming = NoConn
  /\ conn = [c \in Conns |-> "outside"]
  /\ spawned = 0
  /\ live = 0
  /\ lost = 0
  /\ stopped = FALSE
  /\ Pool!Init
-----------------------------------------------------------------------------
(* The process still runs, and so does a free thread of the io_context.    *)
Serving ==
  /\ main # "terminated"
  /\ ~stopped
  /\ live > (IF acceptor = "rearm" THEN 1 ELSE 0)

HasWork_faulty == TRUE

(* The io_context has work as long as an accept or a session is pending.   *)
HasWork ==
  \/ acceptor \in {"armed", "ready", "failed", "rearm"}
  \/ \E c \in Conns : conn[c] = "serving"

StopWhenIdle == stopped' = (stopped \/ ~HasWork')

LoseThread == live' = live - 1 /\ lost' = lost + 1

Drop(f, states) ==
  [c \in Conns |-> IF f[c] \in states THEN "dropped" ELSE f[c]]

(* async_accept, or the catch of start_accept, which closes the acceptor.  *)
StartAccept ==
  /\ incoming' = NoConn
  /\ \/ acceptor' = "armed" /\ UNCHANGED conn
     \/ /\ "arm" \in MayFail
        /\ acceptor' = "closed"
        /\ conn' = Drop(conn, {"backlog"})
-----------------------------------------------------------------------------
Configure ==
  /\ main = "configure"
  /\ \/ main' = "arm"
     \/ "config" \in MayFail /\ main' = "bailed"
  /\ UNCHANGED <<netVars, ioVars, poolVars>>

FirstAccept ==
  /\ main = "arm"
  /\ main' = "spawn"
  /\ StartAccept
  /\ UNCHANGED <<ioVars, poolVars>>

SpawnIoThread_faulty ==
  /\ main = "spawn"
  /\ spawned <= IoThreads
  /\ spawned' = spawned + 1
  /\ live' = live + 1
  /\ stopped' = (stopped \/ ~HasWork)
  /\ UNCHANGED <<main, lost, netVars, poolVars>>

(* A thread that enters io_context::run when there is no work stops it.    *)
SpawnIoThread ==
  /\ main = "spawn"
  /\ spawned < IoThreads
  /\ \/ /\ spawned' = spawned + 1
        /\ live' = live + 1
        /\ stopped' = (stopped \/ ~HasWork)
        /\ UNCHANGED <<main, lost>>
     \/ /\ "spawn" \in MayFail
        /\ main' = "bailed"
        /\ UNCHANGED ioVars
  /\ UNCHANGED <<netVars, poolVars>>

StartJoin ==
  /\ main = "spawn"
  /\ spawned = IoThreads
  /\ main' = "join"
  /\ UNCHANGED <<netVars, ioVars, poolVars>>

JoinIoThreads_faulty ==
  /\ main = "join"
  /\ live = 0 \/ stopped
  /\ main' = "returned"
  /\ UNCHANGED <<netVars, ioVars, poolVars>>

JoinIoThreads ==
  /\ main = "join"
  /\ live = 0
  /\ main' = "returned"
  /\ UNCHANGED <<netVars, ioVars, poolVars>>

IoThreadReturns ==
  /\ main # "terminated"
  /\ stopped
  /\ live > 0
  /\ live' = live - 1
  /\ UNCHANGED <<main, netVars, spawned, lost, stopped, poolVars>>
-----------------------------------------------------------------------------
DestroyThreads_faulty ==
  /\ main \in {"returned", "bailed"}
  /\ main' = "closing"
  /\ Pool!Close
  /\ UNCHANGED <<netVars, ioVars>>

(* ~HTTPServer destroys the members from the last to the first: the
   threads, which must not be joinable, the pool, and then the rest.       *)
DestroyThreads ==
  /\ main \in {"returned", "bailed"}
  /\ IF main = "bailed" /\ spawned > 0
     THEN main' = "terminated" /\ UNCHANGED poolVars
     ELSE main' = "closing" /\ Pool!Close
  /\ UNCHANGED <<netVars, ioVars>>

DestroyPool_faulty ==
  /\ main = "closing"
  /\ running = {}
  /\ queued' = {}
  /\ poolPhase' = "closed"
  /\ main' = "closed"
  /\ UNCHANGED <<netVars, ioVars, accepted, running, finished>>

DestroyPool ==
  /\ main = "closing"
  /\ Pool!Closed
  /\ main' = "closed"
  /\ UNCHANGED <<netVars, ioVars>>

(* The router, the acceptor, and the io_context with its handlers.         *)
DestroyRest ==
  /\ main = "closed"
  /\ main' = "gone"
  /\ conn' = Drop(conn, {"backlog", "accepted", "pooled", "serving"})
  /\ UNCHANGED <<acceptor, incoming, ioVars, poolVars>>
-----------------------------------------------------------------------------
(* The acceptor listens from its construction until it is closed.          *)
Connect(c) ==
  /\ conn[c] = "outside"
  /\ acceptor # "closed"
  /\ main \notin {"gone", "terminated"}
  /\ conn' = [conn EXCEPT ![c] = "backlog"]
  /\ UNCHANGED <<main, acceptor, incoming, ioVars, poolVars>>

AcceptCompletes ==
  /\ acceptor = "armed"
  /\ Serving
  /\ \E c \in Conns :
       /\ conn[c] = "backlog"
       /\ \/ /\ acceptor' = "ready"
             /\ incoming' = c
             /\ conn' = [conn EXCEPT ![c] = "accepted"]
          \/ /\ "accept" \in MayFail
             /\ acceptor' = "failed"
             /\ UNCHANGED <<incoming, conn>>
  /\ UNCHANGED <<main, ioVars, poolVars>>

(***************************************************************************)
(* The accept handler up to start_accept.  An exception of enqueue, thrown *)
(* when its task is in the queue already, leaves the handler and the       *)
(* thread's io_context::run, and nobody calls start_accept.                *)
(***************************************************************************)
HandleAccept ==
  /\ acceptor = "ready"
  /\ Serving
  /\ conn' = [conn EXCEPT ![incoming] = "pooled"]
  /\ \/ /\ Pool!Submit(incoming)
        /\ acceptor' = "rearm"
        /\ UNCHANGED <<live, lost, stopped>>
     \/ /\ "enqueue" \in MayFail
        /\ Pool!SubmitFails(incoming)
        /\ acceptor' = "broken"
        /\ LoseThread
        /\ StopWhenIdle
  /\ UNCHANGED <<main, incoming, spawned>>

HandleAcceptError_faulty ==
  /\ acceptor = "failed"
  /\ Serving
  /\ acceptor' = "broken"
  /\ UNCHANGED <<main, incoming, conn, spawned, live, lost, poolVars>>
  /\ StopWhenIdle

HandleAcceptError ==
  /\ acceptor = "failed"
  /\ Serving
  /\ acceptor' = "rearm"
  /\ UNCHANGED <<main, incoming, conn, ioVars, poolVars>>

Rearm ==
  /\ acceptor = "rearm"
  /\ main # "terminated"
  /\ StartAccept
  /\ StopWhenIdle
  /\ UNCHANGED <<main, spawned, live, lost, poolVars>>
-----------------------------------------------------------------------------
(* A worker of the pool takes the task up.                                 *)
TakeClient(c) ==
  /\ main # "terminated"
  /\ Pool!Start(c)
  /\ UNCHANGED <<main, netVars, ioVars>>

HandleClient_faulty(c) ==
  /\ main # "terminated"
  /\ \/ Pool!Finish(c) /\ conn' = [conn EXCEPT ![c] = "serving"]
     \/ /\ "session" \in MayFail
        /\ c \in running
        /\ conn' = [conn EXCEPT ![c] = "closed"]
        /\ UNCHANGED poolVars
  /\ UNCHANGED <<main, acceptor, incoming, ioVars>>

(***************************************************************************)
(* handle_client.  When the session cannot be made or started, its socket  *)
(* goes with it; the catch of handle_client then throws again, on the      *)
(* socket that was moved from, and the catch in the task swallows that.    *)
(***************************************************************************)
HandleClient(c) ==
  /\ main # "terminated"
  /\ Pool!Finish(c)
  /\ \/ conn' = [conn EXCEPT ![c] = "serving"]
     \/ "session" \in MayFail /\ conn' = [conn EXCEPT ![c] = "closed"]
  /\ UNCHANGED <<main, acceptor, incoming, ioVars>>

(* The handlers of the session come to the end described in Session.       *)
SessionEnds(c) ==
  /\ conn[c] = "serving"
  /\ Serving
  /\ conn' = [conn EXCEPT ![c] = "closed"]
  /\ UNCHANGED <<main, acceptor, incoming, spawned, live, lost, poolVars>>
  /\ StopWhenIdle

SessionThrows(c) ==
  /\ "handler" \in MayFail
  /\ conn[c] = "serving"
  /\ Serving
  /\ conn' = [conn EXCEPT ![c] = "closed"]
  /\ LoseThread
  /\ UNCHANGED <<main, acceptor, incoming, spawned, poolVars>>
  /\ StopWhenIdle

Over == main \in {"gone", "terminated"} /\ UNCHANGED vars

(* All the connections of the bounded set have come and gone.              *)
WaitingForClients ==
  /\ main = "join"
  /\ acceptor = "armed"
  /\ \A c \in Conns : conn[c] = "closed"
  /\ UNCHANGED vars

Running == Configure \/ FirstAccept \/ SpawnIoThread \/ StartJoin \/ JoinIoThreads

Destroying == DestroyThreads \/ DestroyPool \/ DestroyRest

Accepting == AcceptCompletes \/ HandleAccept \/ HandleAcceptError \/ Rearm

Next ==
  \/ Running
  \/ Destroying
  \/ IoThreadReturns
  \/ Accepting
  \/ \E c \in Conns :
       Connect(c) \/ TakeClient(c) \/ HandleClient(c) \/ SessionEnds(c)
       \/ SessionThrows(c)
  \/ Over
  \/ WaitingForClients

Safety == Init /\ [][Next]_vars

(***************************************************************************)
(* Threads that can run do run; the pool keeps the promise of TaskPool's   *)
(* fairness.  Clients owe nothing: no connection has to come, and a        *)
(* session may last (module Session says when).                            *)
(***************************************************************************)
Fairness ==
  /\ WF_vars(Running)
  /\ WF_vars(Destroying)
  /\ WF_vars(IoThreadReturns)
  /\ WF_vars(Accepting)
  /\ WF_vars(Pool!Promised /\ \E c \in Conns : TakeClient(c))
  /\ \A c \in Conns : WF_vars(HandleClient(c))

Spec == Safety /\ Fairness
-----------------------------------------------------------------------------
TypeOK ==
  /\ main \in MainStates
  /\ acceptor \in AcceptorStates
  /\ incoming \in Conns \cup {NoConn}
  /\ conn \in [Conns -> ConnStates]
  /\ spawned \in 0 .. IoThreads
  /\ live \in 0 .. IoThreads
  /\ lost \in 0 .. IoThreads
  /\ stopped \in BOOLEAN
  /\ queued \subseteq Conns
  /\ accepted \subseteq Conns
  /\ running \subseteq Conns
  /\ finished \subseteq Conns
  /\ poolPhase \in {"open", "closing", "closed"}

(***************************************************************************)
(* What the joins in run and the order of the members are for: when the    *)
(* router and the io_context are destroyed, no io_context thread and no    *)
(* worker of the pool can be using them, nor will any.                     *)
(***************************************************************************)
NothingOutlivesRouter ==
  main = "gone" => live = 0 /\ queued = {} /\ running = {}

(***************************************************************************)
(* A connection that the server took on is cut off by the end of the       *)
(* server only after some exception: an io_context thread was lost, or     *)
(* start_accept closed the acceptor.                                       *)
(***************************************************************************)
OnlyFailuresDrop ==
  (\E c \in Conns : conn[c] = "dropped" /\ c \in finished \cup {incoming}) =>
    lost > 0 \/ acceptor = "closed"

(***************************************************************************)
(* What the pool asks of its owner: whenever an accept handler is about to *)
(* call enqueue, the pool is not being destroyed, and the connection never *)
(* was in it before.  (run joins the threads before ~HTTPServer begins; a  *)
(* run that bails out with threads left ends in std::terminate, before the *)
(* destructor of the pool.)                                                *)
(***************************************************************************)
EnqueueIsWelcome ==
  acceptor = "ready" /\ Serving =>
    /\ poolPhase = "open"
    /\ incoming \notin queued \cup running \cup finished

(***************************************************************************)
(* How far the server has come with a connection, in the words of module   *)
(* Service: it is taken on by the accept and done with by the end of its   *)
(* session; std::terminate cuts everything off.                            *)
(***************************************************************************)
StageOf ==
  [outside |-> "away", backlog |-> "waiting", accepted |-> "taken",
   pooled |-> "taken", serving |-> "taken", closed |-> "done",
   dropped |-> "dropped"]

Stage(c) ==
  IF main = "terminated" /\ StageOf[conn[c]] \in {"waiting", "taken"}
  THEN "dropped"
  ELSE StageOf[conn[c]]

Clients == [c \in Conns |-> Stage(c)]

Openness ==
  IF main \in {"gone", "terminated"} THEN "down"
  ELSE IF acceptor = "closed" THEN "refusing"
  ELSE "open"

Harmed == lost > 0 \/ main = "terminated"

Promise == INSTANCE Service WITH
  client <- Clients, phase <- Openness, hurt <- Harmed

(***************************************************************************)
(* The server keeps the promise of module Service: no connection is taken  *)
(* on or served twice, nothing happens to any once the server is down, and *)
(* those it has taken on are cut off only by an error that the promise     *)
(* names.                                                                  *)
(***************************************************************************)
ImplementsService == Promise!Spec

(***************************************************************************)
(* A connection that waits in the backlog is accepted, unless accepts fail *)
(* again and again, an exception broke the chain, the acceptor was closed, *)
(* or no thread is left.  The failure of one accept does not end the chain *)
(* (start_accept at the end of the handler).                               *)
(***************************************************************************)
KeepsAccepting ==
  \/ []<>(acceptor = "failed")
  \/ \A c \in Conns :
       conn[c] = "backlog" ~>
         \/ conn[c] # "backlog"
         \/ acceptor = "broken" /\ lost > 0
         \/ acceptor = "closed"
         \/ spawned > 0 /\ live = 0
         \/ main \in {"gone", "terminated"}

(***************************************************************************)
(* A connection whose enqueue succeeded gets its session or is closed,     *)
(* even when the accept chain has ended or the server is being destroyed.  *)
(***************************************************************************)
PooledIsTaken ==
  \A c \in Conns :
    conn[c] = "pooled" /\ c \in accepted ~>
      conn[c] \in {"serving", "closed"} \/ main = "terminated"

(***************************************************************************)
(* A server whose accept chain has ended does not linger: run returns and  *)
(* the destructor completes, unless some session lasts for ever.           *)
(***************************************************************************)
EndsWithChain ==
  \/ acceptor \in {"broken", "closed"} ~> main \in {"gone", "terminated"}
  \/ \E c \in Conns : <>[](conn[c] = "serving")
=============================================================================
