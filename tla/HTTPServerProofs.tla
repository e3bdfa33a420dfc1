-------------------------- MODULE HTTPServerProofs --------------------------
(***************************************************************************)
(* For any number of connections and threads and any set of failures: the  *)
(* router outlives everything that uses it.  The argument follows the      *)
(* thread that calls run: it is past the joins, or had nothing to join,    *)
(* before the pool closes, and the pool is closed before the rest goes.    *)
(* And a connection that was taken on is dropped only after a failure: the *)
(* accept chain never ends by itself, and the io_context never stops as    *)
(* long as the chain lasts.                                                *)
(*                                                                         *)
(* The books of the pool agree with the state of each connection, so that  *)
(* the pool never meets one twice; with that, every step of the server is  *)
(* a step of module Service or changes nothing that module speaks of.      *)
(***************************************************************************)
EXTENDS HTTPServer, TLAPS

Counts ==
  /\ live \in Int /\ 0 <= live
  /\ spawned \in Int /\ live <= spawned
  /\ main \in {"configure", "arm"} => spawned = 0

(* From the return of run on, no io_context thread is left.                *)
AfterJoin ==
  main \in {"returned", "closing", "closed", "gone"} => live = 0

(* How far the pool is depends on how far the destructor is.               *)
PoolFollows ==
  /\ main \in MainStates
  /\ main \in MainStates \ {"closing", "closed", "gone"} => poolPhase = "open"
  /\ main = "closing" => poolPhase = "closing"
  /\ main \in {"closed", "gone"} =>
       poolPhase = "closed" /\ queued = {} /\ running = {}

Inv == Counts /\ AfterJoin /\ PoolFollows

LEMMA InvInit == Init => Inv
BY DEF Init, Inv, Counts, AfterJoin, PoolFollows, MainStates, Pool!Init

(* The steps of the destructor and of run, one by one.                     *)
LEMMA InvMain ==
  ASSUME ServerAssumption, Inv, Running \/ Destroying
  PROVE  Inv'
<1> USE DEF Inv, Counts, AfterJoin, PoolFollows, MainStates, netVars, ioVars,
            poolVars
<1>1. CASE Configure
  BY <1>1 DEF Configure
<1>2. CASE FirstAccept
  BY <1>2 DEF FirstAccept
<1>3. CASE SpawnIoThread
  BY <1>3 DEF SpawnIoThread
<1>4. CASE StartJoin
  BY <1>4 DEF StartJoin
<1>5. CASE JoinIoThreads
  BY <1>5 DEF JoinIoThreads
<1>6. CASE DestroyThreads
  <2>1. CASE main = "bailed" /\ spawned > 0
    BY <1>6, <2>1 DEF DestroyThreads
  <2>2. CASE ~(main = "bailed" /\ spawned > 0)
    <3>1. /\ main \in {"returned", "bailed"} /\ main' = "closing"
          /\ poolPhase' = "closing"
          /\ UNCHANGED <<spawned, live>>
      BY <1>6, <2>2 DEF DestroyThreads, Pool!Close
    <3>2. live = 0
      BY <2>2, <3>1
    <3> QED
      BY <3>1, <3>2
  <2> QED
    BY <2>1, <2>2
<1>7. CASE DestroyPool
  BY <1>7 DEF DestroyPool, Pool!Closed
<1>8. CASE DestroyRest
  BY <1>8 DEF DestroyRest
<1> QED
  BY <1>1, <1>2, <1>3, <1>4, <1>5, <1>6, <1>7, <1>8 DEF Running, Destroying

(* The io_context threads only ever become fewer here, and the pool takes
   a task in only while it is open.                                        *)
LEMMA InvThreads ==
  ASSUME Inv, IoThreadReturns \/ Accepting
  PROVE  Inv'
<1> USE DEF Inv, Counts, AfterJoin, PoolFollows, MainStates, netVars, ioVars,
            poolVars
<1>1. CASE IoThreadReturns
  BY <1>1 DEF IoThreadReturns
<1>2. CASE AcceptCompletes
  BY <1>2 DEF AcceptCompletes
<1>3. CASE HandleAccept
  <2>1. /\ live > 0
        /\ UNCHANGED <<main, spawned, running, poolPhase>>
        /\ poolPhase = "open"
        /\ live' = live \/ live' = live - 1
    BY <1>3
    DEF HandleAccept, Serving, LoseThread, Pool!Submit, Pool!SubmitFails,
        Pool!Push
  <2> QED
    BY <2>1
<1>4. CASE HandleAcceptError
  BY <1>4 DEF HandleAcceptError
<1>5. CASE Rearm
  BY <1>5 DEF Rearm
<1> QED
  BY <1>1, <1>2, <1>3, <1>4, <1>5 DEF Accepting

LEMMA InvClients ==
  ASSUME Inv, NEW c \in Conns,
         Connect(c) \/ TakeClient(c) \/ HandleClient(c) \/ SessionEnds(c)
         \/ SessionThrows(c)
  PROVE  Inv'
<1> USE DEF Inv, Counts, AfterJoin, PoolFollows, MainStates, netVars, ioVars,
            poolVars
<1>1. CASE Connect(c)
  BY <1>1 DEF Connect
<1>2. CASE TakeClient(c)
  <2>1. /\ c \in queued
        /\ UNCHANGED <<main, spawned, live, poolPhase>>
    BY <1>2 DEF TakeClient, Pool!Start
  <2> QED
    BY <2>1
<1>3. CASE HandleClient(c)
  <2>1. /\ c \in running
        /\ UNCHANGED <<main, spawned, live, poolPhase>>
    BY <1>3 DEF HandleClient, Pool!Finish
  <2> QED
    BY <2>1
<1>4. CASE SessionEnds(c)
  BY <1>4 DEF SessionEnds
<1>5. CASE SessionThrows(c)
  <2>1. live > 0 /\ live' = live - 1 /\ UNCHANGED <<main, spawned, poolVars>>
    BY <1>5 DEF SessionThrows, Serving, LoseThread
  <2> QED
    BY <2>1
<1> QED
  BY <1>1, <1>2, <1>3, <1>4, <1>5

LEMMA InvNext == Inv /\ [Next]_vars => Inv'
<1> SUFFICES ASSUME Inv, [Next]_vars PROVE Inv'
  OBVIOUS
<1>1. CASE UNCHANGED vars
  BY <1>1
  DEF vars, netVars, ioVars, poolVars, Inv, Counts, AfterJoin, PoolFollows
<1>2. CASE Next
  BY <1>1, <1>2, ServerAssumption, InvMain, InvThreads, InvClients
  DEF Next, Over, WaitingForClients
<1> QED
  BY <1>1, <1>2

(***************************************************************************)
(* When the router and the io_context are destroyed, no io_context thread  *)
(* runs and the pool has neither queued nor running clients.               *)
(***************************************************************************)
THEOREM RouterOutlivesItsUsers == Safety => []NothingOutlivesRouter
<1>1. Inv => NothingOutlivesRouter
  BY DEF Inv, AfterJoin, PoolFollows, NothingOutlivesRouter
<1> QED
  BY <1>1, InvInit, InvNext, PTL DEF Safety
-----------------------------------------------------------------------------
Typed ==
  /\ TypeOK
  /\ live + lost <= spawned
  /\ acceptor = "ready" => incoming \in Conns

LEMMA TypedInit == ServerAssumption /\ Init => Typed
<1> SUFFICES ASSUME ServerAssumption, Init PROVE Typed
  OBVIOUS
<1>1. /\ IoThreads \in Nat
      /\ spawned = 0 /\ live = 0 /\ lost = 0
      /\ acceptor = "none" /\ incoming = NoConn /\ main = "configure"
  BY DEF ServerAssumption, Init
<1>2. conn \in [Conns -> ConnStates]
  BY DEF Init, ConnStates
<1>3. queued = {} /\ accepted = {} /\ running = {} /\ finished = {}
      /\ poolPhase = "open"
  BY DEF Init, Pool!Init
<1>4. stopped \in BOOLEAN
  BY DEF Init
<1> QED
  BY <1>1, <1>2, <1>3, <1>4 DEF Typed, TypeOK, MainStates, AcceptorStates

LEMMA DropTypes ==
  ASSUME conn \in [Conns -> ConnStates], NEW states
  PROVE  Drop(conn, states) \in [Conns -> ConnStates]
BY DEF Drop, ConnStates

LEMMA StartAcceptTypes ==
  ASSUME Typed, StartAccept
  PROVE  /\ acceptor' \in {"armed", "closed"}
         /\ incoming' = NoConn
         /\ conn' \in [Conns -> ConnStates]
BY DropTypes DEF StartAccept, Typed, TypeOK

LEMMA TypedMain ==
  ASSUME ServerAssumption, Typed, Running \/ Destroying
  PROVE  Typed'
<1> USE DEF Typed, TypeOK, MainStates, netVars, ioVars, poolVars
<1>1. CASE Configure
  BY <1>1 DEF Configure
<1>2. CASE FirstAccept
  BY <1>2, StartAcceptTypes DEF FirstAccept, AcceptorStates
<1>3. CASE SpawnIoThread
  <2>1. /\ spawned \in Int /\ spawned < IoThreads /\ IoThreads \in Int
        /\ UNCHANGED <<netVars, poolVars>>
        /\ \/ /\ spawned' = spawned + 1 /\ live' = live + 1
              /\ UNCHANGED <<main, lost>>
           \/ main' = "bailed" /\ UNCHANGED <<spawned, live, lost>>
    BY <1>3 DEF SpawnIoThread, ServerAssumption
  <2>2. stopped' \in BOOLEAN
    BY <1>3 DEF SpawnIoThread
  <2> QED
    BY <2>1, <2>2 DEF ServerAssumption
<1>4. CASE StartJoin
  BY <1>4 DEF StartJoin
<1>5. CASE JoinIoThreads
  BY <1>5 DEF JoinIoThreads
<1>6. CASE DestroyThreads
  BY <1>6 DEF DestroyThreads, Pool!Close
<1>7. CASE DestroyPool
  BY <1>7 DEF DestroyPool, Pool!Closed
<1>8. CASE DestroyRest
  BY <1>8, DropTypes DEF DestroyRest
<1> QED
  BY <1>1, <1>2, <1>3, <1>4, <1>5, <1>6, <1>7, <1>8 DEF Running, Destroying

LEMMA TypedThreads ==
  ASSUME ServerAssumption, Typed, IoThreadReturns \/ Accepting
  PROVE  Typed'
<1> USE DEF Typed, TypeOK, netVars, ioVars, poolVars, Serving, StopWhenIdle,
            HasWork, ServerAssumption
<1>1. CASE IoThreadReturns
  BY <1>1 DEF IoThreadReturns
<1>2. CASE AcceptCompletes
  BY <1>2 DEF AcceptCompletes, AcceptorStates, ConnStates
<1>3. CASE HandleAccept
  <2>1. incoming \in Conns /\ live > 0
    BY <1>3 DEF HandleAccept
  <2>2. /\ queued' = queued \cup {incoming}
        /\ accepted' \subseteq accepted \cup {incoming}
        /\ UNCHANGED <<running, finished, poolPhase>>
    BY <1>3 DEF HandleAccept, Pool!Submit, Pool!SubmitFails, Pool!Push
  <2>3. /\ conn' = [conn EXCEPT ![incoming] = "pooled"]
        /\ acceptor' \in {"rearm", "broken"}
        /\ UNCHANGED <<main, incoming, spawned>>
        /\ \/ UNCHANGED <<live, lost, stopped>>
           \/ live' = live - 1 /\ lost' = lost + 1 /\ stopped' \in BOOLEAN
    BY <1>3 DEF HandleAccept, LoseThread
  <2> QED
    BY <2>1, <2>2, <2>3 DEF AcceptorStates, ConnStates
<1>4. CASE HandleAcceptError
  BY <1>4 DEF HandleAcceptError, AcceptorStates
<1>5. CASE Rearm
  BY <1>5, StartAcceptTypes DEF Rearm, AcceptorStates
<1> QED
  BY <1>1, <1>2, <1>3, <1>4, <1>5 DEF Accepting

LEMMA TypedClients ==
  ASSUME ServerAssumption, Typed, NEW c \in Conns,
         Connect(c) \/ TakeClient(c) \/ HandleClient(c) \/ SessionEnds(c)
         \/ SessionThrows(c)
  PROVE  Typed'
<1> USE DEF Typed, TypeOK, netVars, ioVars, poolVars, Serving, StopWhenIdle,
            ServerAssumption, ConnStates
<1>1. CASE Connect(c)
  BY <1>1 DEF Connect
<1>2. CASE TakeClient(c)
  BY <1>2 DEF TakeClient, Pool!Start
<1>3. CASE HandleClient(c)
  BY <1>3 DEF HandleClient, Pool!Finish
<1>4. CASE SessionEnds(c)
  BY <1>4 DEF SessionEnds
<1>5. CASE SessionThrows(c)
  BY <1>5 DEF SessionThrows, LoseThread
<1> QED
  BY <1>1, <1>2, <1>3, <1>4, <1>5

LEMMA TypedNext == Typed /\ [Next]_vars => Typed'
<1> SUFFICES ASSUME Typed, [Next]_vars PROVE Typed'
  OBVIOUS
<1>1. CASE UNCHANGED vars
  BY <1>1 DEF vars, netVars, ioVars, poolVars, Typed, TypeOK
<1> QED
  BY <1>1, ServerAssumption, TypedMain, TypedThreads, TypedClients
  DEF Next, Over, WaitingForClients

(***************************************************************************)
(* The type invariant of the server: in particular, no more threads are    *)
(* lost than were spawned.                                                 *)
(***************************************************************************)
THEOREM ServerTypeCorrect == Safety => []TypeOK
<1>1. Typed => TypeOK
  BY DEF Typed
<1> QED
  BY <1>1, TypedInit, TypedNext, ServerAssumption, PTL DEF Safety
-----------------------------------------------------------------------------
(***************************************************************************)
(* The io_context stops for lack of work only when the accept chain has    *)
(* ended, and the joins are over only when it stopped or every thread was  *)
(* lost.  Without a thread nothing was ever accepted.                      *)
(***************************************************************************)
Chain ==
  /\ main \in {"configure", "arm"} => acceptor = "none"
  /\ main = "spawn" \/ spawned > 0 => acceptor # "none"
  /\ stopped => acceptor \in {"closed", "broken"}
  /\ acceptor = "broken" => lost > 0
  /\ spawned > live + lost => stopped
  /\ spawned = 0 =>
       /\ ~stopped /\ incoming = NoConn
       /\ acceptor \in {"none", "armed", "closed"}
       /\ queued = {} /\ running = {} /\ finished = {}

DropInv == Typed /\ Inv /\ Chain /\ OnlyFailuresDrop

LEMMA ChainInit == Init => Chain /\ OnlyFailuresDrop
BY DEF Init, Chain, OnlyFailuresDrop, Pool!Init

(* What the destructor drops while nothing failed was never taken on.      *)
LEMMA DroppedAtEnd ==
  ASSUME DropInv, main = "closed"
  PROVE  \/ lost > 0 \/ acceptor = "closed"
         \/ finished = {} /\ incoming = NoConn
<1>1. live = 0 /\ spawned \in Int /\ lost \in Int
  BY DEF DropInv, Inv, AfterJoin, Typed, TypeOK
<1>2. CASE spawned = 0
  BY <1>2 DEF DropInv, Chain
<1>3. CASE spawned > 0 /\ ~(lost > 0)
  BY <1>1, <1>3 DEF DropInv, Chain
<1> QED
  BY <1>1, <1>2, <1>3 DEF DropInv, Inv, Counts

LEMMA DropMain ==
  ASSUME ServerAssumption, DropInv, Running \/ Destroying
  PROVE  Chain' /\ OnlyFailuresDrop'
<1> USE DEF Chain, OnlyFailuresDrop, netVars, ioVars, poolVars
<1>0. /\ Chain /\ OnlyFailuresDrop /\ NoConn \notin Conns
      /\ spawned \in Int /\ live \in Int /\ lost \in Int
      /\ live >= 0 /\ lost >= 0 /\ spawned >= 0
      /\ main \in {"configure", "arm"} => spawned = 0
  BY DEF DropInv, Typed, TypeOK, Inv, Counts, ServerAssumption
<1>1. CASE Configure \/ StartJoin \/ JoinIoThreads
  BY <1>0, <1>1 DEF Configure, StartJoin, JoinIoThreads
<1>2. CASE FirstAccept
  <2>1. /\ acceptor' \in {"armed", "closed"} /\ incoming' = NoConn
        /\ spawned = 0 /\ main' = "spawn"
        /\ UNCHANGED <<ioVars, poolVars>>
    BY <1>0, <1>2 DEF FirstAccept, StartAccept
  <2>2. acceptor' = "closed" \/ conn' = conn
    BY <1>2 DEF FirstAccept, StartAccept
  <2> QED
    BY <1>0, <2>1, <2>2
<1>3. CASE SpawnIoThread
  <2>1. acceptor # "none"
    BY <1>0, <1>3 DEF SpawnIoThread
  <2>2. CASE main' = "bailed" /\ UNCHANGED <<netVars, ioVars, poolVars>>
    BY <1>0, <2>1, <2>2
  <2>3. CASE /\ spawned' = spawned + 1 /\ live' = live + 1
             /\ stopped' = (stopped \/ ~HasWork)
             /\ UNCHANGED <<main, lost, netVars, poolVars>>
    <3>1. /\ stopped => stopped'
          /\ stopped' => acceptor \in {"closed", "broken"}
      BY <1>0, <2>1, <2>3 DEF HasWork, DropInv, Typed, TypeOK, AcceptorStates
    <3>2. /\ spawned' = spawned + 1 /\ live' = live + 1
          /\ UNCHANGED <<main, lost, netVars, poolVars>>
      BY <2>3
    <3> QED
      BY <1>0, <2>1, <3>1, <3>2
  <2> QED
    BY <1>3, <2>2, <2>3 DEF SpawnIoThread
<1>4. CASE DestroyThreads
  BY <1>0, <1>4 DEF DestroyThreads, Pool!Close
<1>5. CASE DestroyPool
  BY <1>0, <1>5 DEF DestroyPool, Pool!Closed
<1>6. CASE DestroyRest
  <2>1. /\ main = "closed" /\ main' = "gone"
        /\ UNCHANGED <<acceptor, incoming, ioVars, poolVars>>
    BY <1>6 DEF DestroyRest
  <2> QED
    BY <1>0, <2>1, DroppedAtEnd
<1> QED
  BY <1>1, <1>2, <1>3, <1>4, <1>5, <1>6 DEF Running, Destroying

LEMMA DropThreads ==
  ASSUME ServerAssumption, DropInv, IoThreadReturns \/ Accepting
  PROVE  Chain' /\ OnlyFailuresDrop'
<1> USE DEF Chain, OnlyFailuresDrop, netVars, ioVars, poolVars
<1>0. /\ Chain /\ OnlyFailuresDrop /\ NoConn \notin Conns
      /\ spawned \in Int /\ live \in Int /\ lost \in Int
      /\ live >= 0 /\ lost >= 0 /\ live + lost <= spawned
      /\ main \in {"configure", "arm"} => spawned = 0
      /\ conn \in [Conns -> ConnStates]
      /\ acceptor = "ready" => incoming \in Conns
  BY DEF DropInv, Typed, TypeOK, Inv, Counts, ServerAssumption
<1>1. CASE IoThreadReturns
  BY <1>0, <1>1 DEF IoThreadReturns
<1>2. CASE AcceptCompletes
  BY <1>0, <1>2 DEF AcceptCompletes, Serving
<1>3. CASE HandleAccept
  <2>1. /\ live > 0 /\ ~stopped /\ incoming \in Conns /\ acceptor = "ready"
        /\ conn' = [conn EXCEPT ![incoming] = "pooled"]
        /\ UNCHANGED <<main, incoming, spawned, finished>>
    BY <1>0, <1>3
    DEF HandleAccept, Serving, Pool!Submit, Pool!SubmitFails, Pool!Push
  <2>2. \/ acceptor' = "rearm" /\ UNCHANGED <<live, lost, stopped>>
        \/ /\ acceptor' = "broken"
           /\ live' = live - 1 /\ lost' = lost + 1
    BY <1>3 DEF HandleAccept, LoseThread
  <2> QED
    BY <1>0, <2>1, <2>2
<1>4. CASE HandleAcceptError
  BY <1>0, <1>4 DEF HandleAcceptError, Serving
<1>5. CASE Rearm
  <2>1. /\ acceptor = "rearm" /\ incoming' = NoConn
        /\ UNCHANGED <<main, spawned, live, lost, poolVars>>
        /\ \/ acceptor' = "armed" /\ UNCHANGED conn
           \/ acceptor' = "closed"
    BY <1>5 DEF Rearm, StartAccept
  <2>2. ~stopped /\ (acceptor' = "armed" => ~stopped')
    BY <1>0, <1>5, <2>1 DEF Rearm, StopWhenIdle, HasWork
  <2> QED
    BY <1>0, <2>1, <2>2
<1> QED
  BY <1>1, <1>2, <1>3, <1>4, <1>5 DEF Accepting

LEMMA DropClients ==
  ASSUME ServerAssumption, DropInv, NEW c \in Conns,
         Connect(c) \/ TakeClient(c) \/ HandleClient(c) \/ SessionEnds(c)
         \/ SessionThrows(c)
  PROVE  Chain' /\ OnlyFailuresDrop'
<1> USE DEF Chain, OnlyFailuresDrop, netVars, ioVars, poolVars
<1>0. /\ Chain /\ OnlyFailuresDrop /\ NoConn \notin Conns
      /\ spawned \in Int /\ live \in Int /\ lost \in Int
      /\ live >= 0 /\ lost >= 0 /\ live + lost <= spawned
      /\ conn \in [Conns -> ConnStates] /\ acceptor \in AcceptorStates
  BY DEF DropInv, Typed, TypeOK, Inv, Counts, ServerAssumption
<1>1. CASE Connect(c)
  BY <1>0, <1>1 DEF Connect
<1>2. CASE TakeClient(c)
  <2>1. c \in queued /\ UNCHANGED <<main, netVars, ioVars, finished>>
    BY <1>2 DEF TakeClient, Pool!Start
  <2> QED
    BY <1>0, <2>1
<1>3. CASE HandleClient(c)
  <2>1. /\ c \in running /\ finished' = finished \cup {c}
        /\ UNCHANGED <<main, acceptor, incoming, ioVars>>
        /\ \/ conn' = [conn EXCEPT ![c] = "serving"]
           \/ conn' = [conn EXCEPT ![c] = "closed"]
    BY <1>3 DEF HandleClient, Pool!Finish
  <2> QED
    BY <1>0, <2>1
<1>4. ASSUME /\ live > 0 /\ ~stopped /\ StopWhenIdle
             /\ UNCHANGED <<main, acceptor, incoming, spawned, poolVars>>
             /\ conn' = [conn EXCEPT ![c] = "closed"]
             /\ \/ UNCHANGED <<live, lost>>
                \/ live' = live - 1 /\ lost' = lost + 1
      PROVE  Chain' /\ OnlyFailuresDrop'
  <2>1. acceptor # "none"
    BY <1>0, <1>4
  <2>2. stopped' => acceptor \in {"closed", "broken"}
    BY <1>0, <1>4, <2>1 DEF StopWhenIdle, HasWork, AcceptorStates
  <2> QED
    BY <1>0, <1>4, <2>1, <2>2
<1>5. CASE SessionEnds(c)
  <2>1. live > 0 /\ ~stopped
    BY <1>0, <1>5 DEF SessionEnds, Serving
  <2> QED
    BY <1>4, <1>5, <2>1 DEF SessionEnds
<1>6. CASE SessionThrows(c)
  <2>1. live > 0 /\ ~stopped
    BY <1>0, <1>6 DEF SessionThrows, Serving
  <2> QED
    BY <1>4, <1>6, <2>1 DEF SessionThrows, LoseThread
<1> QED
  BY <1>1, <1>2, <1>3, <1>5, <1>6

LEMMA DropInvInit == Init => DropInv
BY TypedInit, InvInit, ChainInit, ServerAssumption DEF DropInv

LEMMA DropInvStep == DropInv /\ [Next]_vars => DropInv'
<1> SUFFICES ASSUME DropInv, [Next]_vars PROVE Chain' /\ OnlyFailuresDrop'
  BY TypedNext, InvNext DEF DropInv
<1>1. CASE UNCHANGED vars
  BY <1>1
  DEF vars, netVars, ioVars, poolVars, DropInv, Chain, OnlyFailuresDrop
<1> QED
  BY <1>1, ServerAssumption, DropMain, DropThreads, DropClients
  DEF Next, Over, WaitingForClients

(***************************************************************************)
(* For any number of connections and threads and any set of failures: a    *)
(* connection that the server took on is cut off by the end of the server  *)
(* only after a thread was lost or the acceptor was closed by an error.    *)
(***************************************************************************)
THEOREM FailuresAloneDrop == Safety => []OnlyFailuresDrop
<1>1. DropInv => OnlyFailuresDrop
  BY DEF DropInv
<1> QED
  BY <1>1, DropInvInit, DropInvStep, PTL DEF Safety
-----------------------------------------------------------------------------
(* The state of a connection and the books of the pool agree, until the
   destructor has dropped what was left.                                   *)
Where ==
  main # "gone" =>
    /\ queued \cap running = {}
    /\ \A c \in Conns :
         /\ c \in queued \cup running <=> conn[c] = "pooled"
         /\ c \in finished <=> conn[c] \in {"serving", "closed"}
         /\ conn[c] = "accepted" <=> acceptor = "ready" /\ incoming = c

(* The thread that is about to arm the accept again is alive.              *)
Rearming == acceptor = "rearm" => live > 0

Books == Where /\ Rearming

LEMMA BooksInit == Init => Books
BY DEF Init, Books, Where, Rearming, Pool!Init

(* Closing the acceptor drops the backlog and nothing else.                *)
LEMMA StartAcceptBooks ==
  ASSUME DropInv, Books, StartAccept, acceptor \in {"none", "rearm"},
         UNCHANGED poolVars, main # "gone"
  PROVE  Books'
<1>1. /\ conn \in [Conns -> ConnStates] /\ NoConn \notin Conns
      /\ acceptor' \in {"armed", "closed"} /\ incoming' = NoConn
  BY ServerAssumption DEF DropInv, Typed, TypeOK, StartAccept, ServerAssumption
<1>2. \A c \in Conns : \/ conn'[c] = conn[c]
                       \/ conn[c] = "backlog" /\ conn'[c] = "dropped"
  BY <1>1 DEF StartAccept, Drop
<1> QED
  BY <1>1, <1>2 DEF Books, Where, Rearming, poolVars

LEMMA BooksMain ==
  ASSUME DropInv, Books, Running \/ Destroying
  PROVE  Books'
<1> USE DEF netVars, ioVars, poolVars
<1>1. CASE Configure \/ StartJoin \/ JoinIoThreads
  BY <1>1 DEF Configure, StartJoin, JoinIoThreads, Books, Where, Rearming
<1>2. CASE FirstAccept
  <2>1. acceptor = "none" /\ main # "gone" /\ StartAccept
        /\ UNCHANGED poolVars
    BY <1>2 DEF FirstAccept, DropInv, Chain
  <2> QED
    BY <2>1, StartAcceptBooks
<1>3. CASE SpawnIoThread
  <2>1. /\ live \in Int /\ live' \in {live, live + 1} /\ main # "gone"
        /\ UNCHANGED <<netVars, poolVars>>
    BY <1>3 DEF SpawnIoThread, DropInv, Inv, Counts
  <2> QED
    BY <2>1 DEF Books, Where, Rearming
<1>4. CASE DestroyThreads
  BY <1>4 DEF DestroyThreads, Pool!Close, Books, Where, Rearming
<1>5. CASE DestroyPool
  BY <1>5 DEF DestroyPool, Pool!Closed, Books, Where, Rearming
<1>6. CASE DestroyRest
  BY <1>6 DEF DestroyRest, Books, Where, Rearming
<1> QED
  BY <1>1, <1>2, <1>3, <1>4, <1>5, <1>6 DEF Running, Destroying

LEMMA BooksThreads ==
  ASSUME DropInv, Books, IoThreadReturns \/ Accepting
  PROVE  Books'
<1> USE DEF netVars, ioVars, poolVars
<1>0. /\ conn \in [Conns -> ConnStates] /\ NoConn \notin Conns
      /\ live \in Int
      /\ main = "gone" => live = 0
      /\ acceptor = "ready" => incoming \in Conns
  BY ServerAssumption
  DEF DropInv, Typed, TypeOK, Inv, Counts, AfterJoin, ServerAssumption
<1>1. CASE IoThreadReturns
  <2>1. acceptor # "rearm" /\ UNCHANGED <<main, netVars, poolVars>>
    BY <1>1 DEF IoThreadReturns, DropInv, Chain
  <2> QED
    BY <2>1 DEF Books, Where, Rearming
<1>2. CASE AcceptCompletes
  <2>1. PICK c \in Conns :
          /\ conn[c] = "backlog"
          /\ \/ /\ acceptor' = "ready" /\ incoming' = c
                /\ conn' = [conn EXCEPT ![c] = "accepted"]
             \/ acceptor' = "failed" /\ UNCHANGED <<incoming, conn>>
    BY <1>2 DEF AcceptCompletes
  <2>2. acceptor = "armed" /\ UNCHANGED <<main, live, poolVars>>
    BY <1>2 DEF AcceptCompletes
  <2> QED
    BY <1>0, <2>1, <2>2 DEF Books, Where, Rearming
<1>3. CASE HandleAccept
  <2>1. /\ acceptor = "ready" /\ incoming \in Conns /\ live > 0
        /\ main # "gone"
    BY <1>0, <1>3 DEF HandleAccept, Serving
  <2>2. /\ queued' = queued \cup {incoming}
        /\ UNCHANGED <<main, incoming, running, finished>>
        /\ conn' = [conn EXCEPT ![incoming] = "pooled"]
    BY <1>3 DEF HandleAccept, Pool!Submit, Pool!SubmitFails, Pool!Push
  <2>3. \/ acceptor' = "rearm" /\ live' = live
        \/ acceptor' = "broken"
    BY <1>3 DEF HandleAccept
  <2>4. Rearming'
    BY <2>1, <2>3 DEF Rearming
  <2>5. Where'
    BY <1>0, <2>1, <2>2, <2>3 DEF Books, Where
  <2> QED
    BY <2>4, <2>5 DEF Books
<1>4. CASE HandleAcceptError
  BY <1>0, <1>4 DEF HandleAcceptError, Serving, Books, Where, Rearming
<1>5. CASE Rearm
  BY <1>0, <1>5, StartAcceptBooks DEF Rearm, Books, Rearming
<1> QED
  BY <1>1, <1>2, <1>3, <1>4, <1>5 DEF Accepting

LEMMA BooksClients ==
  ASSUME DropInv, Books, NEW c \in Conns,
         Connect(c) \/ TakeClient(c) \/ HandleClient(c) \/ SessionEnds(c)
         \/ SessionThrows(c)
  PROVE  Books'
<1> USE DEF netVars, ioVars, poolVars
<1>0. /\ conn \in [Conns -> ConnStates]
      /\ live \in Int
      /\ main \in {"closed", "gone"} => queued = {} /\ running = {}
  BY DEF DropInv, Typed, TypeOK, Inv, Counts, PoolFollows
<1>1. CASE Connect(c)
  BY <1>0, <1>1 DEF Connect, Books, Where, Rearming
<1>2. CASE TakeClient(c)
  <2>1. /\ c \in queued
        /\ queued' = queued \ {c} /\ running' = running \cup {c}
        /\ UNCHANGED <<main, netVars, ioVars, finished>>
    BY <1>2 DEF TakeClient, Pool!Start
  <2> QED
    BY <1>0, <2>1 DEF Books, Where, Rearming
<1>3. CASE HandleClient(c)
  <2>1. /\ c \in running
        /\ running' = running \ {c} /\ finished' = finished \cup {c}
        /\ UNCHANGED <<main, acceptor, incoming, ioVars, queued>>
        /\ \/ conn' = [conn EXCEPT ![c] = "serving"]
           \/ conn' = [conn EXCEPT ![c] = "closed"]
    BY <1>3 DEF HandleClient, Pool!Finish
  <2> QED
    BY <1>0, <2>1 DEF Books, Where, Rearming
<1>4. CASE SessionEnds(c) \/ SessionThrows(c)
  <2>1. /\ conn[c] = "serving" /\ conn' = [conn EXCEPT ![c] = "closed"]
        /\ UNCHANGED <<main, acceptor, incoming, poolVars>>
    BY <1>4 DEF SessionEnds, SessionThrows
  <2>2. Where'
    BY <1>0, <2>1 DEF Books, Where
  <2>3. acceptor = "rearm" => live' > 0
    BY <1>0, <1>4 DEF SessionEnds, SessionThrows, Serving, LoseThread
  <2> QED
    BY <2>1, <2>2, <2>3 DEF Books, Rearming
<1> QED
  BY <1>1, <1>2, <1>3, <1>4

LEMMA BooksStep == DropInv /\ Books /\ [Next]_vars => Books'
<1> SUFFICES ASSUME DropInv, Books, [Next]_vars PROVE Books'
  OBVIOUS
<1>1. CASE UNCHANGED vars
  BY <1>1 DEF vars, netVars, ioVars, poolVars, Books, Where, Rearming
<1> QED
  BY <1>1, BooksMain, BooksThreads, BooksClients
  DEF Next, Over, WaitingForClients

LEMMA BooksAlways == Safety => [](DropInv /\ Books)
BY DropInvInit, DropInvStep, BooksInit, BooksStep, PTL DEF Safety

(***************************************************************************)
(* Whenever an accept handler is about to call enqueue, the pool is open   *)
(* and does not know the connection: what ThreadPool assumes of its owner. *)
(***************************************************************************)
THEOREM EnqueueAlwaysWelcome == Safety => []EnqueueIsWelcome
<1>1. DropInv /\ Books => EnqueueIsWelcome
  <2> SUFFICES ASSUME DropInv, Books, acceptor = "ready", Serving
               PROVE  /\ poolPhase = "open"
                      /\ incoming \notin queued \cup running \cup finished
    BY DEF EnqueueIsWelcome
  <2>1. incoming \in Conns /\ live > 0
    BY DEF DropInv, Typed, Serving
  <2>2. main \notin {"closing", "closed", "gone"}
    BY <2>1 DEF DropInv, Inv, AfterJoin
  <2> QED
    BY <2>1, <2>2 DEF DropInv, Inv, PoolFollows, Books, Where
<1> QED
  BY <1>1, BooksAlways, PTL
-----------------------------------------------------------------------------
(* The refinement of module Service, step by step.                         *)
Gone == main \in {"gone", "terminated"}

LEMMA Stages ==
  /\ StageOf["outside"] = "away"
  /\ StageOf["backlog"] = "waiting"
  /\ StageOf["accepted"] = "taken"
  /\ StageOf["pooled"] = "taken"
  /\ StageOf["serving"] = "taken"
  /\ StageOf["closed"] = "done"
  /\ StageOf["dropped"] = "dropped"
BY DEF StageOf

(* While the process runs, a step that moves one connection moves one
   client.                                                                 *)
LEMMA ClientMoves ==
  ASSUME conn \in [Conns -> ConnStates], NEW c \in Conns, NEW place,
         conn' = [conn EXCEPT ![c] = place],
         main # "terminated", UNCHANGED main
  PROVE  Promise!Becomes(c, StageOf[conn[c]], StageOf[place])
<1>1. Clients[c] = StageOf[conn[c]]
  BY DEF Clients, Stage
<1>2. \A d \in Conns : Clients[d] = StageOf[conn[d]]
  BY DEF Clients, Stage
<1>3. Clients' = [d \in Conns |-> StageOf[conn'[d]]]
  BY DEF Clients, Stage
<1>4. Clients' = [Clients EXCEPT ![c] = StageOf[place]]
  BY <1>2, <1>3 DEF Clients
<1> QED
  BY <1>1, <1>4 DEF Promise!Becomes

LEMMA ClientsStay == UNCHANGED conn /\ (main' = "terminated" <=> main = "terminated")
                     => UNCHANGED Clients
BY DEF Clients, Stage

LEMMA HarmedStays == UNCHANGED <<main, lost>> => UNCHANGED Harmed
BY DEF Harmed

LEMMA OpennessStays ==
  UNCHANGED acceptor /\ (Gone' <=> Gone) => UNCHANGED Openness
BY DEF Openness, Gone

LEMMA HarmedGrows ==
  ASSUME DropInv, lost' = lost + 1
  PROVE  Harmed' = TRUE
BY DEF DropInv, Typed, TypeOK, Harmed

Stutters == UNCHANGED <<Clients, Openness, Harmed>>

(* start_accept arms the accept, or closes the acceptor for good.          *)
LEMMA StartAcceptSimulates ==
  ASSUME DropInv, StartAccept, acceptor \in {"none", "rearm"}, ~Gone,
         ~Gone', UNCHANGED lost
  PROVE  Promise!Next \/ Stutters
<1>1. UNCHANGED Harmed
  BY DEF Harmed, Gone
<1>2. CASE acceptor' = "armed" /\ UNCHANGED conn
  <2>1. UNCHANGED <<Clients, Openness>>
    BY <1>2 DEF Clients, Stage, Openness, Gone
  <2> QED
    BY <1>1, <2>1 DEF Stutters
<1>3. CASE acceptor' = "closed" /\ conn' = Drop(conn, {"backlog"})
  <2>1. Openness = "open" /\ Openness' = "refusing"
    BY <1>3 DEF Openness, Gone
  <2>2. ASSUME NEW c \in Conns
        PROVE  Stage(c)' = IF Stage(c) \in {"waiting"} THEN "dropped"
                                                       ELSE Stage(c)
    <3>1. conn[c] \in ConnStates
      BY DEF DropInv, Typed, TypeOK
    <3>2. conn'[c] = IF conn[c] = "backlog" THEN "dropped" ELSE conn[c]
      BY <1>3 DEF Drop
    <3> QED
      BY <3>1, <3>2, Stages DEF Stage, ConnStates, Gone
  <2>3. Promise!CutOff({"waiting"})
    BY <2>2 DEF Promise!CutOff, Clients
  <2> QED
    BY <1>1, <2>1, <2>3 DEF Promise!Next, Promise!Refuse
<1> QED
  BY <1>2, <1>3 DEF StartAccept

(* Everything that is under way is cut off at once: by the destruction of
   the io_context, or by std::terminate.                                   *)
LEMMA CutOffAll ==
  ASSUME DropInv,
         \/ main' = "terminated" /\ main # "terminated" /\ UNCHANGED conn
         \/ /\ main = "closed" /\ main' = "gone"
            /\ conn' = Drop(conn, {"backlog", "accepted", "pooled", "serving"})
  PROVE  Promise!CutOff({"waiting", "taken"})
<1>1. ASSUME NEW c \in Conns
      PROVE  Stage(c)' = IF Stage(c) \in {"waiting", "taken"} THEN "dropped"
                                                              ELSE Stage(c)
  <2>1. conn[c] \in ConnStates
    BY DEF DropInv, Typed, TypeOK
  <2>2. CASE main' = "terminated" /\ main # "terminated" /\ UNCHANGED conn
    BY <2>2 DEF Stage
  <2>3. CASE /\ main = "closed" /\ main' = "gone"
             /\ conn' = Drop(conn, {"backlog", "accepted", "pooled", "serving"})
    <3>1. conn'[c] = IF conn[c] \in {"backlog", "accepted", "pooled", "serving"}
                     THEN "dropped" ELSE conn[c]
      BY <2>3 DEF Drop
    <3> QED
      BY <2>1, <2>3, <3>1, Stages DEF Stage, ConnStates
  <2> QED
    BY <2>2, <2>3
<1> QED
  BY <1>1 DEF Promise!CutOff, Clients

(* At the end nothing is in the hands of the server, or it is harmed.      *)
LEMMA TakenAtEnd ==
  ASSUME DropInv, Books, main = "closed", NEW c \in Conns, Clients[c] = "taken"
  PROVE  Harmed \/ Openness = "refusing"
<1>1. conn[c] \in {"accepted", "pooled", "serving"}
  <2>1. StageOf[conn[c]] = "taken" /\ conn[c] \in ConnStates
    BY DEF Clients, Stage, DropInv, Typed, TypeOK
  <2> QED
    BY <2>1, Stages DEF ConnStates
<1>2. conn[c] # "pooled"
  BY DEF Books, Where, DropInv, Inv, PoolFollows
<1>3. incoming = c \/ c \in finished
  BY <1>1, <1>2 DEF Books, Where
<1>4. lost > 0 \/ acceptor = "closed"
  BY <1>3, DroppedAtEnd, ServerAssumption DEF ServerAssumption
<1> QED
  BY <1>4 DEF Harmed, Openness

LEMMA DestroySimulates ==
  ASSUME DropInv, Books, Destroying
  PROVE  Promise!Next \/ Stutters
<1>1. CASE DestroyRest
  <2>1. /\ main = "closed" /\ main' = "gone"
        /\ conn' = Drop(conn, {"backlog", "accepted", "pooled", "serving"})
        /\ UNCHANGED <<acceptor, lost>>
    BY <1>1 DEF DestroyRest, ioVars
  <2>2. Openness # "down" /\ Openness' = "down" /\ UNCHANGED Harmed
    BY <2>1 DEF Openness, Harmed
  <2>3. Promise!CutOff({"waiting", "taken"})
    BY <2>1, CutOffAll
  <2>4. (\E c \in Conns : Clients[c] = "taken") =>
          Harmed' \/ Openness = "refusing"
    BY <2>1, <2>2, TakenAtEnd
  <2> QED
    BY <2>2, <2>3, <2>4 DEF Promise!Next, Promise!GoDown, Promise!MayHurt
<1>2. CASE DestroyThreads /\ main' = "terminated"
  <2>1. main \in {"returned", "bailed"} /\ UNCHANGED <<conn, acceptor, lost>>
    BY <1>2 DEF DestroyThreads, netVars, ioVars
  <2>2. Openness # "down" /\ Openness' = "down" /\ Harmed' = TRUE
    BY <1>2, <2>1 DEF Openness, Harmed
  <2>3. Promise!CutOff({"waiting", "taken"})
    BY <1>2, <2>1, CutOffAll
  <2> QED
    BY <2>2, <2>3 DEF Promise!Next, Promise!GoDown, Promise!MayHurt
<1>3. CASE DestroyPool \/ (DestroyThreads /\ main' # "terminated")
  <2>1. /\ main \notin {"gone", "terminated"}
        /\ main' \notin {"gone", "terminated"}
        /\ UNCHANGED <<conn, acceptor, lost>>
    BY <1>3 DEF DestroyPool, DestroyThreads, netVars, ioVars
  <2> QED
    BY <2>1 DEF Stutters, Clients, Stage, Openness, Harmed
<1> QED
  BY <1>1, <1>2, <1>3 DEF Destroying

LEMMA RunSimulates ==
  ASSUME DropInv, Running \/ IoThreadReturns
  PROVE  Promise!Next \/ Stutters
<1>1. CASE FirstAccept
  BY <1>1, StartAcceptSimulates
  DEF FirstAccept, Gone, ioVars, DropInv, Chain
<1>2. CASE ~FirstAccept
  <2>1. /\ UNCHANGED <<conn, acceptor, lost>>
        /\ main' = main \/ {main, main'} \cap {"gone", "terminated"} = {}
    BY <1>2
    DEF Running, Configure, SpawnIoThread, StartJoin, JoinIoThreads,
        IoThreadReturns, netVars, ioVars
  <2> QED
    BY <2>1 DEF Stutters, Clients, Stage, Openness, Harmed
<1> QED
  BY <1>1, <1>2

LEMMA AcceptSimulates ==
  ASSUME DropInv, Books, Accepting
  PROVE  Promise!Next \/ Stutters
<1>1. /\ conn \in [Conns -> ConnStates]
      /\ ~Gone /\ UNCHANGED main /\ ~Gone'
  BY DEF Accepting, AcceptCompletes, HandleAccept, HandleAcceptError, Rearm,
         Serving, Books, Rearming, DropInv, Typed, TypeOK, Inv, AfterJoin,
         Gone
<1>2. CASE AcceptCompletes
  <2>1. PICK c \in Conns :
          /\ conn[c] = "backlog"
          /\ \/ /\ acceptor' = "ready" /\ incoming' = c
                /\ conn' = [conn EXCEPT ![c] = "accepted"]
             \/ acceptor' = "failed" /\ UNCHANGED <<incoming, conn>>
    BY <1>2 DEF AcceptCompletes
  <2>2. /\ Openness = "open" /\ UNCHANGED <<Openness, Harmed>>
    BY <1>1, <1>2, <2>1 DEF AcceptCompletes, ioVars, Openness, Harmed, Gone
  <2>3. CASE conn' = [conn EXCEPT ![c] = "accepted"]
    <3>1. Promise!Becomes(c, "waiting", "taken")
      BY <1>1, <2>1, <2>3, ClientMoves, Stages DEF Gone
    <3> QED
      BY <2>2, <3>1 DEF Promise!Next, Promise!Take
  <2>4. CASE UNCHANGED conn
    BY <1>1, <2>2, <2>4, ClientsStay DEF Stutters
  <2> QED
    BY <2>1, <2>3, <2>4
<1>3. CASE HandleAccept
  <2>1. /\ acceptor = "ready" /\ incoming \in Conns
        /\ conn[incoming] = "accepted"
        /\ conn' = [conn EXCEPT ![incoming] = "pooled"]
        /\ acceptor' \in {"rearm", "broken"}
    BY <1>1, <1>3 DEF HandleAccept, DropInv, Typed, Books, Where, Gone
  <2>2. UNCHANGED Clients
    <3>1. \A c \in Conns : StageOf[conn'[c]] = StageOf[conn[c]]
      BY <1>1, <2>1, Stages
    <3> QED
      BY <1>1, <3>1 DEF Clients, Stage
  <2>3. Openness # "down" /\ UNCHANGED Openness
    BY <1>1, <2>1 DEF Openness, Gone
  <2>4. CASE UNCHANGED lost
    BY <1>1, <2>2, <2>3, <2>4, HarmedStays DEF Stutters
  <2>5. CASE lost' = lost + 1
    BY <2>2, <2>3, <2>5, HarmedGrows DEF Promise!Next, Promise!Hurt
  <2> QED
    BY <1>3, <2>4, <2>5 DEF HandleAccept, LoseThread
<1>4. CASE HandleAcceptError
  BY <1>1, <1>4
  DEF HandleAcceptError, ioVars, Stutters, Clients, Stage, Openness, Harmed
<1>5. CASE Rearm
  BY <1>1, <1>5, StartAcceptSimulates DEF Rearm
<1> QED
  BY <1>2, <1>3, <1>4, <1>5 DEF Accepting

LEMMA ClientSimulates ==
  ASSUME DropInv, Books, NEW c \in Conns,
         Connect(c) \/ TakeClient(c) \/ HandleClient(c) \/ SessionEnds(c)
         \/ SessionThrows(c)
  PROVE  Promise!Next \/ Stutters
<1>1. /\ conn \in [Conns -> ConnStates]
      /\ ~Gone /\ UNCHANGED main /\ UNCHANGED acceptor
      /\ Openness # "down" /\ UNCHANGED Openness
  <2>1. main # "gone"
    BY DEF Connect, TakeClient, HandleClient, SessionEnds, SessionThrows,
           Serving, Pool!Start, Pool!Finish, DropInv, Typed, TypeOK, Inv,
           AfterJoin, PoolFollows
  <2>2. main # "terminated" /\ UNCHANGED <<main, acceptor>>
    BY DEF Connect, TakeClient, HandleClient, SessionEnds, SessionThrows,
           Serving, netVars
  <2> QED
    BY <2>1, <2>2 DEF Gone, Openness, DropInv, Typed, TypeOK
<1>2. CASE Connect(c)
  <2>1. Promise!Becomes(c, "away", "waiting")
    BY <1>1, <1>2, ClientMoves, Stages DEF Connect, Gone
  <2>2. Openness = "open" /\ UNCHANGED Harmed
    BY <1>1, <1>2 DEF Connect, ioVars, Openness, Harmed, Gone
  <2> QED
    BY <1>1, <2>1, <2>2 DEF Promise!Next, Promise!Arrive
<1>3. CASE TakeClient(c)
  BY <1>1, <1>3
  DEF TakeClient, netVars, ioVars, Stutters, Clients, Stage, Harmed
<1>4. CASE HandleClient(c)
  <2>1. conn[c] = "pooled" /\ UNCHANGED Harmed
    BY <1>1, <1>4
    DEF HandleClient, Pool!Finish, ioVars, Books, Where, Harmed, Gone
  <2>2. CASE conn' = [conn EXCEPT ![c] = "serving"]
    <3>1. \A d \in Conns : StageOf[conn'[d]] = StageOf[conn[d]]
      BY <1>1, <2>1, <2>2, Stages
    <3> QED
      BY <1>1, <2>1, <3>1 DEF Stutters, Clients, Stage
  <2>3. CASE conn' = [conn EXCEPT ![c] = "closed"]
    <3>1. Promise!Becomes(c, "taken", "done")
      BY <1>1, <2>1, <2>3, ClientMoves, Stages DEF Gone
    <3> QED
      BY <1>1, <2>1, <3>1 DEF Promise!Next, Promise!Complete, Promise!MayHurt
  <2> QED
    BY <1>4, <2>2, <2>3 DEF HandleClient
<1>5. CASE SessionEnds(c) \/ SessionThrows(c)
  <2>1. Promise!Becomes(c, "taken", "done")
    BY <1>1, <1>5, ClientMoves, Stages DEF SessionEnds, SessionThrows, Gone
  <2>2. Promise!MayHurt
    <3>1. CASE UNCHANGED lost
      BY <1>1, <3>1, HarmedStays DEF Promise!MayHurt
    <3>2. CASE lost' = lost + 1
      BY <3>2, HarmedGrows DEF Promise!MayHurt
    <3> QED
      BY <1>5, <3>1, <3>2 DEF SessionEnds, SessionThrows, LoseThread
  <2> QED
    BY <1>1, <2>1, <2>2 DEF Promise!Next, Promise!Complete
<1> QED
  BY <1>2, <1>3, <1>4, <1>5

(***************************************************************************)
(* For any number of connections and threads and any set of failures, the  *)
(* server implements module Service.                                       *)
(***************************************************************************)
THEOREM ServerImplementsService == Safety => ImplementsService
<1>1. Init => Promise!Init
  <2> SUFFICES ASSUME Init PROVE Promise!Init
    OBVIOUS
  <2>1. Clients = [c \in Conns |-> "away"]
    BY Stages DEF Init, Clients, Stage
  <2>2. Openness = "open" /\ Harmed = FALSE
    BY DEF Init, Openness, Harmed
  <2> QED
    BY <2>1, <2>2 DEF Promise!Init
<1>2. ASSUME DropInv, Books, [Next]_vars
      PROVE  [Promise!Next]_<<Clients, Openness, Harmed>>
  <2>1. CASE UNCHANGED vars
    BY <2>1
    DEF vars, netVars, ioVars, Clients, Stage, Openness, Harmed
  <2>2. CASE Next
    BY <1>2, <2>1, <2>2, DestroySimulates, RunSimulates, AcceptSimulates,
       ClientSimulates DEF Next, Over, WaitingForClients, Stutters
  <2> QED
    BY <1>2, <2>1, <2>2
<1> QED
  BY <1>1, <1>2, BooksAlways, PTL
  DEF Safety, ImplementsService, Promise!Spec
=============================================================================
