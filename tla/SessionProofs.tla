---------------------------- MODULE SessionProofs ----------------------------
(***************************************************************************)
(* For any number of io_context threads and any delay of the timer: only   *)
(* the deadline costs a handled request its response, the session closes   *)
(* its socket, two threads meet at it only when one of them is the timer's *)
(* and late, a late expiry spares the response, and the session           *)
(* implements Exchange.  The argument says who can have closed the socket  *)
(* at each stage of the request.                                           *)
(***************************************************************************)
EXTENDS Session, TLAPS

USE DEF conn, env, Reading

(* No more handlers are executed than there are threads.                   *)
Enough == Executing <= live

LEMMA TypeInit == Init => TypeOK /\ Enough
BY SessionAssumption
DEF Init, TypeOK, Enough, Executing, SessionAssumption

LEMMA TypeStarting ==
  ASSUME TypeOK, Enough, Starting \/ Tick \/ TimerExpires \/ WriteCompletes
                         \/ ReadCompletes
  PROVE  (TypeOK /\ Enough)'
<1> USE SessionAssumption DEF TypeOK, Enough, Executing, SessionAssumption
<1>1. CASE ArmTimer \/ ReturnFromRun \/ TimerExpires
  BY <1>1 DEF ArmTimer, ReturnFromRun, TimerExpires
<1>2. CASE StartRead
  BY <1>2 DEF StartRead
<1>3. CASE Tick
  BY <1>3 DEF Tick
<1>4. CASE ReadCompletes
  BY <1>4 DEF ReadCompletes
<1>5. CASE WriteCompletes
  BY <1>5 DEF WriteCompletes
<1> QED
  BY <1>1, <1>2, <1>3, <1>4, <1>5 DEF Starting

LEMMA TypeTimerAndWrite ==
  ASSUME TypeOK, Enough, TimerHandler \/ TimerCloses \/ OtherHandlerThrows
                         \/ WriteSide
  PROVE  (TypeOK /\ Enough)'
<1> USE SessionAssumption
    DEF TypeOK, Enough, Executing, SessionAssumption, ThreadFree
<1>1. CASE TimerHandler
  BY <1>1 DEF TimerHandler
<1>2. CASE TimerCloses
  BY <1>2 DEF TimerCloses, CloseSocket
<1>3. CASE OtherHandlerThrows
  BY <1>3 DEF OtherHandlerThrows
<1>4. CASE WriteHandler \/ WriterFinishes
  BY <1>4 DEF WriteHandler, WriterFinishes
<1>5. CASE WriterCloses
  BY <1>5 DEF WriterCloses, CloseSocket
<1> QED
  BY <1>1, <1>2, <1>3, <1>4, <1>5 DEF WriteSide

LEMMA TypeRead ==
  ASSUME TypeOK, Enough, ReadSide
  PROVE  (TypeOK /\ Enough)'
<1> USE SessionAssumption
    DEF TypeOK, Enough, Executing, SessionAssumption, ThreadFree, CancelTimer
<1>1. CASE ReadHandler \/ ReadHandlerFails
  BY <1>1 DEF ReadHandler, ReadHandlerFails
<1>2. CASE ReaderCloses
  BY <1>2 DEF ReaderCloses, CloseSocket
<1>3. CASE HandleRequest
  BY <1>3 DEF HandleRequest
<1>4. CASE HandlerThrows
  BY <1>4 DEF HandlerThrows
<1>5. CASE SendResponse \/ StartWrite
  BY <1>5 DEF SendResponse, StartWrite
<1> QED
  BY <1>1, <1>2, <1>3, <1>4, <1>5 DEF ReadSide

(***************************************************************************)
(* The type invariant; in particular io_context threads that exceptions    *)
(* end are never more than there were.                                     *)
(***************************************************************************)
THEOREM SessionTypeCorrect == Safety => []TypeOK
<1>1. TypeOK /\ Enough /\ [Next]_vars => (TypeOK /\ Enough)'
  <2> SUFFICES ASSUME TypeOK, Enough, [Next]_vars PROVE (TypeOK /\ Enough)'
    OBVIOUS
  <2>1. CASE UNCHANGED vars
    BY <2>1 DEF vars, TypeOK, Enough, Executing
  <2> QED
    BY <2>1, TypeStarting, TypeTimerAndWrite, TypeRead DEF Next, Quiet
<1> QED
  BY <1>1, TypeInit, PTL DEF Safety
-----------------------------------------------------------------------------

(* The order of the stages: run starts the read, the read's handler chooses
   a reply, and the write begins when that handler ends.                   *)
Stages ==
  /\ start \in {"begin", "armed"} => read = "none"
  /\ reply # "none" => read \in {"responding", "writing", "over"}
  /\ write # "none" => read = "over"
  /\ read \in {"responding", "writing"} => reply # "none"

(* The timer acts at the deadline only.                                    *)
AtDeadline ==
  timer \in {"expired", "locked"} \/ closedBy = "timer" => elapsed = Deadline

(* Who closed the socket, and when each of them can have done so.          *)
WhoClosed ==
  /\ socket \in {"open", "closed"}
  /\ closedBy \in {"nobody", "timer", "reader", "writer"}
  /\ socket = "open" <=> closedBy = "nobody"
  /\ closedBy = "reader" => read = "over" /\ reply = "none"
  /\ closedBy = "writer" => write # "none"

(* A read that is over without a write, or a write that is over, leaves a
   closed socket.                                                          *)
EndsClosed ==
  /\ read = "over" /\ write = "none" => socket = "closed" \/ kind = "throwing"
  /\ write = "over" => socket = "closed"

(* Closing ends the write that is in progress.                             *)
NoWriteWhenClosed == socket = "closed" => write # "pending"

Inv ==
  /\ Stages /\ AtDeadline /\ WhoClosed /\ EndsClosed /\ NoWriteWhenClosed
  /\ OnlyDeadlineDropsReply

LEMMA InvInit == Init => Inv
BY DEF Init, Inv, Stages, AtDeadline, WhoClosed, EndsClosed,
       NoWriteWhenClosed, OnlyDeadlineDropsReply

(* The pool's thread, the clock and the threads of other sessions.         *)
LEMMA InvOthers ==
  ASSUME Inv, Starting \/ Tick \/ TimerExpires \/ OtherHandlerThrows
  PROVE  Inv'
<1> USE DEF Inv, Stages, AtDeadline, WhoClosed, EndsClosed,
            NoWriteWhenClosed, OnlyDeadlineDropsReply
<1>1. CASE ArmTimer
  BY <1>1 DEF ArmTimer
<1>2. CASE StartRead
  BY <1>2 DEF StartRead
<1>3. CASE ReturnFromRun
  BY <1>3 DEF ReturnFromRun
<1>4. CASE Tick
  BY <1>4, SessionAssumption DEF Tick, SessionAssumption
<1>5. CASE TimerExpires
  BY <1>5 DEF TimerExpires
<1>6. CASE OtherHandlerThrows
  BY <1>6 DEF OtherHandlerThrows
<1> QED
  BY <1>1, <1>2, <1>3, <1>4, <1>5, <1>6 DEF Starting

(* The handlers of the timer and of the write.                             *)
LEMMA InvTimerAndWrite ==
  ASSUME Inv, TimerHandler \/ TimerCloses \/ WriteCompletes \/ WriteSide
  PROVE  Inv'
<1> USE DEF Inv, Stages, AtDeadline, WhoClosed, EndsClosed,
            NoWriteWhenClosed, OnlyDeadlineDropsReply
<1>1. CASE TimerHandler
  BY <1>1 DEF TimerHandler, ExpiryCounts
<1>2. CASE TimerCloses
  BY <1>2 DEF TimerCloses, CloseSocket
<1>3. CASE WriteCompletes
  BY <1>3 DEF WriteCompletes
<1>4. CASE WriteHandler
  BY <1>4 DEF WriteHandler
<1>5. CASE WriterFinishes
  BY <1>5 DEF WriterFinishes
<1>6. CASE WriterCloses
  BY <1>6 DEF WriterCloses, CloseSocket
<1> QED
  BY <1>1, <1>2, <1>3, <1>4, <1>5, <1>6 DEF WriteSide

(* The read and its handler.                                               *)
LEMMA InvRead ==
  ASSUME Inv, ReadCompletes \/ ReadSide
  PROVE  Inv'
<1> USE DEF Inv, Stages, AtDeadline, WhoClosed, EndsClosed,
            NoWriteWhenClosed, OnlyDeadlineDropsReply
<1>1. CASE ReadCompletes
  BY <1>1 DEF ReadCompletes
<1>2. CASE ReadHandler
  BY <1>2 DEF ReadHandler, CancelTimer
<1>3. CASE ReadHandlerFails
  BY <1>3 DEF ReadHandlerFails, CancelTimer
<1>4. CASE HandleRequest
  BY <1>4 DEF HandleRequest
<1>5. CASE HandlerThrows
  BY <1>5 DEF HandlerThrows
<1>6. CASE SendResponse
  BY <1>6 DEF SendResponse
<1>7. CASE StartWrite
  BY <1>7 DEF StartWrite
<1>8. CASE ReaderCloses
  BY <1>8 DEF ReaderCloses, CloseSocket
<1> QED
  BY <1>1, <1>2, <1>3, <1>4, <1>5, <1>6, <1>7, <1>8 DEF ReadSide

LEMMA InvAlways == Safety => []Inv
<1>1. Inv /\ [Next]_vars => Inv'
  <2> SUFFICES ASSUME Inv, [Next]_vars PROVE Inv'
    OBVIOUS
  <2>1. CASE UNCHANGED vars
    BY <2>1
    DEF vars, Inv, Stages, AtDeadline, WhoClosed, EndsClosed,
        NoWriteWhenClosed, OnlyDeadlineDropsReply
  <2>2. CASE Next
    BY <2>1, <2>2, InvOthers, InvTimerAndWrite, InvRead DEF Next, Quiet
  <2> QED
    BY <2>1, <2>2
<1> QED
  BY <1>1, InvInit, PTL DEF Safety

(***************************************************************************)
(* A request that was handled goes unanswered only because the timer       *)
(* closed the socket, after the full delay.                                *)
(***************************************************************************)
THEOREM DeadlineAloneDropsReplies == Safety => []OnlyDeadlineDropsReply
<1>1. Inv => OnlyDeadlineDropsReply
  BY DEF Inv
<1> QED
  BY <1>1, InvAlways, PTL

(***************************************************************************)
(* The session has closed its socket when the object goes, unless the      *)
(* controller threw.                                                       *)
(***************************************************************************)
THEOREM SocketClosedAtRelease == Safety => []ClosedBeforeRelease
<1>1. Inv => ClosedBeforeRelease
  BY DEF Inv, EndsClosed, ClosedBeforeRelease, Released
<1> QED
  BY <1>1, InvAlways, PTL

(***************************************************************************)
(* Whoever meets at the socket, one of the two is the timer's handler, and *)
(* the deadline has passed: run, the read's handler and the write's        *)
(* handler come one after the other.                                       *)
(***************************************************************************)
THEOREM TimerAloneSharesSocket == Safety => []OnlyTimerSharesSocket
<1>1. Inv => OnlyTimerSharesSocket
  BY DEF Inv, Stages, AtDeadline, OnlyTimerSharesSocket, SocketUsers
<1> QED
  BY <1>1, InvAlways, PTL

(* With one thread left, the handler that takes the expiry up is alone; and
   only the read's handler, or the read, keeps the timer alive then.       *)
LEMMA LockedWhileReading ==
  ASSUME Inv, TimerHandler, timer' = "locked", live = 1, start = "done"
  PROVE  write = "none" /\ read \in {"pending", "ready"}
<1>1. TimerAlive /\ Executing < 1
  BY DEF TimerHandler, ExpiryCounts, ThreadFree
<1>2. read \notin Reading
  BY <1>1 DEF Executing
<1>3. read \in {"pending", "ready"}
  BY <1>1, <1>2 DEF TimerAlive
<1> QED
  BY <1>3 DEF Inv, Stages

LEMMA OnlyTimerHandlerLocks ==
  ASSUME [Next]_vars, timer = "expired", timer' = "locked"
  PROVE  TimerHandler
BY DEF Next, vars, Quiet, Starting, ArmTimer, StartRead, ReturnFromRun, Tick,
       TimerExpires, TimerCloses, ReadCompletes, ReadSide, ReadHandler,
       ReadHandlerFails, CancelTimer, ReaderCloses, HandleRequest,
       HandlerThrows, SendResponse, StartWrite, WriteCompletes, WriteSide,
       WriteHandler, WriterFinishes, WriterCloses, OtherHandlerThrows

(***************************************************************************)
(* For any deadline: with one io_context thread left, an expiry that comes *)
(* late passes the test of the weak_ptr only while the request is still to *)
(* be read or handled.                                                     *)
(***************************************************************************)
THEOREM LateExpiryIsHarmless == Safety => LateExpirySparesResponse
<1>1. Inv /\ [Next]_vars =>
        [timer = "expired" /\ timer' = "locked" /\ live = 1 /\ start = "done"
           => write = "none" /\ read \in {"pending", "ready"}]_vars
  BY OnlyTimerHandlerLocks, LockedWhileReading
<1> QED
  BY <1>1, InvAlways, PTL DEF Safety, LateExpirySparesResponse
-----------------------------------------------------------------------------
LEMMA ExchangeInit == Init => Abstract!Init
BY SessionAssumption DEF Init, Abstract!Init, SessionAssumption

(* A step that leaves every variable of the mapping alone.                 *)
LEMMA ExchangeStutters ==
  ASSUME UNCHANGED <<socket, elapsed, reply, write>>, read' = read
  PROVE  UNCHANGED Abstract!vars
BY DEF Abstract!vars

LEMMA ExchangeOthers ==
  ASSUME Inv, Starting \/ Tick \/ TimerExpires \/ OtherHandlerThrows
  PROVE  [Abstract!Next]_(Abstract!vars)
<1>1. CASE ArmTimer \/ ReturnFromRun \/ TimerExpires \/ OtherHandlerThrows
  BY <1>1, ExchangeStutters
  DEF ArmTimer, ReturnFromRun, TimerExpires, OtherHandlerThrows
<1>2. CASE StartRead
  BY <1>2 DEF StartRead, Inv, Stages, Abstract!vars
<1>3. CASE Tick
  BY <1>3, SessionAssumption
  DEF Tick, SessionAssumption, Abstract!vars, Abstract!Next,
      Abstract!Expire
<1> QED
  BY <1>1, <1>2, <1>3 DEF Starting

LEMMA ExchangeTimerAndWrite ==
  ASSUME Inv, TimerHandler \/ TimerCloses \/ WriteCompletes \/ WriteSide
  PROVE  [Abstract!Next]_(Abstract!vars)
<1> USE DEF Abstract!vars, Abstract!Next
<1>1. CASE TimerHandler
  BY <1>1, ExchangeStutters DEF TimerHandler
<1>2. CASE TimerCloses
  BY <1>2
  DEF TimerCloses, CloseSocket, Inv, Stages, AtDeadline, WhoClosed,
      NoWriteWhenClosed, Abstract!Cut
<1>3. CASE WriteCompletes
  BY <1>3 DEF WriteCompletes, Inv, Stages, Abstract!Settle
<1>4. CASE WriteHandler \/ WriterFinishes
  BY <1>4 DEF WriteHandler, WriterFinishes
<1>5. CASE WriterCloses
  BY <1>5
  DEF WriterCloses, CloseSocket, Inv, Stages, WhoClosed, Abstract!HangUp
<1> QED
  BY <1>1, <1>2, <1>3, <1>4, <1>5 DEF WriteSide

LEMMA ExchangeRead ==
  ASSUME Inv, ReadCompletes \/ ReadSide
  PROVE  [Abstract!Next]_(Abstract!vars)
<1> USE DEF Abstract!vars, Abstract!Next
<1>1. CASE ReadCompletes \/ ReadHandler \/ ReadHandlerFails \/ HandlerThrows
  BY <1>1
  DEF ReadCompletes, ReadHandler, ReadHandlerFails, HandlerThrows, Inv, Stages
<1>2. CASE ReaderCloses
  BY <1>2
  DEF ReaderCloses, CloseSocket, Inv, Stages, WhoClosed, Abstract!HangUp
<1>3. CASE HandleRequest
  BY <1>3
  DEF HandleRequest, Inv, Stages, AtDeadline, WhoClosed, Abstract!Choose
<1>4. CASE SendResponse
  BY <1>4 DEF SendResponse, Inv, Stages, WhoClosed, Abstract!Drop
<1>5. CASE StartWrite
  BY <1>5
  DEF StartWrite, Inv, Stages, WhoClosed, Abstract!Drop, Abstract!Begin
<1> QED
  BY <1>1, <1>2, <1>3, <1>4, <1>5 DEF ReadSide

(***************************************************************************)
(* Every behaviour of a session is one of Exchange: one response at most,  *)
(* on an open connection, lost to nothing but the deadline.                *)
(***************************************************************************)
THEOREM SessionImplementsExchange == Safety => ImplementsExchange
<1>1. Inv /\ [Next]_vars => [Abstract!Next]_(Abstract!vars)
  <2> SUFFICES ASSUME Inv, [Next]_vars
               PROVE  [Abstract!Next]_(Abstract!vars)
    OBVIOUS
  <2>1. CASE UNCHANGED vars
    BY <2>1, ExchangeStutters DEF vars
  <2> QED
    BY <2>1, ExchangeOthers, ExchangeTimerAndWrite, ExchangeRead
    DEF Next, Quiet
<1> QED
  BY <1>1, ExchangeInit, InvAlways, PTL
  DEF Safety, ImplementsExchange, Abstract!Spec
=============================================================================
