------------------------------- MODULE Session -------------------------------
(***************************************************************************)
(* One HTTP connection: Session::run (core/session/Session.cpp), started   *)
(* by a thread of the pool (HTTPServer::handle_client) and carried on by   *)
(* the handlers that the io_context threads run: the expiry of the timer,  *)
(* the end of the read, the end of the write, the posted close.            *)
(*                                                                         *)
(* Definitions whose name ends in _faulty are plausible mistakes that no   *)
(* specification uses; they show that the properties notice them.          *)
(*                                                                         *)
(* No strand orders the handlers, so two io_context threads may be in two  *)
(* of them at once.  A handler that has finished its operation waits in    *)
(* the io_context's queue until a live thread is free.  The session object *)
(* lives as long as a handler, or the thread that called run, holds self.  *)
(***************************************************************************)
EXTENDS Integers

CONSTANTS
  IoThreads,   (* threads in io_context::run, calculate_io_thread_count *)
  Deadline,    (* the 20 s of the timer, in ticks of 5 s               *)
  OthersThrow  (* may other sessions' handlers end io_context threads? *)

ASSUME SessionAssumption ==
  /\ IoThreads \in Nat \ {0}
  /\ Deadline \in Nat \ {0}
  /\ OthersThrow \in BOOLEAN

(***************************************************************************)
(* What the client sends, as far as the server tells requests apart: one   *)
(* the controller answers, one the WAF pattern rejects, one with a body    *)
(* above MAX_REQUEST_BODY_SIZE, one the router refuses, and one whose      *)
(* controller lets an exception out.                                       *)
(***************************************************************************)
Kinds == {"plain", "forbidden", "oversize", "unroutable", "throwing"}

VARIABLES
  socket,   (* "open" or "closed"                                          *)
  closedBy, (* the first caller of close_socket                            *)
  elapsed,  (* ticks since the timer was armed; time stops at Deadline     *)
  start,    (* the pool thread inside Session::run                         *)
  timer,    (* the timer's wait and its handler                            *)
  read,     (* the read operation and its handler                          *)
  outcome,  (* what the read ended with                                    *)
  reply,    (* the response that handle_request chose                      *)
  write,    (* the write operation, its handler and the posted close       *)
  live,     (* io_context threads that have not ended                      *)
  kind      (* the request this client sends, if it sends one              *)

conn == <<socket, closedBy>>
env == <<elapsed, live, kind>>
vars == <<conn, env, start, timer, read, outcome, reply, write>>

(* The read's handler, from its start to its end.                          *)
Reading == {"handling", "responding", "writing", "closing"}

TypeOK ==
  /\ socket \in {"open", "closed"}
  /\ closedBy \in {"nobody", "timer", "reader", "writer"}
  /\ elapsed \in 0 .. Deadline
  /\ start \in {"begin", "armed", "reading", "done"}
  /\ timer \in {"none", "waiting", "expired", "aborted", "locked", "over"}
  /\ read \in {"none", "pending", "ready"} \cup Reading \cup {"over"}
  /\ outcome \in {"none", "request", "eof", "error"}
  /\ reply \in {"none", "success", "policy", "tooLarge", "refused"}
  /\ write \in {"none", "pending", "sent", "failed"} \cup
               {"posted", "closing", "over"}
  /\ live \in 0 .. IoThreads
  /\ kind \in Kinds

Init ==
  /\ socket = "open" /\ closedBy = "nobody"
  /\ elapsed = 0 /\ live = IoThreads /\ kind \in Kinds
  /\ start = "begin" /\ timer = "none"
  /\ read = "none" /\ outcome = "none"
  /\ reply = "none" /\ write = "none"
-----------------------------------------------------------------------------
(* Handlers of this session that are being executed.                       *)
Executing ==
  (IF timer = "locked" THEN 1 ELSE 0)
  + (IF read \in Reading THEN 1 ELSE 0)
  + (IF write = "closing" THEN 1 ELSE 0)

ThreadFree == Executing < live

(***************************************************************************)
(* The timer object belongs to the local variable of read_request and to   *)
(* the handler of the read, up to its destruction.                         *)
(***************************************************************************)
TimerAlive_faulty == TRUE

TimerAlive ==
  \/ start \in {"armed", "reading"}
  \/ read \in {"pending", "ready"} \cup Reading

(***************************************************************************)
(* close_socket by who: nothing when the socket is closed already;         *)
(* otherwise the operations in progress end with an error, while the ones  *)
(* that are complete and queued keep their result.  The caller gives the   *)
(* values that read and write have apart from that.                        *)
(***************************************************************************)
CloseSocket(who, r, w) ==
  /\ socket' = "closed"
  /\ closedBy' = IF socket = "open" THEN who ELSE closedBy
  /\ read' = IF r = "pending" THEN "ready" ELSE r
  /\ outcome' = IF r = "pending" THEN "error" ELSE outcome
  /\ write' = IF w = "pending" THEN "failed" ELSE w
-----------------------------------------------------------------------------
(* read_request on the pool's thread: arm the timer, start the read, and
   let go of the timer and of the session.                                 *)
ArmTimer ==
  /\ start = "begin"
  /\ start' = "armed"
  /\ timer' = "waiting"
  /\ UNCHANGED <<conn, env, read, outcome, reply, write>>

StartRead ==
  /\ start = "armed"
  /\ start' = "reading"
  /\ IF socket = "open"
     THEN read' = "pending" /\ UNCHANGED outcome
     ELSE read' = "ready" /\ outcome' = "error"
  /\ UNCHANGED <<conn, env, timer, reply, write>>

ReturnFromRun ==
  /\ start = "reading"
  /\ start' = "done"
  /\ UNCHANGED <<conn, env, timer, read, outcome, reply, write>>
-----------------------------------------------------------------------------
Tick ==
  /\ start # "begin"
  /\ elapsed < Deadline
  /\ elapsed' = elapsed + 1
  /\ UNCHANGED <<conn, start, timer, read, outcome, reply, write, live, kind>>

TimerExpires_faulty ==
  /\ timer = "waiting"
  /\ timer' = "expired"
  /\ UNCHANGED <<conn, env, start, read, outcome, reply, write>>

TimerExpires ==
  /\ timer = "waiting"
  /\ elapsed = Deadline
  /\ timer' = "expired"
  /\ UNCHANGED <<conn, env, start, read, outcome, reply, write>>

ExpiryCounts_faulty == TimerAlive

(* Past weak_timer.lock() and if (!ec): the handler is going to close.     *)
ExpiryCounts == TimerAlive /\ timer = "expired"

TimerHandler ==
  /\ timer \in {"expired", "aborted"}
  /\ ThreadFree
  /\ timer' = IF ExpiryCounts THEN "locked" ELSE "over"
  /\ UNCHANGED <<conn, env, start, read, outcome, reply, write>>

TimerCloses_faulty ==
  /\ timer = "locked"
  /\ timer' = "over"
  /\ UNCHANGED <<conn, env, start, read, outcome, reply, write>>

TimerCloses ==
  /\ timer = "locked"
  /\ timer' = "over"
  /\ CloseSocket("timer", read, write)
  /\ UNCHANGED <<env, start, reply>>
-----------------------------------------------------------------------------
(***************************************************************************)
(* The read ends: with a request, with the client's end of stream, or with *)
(* an error.  The library may itself refuse an oversize body with an error.*)
(***************************************************************************)
ReadCompletes ==
  /\ read = "pending"
  /\ read' = "ready"
  /\ outcome' \in {"request", "eof", "error"}
  /\ UNCHANGED <<conn, env, start, timer, reply, write>>

(* timer->cancel() aborts a wait; an expiry that is queued stays queued.   *)
CancelTimer == timer' = IF timer = "waiting" THEN "aborted" ELSE timer

ReadHandlerFails ==
  /\ read = "ready"
  /\ ThreadFree
  /\ outcome # "request"
  /\ CancelTimer
  /\ read' = "closing"
  /\ UNCHANGED <<conn, env, start, outcome, reply, write>>

ReaderCloses ==
  /\ read = "closing"
  /\ CloseSocket("reader", "over", write)
  /\ UNCHANGED <<env, start, timer, reply>>

ReadHandler ==
  /\ read = "ready"
  /\ ThreadFree
  /\ outcome = "request"
  /\ CancelTimer
  /\ read' = "handling"
  /\ UNCHANGED <<conn, env, start, outcome, reply, write>>

(* waf_check_request tests the size as well.                               *)
PassesWaf == kind \notin {"forbidden", "oversize"}

(* handle_request: the WAF, the size, then the router.                     *)
HandleRequest ==
  /\ read = "handling"
  /\ kind # "throwing"
  /\ read' = "responding"
  /\ reply' = CASE ~PassesWaf           -> "policy"
                [] kind = "oversize"    -> "tooLarge"
                [] kind = "unroutable"  -> "refused"
                [] OTHER                -> "success"
  /\ UNCHANGED <<conn, env, start, timer, outcome, write>>

(* The exception leaves the handler and io_context::run: the handler, its
   timer and its self are gone, and so is the thread.                      *)
HandlerThrows ==
  /\ read = "handling"
  /\ kind = "throwing"
  /\ read' = "over"
  /\ live' = live - 1
  /\ UNCHANGED <<conn, elapsed, start, timer, outcome, reply, write, kind>>

(* send_response tests is_open; a response for a closed socket is dropped. *)
SendResponse ==
  /\ read = "responding"
  /\ read' = IF socket = "open" THEN "writing" ELSE "over"
  /\ UNCHANGED <<conn, env, start, timer, outcome, reply, write>>

(* As if the response had the size of a buffer: written, and closed here.  *)
StartWrite_faulty ==
  /\ read = "writing"
  /\ read' = "closing"
  /\ write' = IF socket = "open" THEN "pending" ELSE "failed"
  /\ UNCHANGED <<conn, env, start, timer, outcome, reply>>

StartWrite ==
  /\ read = "writing"
  /\ read' = "over"
  /\ write' = IF socket = "open" THEN "pending" ELSE "failed"
  /\ UNCHANGED <<conn, env, start, timer, outcome, reply>>
-----------------------------------------------------------------------------
WriteCompletes ==
  /\ write = "pending"
  /\ write' \in {"sent", "failed"}
  /\ UNCHANGED <<conn, env, start, timer, read, outcome, reply>>

(* The posted close, or the write handler's own after an error.            *)
WriterFinishes_faulty ==
  /\ write \in {"failed", "posted"}
  /\ ThreadFree
  /\ write' = IF write = "failed" THEN "closing" ELSE "over"
  /\ UNCHANGED <<conn, env, start, timer, read, outcome, reply>>

WriterFinishes ==
  /\ write \in {"failed", "posted"}
  /\ ThreadFree
  /\ write' = "closing"
  /\ UNCHANGED <<conn, env, start, timer, read, outcome, reply>>

WriterCloses ==
  /\ write = "closing"
  /\ CloseSocket("writer", read, "over")
  /\ UNCHANGED <<env, start, timer, reply>>

WriteHandler ==
  /\ write = "sent"
  /\ ThreadFree
  /\ write' = "posted"
  /\ UNCHANGED <<conn, env, start, timer, read, outcome, reply>>

OtherHandlerThrows_faulty ==
  /\ OthersThrow
  /\ live' = live - 1
  /\ UNCHANGED <<conn, elapsed, start, timer, read, outcome, reply, write, kind>>

(* A handler of another session throws in a thread that is free.           *)
OtherHandlerThrows ==
  /\ OthersThrow
  /\ ThreadFree
  /\ live' = live - 1
  /\ UNCHANGED <<conn, elapsed, start, timer, read, outcome, reply, write, kind>>

(* Nobody holds self any more: ~Session.                                   *)
Released ==
  /\ start = "done"
  /\ timer = "over"
  /\ read = "over"
  /\ write \in {"none", "over"}

(* Nothing is left to do, or no thread is left to do it.                   *)
Quiet == (Released \/ live = 0) /\ UNCHANGED vars

Starting == ArmTimer \/ StartRead \/ ReturnFromRun

ReadSide ==
  ReadHandler \/ ReadHandlerFails \/ ReaderCloses \/ HandleRequest
  \/ HandlerThrows \/ SendResponse \/ StartWrite

WriteSide == WriteHandler \/ WriterFinishes \/ WriterCloses

Next ==
  \/ Starting
  \/ Tick
  \/ TimerExpires \/ TimerHandler \/ TimerCloses
  \/ ReadCompletes \/ ReadSide
  \/ WriteCompletes \/ WriteSide
  \/ OtherHandlerThrows
  \/ Quiet

Safety == Init /\ [][Next]_vars

(***************************************************************************)
(* Time passes, threads that can run do run, and the io_context gives each *)
(* queued handler its turn.  The client owes nothing: it may never send    *)
(* (ReadCompletes) and never receive (WriteCompletes).                     *)
(***************************************************************************)
Fairness ==
  /\ WF_vars(Starting)
  /\ WF_vars(Tick)
  /\ WF_vars(TimerExpires)
  /\ WF_vars(TimerCloses)
  /\ SF_vars(TimerHandler)
  /\ SF_vars(ReadSide)
  /\ SF_vars(WriteSide)

Spec == Safety /\ Fairness
-----------------------------------------------------------------------------
(***************************************************************************)
(* A request that handle_request has dealt with, its effects included,     *)
(* goes without an attempt to answer only because the timer closed the     *)
(* socket, and the timer does that only after the full 20 s.               *)
(***************************************************************************)
OnlyDeadlineDropsReply ==
  read = "over" /\ reply # "none" /\ write = "none" =>
    closedBy = "timer" /\ elapsed = Deadline

(* The code that is at work on the socket, inside a call that uses it.     *)
SocketUsers ==
  {u \in {"run", "timer", "reader", "writer"} :
     \/ u = "run" /\ start = "armed"
     \/ u = "timer" /\ timer = "locked"
     \/ u = "reader" /\ read \in {"responding", "writing", "closing"}
     \/ u = "writer" /\ write = "closing"}

(***************************************************************************)
(* The socket object is not made for two threads, and nothing serialises   *)
(* them.  They meet in one way only: the timer's handler is in             *)
(* close_socket, after the full 20 s, and one other thread starts the      *)
(* read, sends the response or closes.                                     *)
(***************************************************************************)
OnlyTimerSharesSocket ==
  \A u, v \in SocketUsers :
    u # v => "timer" \in {u, v} /\ elapsed = Deadline

(***************************************************************************)
(* A session whose object is gone has closed its socket by close_socket;   *)
(* only an exception of the controller leaves that to the destructor.      *)
(***************************************************************************)
ClosedBeforeRelease == Released => socket = "closed" \/ kind = "throwing"

(***************************************************************************)
(* What the weak_ptr in the timer's handler is for: a late expiry does not *)
(* get past the test during the handling of a request, nor after its       *)
(* response was started.  It holds when one io_context thread is left,     *)
(* which then goes on to close the socket without an interruption, and run *)
(* has let go of the timer.                                                *)
(***************************************************************************)
LateExpirySparesResponse ==
  [][timer = "expired" /\ timer' = "locked" /\ live = 1 /\ start = "done" =>
       write = "none" /\ read \in {"pending", "ready"}]_vars

(***************************************************************************)
(* Every session comes to its end, the socket closed and the object        *)
(* destroyed, unless the client never takes the response (the write has no *)
(* timer) or no io_context thread is left.                                 *)
(***************************************************************************)
SessionEnds ==
  <>Released \/ <>[](write = "pending") \/ <>[](live = 0)

(***************************************************************************)
(* The session implements module Exchange: it is waiting until             *)
(* handle_request has chosen the response, answering while the write is in *)
(* progress, and settled when the write has ended or was never begun.      *)
(***************************************************************************)
Abstract == INSTANCE Exchange WITH
  conn  <- socket,
  late  <- elapsed = Deadline,
  stage <- IF reply = "none" THEN "waiting"
           ELSE IF write = "pending" THEN "answering"
           ELSE IF write = "none" /\ read # "over" THEN "chosen"
           ELSE "settled"

ImplementsExchange == Abstract!Spec

(***************************************************************************)
(* "Timeout: No request received after 5 seconds!" (Session.cpp:51): when  *)
(* the handler says so, no request was received.                           *)
(***************************************************************************)
TimeoutMeansNoRequest ==
  [][timer = "expired" /\ timer' = "locked" => outcome # "request"]_vars
=============================================================================
