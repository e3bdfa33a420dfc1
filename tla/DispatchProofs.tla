--------------------------- MODULE DispatchProofs ---------------------------
(***************************************************************************)
(* For any number of threads, any routes that the assumptions allow and    *)
(* any requests: nothing unvalidated gets into a handler, whatever the     *)
(* threads do to each other's params_; a request that one route alone can  *)
(* match gets there; only writes of other threads mix parameters up; and   *)
(* what is handled, a right route handles, and what is refused was hidden  *)
(* by a rejecting route or has no right one.                               *)
(*                                                                         *)
(* A thread touches nothing of the other threads but params_ (Frame), so   *)
(* that each argument is about the thread that moves, and about params_.   *)
(***************************************************************************)
EXTENDS Dispatch, TLAPS

USE DEF given, shared

Statuses == {0, 200, 204, 400, 404, 500}

(* A thread that is storing has validated what it stores, for a route.     *)
StoresValid ==
  \A t \in Threads :
    pc[t] = "store" =>
      /\ next[t] <= Len(order)
      /\ Candidate(t) \in Dynamic
      /\ ValidRaw(Extracted(t))

TypeInv == TypeOK /\ StoresValid

(* What a step of t leaves alone.                                          *)
Frame(t) ==
  /\ UNCHANGED <<order, req>>
  /\ \A u \in Threads \ {t} :
       /\ pc'[u] = pc[u] /\ next'[u] = next[u] /\ chosen'[u] = chosen[u]
       /\ status'[u] = status[u] /\ reply'[u] = reply[u]

LEMMA OrderIsSeq ==
  ASSUME TypeOK
  PROVE  /\ order \in Seq(Routes) /\ order # <<>>
         /\ \A r \in Routes : \E i \in DOMAIN order : order[i] = r
BY TraversalAssumption DEF TypeOK, TraversalAssumption

LEMMA CandidateIsRoute ==
  ASSUME TypeOK, NEW t \in Threads, next[t] <= Len(order)
  PROVE  Candidate(t) \in Routes
<1>1. next[t] \in 1 .. Len(order)
  BY OrderIsSeq DEF TypeOK
<1> QED
  BY <1>1, OrderIsSeq DEF Candidate

LEMMA TypeInit == Init => TypeInv
<1> SUFFICES ASSUME Init PROVE TypeInv
  OBVIOUS
<1>1. order \in Seq(Routes) /\ order # <<>>
  BY TraversalAssumption DEF Init, TraversalAssumption
<1>2. order[1] \in Routes /\ Len(order) \in Nat
  BY <1>1
<1>3. (CHOOSE q \in Requests : TRUE) \in Requests
  BY TraversalAssumption DEF TraversalAssumption
<1>4. TypeOK
  BY <1>2, <1>3, TraversalAssumption
  DEF Init, TypeOK, ThreadStates, NoReply, Reply, NoParams,
      TraversalAssumption
<1> QED
  BY <1>4 DEF Init, TypeInv, StoresValid

(* What another thread is storing stays what it validated.                 *)
LEMMA StoringUndisturbed ==
  ASSUME StoresValid, NEW t \in Threads, UNCHANGED order,
         pc'[t] = "store" =>
           /\ next'[t] <= Len(order)
           /\ Candidate(t)' \in Dynamic
           /\ ValidRaw(Extracted(t))',
         \A u \in Threads \ {t} :
           pc'[u] = pc[u] /\ next'[u] = next[u] /\ req'[u] = req[u]
  PROVE  StoresValid'
BY DEF StoresValid, Extracted, Candidate

LEMMA AnswerTypes ==
  ASSUME TypeInv, NEW t \in Threads, NEW p, p.status \in Statuses, Answer(t, p)
  PROVE  TypeInv' /\ Frame(t)
<1> USE DEF TypeInv
<1>1. Frame(t) /\ pc'[t] = "idle"
  BY DEF TypeOK, Answer, Frame
<1>2. TypeOK'
  BY DEF TypeOK, Answer, ThreadStates, Statuses
<1> QED
  BY <1>1, <1>2, StoringUndisturbed DEF Frame, Answer

LEMMA DieTypes ==
  ASSUME TypeInv, NEW t \in Threads, Die(t)
  PROVE  TypeInv' /\ Frame(t)
<1> USE DEF TypeInv
<1>1. Frame(t) /\ pc'[t] = "dead"
  BY DEF TypeOK, Die, Frame
<1>2. TypeOK'
  BY DEF TypeOK, Die, ThreadStates
<1> QED
  BY <1>1, <1>2, StoringUndisturbed DEF Frame, Die

LEMMA ReceiveTypes ==
  ASSUME TypeInv, NEW t \in Threads, NEW q \in Requests, Receive(t, q)
  PROVE  TypeInv'
<1> USE DEF TypeInv
<1>1. order \in Seq(Routes) /\ Len(order) \in Nat
  BY OrderIsSeq
<1>2. TypeOK'
  BY <1>1, TraversalAssumption
  DEF TypeOK, Receive, ThreadStates, NoReply, Reply, TraversalAssumption
<1>3. /\ pc'[t] = "exact"
      /\ \A u \in Threads \ {t} :
           pc'[u] = pc[u] /\ next'[u] = next[u] /\ req'[u] = req[u]
  BY DEF TypeOK, Receive
<1> QED
  BY <1>2, <1>3, StoringUndisturbed DEF Receive

LEMMA GiveUpTypes ==
  ASSUME TypeInv, NEW t \in Threads, NEW st \in {200, 400, 500}, Scanning(t),
         GiveUp(t, st)
  PROVE  /\ TypeInv' /\ Frame(t)
         /\ next'[t] = next[t] + 1 /\ pc'[t] = "scan" /\ status'[t] = st
<1> USE DEF TypeInv
<1>1. /\ next'[t] = next[t] + 1 /\ pc'[t] = "scan" /\ status'[t] = st
      /\ Frame(t)
  BY DEF TypeOK, GiveUp, Frame, Scanning
<1>2. TypeOK'
  <2>1. Len(order) \in Nat
    BY OrderIsSeq
  <2>2. next' \in [Threads -> 1 .. Len(order) + 1]
    BY <2>1 DEF TypeOK, GiveUp, Scanning
  <2> QED
    BY <2>2 DEF TypeOK, GiveUp
<1> QED
  BY <1>1, <1>2, StoringUndisturbed DEF Frame

LEMMA ExactTypes ==
  ASSUME TypeInv, NEW t \in Threads, MatchExact(t) \/ MissExact(t)
  PROVE  TypeInv' /\ Frame(t)
<1> USE DEF TypeInv
<1>1. chosen' \in [Threads -> Routes]
  BY DEF TypeOK, MatchExact, MissExact, ExactRoutes
<1>2. Frame(t) /\ pc'[t] \in {"handle", "scan"}
  BY DEF TypeOK, MatchExact, MissExact, Frame
<1>3. TypeOK'
  BY <1>1 DEF TypeOK, MatchExact, MissExact, ThreadStates
<1> QED
  BY <1>2, <1>3, StoringUndisturbed DEF Frame

LEMMA ExtractKeys ==
  ASSUME NEW r, NEW path
  PROVE  DOMAIN Extract(r, path) = HoleKeys(r)
BY DEF Extract

LEMMA DisturbTypes ==
  ASSUME TypeOK, NEW t \in Threads
  PROVE  Disturb(t) \subseteq Threads /\ disturbed \subseteq Disturb(t)
BY DEF TypeOK, Disturb

LEMMA BeginStoreTypes ==
  ASSUME TypeInv, NEW t \in Threads, BeginStore(t)
  PROVE  TypeInv' /\ Frame(t) /\ pc'[t] = "store"
<1> USE DEF TypeInv
<1>1. /\ pc' = [pc EXCEPT ![t] = "store"]
      /\ params' = [params EXCEPT ![Candidate(t)] = NoParams]
      /\ disturbed' = Disturb(t)
      /\ UNCHANGED <<order, received, req, next, chosen, status, reply>>
      /\ next[t] <= Len(order) /\ Candidate(t) \in Dynamic
      /\ ValidRaw(Extracted(t))
  BY DEF BeginStore, Settles, Scanning
<1>2. \A r \in Routes : params'[r] = params[r] \/ DOMAIN params'[r] = {}
  BY <1>1 DEF TypeOK, NoParams
<1>3. TypeOK'
  BY <1>1, <1>2, DisturbTypes DEF TypeOK, ThreadStates
<1>4. Frame(t) /\ pc'[t] = "store"
  BY <1>1 DEF TypeOK, Frame
<1>5. StoresValid'
  BY <1>1, <1>4, StoringUndisturbed DEF Frame, Candidate, Extracted
<1> QED
  BY <1>3, <1>4, <1>5

LEMMA EndStoreTypes ==
  ASSUME TypeInv, NEW t \in Threads, EndStore(t)
  PROVE  TypeInv' /\ Frame(t)
<1> USE DEF TypeInv
<1>1. /\ params' = [params EXCEPT ![Candidate(t)] = Extracted(t)]
      /\ disturbed' = Disturb(t)
      /\ UNCHANGED <<order, received, req, status, reply>>
      /\ next[t] <= Len(order) /\ pc[t] = "store"
  BY DEF EndStore, StoresValid
<1>2. Candidate(t) \in Routes
  BY <1>1, CandidateIsRoute
<1>3. \A r \in Routes : DOMAIN params'[r] \subseteq HoleKeys(r)
  <2>1. DOMAIN Extracted(t) = HoleKeys(Candidate(t))
    BY ExtractKeys DEF Extracted
  <2> QED
    BY <1>1, <2>1 DEF TypeOK
<1>4. /\ pc' \in [Threads -> ThreadStates]
      /\ next' \in [Threads -> 1 .. Len(order) + 1]
      /\ chosen' \in [Threads -> Routes]
      /\ pc'[t] # "store"
      /\ \A u \in Threads \ {t} :
           pc'[u] = pc[u] /\ next'[u] = next[u] /\ chosen'[u] = chosen[u]
  <2>1. Len(order) \in Nat
    BY OrderIsSeq
  <2>2. CASE StatusAllows(t)
    <3>1. /\ pc' = [pc EXCEPT ![t] = "handle"]
          /\ chosen' = [chosen EXCEPT ![t] = Candidate(t)]
          /\ UNCHANGED next
      BY <2>2 DEF EndStore
    <3> QED
      BY <1>1, <1>2, <3>1 DEF TypeOK, ThreadStates
  <2>3. CASE ~StatusAllows(t)
    BY <1>1, <2>1, <2>3 DEF EndStore, TypeOK, ThreadStates
  <2> QED
    BY <2>2, <2>3
<1>5. TypeOK'
  BY <1>1, <1>3, <1>4, DisturbTypes DEF TypeOK
<1>6. Frame(t)
  BY <1>1, <1>4 DEF Frame
<1> QED
  BY <1>4, <1>5, <1>6, StoringUndisturbed DEF Frame

(* The lambda answers, catches the missing key itself, or ends the thread. *)
LEMMA LambdaCases ==
  ASSUME NEW t \in Threads, NEW r \in Routes, NEW ps, CallLambda(t, r, ps)
  PROVE  \/ /\ Needs[r] \subseteq DOMAIN ps
            /\ \E st \in {200, 204, 404, 500} :
                 Answer(t, Reply(st, r, [k \in Needs[r] |-> ps[k]]))
         \/ r \in Guarded /\ Answer(t, ErrorResponse(500, "MissingKey"))
         \/ ~(Needs[r] \subseteq DOMAIN ps) /\ r \notin Guarded /\ Die(t)
BY LambdaAssumption DEF CallLambda, LambdaAssumption

(* The parameters are those that the handler holds at this moment.         *)
LEMMA DynamicGetCalls ==
  ASSUME NEW t \in Threads, HandleDynamicGet(t)
  PROVE  \E r \in Dynamic : \E ps :
           r = chosen[t] /\ ps = params[r] /\ CallLambda(t, r, ps)
<1>1. PICK r \in Dynamic : r = chosen[t]
  BY DEF HandleDynamicGet, Handling
<1>2. PICK ps : ps = params[r]
  OBVIOUS
<1>3. CallLambda(t, r, ps)
  BY <1>1, <1>2 DEF HandleDynamicGet, CallLambda, Answer, Die
<1> QED
  BY <1>1, <1>2, <1>3

LEMMA LambdaTypes ==
  ASSUME TypeInv, NEW t \in Threads, NEW r \in Routes, NEW ps,
         CallLambda(t, r, ps)
  PROVE  TypeInv' /\ Frame(t)
<1>1. ASSUME NEW st \in {200, 204, 404, 500}, NEW a, NEW qs,
             Answer(t, Reply(st, a, qs))
      PROVE  TypeInv' /\ Frame(t)
  <2> DEFINE p == Reply(st, a, qs)
  <2>1. p.status \in Statuses
    BY DEF Reply, Statuses
  <2> HIDE DEF p
  <2>2. Answer(t, p)
    BY <1>1 DEF p
  <2> QED
    BY <2>1, <2>2, AnswerTypes
<1>2. CASE \E st \in {200, 204, 404, 500} :
             Answer(t, Reply(st, r, [k \in Needs[r] |-> ps[k]]))
  <2> DEFINE qs == [k \in Needs[r] |-> ps[k]]
  <2>1. PICK st \in {200, 204, 404, 500} : Answer(t, Reply(st, r, qs))
    BY <1>2
  <2> HIDE DEF qs
  <2> QED
    BY <1>1, <2>1
<1>3. CASE Answer(t, ErrorResponse(500, "MissingKey"))
  <2>1. Answer(t, Reply(500, "MissingKey", NoParams))
    BY <1>3 DEF ErrorResponse
  <2> QED
    BY <1>1, <2>1
<1>4. CASE Die(t)
  BY <1>4, DieTypes
<1> QED
  BY <1>2, <1>3, <1>4, LambdaCases

(* Answers that are errors of the router or of a handler.                  *)
LEMMA ErrorTypes ==
  ASSUME TypeInv, NEW t \in Threads, NEW st \in Statuses, NEW message,
         Answer(t, Reply(st, message, NoParams))
  PROVE  TypeInv' /\ Frame(t)
<1> DEFINE p == Reply(st, message, NoParams)
<1>1. p.status \in Statuses
  BY DEF Reply
<1> HIDE DEF p
<1>2. Answer(t, p)
  BY DEF p
<1> QED
  BY <1>1, <1>2, AnswerTypes

LEMMA RefusalIsError ==
  ASSUME NEW st
  PROVE  \E m : Refusal(st) = Reply(400, m, NoParams)
BY DEF Refusal, ErrorResponse

(* What a step that ends a request makes of it.                            *)
Ends(t) ==
  \/ AnswerOptions(t) \/ RefuseMethod(t) \/ Refuse(t) \/ RefuseBody(t)
  \/ HandleDynamicGet(t) \/ HandleDynamicBody(t)
  \/ HandleUnified(t) \/ UnifiedThrows(t)

(* A candidate that is given up, with the status that it leaves.           *)
Rejects(t) ==
  Skip(t) \/ RejectSanitized(t) \/ RejectType(t) \/ RejectRaw(t)

Stores(t) == BeginStore(t) \/ EndStore(t)

LEMMA RouterSplit ==
  ASSUME NEW t \in Threads, InRouter(t)
  PROVE  \/ Ends(t) \/ Rejects(t) \/ Stores(t)
         \/ MatchExact(t) \/ MissExact(t)
BY DEF InRouter, Ends, Rejects, Stores

(* The lambda of t's handler found its keys in params_ and answered.       *)
LambdaAnswers(t) ==
  \E st \in {200, 204, 404, 500}, r \in Dynamic : \E ps :
    /\ r = chosen[t] /\ Needs[r] \subseteq DOMAIN params[r]
    /\ ps = [k \in Needs[r] |-> params[r][k]]
    /\ Answer(t, Reply(st, r, ps))

(***************************************************************************)
(* How a request ends: with an answer without parameters; with the answer  *)
(* of a lambda that found its keys in its handler's params_; with an       *)
(* exception of one that did not, or of a handler given no object.         *)
(***************************************************************************)
LEMMA EndCases ==
  ASSUME TypeInv, NEW t \in Threads, Ends(t)
  PROVE  \/ \E st \in Statuses : \E a : Answer(t, Reply(st, a, NoParams))
         \/ /\ pc[t] = "handle" /\ chosen[t] \in Dynamic
            /\ req[t].method = "GET"
            /\ LambdaAnswers(t)
         \/ /\ pc[t] = "handle" /\ chosen[t] \in Dynamic \ Guarded
            /\ ~(Needs[chosen[t]] \subseteq DOMAIN params[chosen[t]])
            /\ Die(t)
         \/ req[t].body = "array" /\ Die(t)
<1>1. CASE AnswerOptions(t)
  BY <1>1 DEF AnswerOptions, Statuses
<1>2. CASE RefuseMethod(t)
  BY <1>2, RefusalIsError DEF RefuseMethod, Statuses
<1>3. CASE Refuse(t)
  <2> DEFINE st == IF ExactRoutes(req[t]) # {} THEN 405 ELSE 404
  <2>1. Answer(t, Refusal(st))
    BY <1>3 DEF Refuse
  <2> HIDE DEF st
  <2> QED
    BY <2>1, RefusalIsError DEF Statuses
<1>4. CASE RefuseBody(t)
  BY <1>4 DEF RefuseBody, ErrorResponse, Statuses
<1>5. CASE HandleDynamicGet(t)
  <2>1. /\ CallLambda(t, chosen[t], params[chosen[t]])
        /\ pc[t] = "handle" /\ chosen[t] \in Dynamic /\ req[t].method = "GET"
    BY <1>5 DEF HandleDynamicGet, Handling
  <2>2. chosen[t] \in Routes
    BY DEF TypeInv, TypeOK
  <2>3a. PICK r \in Dynamic : \E ps :
          r = chosen[t] /\ ps = params[r] /\ CallLambda(t, r, ps)
    BY <1>5, DynamicGetCalls
  <2>3. PICK ps :
          r = chosen[t] /\ ps = params[r] /\ CallLambda(t, r, ps)
    BY <2>3a
  <2>5. CASE \E st \in {200, 204, 404, 500} :
               Answer(t, Reply(st, r, [k \in Needs[r] |-> ps[k]]))
             /\ Needs[r] \subseteq DOMAIN ps
    <3> DEFINE qs == [k \in Needs[r] |-> ps[k]]
    <3>1. PICK st \in {200, 204, 404, 500} : Answer(t, Reply(st, r, qs))
      BY <2>5
    <3>2. qs = [k \in Needs[r] |-> params[r][k]]
      BY <2>3
    <3> HIDE DEF qs
    <3>3. Needs[r] \subseteq DOMAIN params[r]
      BY <2>3, <2>5
    <3>4. LambdaAnswers(t)
      BY <2>3, <3>1, <3>2, <3>3 DEF LambdaAnswers
    <3> QED
      BY <2>1, <3>4
  <2>6. CASE Answer(t, ErrorResponse(500, "MissingKey"))
    BY <2>6 DEF ErrorResponse, Statuses
  <2> QED
    BY <2>1, <2>2, <2>3, <2>5, <2>6, LambdaCases
<1>6. CASE HandleDynamicBody(t)
  <2>1. "body" \notin DOMAIN params[chosen[t]]
    <3>1. chosen[t] \in Routes
      BY DEF TypeInv, TypeOK
    <3>2. "body" \notin HoleKeys(chosen[t])
      BY LambdaAssumption DEF LambdaAssumption, HoleKeys, Holes
    <3> QED
      BY <3>1, <3>2 DEF TypeInv, TypeOK
  <2> QED
    BY <1>6, <2>1 DEF HandleDynamicBody, ErrorResponse, Statuses
<1>7. CASE HandleUnified(t)
  BY <1>7 DEF HandleUnified, ErrorResponse, Statuses
<1>8. CASE UnifiedThrows(t)
  BY <1>8 DEF UnifiedThrows
<1> QED
  BY <1>1, <1>2, <1>3, <1>4, <1>5, <1>6, <1>7, <1>8 DEF Ends

LEMMA EndTypes ==
  ASSUME TypeInv, NEW t \in Threads, Ends(t)
  PROVE  TypeInv' /\ Frame(t)
<1>1. ASSUME NEW st \in Statuses, NEW a, NEW qs, Answer(t, Reply(st, a, qs))
      PROVE  TypeInv' /\ Frame(t)
  <2> DEFINE p == Reply(st, a, qs)
  <2>1. p.status \in Statuses
    BY DEF Reply
  <2> HIDE DEF p
  <2>2. Answer(t, p)
    BY <1>1 DEF p
  <2> QED
    BY <2>1, <2>2, AnswerTypes
<1>2. CASE LambdaAnswers(t)
  BY <1>1, <1>2 DEF LambdaAnswers, Statuses
<1>3. CASE Die(t)
  BY <1>3, DieTypes
<1> QED
  BY <1>1, <1>2, <1>3, EndCases

LEMMA RejectTypes ==
  ASSUME TypeInv, NEW t \in Threads, Rejects(t)
  PROVE  /\ TypeInv' /\ Frame(t) /\ Scanning(t)
         /\ next'[t] = next[t] + 1 /\ pc'[t] = "scan"
         /\ UNCHANGED <<params, disturbed>>
<1>1. status[t] \in {200, 400, 500}
  BY DEF TypeInv, TypeOK
<1>2. Scanning(t) /\ \E st \in {200, 400, 500} : GiveUp(t, st)
  BY <1>1 DEF Rejects, Skip, RejectSanitized, RejectType, RejectRaw, Settles,
              GiveUp
<1>3. PICK st \in {200, 400, 500} : GiveUp(t, st)
  BY <1>2
<1>4. UNCHANGED <<params, disturbed>>
  BY <1>3 DEF GiveUp
<1> QED
  BY <1>2, <1>3, <1>4, GiveUpTypes

LEMMA RouterTypes ==
  ASSUME TypeInv, NEW t \in Threads, InRouter(t)
  PROVE  TypeInv' /\ Frame(t)
BY RouterSplit, EndTypes, RejectTypes, BeginStoreTypes, EndStoreTypes,
   ExactTypes DEF Stores

LEMMA TypeStutter ==
  ASSUME TypeInv, UNCHANGED vars
  PROVE  TypeInv'
BY DEF vars, TypeInv, TypeOK, StoresValid, Candidate, Extracted

LEMMA TypeStep == TypeInv /\ [Next]_vars => TypeInv'
BY TypeStutter, ReceiveTypes, RouterTypes DEF Next, Quiet

(***************************************************************************)
(* The type invariant, the keys of every handler's params_ included.       *)
(***************************************************************************)
THEOREM DispatchTypeCorrect == Spec => []TypeOK
<1>1. TypeInv => TypeOK
  BY DEF TypeInv
<1> QED
  BY <1>1, TypeInit, TypeStep, PTL DEF Spec
-----------------------------------------------------------------------------
AllTrusted ==
  /\ \A r \in Routes : Trusted(params[r])
  /\ \A t \in Threads : Trusted(reply[t].params)

LEMMA NoParamsTrusted == Trusted(NoParams)
BY DEF Trusted, NoParams

LEMMA ValidIsTrusted ==
  ASSUME NEW ps, ValidRaw(ps)
  PROVE  Trusted(ps)
BY DEF ValidRaw, Trusted

LEMMA TrustedInit == Init => AllTrusted
BY NoParamsTrusted DEF Init, AllTrusted, NoReply, Reply

LEMMA TrustedAnswer ==
  ASSUME TypeInv, AllTrusted, NEW t \in Threads, NEW st, NEW a, NEW ps,
         Trusted(ps), Answer(t, Reply(st, a, ps))
  PROVE  AllTrusted'
BY DEF AllTrusted, Answer, Reply, TypeInv, TypeOK

LEMMA TrustedEnd ==
  ASSUME TypeInv, AllTrusted, NEW t \in Threads, Ends(t)
  PROVE  AllTrusted'
<1>1. CASE \E st \in Statuses : \E a : Answer(t, Reply(st, a, NoParams))
  BY <1>1, NoParamsTrusted, TrustedAnswer
<1>2. CASE Die(t)
  BY <1>2 DEF Die, AllTrusted
<1>3. CASE LambdaAnswers(t)
  <2>1a. PICK st \in {200, 204, 404, 500}, r \in Dynamic : \E ps :
          /\ r = chosen[t] /\ Needs[r] \subseteq DOMAIN params[r]
          /\ ps = [k \in Needs[r] |-> params[r][k]]
          /\ Answer(t, Reply(st, r, ps))
    BY <1>3 DEF LambdaAnswers
  <2>1. PICK ps :
          /\ r = chosen[t] /\ Needs[r] \subseteq DOMAIN params[r]
          /\ ps = [k \in Needs[r] |-> params[r][k]]
          /\ Answer(t, Reply(st, r, ps))
    BY <2>1a
  <2>2. Trusted(params[r])
    BY RoutesAssumption DEF AllTrusted, RoutesAssumption
  <2>3. Trusted(ps)
    BY <2>1, <2>2 DEF Trusted
  <2> QED
    BY <2>1, <2>3, TrustedAnswer
<1> QED
  BY <1>1, <1>2, <1>3, EndCases

LEMMA TrustedStore ==
  ASSUME TypeInv, AllTrusted, NEW t \in Threads, Stores(t)
  PROVE  AllTrusted'
<1>1. CASE BeginStore(t)
  BY <1>1, NoParamsTrusted DEF BeginStore, AllTrusted, TypeInv, TypeOK
<1>2. CASE EndStore(t)
  <2>1. /\ params' = [params EXCEPT ![Candidate(t)] = Extracted(t)]
        /\ UNCHANGED reply
        /\ ValidRaw(Extracted(t))
    BY <1>2 DEF EndStore, TypeInv, StoresValid
  <2>2. Trusted(Extracted(t))
    BY <2>1, ValidIsTrusted
  <2> QED
    BY <2>1, <2>2 DEF AllTrusted, TypeInv, TypeOK
<1> QED
  BY <1>1, <1>2 DEF Stores

LEMMA TrustedStep ==
  TypeInv /\ AllTrusted /\ [Next]_vars => AllTrusted'
<1> SUFFICES ASSUME TypeInv, AllTrusted, [Next]_vars PROVE AllTrusted'
  OBVIOUS
<1>1. ASSUME NEW t \in Threads, NEW q \in Requests, Receive(t, q)
      PROVE  AllTrusted'
  BY <1>1, NoParamsTrusted
  DEF Receive, AllTrusted, NoReply, Reply, TypeInv, TypeOK
<1>2. ASSUME NEW t \in Threads, InRouter(t) PROVE AllTrusted'
  <2>1. CASE Rejects(t) \/ MatchExact(t) \/ MissExact(t)
    BY <2>1 DEF Rejects, Skip, RejectSanitized, RejectType, RejectRaw,
                GiveUp, MatchExact, MissExact, AllTrusted
  <2> QED
    BY <1>2, <2>1, TrustedEnd, TrustedStore, RouterSplit
<1>3. CASE UNCHANGED vars
  BY <1>3 DEF vars, AllTrusted
<1> QED
  BY <1>1, <1>2, <1>3 DEF Next, Quiet

(***************************************************************************)
(* No handler ever holds, and no answer is made from, an id or slug that   *)
(* set_params would have refused, however the threads overlap.             *)
(***************************************************************************)
THEOREM NothingUnvalidated == Spec => []ParamsValidated
<1>1. AllTrusted => ParamsValidated
  BY DEF AllTrusted, ParamsValidated
<1> QED
  BY <1>1, TypeInit, TypeStep, TrustedInit, TrustedStep, PTL DEF Spec
-----------------------------------------------------------------------------
(***************************************************************************)
(* A request that only r can match is on its way to r: r is ahead in the   *)
(* scan, and no candidate has left its error in the response; then r is    *)
(* the candidate being stored, the route being handled, the one that       *)
(* answered.                                                               *)
(***************************************************************************)
HeadsFor(t, r) ==
  /\ pc[t] = "exact" => next[t] = 1 /\ status[t] = 200
  /\ pc[t] = "scan" =>
       /\ status[t] = 200
       /\ \E i \in next[t] .. Len(order) : order[i] = r
  /\ pc[t] = "store" => Candidate(t) = r /\ status[t] = 200
  /\ pc[t] = "handle" => chosen[t] = r
  /\ Answered(t) => chosen[t] = r /\ reply[t].status # 400

AllHead ==
  \A t \in Threads : \A r \in Dynamic :
    MeantFor(req[t], r) => HeadsFor(t, r)

LEMMA SegmentsDisjoint == DOMAIN Tagged \cap (Numeric \cup SlugLike) = {}
BY SegmentAssumption, Zenon DEF SegmentAssumption

LEMMA RawIsSanitized ==
  ASSUME NEW ps, ValidRaw(ps)
  PROVE  ValidSanitized(ps)
<1>1. \A v \in Numeric \cup SlugLike : Sanitize(v) = v
  BY SegmentsDisjoint DEF Sanitize
<1> QED
  BY <1>1 DEF ValidRaw, ValidSanitized

LEMMA MeantFacts ==
  ASSUME NEW q, NEW r \in Dynamic, MeantFor(q, r)
  PROVE  /\ q.method = "GET" /\ Method[r] = "GET" /\ r \in Routes
         /\ Matches(r, q.path)
         /\ ValidRaw(Extract(r, q.path))
         /\ \A s \in Routes : Method[s] = "GET" /\ Matches(s, q.path) => s = r
BY DEF MeantFor, Fitting

LEMMA ExactMatches ==
  ASSUME NEW r \in Routes, NEW path, Pattern[r] = path
  PROVE  Matches(r, path)
BY SegmentAssumption, Zenon DEF SegmentAssumption, Matches, Holes

(* What another thread does disturbs no request on its way.                *)
LEMMA HeadFrame ==
  ASSUME NEW u \in Threads, NEW r \in Dynamic, HeadsFor(u, r),
         UNCHANGED order,
         /\ pc'[u] = pc[u] /\ next'[u] = next[u] /\ chosen'[u] = chosen[u]
         /\ status'[u] = status[u] /\ reply'[u] = reply[u]
  PROVE  HeadsFor(u, r)'
BY DEF HeadsFor, Candidate, Answered

LEMMA HeadEnd ==
  ASSUME TypeInv, NEW t \in Threads, NEW r \in Dynamic,
         MeantFor(req[t], r), HeadsFor(t, r), Ends(t)
  PROVE  HeadsFor(t, r)'
<1>1. req[t].method = "GET"
  BY MeantFacts
<1>2. Len(order) \in Nat /\ next[t] \in Nat
  BY OrderIsSeq DEF TypeInv, TypeOK
<1>3. HandleDynamicGet(t)
  BY <1>1, <1>2
  DEF Ends, AnswerOptions, RefuseMethod, RoutedMethods, Refuse, RefuseBody,
      HandleDynamicBody, HandleUnified, UnifiedThrows, Handling, HeadsFor
<1>4. chosen[t] = r /\ chosen' = chosen /\ pc[t] = "handle"
  BY <1>3 DEF HandleDynamicGet, Handling, HeadsFor, CallLambda, Answer, Die
<1>5. \/ pc'[t] = "dead"
      \/ pc'[t] = "idle" /\ reply'[t].status # 400
  <2>1a. PICK c \in Dynamic : \E ps :
          c = chosen[t] /\ ps = params[c] /\ CallLambda(t, c, ps)
    BY <1>3, DynamicGetCalls
  <2>1. PICK ps :
          c = chosen[t] /\ ps = params[c] /\ CallLambda(t, c, ps)
    BY <2>1a
  <2>2. c \in Routes
    BY RoutesAssumption DEF RoutesAssumption
  <2>3. CASE Die(t)
    BY <2>3 DEF Die, TypeInv, TypeOK
  <2>4. ASSUME NEW st \in {200, 204, 404, 500}, NEW a, NEW qs,
               Answer(t, Reply(st, a, qs))
        PROVE  pc'[t] = "idle" /\ reply'[t].status # 400
    BY <2>4 DEF Answer, Reply, TypeInv, TypeOK
  <2>5. CASE \E st \in {200, 204, 404, 500} :
               Answer(t, Reply(st, c, [k \in Needs[c] |-> ps[k]]))
    <3> DEFINE qs == [k \in Needs[c] |-> ps[k]]
    <3>1. PICK st \in {200, 204, 404, 500} : Answer(t, Reply(st, c, qs))
      BY <2>5
    <3> HIDE DEF qs
    <3> QED
      BY <2>4, <3>1
  <2>6. CASE Answer(t, ErrorResponse(500, "MissingKey"))
    BY <2>6 DEF Answer, ErrorResponse, Reply, TypeInv, TypeOK
  <2> QED
    BY <2>1, <2>2, <2>3, <2>5, <2>6, LambdaCases
<1> QED
  BY <1>4, <1>5 DEF HeadsFor, Answered

LEMMA HeadReject ==
  ASSUME TypeInv, NEW t \in Threads, NEW r \in Dynamic,
         MeantFor(req[t], r), HeadsFor(t, r), Rejects(t)
  PROVE  HeadsFor(t, r)'
<1>1. /\ Scanning(t) /\ next'[t] = next[t] + 1 /\ pc'[t] = "scan"
      /\ UNCHANGED order
  BY RejectTypes DEF Frame
<1>2. Candidate(t) \in Routes
  BY <1>1, CandidateIsRoute DEF Scanning, TypeInv
<1>3. Applies(t) => Candidate(t) = r
  BY <1>2, MeantFacts DEF Applies
<1>4. Applies(t) =>
        ValidRaw(Extracted(t)) /\ ValidSanitized(Extracted(t))
  BY <1>3, MeantFacts, RawIsSanitized DEF Extracted
<1>5. Skip(t)
  BY <1>3, <1>4 DEF Rejects, RejectSanitized, RejectType, RejectRaw, Settles
<1>6. order[next[t]] # r
  BY <1>5, MeantFacts DEF Skip, Applies, Candidate
<1>7. PICK i \in next[t] .. Len(order) : order[i] = r
  BY <1>1 DEF HeadsFor, Scanning
<1>8. Len(order) \in Nat /\ next[t] \in Nat
  BY OrderIsSeq DEF TypeInv, TypeOK
<1>9. i \in next[t] + 1 .. Len(order)
  BY <1>6, <1>7, <1>8
<1>10. status'[t] = 200
  BY <1>1, <1>5 DEF Skip, GiveUp, HeadsFor, Scanning, TypeInv, TypeOK
<1> QED
  BY <1>1, <1>7, <1>9, <1>10 DEF HeadsFor, Answered

LEMMA HeadStore ==
  ASSUME TypeInv, NEW t \in Threads, NEW r \in Dynamic,
         MeantFor(req[t], r), HeadsFor(t, r), Stores(t)
  PROVE  HeadsFor(t, r)'
<1>1. CASE BeginStore(t)
  <2>1. /\ Scanning(t) /\ Applies(t) /\ pc'[t] = "store"
        /\ UNCHANGED <<order, next, status>>
    BY <1>1, BeginStoreTypes DEF BeginStore, Settles
  <2>2. Candidate(t) \in Routes
    BY <2>1, CandidateIsRoute DEF Scanning, TypeInv
  <2>3. Candidate(t) = r
    BY <2>1, <2>2, MeantFacts DEF Applies
  <2> QED
    BY <2>1, <2>3 DEF HeadsFor, Scanning, Candidate, Answered
<1>2. CASE EndStore(t)
  <2>1. Candidate(t) = r /\ StatusAllows(t)
    BY <1>2 DEF EndStore, HeadsFor, StatusAllows
  <2>2. pc'[t] = "handle" /\ chosen'[t] = r
    BY <1>2, <2>1 DEF EndStore, TypeInv, TypeOK
  <2> QED
    BY <2>2 DEF HeadsFor, Answered
<1> QED
  BY <1>1, <1>2 DEF Stores

LEMMA HeadExact ==
  ASSUME TypeInv, NEW t \in Threads, NEW r \in Dynamic,
         MeantFor(req[t], r), HeadsFor(t, r), MatchExact(t) \/ MissExact(t)
  PROVE  HeadsFor(t, r)'
<1>1. CASE MatchExact(t)
  <2>1. PICK s \in Routes : /\ Pattern[s] = req[t].path
                            /\ Method[s] = req[t].method
                            /\ chosen'[t] = s
    BY <1>1 DEF MatchExact, ExactRoutes, TypeInv, TypeOK
  <2>2. s = r
    BY <2>1, ExactMatches, MeantFacts
  <2>3. pc'[t] = "handle"
    BY <1>1 DEF MatchExact, TypeInv, TypeOK
  <2> QED
    BY <2>1, <2>2, <2>3 DEF HeadsFor, Answered
<1>2. CASE MissExact(t)
  <2>1. /\ pc'[t] = "scan" /\ UNCHANGED <<order, next, status>>
        /\ next[t] = 1 /\ status[t] = 200
    BY <1>2 DEF MissExact, HeadsFor, TypeInv, TypeOK
  <2>2. order \in Seq(Routes) /\ \E i \in DOMAIN order : order[i] = r
    BY OrderIsSeq, MeantFacts DEF TypeInv
  <2>3. \E i \in 1 .. Len(order) : order[i] = r
    BY <2>2
  <2> QED
    BY <2>1, <2>3 DEF HeadsFor, Answered
<1> QED
  BY <1>1, <1>2

LEMMA HeadInit == Init => AllHead
BY DEF Init, AllHead, HeadsFor, Answered

LEMMA HeadStep == TypeInv /\ AllHead /\ [Next]_vars => AllHead'
<1> SUFFICES ASSUME TypeInv, AllHead, [Next]_vars PROVE AllHead'
  OBVIOUS
<1>1. ASSUME NEW t \in Threads, NEW q \in Requests, Receive(t, q)
      PROVE  AllHead'
  <2>1. \A r \in Dynamic : HeadsFor(t, r)'
    BY <1>1 DEF Receive, HeadsFor, Answered, TypeInv, TypeOK
  <2>2. /\ UNCHANGED order
        /\ \A u \in Threads \ {t} :
             /\ pc'[u] = pc[u] /\ next'[u] = next[u] /\ req'[u] = req[u]
             /\ chosen'[u] = chosen[u] /\ status'[u] = status[u]
             /\ reply'[u] = reply[u]
    BY <1>1 DEF Receive, TypeInv, TypeOK
  <2> QED
    BY <2>1, <2>2, HeadFrame DEF AllHead
<1>2. ASSUME NEW t \in Threads, InRouter(t) PROVE AllHead'
  <2>1. Frame(t)
    BY <1>2, RouterTypes
  <2>2. ASSUME NEW r \in Dynamic, MeantFor(req[t], r)
        PROVE  HeadsFor(t, r)'
    BY <1>2, <2>2, RouterSplit, HeadEnd, HeadReject, HeadStore, HeadExact
    DEF AllHead
  <2> QED
    BY <2>1, <2>2, HeadFrame DEF AllHead, Frame
<1>3. CASE UNCHANGED vars
  BY <1>3 DEF vars, AllHead, HeadsFor, Candidate, Answered
<1> QED
  BY <1>1, <1>2, <1>3 DEF Next, Quiet

(***************************************************************************)
(* A request that one route alone can match gets there, in every order of  *)
(* traversal and with any number of threads.                               *)
(***************************************************************************)
THEOREM UniqueRouteIsServed == Spec => []UniqueMatchServed
<1>1. AllHead => UniqueMatchServed
  BY DEF AllHead, HeadsFor, UniqueMatchServed
<1> QED
  BY <1>1, TypeInit, TypeStep, HeadInit, HeadStep, PTL DEF Spec
-----------------------------------------------------------------------------
(***************************************************************************)
(* A thread to whose params_ nobody wrote holds in its handler the         *)
(* parameters of its own path, and made its answer from them.              *)
(***************************************************************************)
HoldsOwn(t) ==
  LET r == chosen[t] IN
  /\ DOMAIN params[r] = HoleKeys(r)
  /\ \A k \in HoleKeys(r) : params[r][k] = Extract(r, req[t].path)[k]

Undisturbed(t) ==
  /\ OwnParams(t)
  /\ pc[t] = "handle" /\ chosen[t] \in Dynamic => HoldsOwn(t)
  /\ pc[t] = "dead" => req[t].body = "array"

AllUndisturbed ==
  \A t \in Threads \ disturbed :
    ~SpellsPlaceholder(req[t]) => Undisturbed(t)

(* An answer without parameters mixes nothing up.                          *)
LEMMA BareAnswer ==
  ASSUME TypeInv, NEW t \in Threads, NEW st, NEW a,
         Answer(t, Reply(st, a, NoParams))
  PROVE  Undisturbed(t)'
<1>1. pc'[t] = "idle" /\ reply'[t].params = NoParams
  BY DEF Answer, Reply, TypeInv, TypeOK
<1> QED
  BY <1>1 DEF Undisturbed, OwnParams, NoParams

LEMMA OwnEnd ==
  ASSUME TypeInv, NEW t \in Threads, Undisturbed(t), Ends(t)
  PROVE  Undisturbed(t)'
<1>1. CASE \E st \in Statuses : \E a : Answer(t, Reply(st, a, NoParams))
  BY <1>1, BareAnswer
<1>2. CASE pc[t] = "handle" /\ chosen[t] \in Dynamic /\ LambdaAnswers(t)
  <2>1a. PICK st \in {200, 204, 404, 500}, r \in Dynamic : \E ps :
          /\ r = chosen[t] /\ Needs[r] \subseteq DOMAIN params[r]
          /\ ps = [k \in Needs[r] |-> params[r][k]]
          /\ Answer(t, Reply(st, r, ps))
    BY <1>2 DEF LambdaAnswers
  <2>1. PICK ps :
          /\ r = chosen[t] /\ Needs[r] \subseteq DOMAIN params[r]
          /\ ps = [k \in Needs[r] |-> params[r][k]]
          /\ Answer(t, Reply(st, r, ps))
    BY <2>1a
  <2>2. /\ pc'[t] = "idle" /\ UNCHANGED req
        /\ reply'[t].params = ps /\ reply'[t].about = r
    BY <2>1 DEF Answer, Reply, TypeInv, TypeOK
  <2>3. \A k \in Needs[r] : ps[k] = Extract(r, req[t].path)[k]
    BY <1>2, <2>1 DEF Undisturbed, HoldsOwn
  <2>4. DOMAIN ps = Needs[r]
    BY <2>1
  <2> QED
    BY <2>2, <2>3, <2>4 DEF Undisturbed, OwnParams
<1>3. CASE /\ pc[t] = "handle" /\ chosen[t] \in Dynamic \ Guarded
           /\ ~(Needs[chosen[t]] \subseteq DOMAIN params[chosen[t]])
  <2>1. Needs[chosen[t]] \subseteq HoleKeys(chosen[t])
    BY <1>3, LambdaAssumption DEF LambdaAssumption, HoleKeys, Holes
  <2> QED
    BY <1>3, <2>1 DEF Undisturbed, HoldsOwn
<1>4. CASE req[t].body = "array" /\ Die(t)
  <2>1. pc'[t] = "dead" /\ UNCHANGED <<reply, req>>
    BY <1>4 DEF Die, TypeInv, TypeOK
  <2> QED
    BY <1>4, <2>1 DEF Undisturbed, OwnParams
<1> QED
  BY <1>1, <1>2, <1>3, <1>4, EndCases

(* A literal match handles no parameters at all.                           *)
LEMMA LiteralHoldsOwn ==
  ASSUME TypeInv, NEW t \in Threads, NEW r \in Routes,
         Pattern[r] = req[t].path, ~SpellsPlaceholder(req[t])
  PROVE  HoleKeys(r) = {} /\ DOMAIN params[r] = {}
<1>1. HoleKeys(r) = {}
  BY DEF SpellsPlaceholder, HoleKeys, Holes
<1> QED
  BY <1>1 DEF TypeInv, TypeOK

LEMMA OwnExact ==
  ASSUME TypeInv, NEW t \in Threads, ~SpellsPlaceholder(req[t]),
         Undisturbed(t), MatchExact(t) \/ MissExact(t)
  PROVE  Undisturbed(t)'
<1>1. CASE MatchExact(t)
  <2>1. PICK r \in Routes : Pattern[r] = req[t].path /\ chosen'[t] = r
    BY <1>1 DEF MatchExact, ExactRoutes, TypeInv, TypeOK
  <2>2. pc'[t] = "handle" /\ UNCHANGED <<params, reply, req>>
    BY <1>1 DEF MatchExact, TypeInv, TypeOK
  <2>3. HoldsOwn(t)'
    BY <2>1, <2>2, LiteralHoldsOwn DEF HoldsOwn
  <2> QED
    BY <2>2, <2>3 DEF Undisturbed, OwnParams
<1>2. CASE MissExact(t)
  <2>1. pc'[t] = "scan" /\ UNCHANGED <<reply, req>>
    BY <1>2 DEF MissExact, TypeInv, TypeOK
  <2> QED
    BY <2>1 DEF Undisturbed, OwnParams
<1> QED
  BY <1>1, <1>2

LEMMA OwnStore ==
  ASSUME TypeInv, NEW t \in Threads, Undisturbed(t), Stores(t)
  PROVE  Undisturbed(t)'
<1>1. UNCHANGED <<reply, req>>
  BY DEF Stores, BeginStore, EndStore
<1>2. CASE pc'[t] \in {"store", "scan"}
  BY <1>1, <1>2 DEF Undisturbed, OwnParams
<1>3. CASE EndStore(t) /\ StatusAllows(t)
  <2>1. /\ params' = [params EXCEPT ![Candidate(t)] = Extracted(t)]
        /\ pc'[t] = "handle" /\ chosen'[t] = Candidate(t)
    BY <1>3 DEF EndStore, TypeInv, TypeOK
  <2>2. Candidate(t) \in Routes
    BY <1>3, CandidateIsRoute DEF EndStore, TypeInv, StoresValid
  <2>3. params'[Candidate(t)] = Extract(Candidate(t), req[t].path)
    BY <2>1, <2>2 DEF TypeInv, TypeOK, Extracted
  <2>4. HoldsOwn(t)'
    BY <1>1, <2>1, <2>3, ExtractKeys DEF HoldsOwn
  <2> QED
    BY <1>1, <2>1, <2>4 DEF Undisturbed, OwnParams
<1>4. CASE EndStore(t) /\ ~StatusAllows(t)
  <2>1. pc'[t] = "scan"
    BY <1>4 DEF EndStore, TypeInv, TypeOK
  <2> QED
    BY <1>2, <2>1
<1> QED
  BY <1>2, <1>3, <1>4, BeginStoreTypes DEF Stores

(* A write to the params_ that u is using disturbs u.                      *)
LEMMA WriteDisturbs ==
  ASSUME TypeInv, NEW t \in Threads, NEW u \in Threads \ {t}, Stores(t),
         u \notin disturbed', pc[u] = "handle"
  PROVE  u \notin disturbed /\ params'[chosen[u]] = params[chosen[u]]
<1>1. disturbed' = Disturb(t)
  BY DEF Stores, BeginStore, EndStore
<1>2. chosen[u] # Candidate(t)
  BY <1>1 DEF Disturb
<1>3. params'[chosen[u]] = params[chosen[u]]
  BY <1>2 DEF Stores, BeginStore, EndStore, TypeInv, TypeOK
<1> QED
  BY <1>1, <1>3, DisturbTypes DEF TypeInv

LEMMA OwnFrame ==
  ASSUME NEW u \in Threads, Undisturbed(u),
         /\ pc'[u] = pc[u] /\ chosen'[u] = chosen[u] /\ reply'[u] = reply[u]
         /\ req'[u] = req[u],
         pc[u] = "handle" => params'[chosen[u]] = params[chosen[u]]
  PROVE  Undisturbed(u)'
BY DEF Undisturbed, OwnParams, HoldsOwn

LEMMA OwnInit == Init => AllUndisturbed
BY DEF Init, AllUndisturbed, Undisturbed, OwnParams, NoReply, Reply, NoParams

LEMMA OwnRouter ==
  ASSUME TypeInv, AllUndisturbed, NEW t \in Threads, InRouter(t)
  PROVE  AllUndisturbed'
<1>1. Frame(t)
  BY RouterTypes
<1>2. /\ disturbed \subseteq disturbed'
      /\ Stores(t) \/ UNCHANGED params
  <2>1. CASE Stores(t)
    <3>1. disturbed' = Disturb(t)
      BY <2>1 DEF Stores, BeginStore, EndStore
    <3> QED
      BY <2>1, <3>1, DisturbTypes DEF TypeInv
  <2>2. CASE ~Stores(t)
    BY <2>2
    DEF InRouter, Stores, AnswerOptions, RefuseMethod, MatchExact, MissExact,
        Skip, RejectSanitized, RejectType, RejectRaw, GiveUp, Refuse,
        RefuseBody, HandleDynamicGet, HandleDynamicBody, HandleUnified,
        UnifiedThrows, CallLambda, Answer, Die
  <2> QED
    BY <2>1, <2>2
<1>3. ASSUME t \notin disturbed, ~SpellsPlaceholder(req[t])
      PROVE  Undisturbed(t)'
  <2>1. Undisturbed(t)
    BY <1>3 DEF AllUndisturbed
  <2>2. CASE Rejects(t)
    <3>1. pc'[t] = "scan"
      BY <2>2, RejectTypes
    <3>2. UNCHANGED <<reply, req>>
      BY <2>2 DEF Rejects, Skip, RejectSanitized, RejectType, RejectRaw,
                  GiveUp
    <3> QED
      BY <2>1, <3>1, <3>2 DEF Undisturbed, OwnParams
  <2> QED
    BY <1>3, <2>1, <2>2, RouterSplit, OwnEnd, OwnExact, OwnStore
<1>4. ASSUME NEW u \in Threads \ {t}, u \notin disturbed',
             ~SpellsPlaceholder(req[u])
      PROVE  Undisturbed(u)'
  <2>1. Undisturbed(u)
    BY <1>2, <1>4 DEF AllUndisturbed
  <2>2. pc[u] = "handle" => params'[chosen[u]] = params[chosen[u]]
    BY <1>2, <1>4, WriteDisturbs
  <2> QED
    BY <1>1, <2>1, <2>2, OwnFrame DEF Frame
<1> QED
  BY <1>1, <1>2, <1>3, <1>4 DEF AllUndisturbed, Frame

LEMMA OwnStep == TypeInv /\ AllUndisturbed /\ [Next]_vars => AllUndisturbed'
<1> SUFFICES ASSUME TypeInv, AllUndisturbed, [Next]_vars
             PROVE  AllUndisturbed'
  OBVIOUS
<1>1. ASSUME NEW t \in Threads, NEW q \in Requests, Receive(t, q)
      PROVE  AllUndisturbed'
  <2>1. /\ pc'[t] = "exact" /\ reply'[t].params = NoParams
        /\ UNCHANGED params /\ disturbed' = disturbed \ {t}
        /\ \A u \in Threads \ {t} :
             /\ pc'[u] = pc[u] /\ chosen'[u] = chosen[u]
             /\ reply'[u] = reply[u] /\ req'[u] = req[u]
    BY <1>1 DEF Receive, NoReply, Reply, TypeInv, TypeOK
  <2>2. Undisturbed(t)'
    BY <2>1 DEF Undisturbed, OwnParams, NoParams
  <2>3. ASSUME NEW u \in Threads \ {t}, Undisturbed(u)
        PROVE  Undisturbed(u)'
    BY <2>1, <2>3, OwnFrame
  <2> QED
    BY <2>1, <2>2, <2>3 DEF AllUndisturbed
<1>2. CASE UNCHANGED vars
  BY <1>2 DEF vars, AllUndisturbed, Undisturbed, OwnParams, HoldsOwn
<1> QED
  BY <1>1, <1>2, OwnRouter DEF Next, Quiet

(***************************************************************************)
(* A thread to whose handler no other thread wrote meanwhile answers with  *)
(* the parameters of its own path, and no missing key ends it.             *)
(***************************************************************************)
THEOREM OnlyOverlap == Spec => []OnlyOverlapMixesParams
<1>1. AllUndisturbed => OnlyOverlapMixesParams
  BY DEF AllUndisturbed, Undisturbed, OnlyOverlapMixesParams
<1> QED
  BY <1>1, TypeInit, TypeStep, OwnInit, OwnStep, PTL DEF Spec
-----------------------------------------------------------------------------
(***************************************************************************)
(* How far the search of t has come: no literal route; a rejecter has been *)
(* found, or none of the candidates so far would have taken the request;   *)
(* what is being stored is a taker; what is handled is right.              *)
(***************************************************************************)
Searching(t) ==
  /\ pc[t] = "exact" => next[t] = 1 /\ status[t] = 200
  /\ pc[t] \in {"scan", "store"} =>
       /\ Literal(req[t]) = {}
       /\ \/ Rejecters(req[t]) # {}
          \/ /\ status[t] = 200
             /\ \A i \in 1 .. next[t] - 1 : order[i] \notin Takers(req[t])
  /\ pc[t] = "store" => Candidate(t) \in Takers(req[t])
  /\ pc[t] = "handle" =>
       chosen[t] \in IF Literal(req[t]) # {} THEN Literal(req[t])
                                             ELSE Takers(req[t])

AllSearching == \A t \in Threads : Searching(t)

(* A candidate that applies is a taker or a rejecter.                      *)
LEMMA CandidateCases ==
  ASSUME TypeOK, NEW t \in Threads, Scanning(t)
  PROVE  /\ Applies(t) /\ Candidate(t) \in Dynamic /\ ValidRaw(Extracted(t))
              => Candidate(t) \in Takers(req[t])
         /\ Applies(t) /\ (Candidate(t) \notin Dynamic \/ ~ValidRaw(Extracted(t)))
              => Candidate(t) \in Rejecters(req[t])
         /\ ~Applies(t) => Candidate(t) \notin Takers(req[t])
<1>1. Candidate(t) \in Routes
  BY CandidateIsRoute DEF Scanning
<1> QED
  BY <1>1 DEF Applies, Extracted, Takers, Rejecters, Fitting

LEMMA SearchFrame ==
  ASSUME NEW u \in Threads, Searching(u), UNCHANGED order,
         /\ pc'[u] = pc[u] /\ next'[u] = next[u] /\ chosen'[u] = chosen[u]
         /\ status'[u] = status[u] /\ req'[u] = req[u]
  PROVE  Searching(u)'
BY DEF Searching, Candidate

LEMMA SearchEnds ==
  ASSUME TypeInv, NEW t \in Threads, Ends(t)
  PROVE  Searching(t)'
<1>1. CASE \E p : Answer(t, p)
  <2>1. pc'[t] = "idle"
    BY <1>1 DEF Answer, TypeInv, TypeOK
  <2> QED
    BY <2>1 DEF Searching
<1>2. CASE Die(t)
  <2>1. pc'[t] = "dead"
    BY <1>2 DEF Die, TypeInv, TypeOK
  <2> QED
    BY <2>1 DEF Searching
<1> QED
  BY <1>1, <1>2, EndCases DEF LambdaAnswers

LEMMA SearchExact ==
  ASSUME TypeInv, NEW t \in Threads, Searching(t),
         MatchExact(t) \/ MissExact(t)
  PROVE  Searching(t)'
<1>1. CASE MatchExact(t)
  <2>1. /\ pc'[t] = "handle" /\ UNCHANGED req
        /\ chosen'[t] \in Literal(req[t])
    BY <1>1 DEF MatchExact, Literal, TypeInv, TypeOK
  <2> QED
    BY <2>1 DEF Searching
<1>2. CASE MissExact(t)
  <2>1. /\ pc'[t] = "scan" /\ next[t] = 1 /\ status[t] = 200
        /\ Literal(req[t]) = {}
        /\ UNCHANGED <<order, req, next, status>>
    BY <1>2 DEF MissExact, Literal, Searching, TypeInv, TypeOK
  <2> QED
    BY <2>1 DEF Searching
<1> QED
  BY <1>1, <1>2

(* A candidate that is passed over is no taker, or there is a rejecter.    *)
LEMMA SearchPasses ==
  ASSUME TypeInv, NEW t \in Threads, Searching(t),
         pc[t] \in {"scan", "store"}, pc'[t] = "scan",
         next'[t] = next[t] + 1, UNCHANGED <<order, req>>,
         \/ Rejecters(req[t]) # {}
         \/ status'[t] = status[t] /\ order[next[t]] \notin Takers(req[t])
  PROVE  Searching(t)'
<1>1. next[t] \in Nat
  BY OrderIsSeq DEF TypeInv, TypeOK
<1>2. \A i \in 1 .. next'[t] - 1 : i \in 1 .. next[t] - 1 \/ i = next[t]
  BY <1>1
<1> QED
  BY <1>2 DEF Searching

LEMMA SearchRejects ==
  ASSUME TypeInv, NEW t \in Threads, Searching(t), Rejects(t)
  PROVE  Searching(t)'
<1>1. /\ Scanning(t) /\ next'[t] = next[t] + 1 /\ pc'[t] = "scan"
      /\ pc[t] = "scan" /\ UNCHANGED <<order, req>>
  BY RejectTypes DEF Frame, Scanning
<1>2. CASE Skip(t)
  <2>1. status'[t] = status[t] /\ ~Applies(t)
    BY <1>2 DEF Skip, GiveUp, TypeInv, TypeOK
  <2>2. order[next[t]] \notin Takers(req[t])
    BY <1>1, <2>1, CandidateCases DEF TypeInv, Candidate
  <2> QED
    BY <1>1, <2>1, <2>2, SearchPasses
<1>3. CASE RejectSanitized(t) \/ RejectType(t) \/ RejectRaw(t)
  <2>1. /\ Applies(t)
        /\ Candidate(t) \notin Dynamic \/ ~ValidRaw(Extracted(t))
    BY <1>3, RawIsSanitized
    DEF RejectSanitized, RejectType, RejectRaw, Settles
  <2>2. Rejecters(req[t]) # {}
    BY <1>1, <2>1, CandidateCases DEF TypeInv
  <2> QED
    BY <1>1, <2>2, SearchPasses
<1> QED
  BY <1>2, <1>3 DEF Rejects

LEMMA SearchStores ==
  ASSUME TypeInv, NEW t \in Threads, Searching(t), Stores(t)
  PROVE  Searching(t)'
<1>1. CASE BeginStore(t)
  <2>1. /\ pc[t] = "scan" /\ pc'[t] = "store"
        /\ UNCHANGED <<order, req, next, status>>
        /\ Scanning(t) /\ Applies(t) /\ Candidate(t) \in Dynamic
        /\ ValidRaw(Extracted(t))
    BY <1>1, BeginStoreTypes DEF BeginStore, Settles, Scanning
  <2>2. Candidate(t) \in Takers(req[t])
    BY <2>1, CandidateCases DEF TypeInv
  <2> QED
    BY <2>1, <2>2 DEF Searching, Candidate
<1>2. CASE EndStore(t) /\ StatusAllows(t)
  <2>1. /\ pc[t] = "store" /\ pc'[t] = "handle" /\ UNCHANGED req
        /\ chosen'[t] = Candidate(t)
    BY <1>2 DEF EndStore, TypeInv, TypeOK
  <2> QED
    BY <2>1 DEF Searching
<1>3. CASE EndStore(t) /\ ~StatusAllows(t)
  <2>1. /\ pc[t] = "store" /\ pc'[t] = "scan" /\ next'[t] = next[t] + 1
        /\ UNCHANGED <<order, req>>
    BY <1>3 DEF EndStore, TypeInv, TypeOK
  <2>2. Rejecters(req[t]) # {}
    BY <1>3, <2>1 DEF Searching, StatusAllows
  <2> QED
    BY <2>1, <2>2, SearchPasses
<1> QED
  BY <1>1, <1>2, <1>3 DEF Stores

LEMMA SearchInit == Init => AllSearching
BY DEF Init, AllSearching, Searching

LEMMA SearchStep == TypeInv /\ AllSearching /\ [Next]_vars => AllSearching'
<1> SUFFICES ASSUME TypeInv, AllSearching, [Next]_vars
             PROVE  AllSearching'
  OBVIOUS
<1>1. ASSUME NEW t \in Threads, NEW q \in Requests, Receive(t, q)
      PROVE  AllSearching'
  <2>1. /\ pc'[t] = "exact" /\ next'[t] = 1 /\ status'[t] = 200
        /\ UNCHANGED order
        /\ \A u \in Threads \ {t} :
             /\ pc'[u] = pc[u] /\ next'[u] = next[u]
             /\ chosen'[u] = chosen[u] /\ status'[u] = status[u]
             /\ req'[u] = req[u]
    BY <1>1 DEF Receive, TypeInv, TypeOK
  <2>2. Searching(t)'
    BY <2>1 DEF Searching
  <2> QED
    BY <2>1, <2>2, SearchFrame DEF AllSearching
<1>2. ASSUME NEW t \in Threads, InRouter(t) PROVE AllSearching'
  <2>1. Frame(t)
    BY <1>2, RouterTypes
  <2>2. Searching(t)'
    BY <1>2, RouterSplit, SearchEnds, SearchRejects, SearchStores,
       SearchExact DEF AllSearching
  <2> QED
    BY <2>1, <2>2, SearchFrame DEF AllSearching, Frame
<1>3. CASE UNCHANGED vars
  BY <1>3, SearchFrame DEF vars, AllSearching
<1> QED
  BY <1>1, <1>2, <1>3 DEF Next, Quiet

LEMMA SearchAlways == Spec => [](TypeInv /\ AllSearching)
BY TypeInit, TypeStep, SearchInit, SearchStep, PTL DEF Spec

LEMMA EndOfScan == TypeInv /\ AllSearching => OnlyRejectersHide
<1> SUFFICES ASSUME TypeInv, AllSearching, NEW t \in Threads,
                    pc[t] = "scan", next[t] > Len(order)
             PROVE  /\ Literal(req[t]) = {}
                    /\ Rejecters(req[t]) = {} => Takers(req[t]) = {}
  BY DEF OnlyRejectersHide
<1>1. Searching(t)
  BY DEF AllSearching
<1>2. \A r \in Routes : \E i \in 1 .. next[t] - 1 : order[i] = r
  BY OrderIsSeq DEF TypeInv, TypeOK
<1>3. Takers(req[t]) \subseteq Routes
  BY DEF Takers, Fitting
<1> QED
  BY <1>1, <1>2, <1>3 DEF Searching

(***************************************************************************)
(* For any number of threads, any routes and any order of traversal: what  *)
(* is handled, a right route handles; and a request that is refused after  *)
(* the scan has no route that would have taken it, unless a route that     *)
(* matched the path rejected it.                                           *)
(***************************************************************************)
THEOREM RightRoute == Spec => []SearchIsRight
<1>1. AllSearching => RightRouteHandles
  BY DEF AllSearching, Searching, RightRouteHandles
<1> QED
  BY <1>1, EndOfScan, SearchAlways, PTL DEF SearchIsRight
=============================================================================
