------------------------------ MODULE Dispatch ------------------------------
(***************************************************************************)
(* How a request finds its handler: Router::handle_request, the two kinds  *)
(* of handlers, and what Session::handle_request makes of the result.      *)
(*                                                                         *)
(* Definitions whose name ends in _faulty are plausible mistakes that no   *)
(* specification uses; they show that the properties notice them.          *)
(*                                                                         *)
(* Several io_context threads are in the router at the same time.  The     *)
(* routes are fixed before they start, but every DynamicRequestHandler     *)
(* keeps the parameters of "the" request in its member params_, written by *)
(* set_params and read by handle_request, without a lock.                  *)
(*                                                                         *)
(* That is a data race.  Of its outcomes, the model has those with which   *)
(* the process goes on: a reader sees the map as it was, as it will be, or *)
(* empty while it is being assigned, and of two writers the last one wins. *)
(***************************************************************************)
EXTENDS Integers, FiniteSets, Sequences

CONSTANTS
  Threads,   (* the io_context threads                                     *)
  Routes,    (* names of the registered (method, pattern) pairs            *)
  Method,    (* [Routes -> methods]                                        *)
  Pattern,   (* [Routes -> sequences of segments]                          *)
  Dynamic,   (* the routes whose handler is a DynamicRequestHandler; the   *)
             (* others have a UnifiedRequestHandler                        *)
  Needs,     (* [Routes -> sets of keys]: what the controller's lambda     *)
             (* takes from its parameters                                  *)
  Outcomes,  (* [Routes -> sets of statuses]: how the lambda may answer    *)
             (* when it has them                                           *)
  Guarded,   (* the routes whose lambda catches what params.at throws      *)
  Orders,    (* the orders in which the unordered_map may be traversed     *)
  ParamName, (* from the segments that are placeholders to their keys      *)
  Numeric,   (* path segments matching ^[0-9]+$                            *)
  SlugLike,  (* path segments matching ^[a-zA-Z0-9_-]+$                    *)
  Tagged,    (* from segments with a tag in them to what sanitize_input    *)
             (* leaves of them                                             *)
  Requests,  (* the requests clients send: [method, path, body]            *)
  Budget     (* bound on the number of requests                            *)

(* A key has one place in a pattern, and route keys are unique.            *)
ASSUME RoutesAssumption ==
  /\ Dynamic \subseteq Routes
  /\ \A r \in Routes : \A i, j \in DOMAIN Pattern[r] :
       /\ {Pattern[r][i], Pattern[r][j]} \subseteq DOMAIN ParamName
       /\ ParamName[Pattern[r][i]] = ParamName[Pattern[r][j]]
       => i = j
  /\ \A r, s \in Routes :
       Method[r] = Method[s] /\ Pattern[r] = Pattern[s] => r = s

(* What a lambda that does not catch takes are placeholders of its route,
   none of which is called body; and no lambda answers bad_request when it
   has its parameters.                                                     *)
ASSUME LambdaAssumption ==
  /\ \A s \in DOMAIN ParamName : ParamName[s] # "body"
  /\ \A r \in Dynamic \ Guarded : \A k \in Needs[r] :
       \E i \in DOMAIN Pattern[r] :
         Pattern[r][i] \in DOMAIN ParamName /\ ParamName[Pattern[r][i]] = k
  /\ \A r \in Routes : Outcomes[r] \subseteq {200, 204, 404, 500}

(* A traversal meets every route.                                          *)
ASSUME TraversalAssumption ==
  /\ \A o \in Orders :
       /\ o \in Seq(Routes) /\ o # <<>>
       /\ \A r \in Routes : \E i \in DOMAIN o : o[i] = r
  /\ Requests # {}
  /\ Budget \in Nat

(* Segments with tags are neither numbers nor slugs.                       *)
ASSUME SegmentAssumption ==
  /\ DOMAIN Tagged \cap (Numeric \cup SlugLike) = {}
  /\ "" \notin DOMAIN ParamName

VARIABLES
  order,   (* the order in which the unordered_map routes_ is traversed    *)
  params,  (* [Routes -> parameter maps]: params_ of each dynamic handler  *)
  pc,      (* [Threads -> ThreadStates]                                    *)
  req,     (* [Threads -> Requests]: the request of each thread            *)
  next,    (* [Threads -> positions in order]: the next candidate          *)
  chosen,  (* [Threads -> Routes]: the route being served                  *)
  status,  (* [Threads -> statuses]: res.result() while in the router      *)
  reply,   (* [Threads -> replies]: what the client is sent                *)
  received,  (* number of requests received                                *)
  disturbed  (* threads whose handler's params_ another thread assigned    *)
             (* since they began to                                        *)

given == <<order, received>>
shared == <<params, disturbed>>
vars == <<given, shared, pc, req, next, chosen, status, reply>>

ThreadStates == {"idle", "exact", "scan", "store", "handle", "dead"}

NoParams == [k \in {} |-> "nothing"]

(* create_response and its kin; about: the route that answered, or the
   message of the answer.                                                  *)
Reply(st, what, ps) == [status |-> st, about |-> what, params |-> ps]

NoReply == Reply(0, "nothing", NoParams)

ErrorResponse(st, message) == Reply(st, message, NoParams)
-----------------------------------------------------------------------------
Holes(r) == {i \in DOMAIN Pattern[r] : Pattern[r][i] \in DOMAIN ParamName}

HoleKeys(r) == {ParamName[Pattern[r][i]] : i \in Holes(r)}

(* convert_route_to_regex and regex_match: a placeholder takes one segment
   that is not empty.                                                      *)
Matches(r, path) ==
  /\ DOMAIN path = DOMAIN Pattern[r]
  /\ \A i \in DOMAIN path :
       IF i \in Holes(r) THEN path[i] # "" ELSE path[i] = Pattern[r][i]

HoleOf(r, k) == CHOOSE i \in Holes(r) : ParamName[Pattern[r][i]] = k

Extract(r, path) == [k \in HoleKeys(r) |-> path[HoleOf(r, k)]]

Sanitize(v) == IF v \in DOMAIN Tagged THEN Tagged[v] ELSE v

(* Router::validate_parameters, on the values without their tags.          *)
ValidSanitized(ps) ==
  /\ "id" \in DOMAIN ps => Sanitize(ps["id"]) \in Numeric
  /\ "slug" \in DOMAIN ps => Sanitize(ps["slug"]) \in SlugLike

ValidRaw_faulty(ps) == ValidSanitized(ps)

(* DynamicRequestHandler::set_params, on the values as they came.          *)
ValidRaw(ps) ==
  /\ "id" \in DOMAIN ps => ps["id"] \in Numeric
  /\ "slug" \in DOMAIN ps => ps["slug"] \in SlugLike

Refusal_faulty(st) == ErrorResponse(st, "NotAllowedOrNotFound")

(* Session::handle_request when the router says no: always a bad_request;
   the status only selects the message.                                    *)
Refusal(st) ==
  ErrorResponse(400, CASE st = 405 -> "MethodNotAllowed"
                       [] st = 404 -> "RouteNotFound"
                       [] OTHER    -> "InvalidRequest")
-----------------------------------------------------------------------------
(* What req and chosen hold before a thread's first request is not used.   *)
Init ==
  /\ order \in Orders
  /\ params = [r \in Routes |-> NoParams]
  /\ pc = [t \in Threads |-> "idle"]
  /\ req = [t \in Threads |-> CHOOSE q \in Requests : TRUE]
  /\ next = [t \in Threads |-> 1]
  /\ chosen = [t \in Threads |-> order[1]]
  /\ status = [t \in Threads |-> 200]
  /\ reply = [t \in Threads |-> NoReply]
  /\ received = 0 /\ disturbed = {}

(* A new request, with a new response whose status is 200.                 *)
Receive(t, q) ==
  /\ pc[t] = "idle" /\ pc' = [pc EXCEPT ![t] = "exact"]
  /\ received < Budget /\ received' = received + 1
  /\ req' = [req EXCEPT ![t] = q]
  /\ next' = [next EXCEPT ![t] = 1]
  /\ status' = [status EXCEPT ![t] = 200]
  /\ reply' = [reply EXCEPT ![t] = NoReply]
  /\ disturbed' = disturbed \ {t}
  /\ UNCHANGED <<order, params, chosen>>

(* Thread t is done with its request and sends the client p.               *)
Answer(t, p) ==
  /\ reply' = [reply EXCEPT ![t] = p]
  /\ pc' = [pc EXCEPT ![t] = "idle"]
  /\ UNCHANGED <<given, shared, req, next, chosen, status>>

(* An exception leaves the handler and ends the thread.                    *)
Die(t) ==
  /\ pc' = [pc EXCEPT ![t] = "dead"]
  /\ UNCHANGED <<given, shared, req, next, chosen, status, reply>>

RoutedMethods == {"GET", "POST", "PUT", "DELETE", "PATCH", "HEAD"}

AnswerOptions(t) ==
  /\ pc[t] = "exact"
  /\ req[t].method = "OPTIONS"
  /\ Answer(t, Reply(204, "options", NoParams))

RefuseMethod(t) ==
  /\ pc[t] = "exact"
  /\ req[t].method \notin RoutedMethods \cup {"OPTIONS"}
  /\ Answer(t, Refusal(405))

ExactRoutes(q) == {r \in Routes : Pattern[r] = q.path}

(* The first loop: the target equal to a pattern, placeholders unexpanded. *)
MatchExact(t) ==
  /\ pc[t] = "exact"
  /\ req[t].method \in RoutedMethods
  /\ \E r \in ExactRoutes(req[t]) :
       /\ Method[r] = req[t].method
       /\ chosen' = [chosen EXCEPT ![t] = r]
  /\ pc' = [pc EXCEPT ![t] = "handle"]
  /\ UNCHANGED <<given, shared, req, next, status, reply>>

MissExact(t) ==
  /\ pc[t] = "exact"
  /\ req[t].method \in RoutedMethods
  /\ \A r \in ExactRoutes(req[t]) : Method[r] # req[t].method
  /\ pc' = [pc EXCEPT ![t] = "scan"]
  /\ UNCHANGED <<given, shared, req, next, chosen, status, reply>>
-----------------------------------------------------------------------------
(* The second loop, one candidate of order per step.                       *)
Candidate(t) == order[next[t]]

Scanning(t) == pc[t] = "scan" /\ next[t] <= Len(order)

Applies_faulty(t) == Matches(Candidate(t), req[t].path)

Applies(t) ==
  /\ Method[Candidate(t)] = req[t].method
  /\ Matches(Candidate(t), req[t].path)

Extracted(t) == Extract(Candidate(t), req[t].path)

(* The candidate is given up; its verdict stays in the response.           *)
GiveUp(t, st) ==
  /\ status' = [status EXCEPT ![t] = st]
  /\ next' = [next EXCEPT ![t] = @ + 1]
  /\ UNCHANGED <<given, shared, pc, req, chosen, reply>>

Skip_faulty(t) == Scanning(t) /\ ~Applies(t) /\ GiveUp(t, 400)

Skip(t) == Scanning(t) /\ ~Applies(t) /\ GiveUp(t, status[t])

RejectSanitized(t) ==
  /\ Scanning(t)
  /\ Applies(t)
  /\ ~ValidSanitized(Extracted(t))
  /\ GiveUp(t, 400)

RejectType(t) ==
  /\ Scanning(t)
  /\ Applies(t)
  /\ ValidSanitized(Extracted(t))
  /\ Candidate(t) \notin Dynamic
  /\ GiveUp(t, 500)

Settles(t) ==
  /\ Scanning(t)
  /\ Applies(t)
  /\ ValidSanitized(Extracted(t))
  /\ Candidate(t) \in Dynamic

RejectRaw(t) ==
  /\ Settles(t)
  /\ ~ValidRaw(Extracted(t))
  /\ GiveUp(t, 400)

StatusAllows_faulty(t) == status[t] # 200

(* res.result() == ok: the response may carry an earlier candidate's error *)
StatusAllows(t) == status[t] = 200

(* Thread t writes the params_ of its candidate.                           *)
Disturb(t) ==
  disturbed \cup
    {u \in Threads \ {t} :
       \/ pc[u] = "store" /\ Candidate(u) = Candidate(t)
       \/ pc[u] = "handle" /\ chosen[u] = Candidate(t)}

(* set_params begins params_ = params: the map that all threads share is
   empty until its new nodes are linked in.                                *)
BeginStore(t) ==
  /\ Settles(t)
  /\ ValidRaw(Extracted(t))
  /\ params' = [params EXCEPT ![Candidate(t)] = NoParams]
  /\ pc' = [pc EXCEPT ![t] = "store"]
  /\ disturbed' = Disturb(t)
  /\ UNCHANGED <<given, req, next, chosen, status, reply>>

EndStore_faulty(t) ==
  /\ pc[t] = "store"
  /\ IF StatusAllows(t)
     THEN /\ pc' = [pc EXCEPT ![t] = "handle"]
          /\ chosen' = [chosen EXCEPT ![t] = Candidate(t)]
          /\ UNCHANGED next
     ELSE /\ pc' = [pc EXCEPT ![t] = "scan"]
          /\ next' = [next EXCEPT ![t] = @ + 1]
          /\ UNCHANGED chosen
  /\ disturbed' = Disturb(t)
  /\ UNCHANGED <<given, params, req, status, reply>>

(* The assignment ends, and set_params returns to the router.              *)
EndStore(t) ==
  /\ pc[t] = "store"
  /\ params' = [params EXCEPT ![Candidate(t)] = Extracted(t)]
  /\ IF StatusAllows(t)
     THEN /\ pc' = [pc EXCEPT ![t] = "handle"]
          /\ chosen' = [chosen EXCEPT ![t] = Candidate(t)]
          /\ UNCHANGED next
     ELSE /\ pc' = [pc EXCEPT ![t] = "scan"]
          /\ next' = [next EXCEPT ![t] = @ + 1]
          /\ UNCHANGED chosen
  /\ disturbed' = Disturb(t)
  /\ UNCHANGED <<given, req, status, reply>>

(* No candidate is left: 405 when the path is registered under another
   method only, else 404.                                                  *)
Refuse(t) ==
  /\ pc[t] = "scan"
  /\ next[t] > Len(order)
  /\ Answer(t, Refusal(IF ExactRoutes(req[t]) # {} THEN 405 ELSE 404))
-----------------------------------------------------------------------------
(* The controller's lambda for route r is given ps: its answer, an error it
   catches itself, or an exception that ends the thread.                   *)
CallLambda(t, r, ps) ==
  \/ /\ Needs[r] \subseteq DOMAIN ps
     /\ \E st \in Outcomes[r] :
          Answer(t, Reply(st, r, [k \in Needs[r] |-> ps[k]]))
  \/ /\ ~(Needs[r] \subseteq DOMAIN ps)
     /\ r \in Guarded
     /\ Answer(t, ErrorResponse(500, "MissingKey"))
  \/ /\ ~(Needs[r] \subseteq DOMAIN ps)
     /\ r \notin Guarded
     /\ Die(t)

Handling(t, rs) == pc[t] = "handle" /\ chosen[t] \in rs

(* Both handlers refuse a body that is absent or is not JSON.              *)
RefuseBody(t) ==
  /\ Handling(t, Routes)
  /\ req[t].method # "GET"
  /\ req[t].body \in {"none", "text"}
  /\ Answer(t, ErrorResponse(400, IF req[t].body = "none" THEN "EmptyBody"
                                  ELSE "InvalidJSON"))

HandleDynamicGet(t) ==
  /\ Handling(t, Dynamic)
  /\ req[t].method = "GET"
  /\ CallLambda(t, chosen[t], params[chosen[t]])

(* The test is on the parameters of the path, not on the request's body.   *)
HandleDynamicBody(t) ==
  /\ Handling(t, Dynamic)
  /\ req[t].method # "GET"
  /\ req[t].body \in {"object", "array"}
  /\ IF "body" \in DOMAIN params[chosen[t]]
     THEN CallLambda(t, chosen[t], [k \in {"body"} |-> req[t].body])
     ELSE Answer(t, ErrorResponse(400, "MissingBody"))

(* UnifiedRequestHandler::extract_dynamic_params knows one pattern.        *)
TargetParams(path) ==
  IF /\ Len(path) = 3 /\ path[1] = "" /\ path[2] = "update_user"
     /\ path[3] \in Numeric
  THEN [k \in {"id"} |-> path[3]]
  ELSE NoParams

(***************************************************************************)
(* The lambdas of unified handlers look at the request itself.  The router *)
(* gets to these handlers through its first loop only, with a target that  *)
(* spells the pattern, so the one lambda that wants an id finds none.  (Of *)
(* what it does with an id, its answer is kept.)                           *)
(***************************************************************************)
HandleUnified(t) ==
  /\ Handling(t, Routes \ Dynamic)
  /\ req[t].method = "GET" \/ req[t].body = "object"
  /\ IF Needs[chosen[t]] \subseteq DOMAIN TargetParams(req[t].path)
     THEN Answer(t, Reply(200, chosen[t], NoParams))
     ELSE Answer(t, ErrorResponse(400, "MissingId"))

(* A body that is not an object of strings: the copy of its members throws *)
UnifiedThrows(t) ==
  /\ Handling(t, Routes \ Dynamic)
  /\ req[t].method # "GET"
  /\ req[t].body = "array"
  /\ Die(t)

InRouter(t) ==
  \/ AnswerOptions(t) \/ RefuseMethod(t) \/ MatchExact(t) \/ MissExact(t)
  \/ Skip(t) \/ RejectSanitized(t) \/ RejectType(t) \/ RejectRaw(t)
  \/ BeginStore(t) \/ EndStore(t) \/ Refuse(t)
  \/ RefuseBody(t) \/ HandleDynamicGet(t) \/ HandleDynamicBody(t)
  \/ HandleUnified(t) \/ UnifiedThrows(t)

(* The bound is reached and nobody is in the router.                       *)
Quiet ==
  /\ received = Budget \/ \A t \in Threads : pc[t] = "dead"
  /\ \A t \in Threads : pc[t] \in {"idle", "dead"}
  /\ UNCHANGED vars

Next ==
  \/ \E t \in Threads : InRouter(t) \/ \E q \in Requests : Receive(t, q)
  \/ Quiet

Spec == Init /\ [][Next]_vars
-----------------------------------------------------------------------------
TypeOK ==
  /\ order \in Orders
  /\ DOMAIN params = Routes
  /\ \A r \in Routes : DOMAIN params[r] \subseteq HoleKeys(r)
  /\ pc \in [Threads -> ThreadStates]
  /\ req \in [Threads -> Requests]
  /\ next \in [Threads -> 1 .. Len(order) + 1]
  /\ chosen \in [Threads -> Routes]
  /\ status \in [Threads -> {200, 400, 500}]
  /\ DOMAIN reply = Threads
  /\ \A t \in Threads : reply[t].status \in {0, 200, 204, 400, 404, 500}
  /\ received \in 0 .. Budget
  /\ disturbed \subseteq Threads

Answered(t) == pc[t] = "idle" /\ reply[t] # NoReply

Served(t) == Answered(t) /\ reply[t].about \in Routes

(* The routes that a request fits, its parameters being valid.             *)
Fitting(q) ==
  {r \in Routes :
     /\ Method[r] = q.method
     /\ Matches(r, q.path)
     /\ ValidRaw(Extract(r, q.path))}

(* A GET request that r fits and no other route can even match.            *)
MeantFor(q, r) ==
  /\ q.method = "GET"
  /\ Fitting(q) = {r}
  /\ {s \in Routes : Method[s] = "GET" /\ Matches(s, q.path)} = {r}

(* The routes that spell the target, and those that the scan may choose.   *)
Literal(q) == {r \in ExactRoutes(q) : Method[r] = q.method}

Takers(q) == Dynamic \cap Fitting(q)

(* Matched by the path, and yet no choice: their error stays.              *)
Rejecters(q) ==
  {r \in Routes : Method[r] = q.method /\ Matches(r, q.path)} \ Takers(q)

Trusted(ps) ==
  \A k \in DOMAIN ps :
    (k = "id" => ps[k] \in Numeric) /\ (k = "slug" => ps[k] \in SlugLike)

(***************************************************************************)
(* Whatever the threads do to each other's params_, no handler ever holds  *)
(* or answers with an id or slug that set_params would have refused; in    *)
(* particular the tags that validate_parameters overlooks never get in.    *)
(***************************************************************************)
ParamsValidated ==
  /\ \A r \in Routes : Trusted(params[r])
  /\ \A t \in Threads : Served(t) => Trusted(reply[t].params)

(***************************************************************************)
(* A GET request that one route alone can match, and fits, is handled by   *)
(* that route and not refused, in whatever order the map is traversed and  *)
(* whatever the other threads write.                                       *)
(***************************************************************************)
UniqueMatchServed ==
  \A t \in Threads : \A r \in Dynamic :
    Answered(t) /\ MeantFor(req[t], r) => chosen[t] = r /\ reply[t].status # 400

(***************************************************************************)
(* What is handled, a right route handles, whatever the other threads do   *)
(* and in whatever order the map is traversed: one that spells the target, *)
(* whenever there is one, and otherwise a dynamic route of the request's   *)
(* method whose pattern the path matches with valid parameters.            *)
(***************************************************************************)
RightRouteHandles ==
  \A t \in Threads : pc[t] = "handle" =>
    chosen[t] \in IF Literal(req[t]) # {} THEN Literal(req[t])
                                         ELSE Takers(req[t])

(***************************************************************************)
(* A request that is refused when no candidate is left has no route that   *)
(* would have taken it, unless another route matched the path and rejected *)
(* it: whatever was skipped on the way leaves no error behind.             *)
(***************************************************************************)
OnlyRejectersHide ==
  \A t \in Threads : pc[t] = "scan" /\ next[t] > Len(order) =>
    /\ Literal(req[t]) = {}
    /\ Rejecters(req[t]) = {} => Takers(req[t]) = {}

(* What the search of the router achieves, at its two ends.                *)
SearchIsRight == RightRouteHandles /\ OnlyRejectersHide

(* The answer's parameters are those of the request's own path.            *)
OwnParams(t) ==
  \A k \in DOMAIN reply[t].params :
    reply[t].params[k] = Extract(reply[t].about, req[t].path)[k]

SpellsPlaceholder(q) == \E i \in DOMAIN q.path : q.path[i] \in DOMAIN ParamName

(***************************************************************************)
(* What sharing params_ costs, and no more: a thread whose handler no      *)
(* other thread wrote to meanwhile answers with the parameters of its own  *)
(* path, and the controllers' unguarded params.at do not end it.  (A path  *)
(* that spells a placeholder is handled with the parameters of an earlier  *)
(* request; a JSON body that is no object ends the thread anyway.)         *)
(***************************************************************************)
OnlyOverlapMixesParams ==
  \A t \in Threads \ disturbed :
    ~SpellsPlaceholder(req[t]) =>
      /\ Served(t) => OwnParams(t)
      /\ pc[t] = "dead" => req[t].body = "array"

(***************************************************************************)
(* "Product details for id: " (ProductController.hpp:31): the id in the    *)
(* answer is the one in the request's own path.  With two threads in one   *)
(* handler it may be the other's.                                          *)
(***************************************************************************)
AnswersOwnParams ==
  \A t \in Threads :
    Served(t) /\ ~SpellsPlaceholder(req[t]) => OwnParams(t)

(***************************************************************************)
(* "Route not found" (Router.cpp:93), sent as "Route Not Found"            *)
(* (Session.cpp:119): no registered route fits the request.                *)
(***************************************************************************)
NotFoundMeansUnregistered ==
  \A t \in Threads :
    Answered(t) /\ reply[t].about = "RouteNotFound" => Fitting(req[t]) = {}

(***************************************************************************)
(* "Missing 'body' parameter." (DynamicRequestHandler.cpp:57, 87): the     *)
(* request has no body.                                                    *)
(***************************************************************************)
MissingBodyMeansNoBody ==
  \A t \in Threads :
    Answered(t) /\ reply[t].about = "MissingBody" =>
      req[t].body = "none"
=============================================================================
