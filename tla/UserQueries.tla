----------------------------- MODULE UserQueries -----------------------------
(***************************************************************************)
(* The settings of Config (config/Config.cpp) and the threads that load    *)
(* and use them: main, which loads them twice before it serves (main.cpp,  *)
(* RouteConfigurator::configure_routes), and the io_context threads that   *)
(* answer GET /users and GET /users/{id} (UserController), which load them *)
(* a third time through loadConfigOnce.  (The other routes of              *)
(* UserController never get past their handler, see module Dispatch.)      *)
(*                                                                         *)
(* Config is one object that all threads share without a lock.  A setting  *)
(* is represented by the content of the configuration file it came from;   *)
(* reading or assigning one setting is a step.                             *)
(*                                                                         *)
(* Definitions whose name ends in _faulty are plausible mistakes that no   *)
(* specification uses; they show that the properties notice them.          *)
(***************************************************************************)
EXTENDS Integers, Sequences

CONSTANTS
  Requesters,  (* io_context threads that serve user routes                *)
  Main,        (* the thread of main                                       *)
  Files,       (* contents that config.json may have, or its absence       *)
  BuiltIn,     (* what the constructor of Config assigns                   *)
  Assigned     (* [Files -> Nat]: the settings that loadConfig assigns     *)
               (* before it throws; all of them for a usable file          *)

(* In the order of loadConfig.                                             *)
Order == <<"host", "user", "password", "name", "port">>

Settings == {Order[i] : i \in DOMAIN Order}

ASSUME QueriesAssumption ==
  /\ Main \notin Requesters
  /\ BuiltIn \notin Files
  /\ Files # {}
  /\ Assigned \in [Files -> 0 .. Len(Order)]

Loaders == Requesters \cup {Main}

VARIABLES
  settings,  (* [Settings -> Files or BuiltIn]                             *)
  built,     (* has main constructed the HTTPServer?                       *)
  loaded,    (* the static config_loaded of loadConfigOnce                 *)
  pc,        (* [Loaders -> where each thread is]                          *)
  parsed,    (* [Loaders -> Files]: the local variable config              *)
  count,     (* [Loaders -> Nat]: settings assigned so far by this load    *)
  used,      (* [Requesters -> settings passed to the driver so far]       *)
  mishap,    (* did a load fail half way, or meet another one?             *)
  disturbed  (* requesters that used settings while a load assigned them   *)

loadVars == <<settings, parsed, count>>
ghosts == <<mishap, disturbed>>
vars == <<built, loadVars, loaded, pc, used, ghosts>>

MainStates == {"read", "assign", "construct", "serving", "ended"}

RequesterStates == {"idle", "check", "read", "assign", "mark", "connect",
                    "schema", "query"}

Nothing == [s \in {} |-> BuiltIn]

Init ==
  /\ settings = [s \in Settings |-> BuiltIn]
  /\ built = FALSE
  /\ loaded = FALSE
  /\ pc = [l \in Loaders |-> IF l = Main THEN "read" ELSE "idle"]
  /\ parsed = [l \in Loaders |-> BuiltIn]
  /\ count = [l \in Loaders |-> 0]
  /\ used = [r \in Requesters |-> Nothing]
  /\ mishap = FALSE
  /\ disturbed = {}

Goto(l, place) == pc' = [pc EXCEPT ![l] = place]
-----------------------------------------------------------------------------
(* loadConfig, up to the parsed document.  The file may be rewritten or
   removed at any time, so that each load finds what it finds.             *)
ReadFile(l) ==
  /\ pc[l] = "read"
  /\ \E f \in Files : parsed' = [parsed EXCEPT ![l] = f]
  /\ count' = [count EXCEPT ![l] = 0]
  /\ Goto(l, "assign")
  /\ UNCHANGED <<built, settings, loaded, used, ghosts>>

(* The load of l has assigned some of the settings, and is not finished.   *)
Midway(l) == pc[l] = "assign" /\ count[l] > 0

Overlaps(l) == \E k \in Loaders \ {l} : Midway(k) /\ parsed[k] # parsed[l]

UsersNow == {r \in Requesters : pc[r] \in {"connect", "schema"}}

Assign(l) ==
  /\ pc[l] = "assign"
  /\ count[l] < Assigned[parsed[l]]
  /\ count' = [count EXCEPT ![l] = @ + 1]
  /\ settings' = [settings EXCEPT ![Order[count[l] + 1]] = parsed[l]]
  /\ mishap' = (mishap \/ Overlaps(l))
  /\ disturbed' = disturbed \cup UsersNow
  /\ UNCHANGED <<built, loaded, pc, parsed, used>>

(* The local variables of loadConfig are gone.                             *)
Leave(l) ==
  /\ parsed' = [parsed EXCEPT ![l] = BuiltIn]
  /\ count' = [count EXCEPT ![l] = 0]
  /\ UNCHANGED settings

LoadDone_faulty(l) ==
  /\ pc[l] = "assign"
  /\ count[l] >= Len(Order) - 2
  /\ Leave(l)

LoadDone(l) ==
  /\ pc[l] = "assign"
  /\ count[l] = Len(Order)
  /\ Leave(l)

(* The file lacks the next setting, or the load did not get that far.      *)
LoadThrows(l) ==
  /\ pc[l] = "assign"
  /\ count[l] = Assigned[parsed[l]]
  /\ count[l] < Len(Order)
  /\ Leave(l)
  /\ mishap' = (mishap \/ count[l] > 0)
-----------------------------------------------------------------------------
MainLoadDone_faulty ==
  /\ LoadDone(Main)
  /\ Goto(Main, "mark")
  /\ UNCHANGED <<built, loaded, used, ghosts>>

(* main loads, constructs the server, and loads again in run.  A failure
   of any of the three ends the program.                                   *)
MainLoadDone ==
  /\ LoadDone(Main)
  /\ Goto(Main, IF built THEN "serving" ELSE "construct")
  /\ UNCHANGED <<built, loaded, used, ghosts>>

MainLoadThrows ==
  /\ LoadThrows(Main)
  /\ Goto(Main, "ended")
  /\ UNCHANGED <<built, loaded, used, disturbed>>

Construct ==
  /\ pc[Main] = "construct"
  /\ \/ built' = TRUE /\ Goto(Main, "read")
     \/ Goto(Main, "ended") /\ UNCHANGED built
  /\ UNCHANGED <<loadVars, loaded, used, ghosts>>
-----------------------------------------------------------------------------
(* The handler calls findAll or get_user_by_id.                            *)
Request(r) ==
  /\ pc[r] = "idle"
  /\ pc[Main] = "serving"
  /\ Goto(r, "check")
  /\ UNCHANGED <<built, loadVars, loaded, used, ghosts>>

CheckLoaded_faulty(r) ==
  /\ pc[r] = "check"
  /\ Goto(r, "read")
  /\ UNCHANGED <<built, loadVars, loaded, used, ghosts>>

(* if (!config_loaded)                                                     *)
CheckLoaded(r) ==
  /\ pc[r] = "check"
  /\ Goto(r, IF loaded THEN "connect" ELSE "read")
  /\ UNCHANGED <<built, loadVars, loaded, used, ghosts>>

RequesterLoadDone(r) ==
  /\ LoadDone(r)
  /\ Goto(r, "mark")
  /\ UNCHANGED <<built, loaded, used, ghosts>>

MarkLoaded(r) ==
  /\ pc[r] = "mark"
  /\ loaded' = TRUE
  /\ Goto(r, "connect")
  /\ UNCHANGED <<built, loadVars, used, ghosts>>

(* The handler has answered; whatever it connected to is released.         *)
Finish(r) ==
  /\ used' = [used EXCEPT ![r] = Nothing]
  /\ disturbed' = disturbed \ {r}
  /\ Goto(r, "idle")

(* The catch of the handler answers.                                       *)
RequesterLoadThrows(r) ==
  /\ LoadThrows(r)
  /\ Finish(r)
  /\ UNCHANGED <<built, loaded>>

Use(r, s) ==
  /\ used' = [used EXCEPT ![r] =
               [x \in DOMAIN @ \cup {s} |-> IF x = s THEN settings[s] ELSE @[x]]]
  /\ disturbed' =
       IF \E l \in Loaders : Midway(l) THEN disturbed \cup {r} ELSE disturbed

Credentials == {"host", "user", "password"}

(* The arguments of driver->connect, in any order.                         *)
ReadCredential(r) ==
  /\ pc[r] = "connect"
  /\ \E s \in Credentials \ DOMAIN used[r] : Use(r, s)
  /\ UNCHANGED <<built, loadVars, loaded, pc, mishap>>

Connect(r) ==
  /\ pc[r] = "connect"
  /\ DOMAIN used[r] = Credentials
  /\ Goto(r, "schema")
  /\ UNCHANGED <<built, loadVars, loaded, used, ghosts>>

SetSchema(r) ==
  /\ pc[r] = "schema"
  /\ Use(r, "name")
  /\ Goto(r, "query")
  /\ UNCHANGED <<built, loadVars, loaded, mishap>>

(* The rows, "User not found" or an error: no part of the server writes to
   the table, so that what it holds is not the server's doing.             *)
Query(r) ==
  /\ pc[r] = "query"
  /\ Finish(r)
  /\ UNCHANGED <<built, loadVars, loaded, mishap>>

(* The database refuses; the exceptions end in the handler's catch.        *)
DatabaseFails(r) ==
  /\ \/ pc[r] = "connect" /\ DOMAIN used[r] = Credentials
     \/ pc[r] \in {"schema", "query"}
  /\ Finish(r)
  /\ UNCHANGED <<built, loadVars, loaded, mishap>>

Over == pc[Main] = "ended" /\ UNCHANGED vars

Loading(l) == ReadFile(l) \/ Assign(l)

MainStep == Loading(Main) \/ MainLoadDone \/ MainLoadThrows \/ Construct

Serve(r) ==
  \/ CheckLoaded(r) \/ Loading(r) \/ RequesterLoadDone(r) \/ MarkLoaded(r)
  \/ RequesterLoadThrows(r) \/ ReadCredential(r) \/ Connect(r)
  \/ SetSchema(r) \/ Query(r) \/ DatabaseFails(r)

Next ==
  \/ MainStep
  \/ \E r \in Requesters : Request(r) \/ Serve(r)
  \/ Over

Safety == Init /\ [][Next]_vars

(* The io_context threads run.  Nobody has to send a request.              *)
Fairness == \A r \in Requesters : WF_vars(Serve(r))

Spec == Safety /\ Fairness
-----------------------------------------------------------------------------
TypeOK ==
  /\ settings \in [Settings -> Files \cup {BuiltIn}]
  /\ built \in BOOLEAN
  /\ loaded \in BOOLEAN
  /\ DOMAIN pc = Loaders
  /\ pc[Main] \in MainStates
  /\ \A r \in Requesters : pc[r] \in RequesterStates
  /\ parsed \in [Loaders -> Files \cup {BuiltIn}]
  /\ count \in [Loaders -> 0 .. Len(Order)]
  /\ \A r \in Requesters : \E S \in SUBSET Settings :
       used[r] \in [S -> Files \cup {BuiltIn}]
  /\ mishap \in BOOLEAN
  /\ disturbed \subseteq Requesters

(***************************************************************************)
(* No connection is attempted with a setting that the constructor of       *)
(* Config made up, whichever loads fail and however far they got: main's   *)
(* complete loads come before any request, and config_loaded is set after  *)
(* a complete load only.                                                   *)
(***************************************************************************)
NoBuiltInUsed ==
  \A r \in Requesters : \A s \in DOMAIN used[r] : used[r][s] # BuiltIn

(***************************************************************************)
(* A connection that mixes the settings of two files takes a mishap: a     *)
(* load that threw half way, two loads of different files at once, or a    *)
(* load that assigned settings while this connection was being made.       *)
(***************************************************************************)
MixingNeedsMishap ==
  \A r \in Requesters \ disturbed :
    ~mishap => \A s, t \in DOMAIN used[r] : used[r][s] = used[r][t]

(* What the load of l, if one is in progress, may still assign.            *)
ToAssign(l) ==
  IF pc[l] = "read" THEN Len(Order)
  ELSE IF pc[l] = "assign" THEN Len(Order) - count[l]
  ELSE 0

(***************************************************************************)
(* Why the settings settle: once a request has marked them as loaded, no   *)
(* thread begins another load (main is serving then, and every request     *)
(* that gets to the test passes it), and the loads that are in progress    *)
(* assign what they have left to assign.                                   *)
(***************************************************************************)
LoadsRunOut ==
  [][loaded =>
       /\ \A l \in Loaders : ToAssign(l)' <= ToAssign(l)
       /\ settings' # settings =>
            \E l \in Loaders : ToAssign(l)' < ToAssign(l)]_vars

(***************************************************************************)
(* What the name of loadConfigOnce promises in the long run: once a load   *)
(* by a request has succeeded, the settings are bound to settle, however   *)
(* often the file is rewritten.                                            *)
(***************************************************************************)
SettingsSettle == <>loaded => <>[][settings' = settings]_settings
=============================================================================
