-------------------------- MODULE UserQueriesProofs --------------------------
(***************************************************************************)
(* For any number of requesters and any files:                             *)
(*  - no connection is attempted with a setting that nobody loaded: main's *)
(*    first load fills the settings in order, from then on every           *)
(*    assignment replaces a loaded value by a loaded value, and requests   *)
(*    come after main's second load;                                       *)
(*  - the state keeps its types;                                           *)
(*  - once the settings are marked as loaded, the loads run out;           *)
(*  - a connection that mixes two files takes a mishap: without one, the   *)
(*    loads in progress are of one file, and between loads the settings    *)
(*    are of one file.                                                     *)
(***************************************************************************)
EXTENDS UserQueries, TLAPS

Filled == \A s \in Settings : settings[s] # BuiltIn

Shapes ==
  /\ DOMAIN settings = Settings
  /\ DOMAIN pc = Loaders
  /\ DOMAIN parsed = Loaders
  /\ DOMAIN count = Loaders
  /\ DOMAIN used = Requesters
  /\ \A l \in Loaders : count[l] \in 0 .. Len(Order)
  /\ \A l \in Loaders : pc[l] = "assign" => parsed[l] \in Files

(* A load of main has assigned the settings up to count[Main].             *)
MainFills ==
  /\ pc[Main] \in MainStates
  /\ pc[Main] = "assign" =>
       \A i \in 1 .. count[Main] : settings[Order[i]] # BuiltIn
  /\ pc[Main] \in {"construct", "serving"} => Filled

RequestsComeLater ==
  /\ \A r \in Requesters :
       /\ pc[r] \in RequesterStates
       /\ pc[r] # "idle" => pc[Main] = "serving"

Inv == Shapes /\ MainFills /\ RequestsComeLater /\ NoBuiltInUsed

LEMMA OrderFacts ==
  /\ Len(Order) = 5
  /\ \A i \in 1 .. 5 : Order[i] \in Settings
  /\ \A s \in Settings : \E i \in 1 .. 5 : Order[i] = s
  /\ \A i, j \in 1 .. 5 : Order[i] = Order[j] => i = j
  /\ Credentials \subseteq Settings
  /\ "name" \in Settings
BY DEF Order, Settings, Credentials

LEMMA InvInit == Init => Inv
<1> SUFFICES ASSUME Init PROVE Inv
  OBVIOUS
<1>1. Main \in Loaders /\ \A r \in Requesters : r # Main /\ r \in Loaders
  BY QueriesAssumption DEF QueriesAssumption, Loaders
<1>2. Shapes
  BY <1>1, OrderFacts DEF Init, Shapes
<1>3. MainFills
  BY <1>1 DEF Init, MainFills, MainStates
<1>4. RequestsComeLater
  BY <1>1 DEF Init, RequestsComeLater, RequesterStates
<1>5. NoBuiltInUsed
  BY DEF Init, NoBuiltInUsed, Nothing
<1> QED
  BY <1>2, <1>3, <1>4, <1>5 DEF Inv

(* An assignment of any thread keeps what is filled filled, and extends
   what main has filled when it is main's.                                 *)
LEMMA InvAssign ==
  ASSUME Inv, NEW l \in Loaders, Assign(l)
  PROVE  Inv'
<1> USE DEF Inv
<1>1. /\ parsed[l] \in Files
      /\ parsed[l] # BuiltIn
      /\ count[l] \in 0 .. 5
      /\ count[l] < Len(Order)
      /\ count' = [count EXCEPT ![l] = @ + 1]
      /\ UNCHANGED <<built, loaded, pc, parsed, used>>
  <2>1. parsed[l] \in Files /\ count[l] \in 0 .. 5
    BY OrderFacts DEF Assign, Shapes
  <2>2. Assigned[parsed[l]] \in 0 .. 5 /\ BuiltIn \notin Files
    BY <2>1, QueriesAssumption, OrderFacts DEF QueriesAssumption
  <2> QED
    BY <2>1, <2>2, OrderFacts DEF Assign
<1>2. /\ Order[count[l] + 1] \in Settings
      /\ settings' = [settings EXCEPT ![Order[count[l] + 1]] = parsed[l]]
  BY <1>1, OrderFacts DEF Assign
<1>3. \A s \in Settings : settings[s] # BuiltIn => settings'[s] # BuiltIn
  <2> SUFFICES ASSUME NEW s \in Settings, settings[s] # BuiltIn
               PROVE  settings'[s] # BuiltIn
    OBVIOUS
  <2>1. DOMAIN settings = Settings
    BY DEF Shapes
  <2>2. CASE s = Order[count[l] + 1]
    BY <1>1, <1>2, <2>1, <2>2
  <2>3. CASE s # Order[count[l] + 1]
    BY <1>2, <2>1, <2>3
  <2> QED
    BY <2>2, <2>3
<1>4. Shapes'
  BY <1>1, <1>2, OrderFacts DEF Shapes
<1>5. MainFills'
  <2>1. Filled => Filled'
    BY <1>3 DEF Filled
  <2>2. ASSUME pc[Main] = "assign", NEW i \in 1 .. count'[Main]
        PROVE  settings'[Order[i]] # BuiltIn
    <3>1. Main \in Loaders
      BY DEF Loaders
    <3>2. i \in 1 .. 5 /\ Order[i] \in Settings
      BY <1>4, <3>1, OrderFacts DEF Shapes
    <3>3. CASE i \in 1 .. count[Main]
      BY <2>2, <3>2, <3>3, <1>3 DEF MainFills
    <3>4. CASE i \notin 1 .. count[Main]
      <4>1. l = Main
        BY <1>1, <2>2, <3>1, <3>4 DEF Shapes
      <4>2. i = count[l] + 1
        BY <1>1, <2>2, <3>4, <4>1 DEF Shapes
      <4> QED
        BY <1>1, <1>2, <4>2 DEF Shapes
    <3> QED
      BY <3>3, <3>4
  <2> QED
    BY <1>1, <2>1, <2>2 DEF MainFills
<1>6. RequestsComeLater' /\ NoBuiltInUsed'
  BY <1>1 DEF RequestsComeLater, NoBuiltInUsed
<1> QED
  BY <1>4, <1>5, <1>6

LEMMA InvMain ==
  ASSUME Inv, MainStep
  PROVE  Inv'
<1> USE DEF Inv
<1>1. Main \in Loaders /\ \A r \in Requesters : r # Main /\ r \in Loaders
  BY QueriesAssumption DEF QueriesAssumption, Loaders
<1>2. CASE ReadFile(Main)
  <2>1. Shapes'
    BY <1>1, <1>2, OrderFacts DEF ReadFile, Goto, Shapes
  <2>2. MainFills' /\ RequestsComeLater' /\ NoBuiltInUsed'
    BY <1>1, <1>2
    DEF ReadFile, Goto, Shapes, MainFills, MainStates, RequestsComeLater,
        NoBuiltInUsed
  <2> QED
    BY <2>1, <2>2
<1>3. CASE Assign(Main)
  BY <1>1, <1>3, InvAssign
<1>4. CASE MainLoadDone
  <2>1. Shapes'
    BY <1>1, <1>4, OrderFacts DEF MainLoadDone, LoadDone, Leave, Goto, Shapes
  <2>2. Filled
    BY <1>4, OrderFacts DEF MainLoadDone, LoadDone, MainFills, Filled
  <2>3. MainFills' /\ RequestsComeLater' /\ NoBuiltInUsed'
    BY <1>1, <1>4, <2>2
    DEF MainLoadDone, LoadDone, Leave, Goto, Shapes, MainFills, MainStates,
        Filled, RequestsComeLater, NoBuiltInUsed
  <2> QED
    BY <2>1, <2>3
<1>5. CASE MainLoadThrows
  <2>1. Shapes'
    BY <1>1, <1>5, OrderFacts
    DEF MainLoadThrows, LoadThrows, Leave, Goto, Shapes
  <2>2. MainFills' /\ RequestsComeLater' /\ NoBuiltInUsed'
    BY <1>1, <1>5
    DEF MainLoadThrows, LoadThrows, Leave, Goto, Shapes, MainFills,
        MainStates, RequestsComeLater, NoBuiltInUsed
  <2> QED
    BY <2>1, <2>2
<1>6. CASE Construct
  BY <1>1, <1>6
  DEF Construct, Goto, loadVars, ghosts, Shapes, MainFills, MainStates,
      RequestsComeLater, NoBuiltInUsed
<1> QED
  BY <1>2, <1>3, <1>4, <1>5, <1>6 DEF MainStep, Loading

(* What a requester passes to the driver, it reads from filled settings.   *)
LEMMA InvUse ==
  ASSUME Inv, NEW r \in Requesters, NEW s \in Settings, pc[r] # "idle",
         Use(r, s), UNCHANGED settings
  PROVE  NoBuiltInUsed' /\ DOMAIN used' = Requesters
<1> USE DEF Inv
<1>1. settings[s] # BuiltIn
  BY DEF RequestsComeLater, MainFills, Filled
<1>2. DOMAIN used = Requesters
  BY DEF Shapes
<1>3. \A q \in Requesters \ {r} : used'[q] = used[q]
  BY <1>2 DEF Use
<1>4. used'[r] = [x \in DOMAIN used[r] \cup {s} |->
                    IF x = s THEN settings[s] ELSE used[r][x]]
  BY <1>2 DEF Use
<1>5. DOMAIN used' = Requesters
  BY <1>2 DEF Use
<1>6. \A x \in DOMAIN used'[r] : used'[r][x] # BuiltIn
  BY <1>1, <1>4 DEF NoBuiltInUsed
<1> QED
  BY <1>3, <1>5, <1>6 DEF NoBuiltInUsed

LEMMA InvFinish ==
  ASSUME Inv, NEW r \in Requesters, Finish(r)
  PROVE  /\ NoBuiltInUsed'
         /\ DOMAIN used' = Requesters
         /\ pc' = [pc EXCEPT ![r] = "idle"]
<1>1. /\ DOMAIN used = Requesters
      /\ used' = [used EXCEPT ![r] = Nothing]
  BY DEF Inv, Shapes, Finish
<1>2. used'[r] = Nothing /\ \A q \in Requesters \ {r} : used'[q] = used[q]
  BY <1>1
<1>3. NoBuiltInUsed'
  BY <1>2 DEF NoBuiltInUsed, Nothing, Inv
<1> QED
  BY <1>1, <1>3 DEF Finish, Goto

(* A requester that moves to another place, and changes no setting.        *)
LEMMA InvMove ==
  ASSUME Inv, NEW r \in Requesters, NEW place \in RequesterStates \ {"assign"},
         pc' = [pc EXCEPT ![r] = place],
         place = "idle" \/ pc[Main] = "serving",
         UNCHANGED settings,
         \/ UNCHANGED <<parsed, count>>
         \/ Leave(r),
         NoBuiltInUsed', DOMAIN used' = Requesters
  PROVE  Inv'
<1> USE DEF Inv
<1>1. Main \in Loaders /\ r # Main /\ r \in Loaders
  BY QueriesAssumption DEF QueriesAssumption, Loaders
<1>2. Shapes'
  BY <1>1, OrderFacts DEF Shapes, Leave
<1>3. MainFills'
  BY <1>1 DEF MainFills, Shapes, Leave, Filled
<1>4. RequestsComeLater'
  BY <1>1 DEF RequestsComeLater, Shapes
<1> QED
  BY <1>2, <1>3, <1>4

LEMMA InvRequester ==
  ASSUME Inv, NEW r \in Requesters, Request(r) \/ Serve(r)
  PROVE  Inv'
<1> USE DEF Inv, RequesterStates
<1>1. r # Main /\ r \in Loaders
  BY QueriesAssumption DEF QueriesAssumption, Loaders
<1>2. pc[r] # "idle" => pc[Main] = "serving"
  BY DEF RequestsComeLater
<1>3. CASE Request(r)
  BY <1>3, InvMove DEF Request, Goto, loadVars, Shapes, NoBuiltInUsed
<1>4. CASE CheckLoaded(r)
  BY <1>2, <1>4, InvMove DEF CheckLoaded, Goto, loadVars, Shapes, NoBuiltInUsed
<1>5. CASE ReadFile(r)
  <2>1. Shapes'
    BY <1>1, <1>5, OrderFacts DEF ReadFile, Goto, Shapes
  <2>2. MainFills' /\ RequestsComeLater' /\ NoBuiltInUsed'
    BY <1>1, <1>2, <1>5
    DEF ReadFile, Goto, Shapes, MainFills, Filled, RequestsComeLater,
        NoBuiltInUsed, Loaders
  <2> QED
    BY <2>1, <2>2
<1>6. CASE Assign(r)
  BY <1>1, <1>6, InvAssign
<1>7. CASE RequesterLoadDone(r)
  BY <1>2, <1>7, InvMove
  DEF RequesterLoadDone, LoadDone, Leave, Goto, Shapes, NoBuiltInUsed
<1>8. CASE MarkLoaded(r)
  BY <1>2, <1>8, InvMove DEF MarkLoaded, Goto, loadVars, Shapes, NoBuiltInUsed
<1>9. CASE RequesterLoadThrows(r)
  BY <1>9, InvMove, InvFinish DEF RequesterLoadThrows, LoadThrows, Leave
<1>10. CASE ReadCredential(r)
  <2>1. PICK s \in Settings : Use(r, s)
    BY <1>10, OrderFacts DEF ReadCredential
  <2>2. NoBuiltInUsed' /\ DOMAIN used' = Requesters
    BY <1>10, <2>1, InvUse DEF ReadCredential, loadVars
  <2> QED
    BY <1>10, <2>2
    DEF ReadCredential, loadVars, Shapes, MainFills, Filled, RequestsComeLater
<1>11. CASE Connect(r)
  BY <1>2, <1>11, InvMove DEF Connect, Goto, loadVars, Shapes, NoBuiltInUsed
<1>12. CASE SetSchema(r)
  <2>1. NoBuiltInUsed' /\ DOMAIN used' = Requesters
    BY <1>12, OrderFacts, InvUse DEF SetSchema, loadVars
  <2> QED
    BY <1>2, <1>12, <2>1, InvMove DEF SetSchema, Goto, loadVars
<1>13. CASE Query(r)
  BY <1>13, InvMove, InvFinish DEF Query, loadVars
<1>14. CASE DatabaseFails(r)
  BY <1>14, InvMove, InvFinish DEF DatabaseFails, loadVars
<1> QED
  BY <1>3, <1>4, <1>5, <1>6, <1>7, <1>8, <1>9, <1>10, <1>11, <1>12, <1>13,
     <1>14 DEF Serve, Loading

LEMMA InvStep == Inv /\ [Next]_vars => Inv'
<1> SUFFICES ASSUME Inv, [Next]_vars PROVE Inv'
  OBVIOUS
<1>1. CASE UNCHANGED vars
  BY <1>1
  DEF vars, loadVars, Inv, Shapes, MainFills, Filled, RequestsComeLater,
      NoBuiltInUsed
<1>2. CASE Next
  BY <1>1, <1>2, InvMain, InvRequester DEF Next, Over
<1> QED
  BY <1>1, <1>2

LEMMA InvAlways == Safety => []Inv
BY InvInit, InvStep, PTL DEF Safety

(***************************************************************************)
(* Every setting that is passed to the database driver was loaded from a   *)
(* file, whichever loads failed before and however far they got.           *)
(***************************************************************************)
THEOREM OnlyLoadedSettingsUsed == Safety => []NoBuiltInUsed
<1>1. Inv => NoBuiltInUsed
  BY DEF Inv
<1> QED
  BY <1>1, InvAlways, PTL
-----------------------------------------------------------------------------
Values == Files \cup {BuiltIn}

UsedOK ==
  \A r \in Requesters : \E S \in SUBSET Settings : used[r] \in [S -> Values]

LEMMA UseTypes ==
  ASSUME TypeOK, Inv, NEW r \in Requesters, NEW s \in Settings, Use(r, s)
  PROVE  UsedOK' /\ disturbed' \subseteq Requesters
<1>1. /\ DOMAIN used = Requesters
      /\ settings[s] \in Values
  BY DEF Inv, Shapes, TypeOK, Values
<1>2. PICK S \in SUBSET Settings : used[r] \in [S -> Values]
  BY DEF TypeOK, Values
<1>3. used'[r] = [x \in S \cup {s} |->
                    IF x = s THEN settings[s] ELSE used[r][x]]
  BY <1>1, <1>2 DEF Use
<1>4. S \cup {s} \in SUBSET Settings /\ used'[r] \in [S \cup {s} -> Values]
  BY <1>1, <1>2, <1>3
<1>5. \A q \in Requesters \ {r} : used'[q] = used[q]
  BY <1>1 DEF Use
<1>6. UsedOK'
  BY <1>4, <1>5 DEF UsedOK, TypeOK, Values
<1> QED
  BY <1>6 DEF Use, TypeOK

LEMMA FinishTypes ==
  ASSUME TypeOK, Inv, NEW r \in Requesters, Finish(r)
  PROVE  UsedOK' /\ disturbed' \subseteq Requesters
<1>1. /\ DOMAIN used = Requesters
      /\ used' = [used EXCEPT ![r] = Nothing]
      /\ disturbed' \subseteq Requesters
  BY DEF Inv, Shapes, TypeOK, Finish
<1>2. {} \in SUBSET Settings /\ Nothing \in [{} -> Values]
  BY DEF Nothing
<1> QED
  BY <1>1, <1>2 DEF UsedOK, TypeOK, Values

LEMMA LeaveTypes ==
  ASSUME TypeOK, NEW l \in Loaders, Leave(l)
  PROVE  /\ settings' \in [Settings -> Values]
         /\ parsed' \in [Loaders -> Values]
         /\ count' \in [Loaders -> 0 .. Len(Order)]
BY OrderFacts DEF TypeOK, Leave, Values

LEMMA LoadingTypes ==
  ASSUME TypeOK, Inv, NEW l \in Loaders, ReadFile(l) \/ Assign(l)
  PROVE  /\ settings' \in [Settings -> Values]
         /\ parsed' \in [Loaders -> Values]
         /\ count' \in [Loaders -> 0 .. Len(Order)]
         /\ mishap' \in BOOLEAN
         /\ disturbed' \subseteq Requesters
<1>1. CASE ReadFile(l)
  BY <1>1, OrderFacts DEF ReadFile, TypeOK, Values, ghosts
<1>2. CASE Assign(l)
  <2>1. /\ count[l] < Assigned[parsed[l]] /\ parsed[l] \in Files
        /\ Assigned[parsed[l]] \in 0 .. 5 /\ count[l] \in 0 .. 5
    BY <1>2, OrderFacts, QueriesAssumption
    DEF Assign, Inv, Shapes, QueriesAssumption
  <2>2. count' \in [Loaders -> 0 .. Len(Order)]
    BY <1>2, <2>1, OrderFacts DEF Assign, TypeOK
  <2>3. settings' \in [Settings -> Values]
    BY <1>2, <2>1 DEF Assign, TypeOK, Values
  <2> QED
    BY <1>2, <2>2, <2>3 DEF Assign, TypeOK, Values, UsersNow
<1> QED
  BY <1>1, <1>2

LEMMA TypeInit == Init => TypeOK
<1> SUFFICES ASSUME Init PROVE TypeOK
  OBVIOUS
<1>1. Inv
  BY InvInit
<1>2. {} \in SUBSET Settings /\ Nothing \in [{} -> Values]
  BY DEF Nothing
<1>3. UsedOK
  BY <1>2 DEF Init, UsedOK
<1> QED
  BY <1>1, <1>3, OrderFacts
  DEF Init, Inv, Shapes, MainFills, RequestsComeLater, TypeOK, UsedOK, Values

(* What TypeOK says beside the places of the threads, which Inv knows.     *)
DataOK ==
  /\ settings \in [Settings -> Values]
  /\ built \in BOOLEAN /\ loaded \in BOOLEAN /\ mishap \in BOOLEAN
  /\ parsed \in [Loaders -> Values]
  /\ count \in [Loaders -> 0 .. Len(Order)]
  /\ UsedOK
  /\ disturbed \subseteq Requesters

LEMMA TypeSplit == Inv => (TypeOK <=> DataOK)
BY DEF Inv, Shapes, MainFills, RequestsComeLater, TypeOK, DataOK, UsedOK,
       Values

LEMMA DataMain ==
  ASSUME TypeOK, Inv, MainStep
  PROVE  DataOK'
<1> USE DEF DataOK
<1>1. DataOK /\ Main \in Loaders
  BY TypeSplit DEF Loaders
<1>2. UNCHANGED used => UsedOK'
  BY <1>1 DEF UsedOK
<1>3. CASE Loading(Main)
  BY <1>1, <1>2, <1>3, LoadingTypes DEF Loading, ReadFile, Assign
<1>4. CASE MainLoadDone
  BY <1>1, <1>2, <1>4, LeaveTypes DEF MainLoadDone, LoadDone, ghosts
<1>5. CASE MainLoadThrows
  BY <1>1, <1>2, <1>5, LeaveTypes DEF MainLoadThrows, LoadThrows
<1>6. CASE Construct
  BY <1>1, <1>2, <1>6 DEF Construct, loadVars, ghosts
<1> QED
  BY <1>3, <1>4, <1>5, <1>6 DEF MainStep

LEMMA DataRequester ==
  ASSUME TypeOK, Inv, NEW r \in Requesters, Request(r) \/ Serve(r)
  PROVE  DataOK'
<1> USE DEF DataOK
<1>1. DataOK /\ r \in Loaders
  BY TypeSplit DEF Loaders
<1>2. UNCHANGED used => UsedOK'
  BY <1>1 DEF UsedOK
<1>3. CASE Request(r) \/ CheckLoaded(r) \/ MarkLoaded(r) \/ Connect(r)
  BY <1>1, <1>2, <1>3
  DEF Request, CheckLoaded, MarkLoaded, Connect, loadVars, ghosts
<1>4. CASE Loading(r)
  BY <1>1, <1>2, <1>4, LoadingTypes DEF Loading, ReadFile, Assign
<1>5. CASE RequesterLoadDone(r)
  BY <1>1, <1>2, <1>5, LeaveTypes DEF RequesterLoadDone, LoadDone, ghosts
<1>6. CASE RequesterLoadThrows(r)
  BY <1>1, <1>6, LeaveTypes, FinishTypes DEF RequesterLoadThrows, LoadThrows
<1>7. CASE ReadCredential(r)
  BY <1>1, <1>7, UseTypes, OrderFacts DEF ReadCredential, loadVars
<1>8. CASE SetSchema(r)
  BY <1>1, <1>8, UseTypes, OrderFacts DEF SetSchema, loadVars
<1>9. CASE Query(r) \/ DatabaseFails(r)
  BY <1>1, <1>9, FinishTypes DEF Query, DatabaseFails, loadVars
<1> QED
  BY <1>3, <1>4, <1>5, <1>6, <1>7, <1>8, <1>9 DEF Serve

LEMMA TypeStep == TypeOK /\ Inv /\ [Next]_vars => TypeOK'
<1> SUFFICES ASSUME TypeOK, Inv, [Next]_vars PROVE TypeOK'
  OBVIOUS
<1>1. CASE UNCHANGED vars
  BY <1>1 DEF vars, loadVars, ghosts, TypeOK
<1>2. CASE MainStep \/ \E r \in Requesters : Request(r) \/ Serve(r)
  <2>1. Inv' /\ DataOK'
    BY <1>2, InvStep, DataMain, DataRequester DEF Next
  <2> QED
    BY <2>1 DEF Inv, Shapes, MainFills, RequestsComeLater, TypeOK, DataOK,
                UsedOK, Values
<1> QED
  BY <1>1, <1>2 DEF Next, Over

(***************************************************************************)
(* The type invariant: a load never gets beyond the five settings, and     *)
(* only requesters are disturbed.                                          *)
(***************************************************************************)
THEOREM QueriesTypeCorrect == Safety => []TypeOK
BY TypeInit, TypeStep, InvAlways, PTL DEF Safety
-----------------------------------------------------------------------------
(* Only a request that reached the driver's side of the handler has marked
   the settings, and main does not load any more by then.                  *)
MarkedLater == loaded => pc[Main] = "serving"

(* main has returned from its loads for good.                              *)
LEMMA ServingStays ==
  ASSUME Inv, pc[Main] = "serving", Next
  PROVE  /\ \/ \E r \in Requesters : Request(r) \/ Serve(r)
            \/ UNCHANGED vars
         /\ pc'[Main] = "serving"
<1>1. ~ MainStep
  BY DEF MainStep, Loading, ReadFile, Assign, MainLoadDone, LoadDone,
         MainLoadThrows, LoadThrows, Construct
<1>2. \A r \in Requesters : r # Main
  BY QueriesAssumption DEF QueriesAssumption
<1>3. ASSUME NEW r \in Requesters, Request(r) \/ Serve(r)
      PROVE  pc'[Main] = pc[Main]
  <2>1. DOMAIN pc = Loaders /\ Main \in Loaders /\ r # Main
    BY <1>2 DEF Inv, Shapes, Loaders
  <2>2. CASE Request(r) \/ CheckLoaded(r) \/ ReadFile(r) \/ Assign(r)
             \/ RequesterLoadDone(r) \/ MarkLoaded(r)
    BY <2>1, <2>2
    DEF Request, CheckLoaded, ReadFile, Assign, RequesterLoadDone,
        MarkLoaded, Goto
  <2>3. CASE ReadCredential(r) \/ Connect(r) \/ SetSchema(r)
    BY <2>1, <2>3 DEF ReadCredential, Connect, SetSchema, Goto
  <2>4. CASE RequesterLoadThrows(r) \/ Query(r) \/ DatabaseFails(r)
    BY <2>1, <2>4 DEF RequesterLoadThrows, Query, DatabaseFails, Finish, Goto
  <2> QED
    BY <1>3, <2>2, <2>3, <2>4 DEF Serve, Loading
<1> QED
  BY <1>1, <1>3 DEF Next, Over, vars

LEMMA MarkedStep == Inv /\ MarkedLater /\ [Next]_vars => MarkedLater'
<1> SUFFICES ASSUME Inv, MarkedLater, [Next]_vars, loaded'
             PROVE  pc'[Main] = "serving"
  BY DEF MarkedLater
<1>1. CASE UNCHANGED vars
  BY <1>1 DEF vars, MarkedLater
<1>2. CASE loaded /\ Next
  BY <1>2, ServingStays DEF MarkedLater
<1>3. CASE ~loaded /\ Next
  <2>1. PICK r \in Requesters : MarkLoaded(r)
    BY <1>3
    DEF Next, Over, vars, MainStep, Serve, Loading, Request, CheckLoaded,
        ReadFile, Assign, RequesterLoadDone, RequesterLoadThrows,
        ReadCredential, Connect, SetSchema, Query, DatabaseFails,
        MainLoadDone, MainLoadThrows, Construct
  <2>2. pc[Main] = "serving"
    BY <2>1 DEF MarkLoaded, Inv, RequestsComeLater
  <2> QED
    BY <1>3, <2>2, ServingStays
<1> QED
  BY <1>1, <1>2, <1>3

(* A load that l begins is one that main begins, or one that a request
   begins while the settings are not marked; every other step of a thread
   leaves it less to assign, or as much.                                   *)
LEMMA RunsOut ==
  ASSUME Inv, loaded, NEW r \in Requesters, Request(r) \/ Serve(r)
  PROVE  /\ \A l \in Loaders \ {r} : ToAssign(l)' = ToAssign(l)
         /\ ToAssign(r)' <= ToAssign(r)
         /\ settings' # settings => ToAssign(r)' < ToAssign(r)
<1>1. /\ DOMAIN pc = Loaders /\ DOMAIN count = Loaders
      /\ r \in Loaders
      /\ count[r] \in 0 .. 5
  BY OrderFacts DEF Inv, Shapes, Loaders
<1>2. CASE /\ pc[r] \notin {"read", "assign"}
           /\ pc' = [pc EXCEPT ![r] = pc'[r]]
           /\ pc'[r] \notin {"read", "assign"}
           /\ UNCHANGED <<settings, count>>
  BY <1>1, <1>2 DEF ToAssign
<1>3. CASE Request(r) \/ CheckLoaded(r) \/ MarkLoaded(r) \/ Connect(r)
           \/ SetSchema(r)
  BY <1>1, <1>2, <1>3
  DEF Request, CheckLoaded, MarkLoaded, Connect, SetSchema, Goto, loadVars
<1>4. CASE Query(r) \/ DatabaseFails(r)
  BY <1>1, <1>2, <1>4 DEF Query, DatabaseFails, Finish, Goto, loadVars
<1>5. CASE ReadCredential(r)
  BY <1>5 DEF ReadCredential, loadVars, ToAssign
<1>6. CASE ReadFile(r)
  BY <1>1, <1>6, OrderFacts DEF ReadFile, Goto, ToAssign
<1>7. CASE Assign(r)
  BY <1>1, <1>7, OrderFacts DEF Assign, ToAssign
<1>8. CASE RequesterLoadDone(r)
  BY <1>1, <1>8, OrderFacts
  DEF RequesterLoadDone, LoadDone, Leave, Goto, ToAssign
<1>9. CASE RequesterLoadThrows(r)
  BY <1>1, <1>9, OrderFacts
  DEF RequesterLoadThrows, LoadThrows, Leave, Finish, Goto, ToAssign
<1> QED
  BY <1>3, <1>4, <1>5, <1>6, <1>7, <1>8, <1>9 DEF Serve, Loading

(***************************************************************************)
(* Once a request has marked the settings as loaded, what is left to       *)
(* assign never grows, and each further assignment uses some of it up: at  *)
(* most five for every load that was under way.                            *)
(***************************************************************************)
THEOREM LoadsDoRunOut == Safety => LoadsRunOut
<1>1. Init => MarkedLater
  BY DEF Init, MarkedLater
<1> DEFINE Less == loaded =>
             /\ \A l \in Loaders : ToAssign(l)' <= ToAssign(l)
             /\ settings' # settings =>
                  \E l \in Loaders : ToAssign(l)' < ToAssign(l)
<1>2. ASSUME Inv, MarkedLater, [Next]_vars PROVE [Less]_vars
  <2> SUFFICES ASSUME loaded, Next
               PROVE  Less
    BY <1>2
  <2>1. \A l \in Loaders : ToAssign(l) \in Nat
    BY <1>2, OrderFacts DEF Inv, Shapes, ToAssign
  <2>2. CASE UNCHANGED vars
    BY <2>1, <2>2 DEF vars, loadVars, ToAssign
  <2>3. CASE \E r \in Requesters : Request(r) \/ Serve(r)
    <3>1. PICK r \in Requesters : Request(r) \/ Serve(r)
      BY <2>3
    <3> QED
      BY <1>2, <2>1, <3>1, RunsOut DEF Loaders
  <2> QED
    BY <1>2, <2>2, <2>3, ServingStays DEF MarkedLater
<1>3. Safety => []MarkedLater
  BY <1>1, MarkedStep, InvAlways, PTL DEF Safety
<1> QED
  BY <1>2, <1>3, InvAlways, PTL DEF Safety, LoadsRunOut
-----------------------------------------------------------------------------
(* As long as no load threw half way or met a load of another file: the
   loads that have assigned something read the same file and their settings
   stand, and between loads all settings are of one file.                  *)
OneFile ==
  ~mishap =>
    /\ \A k, l \in Loaders : Midway(k) /\ Midway(l) => parsed[k] = parsed[l]
    /\ \A l \in Loaders : Midway(l) =>
         \A i \in 1 .. count[l] : settings[Order[i]] = parsed[l]
    /\ (\A l \in Loaders : ~Midway(l)) =>
         \A s, t \in Settings : settings[s] = settings[t]

UsesNothingYet ==
  \A r \in Requesters :
    pc[r] \notin {"connect", "schema", "query"} => DOMAIN used[r] = {}

(* Until somebody assigns, what was passed to the driver is what is set.   *)
UsesCurrent ==
  \A r \in Requesters \ disturbed : pc[r] \in {"connect", "schema"} =>
    \A s \in DOMAIN used[r] : used[r][s] = settings[s]

UseInv == UsesNothingYet /\ UsesCurrent /\ MixingNeedsMishap

(* A step that assigns nothing and takes nobody into or out of the middle
   of a load.                                                              *)
LEMMA OneFileKept ==
  ASSUME OneFile, UNCHANGED settings, mishap => mishap',
         \A k \in Loaders :
           /\ (pc'[k] = "assign" /\ count'[k] > 0) <=> Midway(k)
           /\ Midway(k) => parsed'[k] = parsed[k] /\ count'[k] = count[k]
  PROVE  OneFile'
BY DEF OneFile, Midway

LEMMA OneFileOutside ==
  ASSUME Inv, OneFile, NEW l \in Loaders, NEW place,
         pc' = [pc EXCEPT ![l] = place],
         ~Midway(l), place = "assign" => count'[l] = 0,
         UNCHANGED settings, mishap => mishap',
         \A k \in Loaders \ {l} :
           parsed'[k] = parsed[k] /\ count'[k] = count[k]
  PROVE  OneFile'
<1>1. DOMAIN pc = Loaders
  BY DEF Inv, Shapes
<1>2. ASSUME NEW k \in Loaders
      PROVE  /\ (pc'[k] = "assign" /\ count'[k] > 0) <=> Midway(k)
             /\ Midway(k) => parsed'[k] = parsed[k] /\ count'[k] = count[k]
  BY <1>1 DEF Midway
<1> QED
  BY <1>2, OneFileKept

(* All loads in progress are of one file, and this one assigns more of it. *)
LEMMA OneFileAssign ==
  ASSUME Inv, OneFile, NEW l \in Loaders, Assign(l)
  PROVE  OneFile'
<1> SUFFICES ASSUME ~mishap' PROVE OneFile'
  BY DEF OneFile
<1>1. /\ ~mishap
      /\ \A k \in Loaders \ {l} : Midway(k) => parsed[k] = parsed[l]
      /\ UNCHANGED <<pc, parsed>>
  BY DEF Assign, Overlaps
<1>2. /\ DOMAIN settings = Settings /\ DOMAIN count = Loaders
      /\ \A k \in Loaders : count[k] \in 0 .. 5
      /\ pc[l] = "assign"
  BY OrderFacts DEF Inv, Shapes, Assign
<1>3. /\ count'[l] = count[l] + 1
      /\ \A k \in Loaders \ {l} : count'[k] = count[k]
  BY <1>2 DEF Assign
<1>4. count[l] + 1 \in 1 .. 5
  BY <1>2, OrderFacts, QueriesAssumption
  DEF Assign, Inv, Shapes, QueriesAssumption
<1>5. \A s \in Settings : settings'[s] = settings[s] \/ settings'[s] = parsed[l]
  BY <1>2 DEF Assign
<1>6. settings'[Order[count[l] + 1]] = parsed[l]
  BY <1>2, <1>4, OrderFacts DEF Assign
<1>7. \A k \in Loaders : Midway(k)' => parsed[k] = parsed[l]
  BY <1>1, <1>3 DEF Midway
<1>8. ASSUME NEW k \in Loaders, Midway(k)', NEW i \in 1 .. count'[k]
      PROVE  settings'[Order[i]] = parsed'[k]
  <2>1. i \in 1 .. 5 /\ Order[i] \in Settings
    BY <1>2, <1>3, <1>4, OrderFacts
  <2>2. CASE k = l /\ i = count[l] + 1
    BY <1>1, <1>6, <2>2
  <2>3. CASE k # l \/ i # count[l] + 1
    <3>1. i \in 1 .. count[k] /\ Midway(k)
      BY <1>1, <1>2, <1>3, <1>8, <2>3 DEF Midway
    <3>2. settings[Order[i]] = parsed[k]
      BY <1>1, <3>1 DEF OneFile
    <3> QED
      BY <1>1, <1>5, <1>7, <1>8, <2>1, <3>2
  <2> QED
    BY <2>2, <2>3
<1>9. Midway(l)'
  BY <1>1, <1>2, <1>3 DEF Midway
<1> QED
  BY <1>1, <1>7, <1>8, <1>9 DEF OneFile

(* A load that finishes has assigned all settings.                         *)
LEMMA OneFileDone ==
  ASSUME Inv, OneFile, NEW l \in Loaders, LoadDone(l),
         NEW place, place # "assign", pc' = [pc EXCEPT ![l] = place],
         UNCHANGED mishap
  PROVE  OneFile'
<1> SUFFICES ASSUME ~mishap PROVE OneFile'
  BY DEF OneFile
<1>1. /\ DOMAIN pc = Loaders /\ DOMAIN parsed = Loaders
      /\ DOMAIN count = Loaders /\ count[l] = 5 /\ pc[l] = "assign"
  BY OrderFacts DEF Inv, Shapes, LoadDone
<1>2. UNCHANGED settings
  BY DEF LoadDone, Leave
<1>3. \A k \in Loaders : Midway(k)' =>
        /\ k # l /\ Midway(k)
        /\ parsed'[k] = parsed[k] /\ count'[k] = count[k]
  BY <1>1 DEF Midway, LoadDone, Leave
<1>4. \A i \in 1 .. 5 : settings[Order[i]] = parsed[l]
  BY <1>1 DEF OneFile, Midway
<1>5. \A s, t \in Settings : settings'[s] = settings'[t]
  BY <1>2, <1>4, OrderFacts
<1> QED
  BY <1>2, <1>3, <1>5 DEF OneFile

(* A load that throws before it assigned anything leaves no trace, any
   other is a mishap.                                                      *)
LEMMA OneFileThrows ==
  ASSUME Inv, OneFile, NEW l \in Loaders, LoadThrows(l),
         NEW place, place # "assign", pc' = [pc EXCEPT ![l] = place]
  PROVE  OneFile'
<1> SUFFICES ASSUME ~mishap' PROVE OneFile'
  BY DEF OneFile
<1>1. ~(count[l] > 0) /\ ~mishap
  BY DEF LoadThrows
<1>2. ~Midway(l) /\ UNCHANGED settings
  BY <1>1 DEF Midway, LoadThrows, Leave
<1>3. \A k \in Loaders \ {l} :
        parsed'[k] = parsed[k] /\ count'[k] = count[k]
  BY DEF LoadThrows, Leave, Inv, Shapes
<1> QED
  BY <1>1, <1>2, <1>3, OneFileOutside

LEMMA OneFileRead ==
  ASSUME Inv, OneFile, NEW l \in Loaders, ReadFile(l)
  PROVE  OneFile'
<1>1. /\ DOMAIN parsed = Loaders /\ DOMAIN count = Loaders
      /\ ~Midway(l) /\ count'[l] = 0
      /\ pc' = [pc EXCEPT ![l] = "assign"]
      /\ UNCHANGED <<settings, mishap>>
  BY DEF ReadFile, Goto, ghosts, Inv, Shapes, Midway
<1>2. \A k \in Loaders \ {l} :
        parsed'[k] = parsed[k] /\ count'[k] = count[k]
  BY <1>1 DEF ReadFile
<1> QED
  BY <1>1, <1>2, OneFileOutside

LEMMA OneFileMain ==
  ASSUME Inv, OneFile, MainStep
  PROVE  OneFile'
<1>1. Main \in Loaders
  BY DEF Loaders
<1>2. CASE Loading(Main)
  BY <1>1, <1>2, OneFileRead, OneFileAssign DEF Loading
<1>3. CASE MainLoadDone
  <2>1. PICK place \in {"serving", "construct"} :
          pc' = [pc EXCEPT ![Main] = place]
    BY <1>3 DEF MainLoadDone, Goto
  <2>2. LoadDone(Main) /\ UNCHANGED mishap
    BY <1>3 DEF MainLoadDone, ghosts
  <2> QED
    BY <1>1, <2>1, <2>2, OneFileDone
<1>4. CASE MainLoadThrows
  BY <1>1, <1>4, OneFileThrows DEF MainLoadThrows, Goto
<1>5. CASE Construct
  BY <1>1, <1>5, OneFileOutside DEF Construct, Goto, loadVars, ghosts, Midway
<1> QED
  BY <1>2, <1>3, <1>4, <1>5 DEF MainStep

LEMMA OneFileRequester ==
  ASSUME Inv, OneFile, NEW r \in Requesters, Request(r) \/ Serve(r)
  PROVE  OneFile'
<1>1. r \in Loaders
  BY DEF Loaders
<1>2. CASE Request(r) \/ CheckLoaded(r) \/ MarkLoaded(r) \/ Connect(r)
           \/ SetSchema(r)
  <2>1. PICK place \in RequesterStates \ {"assign"} :
          pc' = [pc EXCEPT ![r] = place]
    BY <1>2
    DEF Request, CheckLoaded, MarkLoaded, Connect, SetSchema, Goto,
        RequesterStates
  <2>2. ~Midway(r) /\ UNCHANGED <<loadVars, mishap>>
    BY <1>2
    DEF Request, CheckLoaded, MarkLoaded, Connect, SetSchema, ghosts, Midway
  <2> QED
    BY <1>1, <2>1, <2>2, OneFileOutside DEF loadVars
<1>3. CASE Loading(r)
  BY <1>1, <1>3, OneFileRead, OneFileAssign DEF Loading
<1>4. CASE RequesterLoadDone(r)
  BY <1>1, <1>4, OneFileDone DEF RequesterLoadDone, Goto, ghosts
<1>5. CASE RequesterLoadThrows(r)
  BY <1>1, <1>5, OneFileThrows DEF RequesterLoadThrows, Finish, Goto
<1>6. CASE ReadCredential(r)
  BY <1>6, OneFileKept DEF ReadCredential, loadVars, Midway
<1>7. CASE Query(r) \/ DatabaseFails(r)
  BY <1>1, <1>7, OneFileOutside
  DEF Query, DatabaseFails, Finish, Goto, loadVars, Midway
<1> QED
  BY <1>2, <1>3, <1>4, <1>5, <1>6, <1>7 DEF Serve
-----------------------------------------------------------------------------
(* A step that passes nothing to the driver.                               *)
LEMMA UseKept ==
  ASSUME UseInv, UNCHANGED <<used, settings, disturbed>>, mishap => mishap',
         \A r \in Requesters :
           \/ pc'[r] = pc[r]
           \/ pc'[r] \notin {"connect", "schema", "query"} /\ DOMAIN used[r] = {}
           \/ pc'[r] = "connect" /\ DOMAIN used[r] = {}
           \/ pc[r] = "connect" /\ pc'[r] = "schema"
  PROVE  UseInv'
<1>1. UsesNothingYet'
  BY DEF UseInv, UsesNothingYet
<1>2. UsesCurrent'
  BY DEF UseInv, UsesCurrent
<1>3. MixingNeedsMishap'
  BY DEF UseInv, MixingNeedsMishap
<1> QED
  BY <1>1, <1>2, <1>3 DEF UseInv

LEMMA UseAssign ==
  ASSUME UseInv, NEW l \in Loaders, Assign(l)
  PROVE  UseInv'
<1>1. /\ UNCHANGED <<pc, used>>
      /\ mishap => mishap'
      /\ disturbed' = disturbed \cup UsersNow
  BY DEF Assign
<1>2. UsesNothingYet'
  BY <1>1 DEF UseInv, UsesNothingYet
<1>3. UsesCurrent'
  BY <1>1 DEF UseInv, UsesCurrent, UsersNow
<1>4. MixingNeedsMishap'
  BY <1>1 DEF UseInv, MixingNeedsMishap
<1> QED
  BY <1>2, <1>3, <1>4 DEF UseInv

(* What is read while nobody loads is of the one file that all settings
   are of, like everything this connection read before.                    *)
LEMMA UseRead ==
  ASSUME Inv, TypeOK, OneFile, UseInv,
         NEW r \in Requesters, NEW s \in Settings,
         pc[r] \in {"connect", "schema"}, Use(r, s),
         UNCHANGED <<settings, mishap>>,
         \/ UNCHANGED pc
         \/ pc' = [pc EXCEPT ![r] = "query"]
  PROVE  UseInv'
<1>1. DOMAIN used = Requesters /\ DOMAIN pc = Loaders /\ r \in Loaders
  BY DEF Inv, Shapes, Loaders
<1>2. /\ used'[r] = [x \in DOMAIN used[r] \cup {s} |->
                       IF x = s THEN settings[s] ELSE used[r][x]]
      /\ \A q \in Requesters \ {r} : used'[q] = used[q] /\ pc'[q] = pc[q]
  BY <1>1 DEF Use, Loaders
<1>3. /\ \A q \in Requesters : q \in disturbed => q \in disturbed'
      /\ r \notin disturbed' => \A l \in Loaders : ~Midway(l)
  BY DEF Use
<1>4. pc'[r] \in {"connect", "schema", "query"}
  BY <1>1
<1>5. UsesNothingYet'
  BY <1>2, <1>4 DEF UseInv, UsesNothingYet
<1>6. ASSUME r \notin disturbed', NEW x \in DOMAIN used'[r]
      PROVE  used'[r][x] = settings[x]
  BY <1>2, <1>3, <1>6 DEF UseInv, UsesCurrent
<1>7. UsesCurrent'
  BY <1>2, <1>3, <1>6 DEF UseInv, UsesCurrent
<1>8. ASSUME r \notin disturbed', ~mishap
      PROVE  \A x, y \in DOMAIN used'[r] : used'[r][x] = used'[r][y]
  <2>1. \A x, y \in Settings : settings[x] = settings[y]
    BY <1>3, <1>8 DEF OneFile
  <2>2. DOMAIN used'[r] \subseteq Settings
    BY <1>2 DEF TypeOK
  <2> QED
    BY <1>6, <1>8, <2>1, <2>2
<1>9. MixingNeedsMishap'
  BY <1>2, <1>3, <1>8 DEF UseInv, MixingNeedsMishap
<1> QED
  BY <1>5, <1>7, <1>9 DEF UseInv

(* The handler has answered, and starts afresh with the next request.      *)
LEMMA UseFinish ==
  ASSUME Inv, UseInv, NEW r \in Requesters, Finish(r),
         UNCHANGED settings, mishap => mishap'
  PROVE  UseInv'
<1>1. DOMAIN used = Requesters /\ DOMAIN pc = Loaders /\ r \in Loaders
  BY DEF Inv, Shapes, Loaders
<1>2. /\ DOMAIN used'[r] = {} /\ pc'[r] = "idle"
      /\ \A q \in Requesters \ {r} :
           /\ used'[q] = used[q] /\ pc'[q] = pc[q]
           /\ q \in disturbed' <=> q \in disturbed
  BY <1>1 DEF Finish, Goto, Nothing, Loaders
<1>3. UsesNothingYet'
  BY <1>2 DEF UseInv, UsesNothingYet
<1>4. UsesCurrent'
  BY <1>2 DEF UseInv, UsesCurrent
<1>5. MixingNeedsMishap'
  BY <1>2 DEF UseInv, MixingNeedsMishap
<1> QED
  BY <1>3, <1>4, <1>5 DEF UseInv

LEMMA UseMain ==
  ASSUME Inv, UseInv, MainStep
  PROVE  UseInv'
<1>1. Main \in Loaders /\ \A r \in Requesters : r # Main /\ r \in Loaders
  BY QueriesAssumption DEF QueriesAssumption, Loaders
<1>2. DOMAIN pc = Loaders
  BY DEF Inv, Shapes
<1>3. CASE Assign(Main)
  BY <1>1, <1>3, UseAssign
<1>4. CASE ReadFile(Main)
  <2>1. \A r \in Requesters : pc'[r] = pc[r]
    BY <1>1, <1>2, <1>4 DEF ReadFile, Goto
  <2> QED
    BY <1>4, <2>1, UseKept DEF ReadFile, ghosts
<1>5. CASE MainLoadDone
  <2>1. \A r \in Requesters : pc'[r] = pc[r]
    BY <1>1, <1>2, <1>5 DEF MainLoadDone, Goto
  <2> QED
    BY <1>5, <2>1, UseKept DEF MainLoadDone, LoadDone, Leave, ghosts
<1>6. CASE MainLoadThrows
  <2>1. \A r \in Requesters : pc'[r] = pc[r]
    BY <1>1, <1>2, <1>6 DEF MainLoadThrows, Goto
  <2> QED
    BY <1>6, <2>1, UseKept DEF MainLoadThrows, LoadThrows, Leave
<1>7. CASE Construct
  <2>1. \A r \in Requesters : pc'[r] = pc[r]
    BY <1>1, <1>2, <1>7 DEF Construct, Goto
  <2> QED
    BY <1>7, <2>1, UseKept DEF Construct, loadVars, ghosts
<1> QED
  BY <1>3, <1>4, <1>5, <1>6, <1>7 DEF MainStep, Loading

LEMMA UseRequester ==
  ASSUME Inv, TypeOK, OneFile, UseInv,
         NEW r \in Requesters, Request(r) \/ Serve(r)
  PROVE  UseInv'
<1>1. DOMAIN pc = Loaders /\ r \in Loaders
  BY DEF Inv, Shapes, Loaders
<1>2. pc[r] \notin {"connect", "schema", "query"} => DOMAIN used[r] = {}
  BY DEF UseInv, UsesNothingYet
<1>3. ASSUME NEW place, pc' = [pc EXCEPT ![r] = place],
             UNCHANGED <<used, settings, disturbed>>, mishap => mishap',
             \/ /\ pc[r] \notin {"connect", "schema", "query"}
                /\ place \notin {"schema", "query"}
             \/ pc[r] = "connect" /\ place = "schema"
      PROVE  UseInv'
  <2>1. \A q \in Requesters \ {r} : pc'[q] = pc[q]
    BY <1>1, <1>3 DEF Loaders
  <2>2. pc'[r] = place
    BY <1>1, <1>3
  <2> QED
    BY <1>2, <1>3, <2>1, <2>2, UseKept
<1>4. CASE Request(r)
  BY <1>3, <1>4 DEF Request, Goto, loadVars, ghosts
<1>5. CASE CheckLoaded(r)
  BY <1>3, <1>5 DEF CheckLoaded, Goto, loadVars, ghosts
<1>6. CASE ReadFile(r)
  BY <1>3, <1>6 DEF ReadFile, Goto, ghosts
<1>7. CASE Assign(r)
  BY <1>1, <1>7, UseAssign
<1>8. CASE RequesterLoadDone(r)
  BY <1>3, <1>8 DEF RequesterLoadDone, LoadDone, Leave, Goto, ghosts
<1>9. CASE MarkLoaded(r)
  BY <1>3, <1>9 DEF MarkLoaded, Goto, loadVars, ghosts
<1>10. CASE RequesterLoadThrows(r)
  BY <1>10, UseFinish DEF RequesterLoadThrows, LoadThrows, Leave
<1>11. CASE ReadCredential(r)
  BY <1>11, UseRead, OrderFacts DEF ReadCredential, loadVars
<1>12. CASE Connect(r)
  BY <1>3, <1>12 DEF Connect, Goto, loadVars, ghosts
<1>13. CASE SetSchema(r)
  BY <1>13, UseRead, OrderFacts DEF SetSchema, Goto, loadVars
<1>14. CASE Query(r) \/ DatabaseFails(r)
  BY <1>14, UseFinish DEF Query, DatabaseFails, loadVars
<1> QED
  BY <1>4, <1>5, <1>6, <1>7, <1>8, <1>9, <1>10, <1>11, <1>12, <1>13, <1>14
  DEF Serve, Loading

LEMMA MixingInit == Init => OneFile /\ UseInv
<1> SUFFICES ASSUME Init PROVE OneFile /\ UseInv
  OBVIOUS
<1>1. \A l \in Loaders : ~Midway(l)
  BY DEF Init, Midway
<1>2. OneFile
  BY <1>1 DEF Init, OneFile
<1>3. \A r \in Requesters : DOMAIN used[r] = {}
  BY DEF Init, Nothing
<1> QED
  BY <1>2, <1>3
  DEF UseInv, UsesNothingYet, UsesCurrent, MixingNeedsMishap

LEMMA MixingStep ==
  Inv /\ TypeOK /\ OneFile /\ UseInv /\ [Next]_vars => OneFile' /\ UseInv'
<1> SUFFICES ASSUME Inv, TypeOK, OneFile, UseInv, [Next]_vars
             PROVE  OneFile' /\ UseInv'
  OBVIOUS
<1>1. CASE UNCHANGED vars
  BY <1>1, OneFileKept, UseKept DEF vars, loadVars, ghosts, Midway
<1>2. CASE MainStep
  BY <1>2, OneFileMain, UseMain
<1>3. CASE \E r \in Requesters : Request(r) \/ Serve(r)
  BY <1>3, OneFileRequester, UseRequester
<1> QED
  BY <1>1, <1>2, <1>3 DEF Next, Over

(***************************************************************************)
(* No connection mixes the settings of two files, however often the file   *)
(* is rewritten and whichever threads load at the same time, unless a load *)
(* threw half way, met the load of another file, or assigned settings      *)
(* while this connection was being made.                                   *)
(***************************************************************************)
THEOREM MixingTakesMishap == Safety => []MixingNeedsMishap
<1>1. OneFile /\ UseInv => MixingNeedsMishap
  BY DEF UseInv
<1>2. Safety => [](OneFile /\ UseInv)
  BY MixingInit, MixingStep, InvAlways, QueriesTypeCorrect, PTL DEF Safety
<1> QED
  BY <1>1, <1>2, PTL
=============================================================================
