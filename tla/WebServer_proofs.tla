-------------------------- MODULE WebServer_proofs --------------------------
(***************************************************************************)
(* Proofs about WebServer, for every set of handles and every number of    *)
(* waiting events.                                                         *)
(*                                                                         *)
(* LiveInv follows a handle from httpd_start to the variable server: at    *)
(* most one of the two tasks holds a handle it has yet to assign, and that *)
(* is the server that runs.  UpInv and DownInv relate the event handled    *)
(* last to the server.                                                     *)
(***************************************************************************)
EXTENDS WebServer, TLAPS

LiveInv ==
  /\ HandleIsLive
  /\ mRes # NULL => mpc = "assign" /\ running = mRes /\ (server = NULL \/ epc = "clear")
  /\ eRes # NULL => epc = "assign" /\ running = eRes /\ server = NULL
  /\ mRes = NULL \/ eRes = NULL

(* The last event says how the station is. *)
LinkInv == events # <<>> => events[Len(events)] = Event(connected)

UpInv == connected /\ events = <<>> => running # NULL \/ mpc = "start"

DownInv ==
  ~raced =>
    /\ mpc # "done" => /\ epc = "wait" /\ server = NULL /\ eRes = NULL
                       /\ events = <<>> => connected
                       /\ running = IF mpc = "assign" THEN mRes ELSE NULL
    /\ mpc = "done" => CASE epc = "wait" -> server = running
                         [] epc = "assign" -> eRes = running
                         [] epc = "clear" -> running = NULL
    /\ ~connected /\ events = <<>> => epc # "assign" /\ (epc = "wait" => running = NULL)

-----------------------------------------------------------------------------
(* Receiving the last event empties the queue; any other leaves the last. *)
LEMMA EventsLemma ==
  ASSUME events \in Seq(Events), events # <<>>
  PROVE  /\ Tail(events) \in Seq(Events) /\ Len(Tail(events)) <= Len(events)
         /\ Head(events) \in Events
         /\ Tail(events) = <<>> => Head(events) = events[Len(events)]
         /\ Tail(events) # <<>> => Tail(events)[Len(Tail(events))] = events[Len(events)]
<1>1. Len(events) \in Nat \ {0} /\ Tail(events) \in Seq(Events) /\ Head(events) = events[1]
      /\ Head(events) \in Events /\ Len(Tail(events)) = Len(events) - 1
      /\ \A i \in 1 .. Len(events) - 1 : Tail(events)[i] = events[i + 1]
  OBVIOUS
<1>2. ASSUME Tail(events) = <<>> PROVE Len(events) = 1
  <2>1. Len(<<>>) = 0
    OBVIOUS
  <2>2. Len(events) - 1 = 0
    BY <1>1, <1>2, <2>1, Zenon
  <2>3. Len(events) \in Nat
    BY <1>1
  <2> QED
    BY <2>2, <2>3
<1>3. ASSUME Tail(events) # <<>> PROVE Len(events) - 1 \in 1 .. Len(events) - 1
  <2>1. Len(Tail(events)) # 0
    BY <1>1, <1>3
  <2> QED
    BY <1>1, <2>1
<1> QED
  BY <1>1, <1>2, <1>3

(* A queue is not empty after an event was appended. *)
LEMMA AppendLemma ==
  ASSUME events \in Seq(Events), NEW e \in Events PROVE Append(events, e) # <<>>
<1>1. Len(Append(events, e)) # 0
  OBVIOUS
<1>2. Len(<<>>) = 0
  OBVIOUS
<1> QED
  BY <1>1, <1>2, Zenon

(* What starting the server does to it and to the caller's result. *)
LEMMA StartLemma ==
  ASSUME running \in Handles \cup {NULL}, NEW r,
         IF running = NULL THEN \E h \in Handles : running' = h /\ r = h
                           ELSE r = NULL /\ running' = running
  PROVE  /\ {r, running'} \subseteq Handles \cup {NULL} /\ running' # NULL
         /\ running = NULL => r = running'
         /\ running # NULL => r = NULL /\ running' = running
  BY HandlesAssumption

-----------------------------------------------------------------------------
(* Every step keeps the types. *)
LEMMA TypeStep == TypeOK /\ [Next]_vars => TypeOK'
<1> SUFFICES ASSUME TypeOK, [Next]_vars PROVE TypeOK'
  OBVIOUS
<1>1. /\ events \in Seq(Events) /\ Len(events) <= MaxEvents /\ MaxEvents \in Nat
      /\ running \in Handles \cup {NULL}
  BY MaxEventsAssumption DEF TypeOK
<1>2. CASE Link
  <2>1. Event(connected') \in Events
    BY DEF Event, Events
  <2>2. events' \in Seq(Events) /\ Len(events') <= MaxEvents
    BY <1>1, <1>2, <2>1 DEF Link
  <2> QED
    BY <1>2, <2>2 DEF Link, TypeOK, mainVars, eventVars
<1>3. CASE MainStart
  <2>1. {mRes', running'} \subseteq Handles \cup {NULL}
    BY <1>1, <1>3, StartLemma DEF MainStart, StartWebserver
  <2> QED
    BY <1>3, <2>1 DEF MainStart, TypeOK, eventVars
<1>4. CASE MainAssign
  BY <1>4 DEF MainAssign, TypeOK, eventVars
<1>5. CASE OnConnect
  <2>1. events' \in Seq(Events) /\ Len(events') <= MaxEvents
    BY <1>1, <1>5, EventsLemma DEF OnConnect
  <2>2. {eRes', running'} \subseteq Handles \cup {NULL} /\ epc' \in {"wait", "assign"}
    BY <1>1, <1>5, StartLemma DEF OnConnect, StartWebserver, TypeOK
  <2>3. raced' \in BOOLEAN
    BY <1>5, Zenon DEF OnConnect
  <2>4. UNCHANGED <<connected, server, mpc, mRes>>
    BY <1>5 DEF OnConnect, mainVars
  <2> QED
    BY <2>1, <2>2, <2>3, <2>4 DEF TypeOK
<1>6. CASE ConnectAssign
  BY <1>6 DEF ConnectAssign, TypeOK, mainVars
<1>7. CASE OnDisconnect
  <2>1. events' \in Seq(Events) /\ Len(events') <= MaxEvents
    BY <1>1, <1>7, EventsLemma DEF OnDisconnect
  <2>2. running' \in Handles \cup {NULL} /\ epc' \in {"wait", "clear"}
    BY <1>1, <1>7 DEF OnDisconnect
  <2>3. raced' \in BOOLEAN
    BY <1>7, Zenon DEF OnDisconnect
  <2>4. UNCHANGED <<connected, server, mpc, mRes, eRes>>
    BY <1>7 DEF OnDisconnect, mainVars
  <2> QED
    BY <2>1, <2>2, <2>3, <2>4 DEF TypeOK
<1>8. CASE DisconnectClear
  BY <1>8 DEF DisconnectClear, TypeOK, mainVars
<1>9. CASE UNCHANGED vars
  BY <1>9 DEF vars, mainVars, eventVars, TypeOK
<1> QED
  BY <1>2, <1>3, <1>4, <1>5, <1>6, <1>7, <1>8, <1>9 DEF Next, MainTask, EventTask

(* The queue of events stays within its bound, and every handle is one. *)
THEOREM TypeCorrect == Spec => []TypeOK
<1>1. Init => TypeOK
  <2> SUFFICES ASSUME Init PROVE TypeOK
    OBVIOUS
  <2>1. events \in Seq(Events) /\ Len(events) <= MaxEvents
    BY MaxEventsAssumption DEF Init
  <2> QED
    BY <2>1 DEF Init, TypeOK
<1> QED
  BY <1>1, TypeStep, PTL DEF Spec

-----------------------------------------------------------------------------
(* A handle on its way to server is that of the server that runs. *)
LEMMA LiveStep == TypeOK /\ LiveInv /\ [Next]_vars => LiveInv'
<1> SUFFICES ASSUME TypeOK, LiveInv, [Next]_vars PROVE LiveInv'
  OBVIOUS
<1> USE DEF LiveInv, HandleIsLive
<1>1. running \in Handles \cup {NULL}
  BY DEF TypeOK
<1>2. CASE MainStart
  <2>1. /\ running = NULL => mRes' = running'
        /\ running # NULL => mRes' = NULL /\ running' = running
    BY <1>1, <1>2, StartLemma DEF MainStart, StartWebserver
  <2> QED
    BY <1>2, <2>1 DEF MainStart, eventVars
<1>3. CASE MainAssign
  BY <1>3 DEF MainAssign, eventVars
<1>4. CASE OnConnect
  <2>1. CASE server = NULL
    <3>1. /\ running = NULL => eRes' = running'
          /\ running # NULL => eRes' = NULL /\ running' = running
      BY <1>1, <1>4, <2>1, StartLemma DEF OnConnect, StartWebserver
    <3> QED
      BY <1>4, <2>1, <3>1 DEF OnConnect, mainVars
  <2>2. CASE server # NULL
    BY <1>4, <2>2 DEF OnConnect, mainVars
  <2> QED
    BY <2>1, <2>2
<1>5. CASE ConnectAssign
  BY <1>5 DEF ConnectAssign, mainVars
<1>6. CASE OnDisconnect
  BY <1>6 DEF OnDisconnect, mainVars
<1>7. CASE DisconnectClear
  BY <1>7 DEF DisconnectClear, mainVars
<1>8. CASE Link \/ UNCHANGED vars
  BY <1>8 DEF Link, vars, mainVars, eventVars
<1> QED
  BY <1>2, <1>3, <1>4, <1>5, <1>6, <1>7, <1>8 DEF Next, MainTask, EventTask

(* Initially no task holds a handle. *)
LEMMA LiveCorrect == Spec => []LiveInv
<1>1. Init => LiveInv
  BY DEF Init, LiveInv, HandleIsLive
<1> QED
  BY <1>1, TypeCorrect, LiveStep, PTL DEF Spec

(* The handle, unless its server is being stopped, is that of the server    *)
(* that runs.                                                               *)
THEOREM HandleIsLiveCorrect == Spec => []HandleIsLive
<1>1. LiveInv => HandleIsLive
  BY DEF LiveInv
<1> QED
  BY <1>1, LiveCorrect, PTL

-----------------------------------------------------------------------------
(* Events are appended with the station's state. *)
LEMMA LinkStep == TypeOK /\ LinkInv /\ [Next]_vars => LinkInv'
<1> SUFFICES ASSUME TypeOK, LinkInv, [Next]_vars, events' # <<>>
             PROVE  events'[Len(events')] = Event(connected)'
  BY DEF LinkInv
<1>1. events \in Seq(Events)
  BY DEF TypeOK
<1>2. CASE Link
  <2>1. events' = Append(events, Event(connected)') /\ Event(connected)' \in Events
    BY <1>2 DEF Link, Event, Events
  <2> QED
    BY <1>1, <2>1
<1>3. ASSUME OnConnect \/ OnDisconnect PROVE events'[Len(events')] = Event(connected)'
  <2>1. events # <<>> /\ events' = Tail(events) /\ connected' = connected
    BY <1>3 DEF OnConnect, OnDisconnect
  <2>2. events'[Len(events')] = events[Len(events)]
    BY <1>1, <2>1, EventsLemma
  <2> QED
    BY <2>1, <2>2 DEF LinkInv, Event
<1>4. CASE MainStart \/ MainAssign \/ ConnectAssign \/ DisconnectClear \/ UNCHANGED vars
  BY <1>4 DEF MainStart, MainAssign, ConnectAssign, DisconnectClear, vars, LinkInv, Event
<1> QED
  BY <1>2, <1>3, <1>4 DEF Next, MainTask, EventTask

(* The handler of the last event knows how the station is. *)
LEMMA HandledLemma ==
  ASSUME TypeOK, LinkInv, events # <<>>, Tail(events) = <<>>
  PROVE  Head(events) = Event(connected)
<1>1. events \in Seq(Events)
  BY DEF TypeOK
<1> QED
  BY <1>1, EventsLemma DEF LinkInv

(* A station that hears last that it is connected has a server. *)
LEMMA UpStep == TypeOK /\ LinkInv /\ LiveInv /\ UpInv /\ [Next]_vars => UpInv'
<1> SUFFICES ASSUME TypeOK, LinkInv, LiveInv, UpInv, [Next]_vars, connected', events' = <<>>,
                    mpc' # "start"
             PROVE  running' # NULL
  BY DEF UpInv
<1>1. events \in Seq(Events) /\ running \in Handles \cup {NULL}
  BY DEF TypeOK
<1>2. CASE Link
  <2>1. Event(connected') \in Events /\ events' = Append(events, Event(connected'))
    BY <1>2 DEF Link, Event, Events
  <2> QED
    BY <1>1, <2>1, AppendLemma
<1>3. CASE MainStart
  BY <1>1, <1>3, StartLemma DEF MainStart, StartWebserver
<1>4. CASE OnConnect
  <2>1. CASE server = NULL
    BY <1>1, <1>4, <2>1, StartLemma DEF OnConnect, StartWebserver
  <2>2. CASE server # NULL
    BY <1>4, <2>2 DEF OnConnect, LiveInv, HandleIsLive
  <2> QED
    BY <2>1, <2>2
<1>5. CASE OnDisconnect
  <2>1. connected /\ events # <<>> /\ Tail(events) = <<>> /\ Head(events) = "DISCONNECTED"
    BY <1>5 DEF OnDisconnect
  <2>2. FALSE
    BY <2>1, HandledLemma DEF Event
  <2> QED
    BY <2>2
<1>6. CASE MainAssign \/ ConnectAssign \/ DisconnectClear \/ UNCHANGED vars
  BY <1>6 DEF MainAssign, ConnectAssign, DisconnectClear, vars, mainVars, UpInv
<1> QED
  BY <1>2, <1>3, <1>4, <1>5, <1>6 DEF Next, MainTask, EventTask

(* A station that hears last that it is disconnected has no server, if no   *)
(* event came before app_main was done.                                     *)
LEMMA DownStep == TypeOK /\ LinkInv /\ DownInv /\ [Next]_vars => DownInv'
<1> SUFFICES ASSUME TypeOK, LinkInv, DownInv, [Next]_vars, ~raced' PROVE DownInv'
  BY DEF DownInv
<1> USE DEF DownInv
<1>1. /\ events \in Seq(Events) /\ running \in Handles \cup {NULL}
      /\ mpc \in {"start", "assign", "done"} /\ epc \in {"wait", "assign", "clear"}
  BY DEF TypeOK
<1>2. CASE Link
  <2>1. Event(connected') \in Events /\ events' = Append(events, Event(connected'))
    BY <1>2 DEF Link, Event, Events
  <2>2. events' # <<>>
    BY <1>1, <2>1, AppendLemma
  <2>3. UNCHANGED <<server, running, mpc, mRes, epc, eRes, raced>>
    BY <1>2 DEF Link, mainVars, eventVars
  <2> QED
    BY <2>2, <2>3
<1>3. CASE MainStart
  <2>1. ~raced /\ running = NULL
    BY <1>3 DEF MainStart
  <2>2. mRes' = running'
    BY <1>1, <1>3, <2>1, StartLemma DEF MainStart, StartWebserver
  <2> QED
    BY <1>3, <2>1, <2>2 DEF MainStart, eventVars
<1>4. CASE MainAssign
  <2>1. /\ ~raced /\ mpc = "assign" /\ mpc' = "done" /\ server' = mRes
        /\ UNCHANGED <<connected, events, running, epc, eRes, raced>>
    BY <1>4 DEF MainAssign, eventVars
  <2> QED
    BY <2>1
<1>5. CASE OnConnect
  <2>1. ~raced /\ mpc = "done" /\ server = running
    BY <1>1, <1>5 DEF OnConnect
  <2>2. events' = <<>> => connected'
    BY <1>5, HandledLemma DEF OnConnect, Event
  <2>3. CASE server = NULL
    <3>1. eRes' = running'
      BY <1>1, <1>5, <2>1, <2>3, StartLemma DEF OnConnect, StartWebserver
    <3> QED
      BY <1>5, <2>1, <2>2, <2>3, <3>1 DEF OnConnect, mainVars
  <2>4. CASE server # NULL
    <3>1. /\ epc' = "wait" /\ mpc' = "done"
          /\ server' = server /\ running' = running
      BY <1>5, <2>1, <2>4 DEF OnConnect, mainVars
    <3> QED
      BY <2>1, <2>2, <3>1
  <2> QED
    BY <2>3, <2>4
<1>6. CASE OnDisconnect
  <2>1. ~raced /\ mpc = "done" /\ server = running /\ mpc' = "done"
    BY <1>1, <1>6 DEF OnDisconnect, mainVars
  <2>2. CASE server = NULL
    <3>1. epc' = "wait" /\ server' = NULL /\ running' = NULL
      BY <1>6, <2>1, <2>2 DEF OnDisconnect
    <3> QED
      BY <2>1, <3>1
  <2>3. CASE server # NULL
    <3>1. epc' = "clear" /\ running' = NULL
      BY <1>6, <2>3 DEF OnDisconnect
    <3> QED
      BY <2>1, <3>1
  <2> QED
    BY <2>2, <2>3
<1>7. CASE ConnectAssign
  <2>1. ~raced /\ mpc = "done" /\ eRes = running
    BY <1>1, <1>7 DEF ConnectAssign
  <2> QED
    BY <1>7, <2>1 DEF ConnectAssign, mainVars
<1>8. CASE DisconnectClear
  <2>1. ~raced /\ mpc = "done" /\ running = NULL
    BY <1>1, <1>8 DEF DisconnectClear
  <2> QED
    BY <1>8, <2>1 DEF DisconnectClear, mainVars
<1>9. CASE UNCHANGED vars
  BY <1>9 DEF vars, mainVars, eventVars
<1> QED
  BY <1>2, <1>3, <1>4, <1>5, <1>6, <1>7, <1>8, <1>9 DEF Next, MainTask, EventTask

(* Once all events are handled, a connected station has a server, and a     *)
(* disconnected one has none unless an event raced with app_main's start.   *)
THEOREM ServerFollowsLinkCorrect == Spec => []ServerFollowsLink
<1>1. Init => LinkInv /\ UpInv /\ DownInv
  BY DEF Init, LinkInv, UpInv, DownInv
<1>2. UpInv /\ DownInv => ServerFollowsLink
  BY DEF UpInv, DownInv, ServerFollowsLink
<1>3. Spec => []LinkInv
  BY <1>1, TypeCorrect, LinkStep, PTL DEF Spec
<1>4. Spec => []UpInv
  BY <1>1, <1>3, TypeCorrect, LiveCorrect, UpStep, PTL DEF Spec
<1>5. Spec => []DownInv
  BY <1>1, <1>3, TypeCorrect, DownStep, PTL DEF Spec
<1> QED
  BY <1>2, <1>4, <1>5, PTL

-----------------------------------------------------------------------------
(* The server changes in two ways: one starts when none runs, at one of the *)
(* handles, and the one that runs is stopped.  This is what WsPublisher's   *)
(* ServerStarts and ServerStops assume of it.                               *)
THEOREM OneServerAtATime ==
  Spec => [][\/ running = NULL /\ running' \in Handles
             \/ running # NULL /\ running' = NULL]_running
<1>1. TypeOK /\ [Next]_vars
        => [\/ running = NULL /\ running' \in Handles
            \/ running # NULL /\ running' = NULL]_running
  <2> SUFFICES ASSUME TypeOK, [Next]_vars, running' # running
               PROVE  \/ running = NULL /\ running' \in Handles
                      \/ running # NULL /\ running' = NULL
    OBVIOUS
  <2>1. running \in Handles \cup {NULL}
    BY DEF TypeOK
  <2>2. CASE MainStart
    BY <2>1, <2>2, StartLemma DEF MainStart, StartWebserver
  <2>3. CASE OnConnect
    BY <2>1, <2>3, StartLemma DEF OnConnect, StartWebserver
  <2>4. CASE OnDisconnect
    BY <2>4 DEF OnDisconnect
  <2>5. CASE Link \/ MainAssign \/ ConnectAssign \/ DisconnectClear \/ UNCHANGED vars
    BY <2>5 DEF Link, MainAssign, ConnectAssign, DisconnectClear, vars
  <2> QED
    BY <2>2, <2>3, <2>4, <2>5 DEF Next, MainTask, EventTask
<1> QED
  BY <1>1, TypeCorrect, PTL DEF Spec
=============================================================================
