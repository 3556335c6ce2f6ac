----------------------------- MODULE WebServer -----------------------------
(***************************************************************************)
(* The life cycle of the web server (BathMain.c): app_main starts it once, *)
(* after it has registered the handlers that stop it when the station      *)
(* loses its access point and start it again when it gets an address.      *)
(* The handlers run in the event loop's task, which preempts app_main, and *)
(* share its variable `server' with it without a lock.  httpd_start and    *)
(* httpd_stop block, so each is a step apart from the assignment of its    *)
(* result.                                                                 *)
(*                                                                         *)
(* httpd_start is external: it fails exactly when another server holds the *)
(* port; the handle is a heap address, which may be that of a server       *)
(* stopped before.  The model starts when both handlers are registered.    *)
(***************************************************************************)
EXTENDS Naturals, Sequences

CONSTANTS
  Handles,   \* httpd_handle_t: the addresses a server may get
  NULL,      \* no server
  MaxEvents  \* bound: events of the station waiting for the event loop

ASSUME HandlesAssumption == Handles # {} /\ NULL \notin Handles
ASSUME MaxEventsAssumption == MaxEvents \in Nat \ {0}

VARIABLES
  connected,  \* the station has an address
  events,     \* the event loop's queue
  server,     \* app_main's static variable server
  running,    \* the server that holds the port, NULL when there is none
  mpc, mRes,  \* app_main: "start", "assign" or "done"; its start's result
  epc, eRes,  \* the event task: "wait", "assign" or "clear"; likewise
  raced       \* history: an event was handled before app_main was done

Events == {"GOT_IP", "DISCONNECTED"}
Event(up) == IF up THEN "GOT_IP" ELSE "DISCONNECTED"

mainVars == <<mpc, mRes>>
eventVars == <<epc, eRes>>
vars == <<connected, events, server, running, mainVars, eventVars, raced>>

-----------------------------------------------------------------------------
(* Mutations: the bugs the properties are shown to exclude. *)

(* start_webserver returns the status of httpd_start, not the handle *)
StartWebserver_Status(res) ==
  IF running = NULL
  THEN \E h \in Handles : running' = h /\ res' = "ESP_OK"
  ELSE res' = NULL /\ running' = running

(* the connect handler does not ask whether a server runs already *)
OnConnect_Always ==
  /\ epc = "wait" /\ events # <<>> /\ Head(events) = "GOT_IP"
  /\ events' = Tail(events)
  /\ epc' = "assign"
  /\ IF running = NULL
     THEN \E h \in Handles : running' = h /\ eRes' = h
     ELSE eRes' = NULL /\ running' = running
  /\ raced' = (raced \/ mpc # "done")
  /\ UNCHANGED <<connected, server, mainVars>>

(* the handle is not cleared when its server is stopped *)
DisconnectClear_Keep ==
  /\ epc = "clear" /\ epc' = "wait"
  /\ UNCHANGED <<connected, events, server, running, mainVars, eRes, raced>>

-----------------------------------------------------------------------------
Init ==
  /\ connected = TRUE /\ events = <<>>
  /\ server = NULL /\ running = NULL
  /\ mpc = "start" /\ mRes = NULL /\ epc = "wait" /\ eRes = NULL
  /\ raced = FALSE

(* The access point comes or goes; a lost station reports every failed     *)
(* attempt, and an address may be renewed.                                 *)
Link ==
  /\ Len(events) < MaxEvents
  /\ connected' \in BOOLEAN
  /\ events' = Append(events, Event(connected'))
  /\ UNCHANGED <<server, running, mainVars, eventVars, raced>>

(* start_webserver: the result is in res. *)
StartWebserver(res) ==
  IF running = NULL
  THEN \E h \in Handles : running' = h /\ res' = h
  ELSE res' = NULL /\ running' = running

MainStart ==
  /\ mpc = "start" /\ mpc' = "assign"
  /\ StartWebserver(mRes)
  /\ UNCHANGED <<connected, events, server, eventVars, raced>>

MainAssign ==
  /\ mpc = "assign" /\ mpc' = "done"
  /\ server' = mRes /\ mRes' = NULL
  /\ UNCHANGED <<connected, events, running, eventVars, raced>>

(* connect_handler *)
OnConnect ==
  /\ epc = "wait" /\ events # <<>> /\ Head(events) = "GOT_IP"
  /\ events' = Tail(events)
  /\ IF server = NULL
     THEN epc' = "assign" /\ StartWebserver(eRes)
     ELSE UNCHANGED <<epc, eRes, running>>
  /\ raced' = (raced \/ mpc # "done")
  /\ UNCHANGED <<connected, server, mainVars>>

ConnectAssign ==
  /\ epc = "assign" /\ epc' = "wait"
  /\ server' = eRes /\ eRes' = NULL
  /\ UNCHANGED <<connected, events, running, mainVars, raced>>

(* disconnect_handler; httpd_stop ends the sessions and frees the handle. *)
OnDisconnect ==
  /\ epc = "wait" /\ events # <<>> /\ Head(events) = "DISCONNECTED"
  /\ events' = Tail(events)
  /\ IF server # NULL
     THEN epc' = "clear" /\ running' = NULL
     ELSE UNCHANGED <<epc, running>>
  /\ raced' = (raced \/ mpc # "done")
  /\ UNCHANGED <<connected, server, mainVars, eRes>>

DisconnectClear ==
  /\ epc = "clear" /\ epc' = "wait"
  /\ server' = NULL
  /\ UNCHANGED <<connected, events, running, mainVars, eRes, raced>>

MainTask == MainStart \/ MainAssign
EventTask == OnConnect \/ ConnectAssign \/ OnDisconnect \/ DisconnectClear

Next == Link \/ MainTask \/ EventTask

Spec == Init /\ [][Next]_vars

-----------------------------------------------------------------------------
(* Properties *)

TypeOK ==
  /\ connected \in BOOLEAN /\ raced \in BOOLEAN
  /\ events \in Seq(Events) /\ Len(events) <= MaxEvents
  /\ {server, running, mRes, eRes} \subseteq Handles \cup {NULL}
  /\ mpc \in {"start", "assign", "done"} /\ epc \in {"wait", "assign", "clear"}

(* The handle, unless its server is being stopped, is that of the server    *)
(* that runs: no handler stops a server twice, or one already freed,        *)
(* however the events fall into app_main's start and the slow stops.        *)
HandleIsLive == server # NULL /\ epc # "clear" => running = server

(* "Register event handlers to stop the server when Wi-Fi or Ethernet is    *)
(* disconnected, and re-start it upon connection": once all events are      *)
(* handled, a connected station has a server, whatever races there were,    *)
(* and a disconnected one has none, unless an event handled before          *)
(* app_main was done has cost the handle.                                   *)
ServerFollowsLink ==
  mpc = "done" /\ epc = "wait" /\ events = <<>> =>
    /\ connected => running # NULL
    /\ ~connected /\ ~raced => running = NULL
=============================================================================
