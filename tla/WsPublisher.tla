---------------------------- MODULE WsPublisher ----------------------------
(***************************************************************************)
(* The web pages: their sockets, echo_handler (BathMain.c), which the web  *)
(* server runs for them, and SendWsData (BathJson.c), the task that keeps  *)
(* the table of sockets and sends parameters.  Of the server only `running'*)
(* is kept: it starts and stops as module WebServer lets it.               *)
(*                                                                         *)
(* A page sends "sstrt" when its socket opens; the handler posts a start   *)
(* message, and the task adds the socket to SocketArgDb and sends it all   *)
(* parameters.  Changes are posted and sent to every socket in the table;  *)
(* after five seconds without a message the statuses are sent again.       *)
(*                                                                         *)
(* Settings are written by echo_handler and by the wall switches, which    *)
(* post what they have written later, and by CheckBathHum, which does not  *)
(* post.  Statuses are written and posted by the tasks of other modules,   *)
(* here at any time.                                                       *)
(*                                                                         *)
(* A page's value of a parameter is only current or not (`stale').  A send *)
(* to a socket that is open on the running server succeeds: a connection   *)
(* that hangs counts as closed.  A send with the handle of a stopped       *)
(* server reads freed memory: it fails, or finds the socket if one with    *)
(* that number is open.                                                    *)
(***************************************************************************)
EXTENDS RtosQueue, Integers, FiniteSetsExt

CONSTANTS
  Handles,    \* httpd_handle_t: the addresses a server may get
  NULL,       \* no server
  Fds,        \* lwIP's socket numbers
  NSlots,     \* places in SocketArgDb (CONFIG_LWIP_MAX_SOCKETS)
  NStatus,    \* parameters 0 .. NStatus - 1 are statuses (up to IDX_MVVOL)
  NParms,     \* parameters in the table (MAX_IDX_PARM_TABLE)
  SwitchAutos,  \* AutoEnable of the lights that have a wall switch, each of
              \* which stands for the switch, too
  NCtrl,      \* OnOff comes that many places after AutoEnable in the table
  Rewritten,  \* the threshold that CheckBathHum corrects (BATHHUMOFFPARM)
  WsQueueLen  \* places in SendWsQueue

ASSUME HandlesAssumption == Handles # {} /\ NULL \notin Handles
(* A number is never 0, and lwIP has no more sockets than the table places. *)
ASSUME FdsAssumption ==
  /\ Fds \subseteq Nat \ {0} /\ IsFiniteSet(Fds)
  /\ NSlots \in Nat \ {0} /\ Cardinality(Fds) <= NSlots
ASSUME ParmsAssumption == {NStatus, NParms} \subseteq Nat \ {0} /\ NStatus <= NParms
ASSUME WsQueueLenAssumption == WsQueueLen \in Nat \ {0}

Slots == 1 .. NSlots
Statuses == 0 .. NStatus - 1
Settings == NStatus .. NParms - 1
Parms == Statuses \cup Settings
OnOff(a) == a + NCtrl

ASSUME SwitchAssumption ==
  /\ NCtrl \in Nat /\ Rewritten \subseteq Settings
  /\ SwitchAutos \subseteq Settings /\ \A a \in SwitchAutos : OnOff(a) \in Settings

(* The tasks that post settings: echo_handler and the wall switches. *)
EchoHandler == 0
Writers == {EchoHandler} \cup SwitchAutos

Empty == [hd |-> NULL, fd |-> 0]
Start(hd, fd) == [hd |-> hd, fd |-> fd, idx |-> -1]
ToAll(p) == [hd |-> NULL, fd |-> 0, idx |-> p]

VARIABLES
  running,   \* the server that serves the pages, or NULL
  page,      \* page[fd]: "closed", or open with its start message "posted" or "dropped"
  stale,     \* stale[fd]: the parameters of which the page has not the value
  toPost,    \* per writer: the parameters it has written and not yet posted
  sendQ,     \* SendWsQueue
  slots,     \* SocketArgDb
  timeout,   \* SendWsData's timeout: "forever" or "5s"
  cntsock,   \* its cntsock: 0, or 1 for any positive count
  wpc, req,  \* where it is: "receive", "greet", "all", "status"; its req
  sock, idx, \* its loop variables: a place in SocketArgDb, a parameter
  unposted   \* history: the settings last changed without a post, or whose
             \* last post was dropped

pages == <<page, stale>>
publisher == <<slots, timeout, cntsock, wpc, req, sock, idx>>
vars == <<running, pages, toPost, sendQ, publisher, unposted>>

IsOpen(fd) == fd \in Fds /\ page[fd] # "closed"

(* The page's socket is in the table with the handle of its own server. *)
Registered(fd) == IsOpen(fd) /\ \E i \in Slots : slots[i] = [hd |-> running, fd |-> fd]

(* The value sent is the table's at that moment. *)
Shows(fd, p) == stale' = [stale EXCEPT ![fd] = @ \ {p}]

-----------------------------------------------------------------------------
(* Mutations: the bugs the properties are shown to exclude. *)

(* the first place in use is cleared, whatever socket it holds *)
RemoveSocket_AnyFd(s, fd) ==
  LET used == {i \in Slots : s[i].fd # 0}
  IN IF used = {} THEN s ELSE [s EXCEPT ![Min(used)] = Empty]

(* a failed send leaves the socket in the table *)
SendSocket_Keep(hd, fd, p) ==
  /\ slots' = slots
  /\ \/ /\ IsOpen(fd)
        /\ Shows(fd, p)
     \/ /\ ~(IsOpen(fd) /\ hd = running)
        /\ stale' = stale

(* the post ignores the capacity of the queue *)
Post_Unbounded(w) ==
  LET p == Head(toPost[w])
  IN  /\ toPost[w] # <<>> /\ toPost' = [toPost EXCEPT ![w] = Tail(@)]
      /\ sendQ' = Append(sendQ, ToAll(p))
      /\ unposted' = unposted \ {p}
      /\ UNCHANGED <<running, pages, publisher>>

(* an empty place is taken for the end of the table *)
NextSock_StopAtEmpty ==
  IF sock < NSlots /\ slots[sock].fd # 0
  THEN sock' = sock + 1 /\ wpc' = wpc /\ req' = req
  ELSE sock' = 1 /\ wpc' = "receive" /\ req' = ToAll(0)

(* a timeout ends the refreshes until the next message *)
Timeout_Once ==
  /\ wpc = "receive" /\ sendQ = <<>> /\ timeout = "5s"
  /\ wpc' = "status" /\ timeout' = "forever"
  /\ UNCHANGED <<running, pages, toPost, sendQ, slots, cntsock, req, sock, idx, unposted>>

-----------------------------------------------------------------------------
(* The table of sockets *)

(* The loop ends at the socket itself, or else has filled the first empty   *)
(* place; the branch for a duplicate behind that place is never reached.    *)
AddSocket(s, r) ==
  LET candidates == {i \in Slots : s[i].fd \in {0, r.fd}}
      first == Min(candidates)
  IN IF candidates # {} /\ s[first].fd = 0
     THEN [s EXCEPT ![first] = [hd |-> r.hd, fd |-> r.fd]]
     ELSE s

RemoveSocket(s, fd) ==
  LET same == {i \in Slots : s[i].fd = fd}
  IN IF same = {} THEN s ELSE [s EXCEPT ![Min(same)] = Empty]

(* A failed send takes the socket out of the table. *)
SendSocket(hd, fd, p) ==
  \/ /\ IsOpen(fd)
     /\ Shows(fd, p)
     /\ slots' = slots
  \/ /\ ~(IsOpen(fd) /\ hd = running)
     /\ slots' = RemoveSocket(slots, fd)
     /\ stale' = stale

-----------------------------------------------------------------------------
Init ==
  /\ running = NULL
  /\ page = [fd \in Fds |-> "closed"] /\ stale = [fd \in Fds |-> {}]
  /\ toPost = [w \in Writers |-> <<>>]
  /\ sendQ = <<>> /\ unposted = {}
  /\ slots = [i \in Slots |-> Empty]
  /\ timeout = "forever" /\ cntsock = 0
  /\ wpc = "receive" /\ req = ToAll(0) /\ sock = 1 /\ idx = 0

(* A new server may get the address of an old one. *)
ServerStarts ==
  /\ running = NULL /\ running' \in Handles
  /\ UNCHANGED <<pages, toPost, sendQ, publisher, unposted>>

(* httpd_stop lets the handler that may be running end, and then all        *)
(* sessions; the table of sockets knows nothing of it.                      *)
ServerStops ==
  /\ running # NULL /\ running' = NULL /\ toPost[EchoHandler] = <<>>
  /\ page' = [fd \in Fds |-> "closed"] /\ stale' = [fd \in Fds |-> {}]
  /\ UNCHANGED <<toPost, sendQ, publisher, unposted>>

PageCloses ==
  /\ \E fd \in Fds :
       /\ IsOpen(fd)
       /\ page' = [page EXCEPT ![fd] = "closed"]
       /\ stale' = [stale EXCEPT ![fd] = {}]
  /\ UNCHANGED <<running, toPost, sendQ, publisher, unposted>>

(* Parameters have new values: no page shows them. *)
Change(S) == stale' = [fd \in Fds |-> IF IsOpen(fd) THEN stale[fd] \cup S ELSE {}]

(* A controller or a sensor stores a status; not all of them post it, *)
StatusChanges ==
  /\ \E p \in Statuses : Change({p})
  /\ UNCHANGED <<running, page, toPost, sendQ, publisher, unposted>>

(* and those that do post some time after they have stored. *)
StatusPosts ==
  /\ \E p \in Statuses : sendQ' = QueueSend(sendQ, WsQueueLen, ToAll(p))
  /\ UNCHANGED <<running, pages, toPost, publisher, unposted>>

(* CheckBathHum lowers a threshold that is not below the other, and tells   *)
(* nobody.                                                                  *)
ThresholdRewritten ==
  /\ \E p \in Rewritten : Change({p}) /\ unposted' = unposted \cup {p}
  /\ UNCHANGED <<running, page, toPost, sendQ, publisher>>

(* A wall switch selects manual or automatic mode and stores its level. *)
SwitchStores(a) ==
  /\ toPost[a] = <<>> /\ toPost' = [toPost EXCEPT ![a] = <<a, OnOff(a)>>]
  /\ Change({a, OnOff(a)})
  /\ UNCHANGED <<running, page, sendQ, publisher, unposted>>

(* A page opens its socket and sends "sstrt", which echo_handler posts.     *)
WsStart ==
  /\ running # NULL /\ toPost[EchoHandler] = <<>>
  /\ \E fd \in Fds :
       /\ page[fd] = "closed"
       /\ page' = [page EXCEPT ![fd] =
                     IF QueueFull(sendQ, WsQueueLen) THEN "dropped" ELSE "posted"]
       /\ stale' = [stale EXCEPT ![fd] = Parms]
       /\ sendQ' = QueueSend(sendQ, WsQueueLen, Start(running, fd))
  /\ UNCHANGED <<running, toPost, publisher, unposted>>

(* echo_handler receives a setting and stores it; its post to a controller  *)
(* is an action of the controllers' modules.                                *)
WsSetting ==
  /\ \E fd \in Fds : IsOpen(fd)
  /\ toPost[EchoHandler] = <<>>
  /\ \E p \in Settings : Change({p}) /\ toPost' = [toPost EXCEPT ![EchoHandler] = <<p>>]
  /\ UNCHANGED <<running, page, sendQ, publisher, unposted>>

(* A writer posts the next of the settings it has written. *)
Post(w) ==
  LET p == Head(toPost[w])
  IN  /\ toPost[w] # <<>> /\ toPost' = [toPost EXCEPT ![w] = Tail(@)]
      /\ sendQ' = QueueSend(sendQ, WsQueueLen, ToAll(p))
      /\ unposted' = IF QueueFull(sendQ, WsQueueLen) THEN unposted \cup {p} ELSE unposted \ {p}
      /\ UNCHANGED <<running, pages, publisher>>

-----------------------------------------------------------------------------
(* SendWsData *)

(* An idx above the table, or for a single socket, is never posted. *)
Receive ==
  /\ wpc = "receive" /\ sendQ # <<>>
  /\ sendQ' = Tail(sendQ) /\ req' = Head(sendQ)
  /\ timeout' = "5s"
  /\ IF req'.idx < 0
     THEN wpc' = "greet" /\ slots' = AddSocket(slots, req')
     ELSE wpc' = "all" /\ slots' = slots
  /\ UNCHANGED <<running, pages, toPost, cntsock, sock, idx, unposted>>

(* A new socket gets the whole table. *)
Greet ==
  /\ wpc = "greet"
  /\ SendSocket(req.hd, req.fd, idx)
  /\ IF idx < NParms - 1
     THEN idx' = idx + 1 /\ wpc' = wpc /\ req' = req
     ELSE idx' = 0 /\ wpc' = "receive" /\ req' = ToAll(0)
  /\ UNCHANGED <<running, page, toPost, sendQ, timeout, cntsock, sock, unposted>>

(* On to the next place of the table, or to the queue. *)
NextSock ==
  IF sock < NSlots
  THEN sock' = sock + 1 /\ wpc' = wpc /\ req' = req
  ELSE sock' = 1 /\ wpc' = "receive" /\ req' = ToAll(0)

All ==
  /\ wpc = "all"
  /\ IF slots[sock].fd = 0
     THEN UNCHANGED <<slots, stale>>
     ELSE SendSocket(slots[sock].hd, slots[sock].fd, req.idx)
  /\ NextSock
  /\ UNCHANGED <<running, page, toPost, sendQ, timeout, cntsock, idx, unposted>>

(* xQueueReceive timed out. *)
Timeout ==
  /\ wpc = "receive" /\ sendQ = <<>> /\ timeout = "5s"
  /\ wpc' = "status"
  /\ UNCHANGED <<running, pages, toPost, sendQ, slots, timeout, cntsock, req,
                 sock, idx, unposted>>

(* The place is read anew for each status: a socket that a failed send has  *)
(* taken out is then sent to as socket 0, which fails.                      *)
Status ==
  /\ wpc = "status"
  /\ IF idx = 0 /\ slots[sock].fd = 0
     THEN UNCHANGED <<slots, stale, cntsock, idx>> /\ NextSock
     ELSE /\ SendSocket(slots[sock].hd, slots[sock].fd, idx)
          /\ cntsock' = 1
          /\ IF idx < NStatus - 1
             THEN idx' = idx + 1 /\ UNCHANGED <<sock, wpc, req>>
             ELSE idx' = 0 /\ NextSock
  /\ timeout' = IF wpc' = "receive" /\ cntsock' = 0 THEN "forever" ELSE timeout
  /\ UNCHANGED <<running, page, toPost, sendQ, unposted>>

Publisher == Receive \/ Greet \/ All \/ Status

World ==
  \/ ServerStarts \/ ServerStops \/ PageCloses
  \/ StatusChanges \/ StatusPosts \/ ThresholdRewritten

Settling ==
  \/ WsStart \/ WsSetting
  \/ \E a \in SwitchAutos : SwitchStores(a)
  \/ \E w \in Writers : Post(w)

Next == World \/ Settling \/ Publisher \/ Timeout

Spec == Init /\ [][Next]_vars

(* The task is scheduled, and a wait during which nothing comes any more    *)
(* ends: each message starts the five seconds of xQueueReceive anew.        *)
FairSpec == Spec /\ WF_vars(Publisher) /\ WF_vars(Timeout)

-----------------------------------------------------------------------------
(* Properties *)

TypeOK ==
  /\ running \in Handles \cup {NULL}
  /\ page \in [Fds -> {"closed", "posted", "dropped"}]
  /\ stale \in [Fds -> SUBSET Parms]
  /\ toPost \in [Writers -> Seq(Settings)] /\ unposted \subseteq Settings
  /\ Len(sendQ) <= WsQueueLen
  /\ slots \in [Slots -> [hd : Handles, fd : Fds] \cup {Empty}]
  /\ timeout \in {"forever", "5s"} /\ cntsock \in {0, 1}
  /\ wpc \in {"receive", "greet", "all", "status"}
  /\ sock \in Slots /\ idx \in Parms

Idle == wpc = "receive" /\ sendQ = <<>> /\ \A w \in Writers : toPost[w] = <<>>

(* No more messages come, or again and again none came for five seconds.    *)
(* Messages that go on less than five seconds apart are neither.            *)
Silences == <>[](sendQ = <<>>) \/ []<><<Timeout>>_vars

(* A page that stays open on a running server stays in the table, although  *)
(* RemoveSocket takes out the first entry of a number and earlier pages and *)
(* servers have left theirs behind: unless an entry, or the start message   *)
(* being served, has its number and the handle of an earlier server.        *)
LivePageKept ==
  [][\A fd \in Fds :
       Registered(fd) /\ IsOpen(fd)' /\ running' = running
         => \/ Registered(fd)'
            \/ \E e \in {req} \cup {slots[i] : i \in Slots} : e.fd = fd /\ e.hd # running]_vars

(* A page that was greeted and is in the table shows every setting as it    *)
(* is, once all is quiet, unless the setting was last changed by            *)
(* CheckBathHum, which does not post, or its last post was dropped.         *)
SettingsReachPage ==
  Idle => \A fd \in Fds :
            Registered(fd) /\ page[fd] = "posted" => stale[fd] \cap Settings \subseteq unposted

(* "If there is no data in the queue, send the statuses": a page in the     *)
(* table comes to show each status, though its change was not posted, or    *)
(* the post, or even the page's start message, was dropped.                 *)
StatusReachesPage ==
  Silences => \A fd \in Fds : \A p \in Statuses :
    Registered(fd) /\ p \in stale[fd] ~> ~Registered(fd) \/ p \notin stale[fd]

DeadEntry(i) == slots[i].fd # 0 /\ ~IsOpen(slots[i].fd)

(* "The socket is closed: take it out of the table": no place is held by a  *)
(* socket that is closed for good, although nobody reports its closing.     *)
DeadEntriesGo ==
  Silences => \A i \in Slots : DeadEntry(i) ~> ~DeadEntry(i)
=============================================================================
