------------------------- MODULE WsPublisher_proofs -------------------------
(***************************************************************************)
(* Proofs about WsPublisher, for every number of sockets, of places in the *)
(* table, of parameters and of places in the queue.                        *)
(*                                                                         *)
(* A setting that a greeted page does not show is on its way to it:        *)
(* SettingsInv says where it can be, from the task that has still to post  *)
(* it, through the queue, to the loop over the table or over parameters.   *)
(***************************************************************************)
EXTENDS WsPublisher, TLAPS, WellFoundedInduction

(* What is posted: a change for all pages, or the start of a page. *)
Requests == {ToAll(p) : p \in Parms} \cup {Start(h, fd) : h \in Handles, fd \in Fds}
Entries == [hd : Handles, fd : Fds] \cup {Empty}

TypeInv ==
  /\ TypeOK
  /\ sendQ \in Seq(Requests) /\ req \in Requests
  /\ wpc = "greet" => req.idx = -1

(* A closed page lacks nothing, and without a server all pages are closed. *)
PageInv ==
  /\ \A fd \in Fds : page[fd] = "closed" => stale[fd] = {}
  /\ running = NULL => \A fd \in Fds : page[fd] = "closed"

(* Each loop of the task starts at the beginning. *)
LoopInv ==
  /\ wpc \in {"receive", "greet"} => sock = 1
  /\ wpc \in {"receive", "all"} => idx = 0

(* The value of p has still to be sent to the page on socket fd: it is to   *)
(* be posted, posted, or the task's loop has not come to it.                *)
OnItsWay(fd, p) ==
  \/ \E w \in Writers : \E i \in 1 .. Len(toPost[w]) : toPost[w][i] = p
  \/ \E i \in 1 .. Len(sendQ) : sendQ[i] \in {ToAll(p), Start(running, fd)}
  \/ wpc = "greet" /\ req = Start(running, fd) /\ idx <= p
  \/ /\ wpc = "all" /\ req = ToAll(p)
     /\ \E j \in sock .. NSlots : slots[j] = [hd |-> running, fd |-> fd]

SettingsInv ==
  \A fd \in Fds, p \in Settings :
    page[fd] = "posted" /\ Registered(fd) /\ p \in stale[fd] \ unposted => OnItsWay(fd, p)

-----------------------------------------------------------------------------
(* Operators *)

(* A set of places that is not empty has a first. *)
LEMMA MinLemma ==
  ASSUME NEW S \in SUBSET Nat, S # {}
  PROVE  Min(S) \in S /\ \A n \in S : Min(S) <= n
<1>1. PICK m \in S : \A n \in S : ~(<<n, m>> \in OpToRel(<, Nat))
  BY NatLessThanWellFounded, WFMin
<1>2. \A n \in S : m <= n
  <2>1. \A n \in S : n < m => <<n, m>> \in OpToRel(<, Nat)
    BY DEF OpToRel
  <2>2. \A n \in S : ~(n < m)
    BY <1>1, <2>1
  <2> QED
    BY <2>2
<1> QED
  BY <1>2 DEF Min

(* Numbers of parameters and of sockets. *)
LEMMA ConstantsLemma ==
  /\ Parms \subseteq Nat /\ 0 \in Parms /\ Parms = 0 .. NParms - 1
  /\ Statuses \subseteq Parms /\ Settings \subseteq Parms /\ Settings \cap Statuses = {}
  /\ Slots \subseteq Nat /\ 1 \in Slots /\ NSlots \in Slots
  /\ Fds \subseteq Nat \ {0} /\ WsQueueLen \in Nat \ {0}
  /\ EchoHandler \in Writers /\ SwitchAutos \subseteq Writers /\ Rewritten \subseteq Settings
  /\ \A a \in SwitchAutos : {a, OnOff(a)} \subseteq Settings
  BY ParmsAssumption, FdsAssumption, WsQueueLenAssumption, SwitchAssumption
     DEF Parms, Statuses, Settings, Slots, Writers

(* A request is one for all pages, or the start of one. *)
LEMMA RequestLemma ==
  ASSUME NEW r \in Requests
  PROVE  \/ \E p \in Parms : r = ToAll(p) /\ r.idx = p /\ r.fd = 0
         \/ \E h \in Handles, fd \in Fds : r = Start(h, fd) /\ r.idx = -1 /\ r.hd = h /\ r.fd = fd
  BY DEF Requests, ToAll, Start

(* An entry in use has a server's handle and a socket's number. *)
LEMMA EntryLemma ==
  ASSUME NEW e \in Entries
  PROVE  /\ e.fd = 0 => e = Empty
         /\ e.fd # 0 => e.hd \in Handles /\ e.fd \in Fds /\ e = [hd |-> e.hd, fd |-> e.fd]
  BY FdsAssumption DEF Entries, Empty

(* AddSocket fills one empty place at most, with what it is asked to add. *)
LEMMA AddSocketLemma ==
  ASSUME NEW s \in [Slots -> Entries], NEW h \in Handles, NEW fd \in Fds,
         NEW t, t = AddSocket(s, Start(h, fd))
  PROVE  /\ t \in [Slots -> Entries]
         /\ \A i \in Slots : t[i] # s[i] => s[i].fd = 0 /\ t[i] = [hd |-> h, fd |-> fd]
<1>1. CASE t = s
  BY <1>1
<1>2. CASE t # s
  <2>1. Start(h, fd).hd = h /\ Start(h, fd).fd = fd
    BY DEF Start
  <2> DEFINE candidates == {i \in Slots : s[i].fd \in {0, Start(h, fd).fd}}
             first == Min(candidates)
  <2>2. /\ s[first].fd = 0
        /\ t = [s EXCEPT ![first] = [hd |-> Start(h, fd).hd, fd |-> Start(h, fd).fd]]
    <3>1. t = IF candidates # {} /\ s[first].fd = 0
              THEN [s EXCEPT ![first] = [hd |-> Start(h, fd).hd, fd |-> Start(h, fd).fd]]
              ELSE s
      BY Zenon DEF AddSocket
    <3> HIDE DEF first, candidates
    <3>2. candidates # {} /\ s[first].fd = 0
      BY <1>2, <3>1, Zenon
    <3> QED
      BY <3>1, <3>2, Zenon
  <2> HIDE DEF first
  <2>3. PICK n : s[n].fd = 0 /\ t = [s EXCEPT ![n] = [hd |-> h, fd |-> fd]]
    BY <2>1, <2>2, Zenon
  <2>4. [hd |-> h, fd |-> fd] \in Entries
    BY DEF Entries
  <2> QED
    BY <2>3, <2>4
<1> QED
  BY <1>1, <1>2

(* RemoveSocket empties the first place of a socket, and no other. *)
LEMMA RemoveSocketLemma ==
  ASSUME NEW s \in [Slots -> Entries], NEW fd, NEW t, t = RemoveSocket(s, fd)
  PROVE  /\ t \in [Slots -> Entries]
         /\ \A i \in Slots : t[i] # s[i] =>
              /\ s[i].fd = fd /\ t[i] = Empty
              /\ \A j \in Slots : s[j].fd = fd => i <= j
<1> DEFINE same == {i \in Slots : s[i].fd = fd}
<1>1. CASE same = {}
  <2>1. t = s
    BY <1>1 DEF RemoveSocket
  <2> QED
    BY <2>1
<1>2. CASE same # {}
  <2>1. t = [s EXCEPT ![Min(same)] = Empty]
    BY <1>2 DEF RemoveSocket
  <2>2. same \in SUBSET Nat
    BY ConstantsLemma
  <2>3. Min(same) \in same /\ \A j \in same : Min(same) <= j
    BY <1>2, <2>2, MinLemma
  <2> QED
    BY <2>1, <2>3 DEF Entries
<1> QED
  BY <1>1, <1>2

(* What sending a parameter does to the table and to the pages. *)
LEMMA SendSocketLemma ==
  ASSUME TypeOK, NEW hd, NEW fd, NEW p, SendSocket(hd, fd, p)
  PROVE  /\ slots' \in [Slots -> Entries] /\ stale' \in [Fds -> SUBSET Parms]
         /\ \A g \in Fds : stale'[g] \subseteq stale[g]
         /\ \A i \in Slots : slots'[i] # slots[i] =>
              /\ slots[i].fd = fd /\ slots'[i] = Empty /\ ~(IsOpen(fd) /\ hd = running)
              /\ \A j \in Slots : slots[j].fd = fd => i <= j
         /\ IsOpen(fd) /\ hd = running => p \notin stale'[fd]
<1>1. slots \in [Slots -> Entries] /\ stale \in [Fds -> SUBSET Parms]
  BY DEF TypeOK, Entries
<1>2. CASE IsOpen(fd) /\ Shows(fd, p) /\ slots' = slots
  <2>1. stale' = [stale EXCEPT ![fd] = @ \ {p}]
    BY <1>2 DEF Shows
  <2>2. fd \in Fds
    BY <1>2 DEF IsOpen
  <2> QED
    BY <1>1, <1>2, <2>1, <2>2
<1>3. CASE ~(IsOpen(fd) /\ hd = running) /\ slots' = RemoveSocket(slots, fd) /\ stale' = stale
  BY <1>1, <1>3, RemoveSocketLemma
<1> QED
  BY <1>2, <1>3 DEF SendSocket

-----------------------------------------------------------------------------
(* Types *)

(* Posting a request keeps the queue a bounded queue of requests. *)
LEMMA PostLemma ==
  ASSUME TypeInv, NEW r \in Requests, sendQ' = QueueSend(sendQ, WsQueueLen, r)
  PROVE  sendQ' \in Seq(Requests) /\ Len(sendQ') <= WsQueueLen
  BY ConstantsLemma DEF TypeInv, TypeOK, QueueSend, QueueFull

(* New values are unknown to the open pages. *)
LEMMA ChangeLemma ==
  ASSUME TypeOK, NEW S \in SUBSET Parms, Change(S)
  PROVE  /\ stale' \in [Fds -> SUBSET Parms]
         /\ \A fd \in Fds : stale'[fd] \subseteq stale[fd] \cup S
         /\ \A fd \in Fds : page[fd] = "closed" => stale'[fd] = {}
  BY DEF TypeOK, Change, IsOpen

(* The next place of the table is one, and after the last the loop ends. *)
LEMMA NextSockLemma ==
  ASSUME sock \in Slots, NextSock
  PROVE  /\ sock' \in Slots
         /\ \/ sock < NSlots /\ sock' = sock + 1 /\ wpc' = wpc /\ req' = req
            \/ sock = NSlots /\ sock' = 1 /\ wpc' = "receive" /\ req' = ToAll(0)
  BY FdsAssumption DEF NextSock, Slots

(* Every step keeps the types. *)
LEMMA TypeStep == TypeInv /\ [Next]_vars => TypeInv'
<1> SUFFICES ASSUME TypeInv, [Next]_vars PROVE TypeInv'
  OBVIOUS
<1>1. /\ TypeOK /\ sendQ \in Seq(Requests) /\ req \in Requests
      /\ slots \in [Slots -> Entries] /\ sock \in Slots /\ idx \in Parms
      /\ wpc \in {"receive", "greet", "all", "status"}
  BY DEF TypeInv, TypeOK, Entries
<1>2. CASE ServerStarts \/ ServerStops \/ PageCloses
  <2>1. /\ UNCHANGED <<toPost, sendQ, slots, timeout, cntsock, wpc, req, sock, idx, unposted>>
        /\ running' \in Handles \cup {NULL}
    BY <1>1, <1>2 DEF ServerStarts, ServerStops, PageCloses, publisher, TypeOK
  <2>2. /\ page' \in [Fds -> {"closed", "posted", "dropped"}]
        /\ stale' \in [Fds -> SUBSET Parms]
    BY <1>1, <1>2 DEF ServerStarts, ServerStops, PageCloses, pages, TypeOK
  <2> QED
    BY <2>1, <2>2 DEF TypeInv, TypeOK
<1>3. CASE StatusChanges \/ ThresholdRewritten \/ WsSetting \/ \E a \in SwitchAutos : SwitchStores(a)
  <2>1. PICK S \in SUBSET Parms : Change(S)
    <3>1. CASE StatusChanges
      BY <3>1, ConstantsLemma DEF StatusChanges
    <3>2. CASE ThresholdRewritten
      BY <3>2, ConstantsLemma DEF ThresholdRewritten
    <3>3. CASE WsSetting
      BY <3>3, ConstantsLemma DEF WsSetting
    <3>4. CASE \E a \in SwitchAutos : SwitchStores(a)
      <4>1. PICK a \in SwitchAutos : Change({a, OnOff(a)})
        BY <3>4 DEF SwitchStores
      <4>2. {a, OnOff(a)} \subseteq Parms
        BY ConstantsLemma
      <4> QED
        BY <4>1, <4>2
    <3> QED
      BY <1>3, <3>1, <3>2, <3>3, <3>4
  <2>2. stale' \in [Fds -> SUBSET Parms]
    BY <1>1, <2>1, ChangeLemma
  <2>3. toPost' \in [Writers -> Seq(Settings)] /\ unposted' \subseteq Settings
    <3>0. toPost \in [Writers -> Seq(Settings)] /\ unposted \subseteq Settings
      BY <1>1 DEF TypeOK
    <3>1. CASE StatusChanges
      BY <3>0, <3>1 DEF StatusChanges
    <3>2. CASE ThresholdRewritten
      BY <3>0, <3>2, ConstantsLemma DEF ThresholdRewritten
    <3>3. CASE WsSetting
      <4>1. PICK p \in Settings : toPost' = [toPost EXCEPT ![EchoHandler] = <<p>>]
        BY <3>3 DEF WsSetting
      <4>2. <<p>> \in Seq(Settings) /\ unposted' = unposted
        BY <3>3 DEF WsSetting
      <4> QED
        BY <3>0, <4>1, <4>2
    <3>4. CASE \E a \in SwitchAutos : SwitchStores(a)
      <4>1. PICK a \in SwitchAutos :
              toPost' = [toPost EXCEPT ![a] = <<a, OnOff(a)>>] /\ unposted' = unposted
        BY <3>4 DEF SwitchStores
      <4>2. a \in Settings /\ OnOff(a) \in Settings
        BY ConstantsLemma
      <4>3. <<a, OnOff(a)>> \in Seq(Settings)
        BY <4>2
      <4> QED
        BY <3>0, <4>1, <4>3
    <3> QED
      BY <1>3, <3>1, <3>2, <3>3, <3>4
  <2>4. UNCHANGED <<running, page, sendQ, slots, timeout, cntsock, wpc, req, sock, idx>>
    BY <1>3 DEF StatusChanges, ThresholdRewritten, WsSetting, SwitchStores, publisher
  <2> QED
    BY <1>1, <2>2, <2>3, <2>4 DEF TypeInv, TypeOK
<1>4. CASE WsStart
  <2>1. PICK fd \in Fds :
          /\ page' = [page EXCEPT ![fd] =
                        IF QueueFull(sendQ, WsQueueLen) THEN "dropped" ELSE "posted"]
          /\ stale' = [stale EXCEPT ![fd] = Parms]
          /\ sendQ' = QueueSend(sendQ, WsQueueLen, Start(running, fd))
    BY <1>4 DEF WsStart
  <2>2. Start(running, fd) \in Requests
    BY <1>1, <1>4 DEF WsStart, TypeOK, Requests
  <2>3. sendQ' \in Seq(Requests) /\ Len(sendQ') <= WsQueueLen
    BY <2>1, <2>2, PostLemma
  <2>4. /\ page' \in [Fds -> {"closed", "posted", "dropped"}]
        /\ stale' \in [Fds -> SUBSET Parms]
    BY <1>1, <2>1 DEF TypeOK
  <2> QED
    BY <1>1, <1>4, <2>3, <2>4 DEF WsStart, publisher, TypeInv, TypeOK
<1>5. CASE StatusPosts
  <2>1. PICK p \in Statuses : sendQ' = QueueSend(sendQ, WsQueueLen, ToAll(p))
    BY <1>5 DEF StatusPosts
  <2>2. ToAll(p) \in Requests
    BY ConstantsLemma DEF Requests
  <2>3. sendQ' \in Seq(Requests) /\ Len(sendQ') <= WsQueueLen
    BY <2>1, <2>2, PostLemma
  <2> QED
    BY <1>1, <1>5, <2>3 DEF StatusPosts, pages, publisher, TypeInv, TypeOK
<1>6. CASE \E w \in Writers : Post(w)
  <2> DEFINE p(w) == Head(toPost[w])
  <2>1. PICK w \in Writers :
          /\ toPost[w] # <<>> /\ toPost' = [toPost EXCEPT ![w] = Tail(@)]
          /\ sendQ' = QueueSend(sendQ, WsQueueLen, ToAll(p(w)))
          /\ unposted' = IF QueueFull(sendQ, WsQueueLen)
                         THEN unposted \cup {p(w)} ELSE unposted \ {p(w)}
          /\ UNCHANGED <<running, pages, publisher>>
    BY <1>6 DEF Post
  <2>2. toPost \in [Writers -> Seq(Settings)] /\ unposted \subseteq Settings
    BY <1>1 DEF TypeOK
  <2>3. p(w) \in Settings /\ Tail(toPost[w]) \in Seq(Settings)
    BY <2>1, <2>2
  <2>4. ToAll(p(w)) \in Requests
    BY <2>3, ConstantsLemma DEF Requests
  <2>5. sendQ' \in Seq(Requests) /\ Len(sendQ') <= WsQueueLen
    BY <2>1, <2>4, PostLemma
  <2>6. toPost' \in [Writers -> Seq(Settings)]
    BY <2>1, <2>2, <2>3
  <2>7. unposted' \subseteq Settings
    BY <2>1, <2>2, <2>3
  <2> QED
    BY <1>1, <2>1, <2>5, <2>6, <2>7 DEF pages, publisher, TypeInv, TypeOK
<1>7. CASE Receive
  <2>1. /\ sendQ # <<>> /\ sendQ' = Tail(sendQ) /\ req' = Head(sendQ) /\ timeout' = "5s"
        /\ UNCHANGED <<running, page, stale, toPost, cntsock, sock, idx, unposted>>
    BY <1>7 DEF Receive, pages
  <2>2. sendQ' \in Seq(Requests) /\ req' \in Requests /\ Len(sendQ') <= WsQueueLen
    BY <1>1, <2>1, ConstantsLemma DEF TypeOK
  <2>3. CASE req'.idx < 0
    <3>1. wpc' = "greet" /\ slots' = AddSocket(slots, req')
      BY <1>7, <2>3 DEF Receive
    <3>2. PICK h \in Handles, fd \in Fds : req' = Start(h, fd) /\ req'.idx = -1
      BY <2>2, <2>3, RequestLemma, ConstantsLemma
    <3>3. slots' \in [Slots -> Entries]
      BY <1>1, <3>1, <3>2, AddSocketLemma
    <3> QED
      BY <1>1, <2>1, <2>2, <3>1, <3>2, <3>3 DEF TypeInv, TypeOK, Entries
  <2>4. CASE ~(req'.idx < 0)
    <3>1. wpc' = "all" /\ slots' = slots
      BY <1>7, <2>4 DEF Receive
    <3> QED
      BY <1>1, <2>1, <2>2, <3>1 DEF TypeInv, TypeOK
  <2> QED
    BY <2>3, <2>4
<1>8. CASE Greet
  <2>1. /\ slots' \in [Slots -> Entries] /\ stale' \in [Fds -> SUBSET Parms]
    BY <1>1, <1>8, SendSocketLemma DEF Greet
  <2>2. /\ idx' \in Parms /\ req' \in Requests /\ wpc' \in {"greet", "receive"}
        /\ wpc' = "greet" => req'.idx = -1
    <3>1. CASE idx < NParms - 1
      BY <1>1, <1>8, <3>1, ConstantsLemma, ParmsAssumption DEF Greet, TypeInv
    <3>2. CASE ~(idx < NParms - 1)
      BY <1>8, <3>2, ConstantsLemma DEF Greet, Requests
    <3> QED
      BY <3>1, <3>2
  <2> QED
    BY <1>1, <1>8, <2>1, <2>2 DEF Greet, TypeInv, TypeOK, Entries
<1>9. CASE All
  <2>1. /\ slots' \in [Slots -> Entries] /\ stale' \in [Fds -> SUBSET Parms]
    BY <1>1, <1>9, SendSocketLemma DEF All, TypeOK
  <2>2. sock' \in Slots /\ req' \in Requests /\ wpc' \in {"all", "receive"}
    BY <1>1, <1>9, NextSockLemma, ConstantsLemma DEF All, Requests
  <2> QED
    BY <1>1, <1>9, <2>1, <2>2 DEF All, TypeInv, TypeOK, Entries
<1>10. CASE Status
  <2>1. /\ wpc = "status" /\ UNCHANGED <<running, page, toPost, sendQ, unposted>>
        /\ timeout' \in {"forever", "5s"}
    BY <1>1, <1>10 DEF Status, TypeOK
  <2>2. CASE idx = 0 /\ slots[sock].fd = 0
    <3>1. NextSock /\ UNCHANGED <<slots, stale, cntsock, idx>>
      BY <1>10, <2>2 DEF Status
    <3>2. sock' \in Slots /\ req' \in Requests /\ wpc' \in {"status", "receive"}
      BY <1>1, <2>1, <3>1, NextSockLemma, ConstantsLemma DEF Requests
    <3> QED
      BY <1>1, <2>1, <3>1, <3>2 DEF TypeInv, TypeOK
  <2>3. CASE ~(idx = 0 /\ slots[sock].fd = 0)
    <3>1. SendSocket(slots[sock].hd, slots[sock].fd, idx) /\ cntsock' = 1
      BY <1>10, <2>3 DEF Status
    <3>2. slots' \in [Slots -> Entries] /\ stale' \in [Fds -> SUBSET Parms]
      BY <1>1, <3>1, SendSocketLemma
    <3>3. /\ sock' \in Slots /\ idx' \in Parms /\ req' \in Requests
          /\ wpc' \in {"status", "receive"}
      <4>1. CASE idx < NStatus - 1
        BY <1>1, <1>10, <2>3, <4>1, ConstantsLemma, ParmsAssumption DEF Status
      <4>2. CASE ~(idx < NStatus - 1)
        BY <1>1, <1>10, <2>1, <2>3, <4>2, NextSockLemma, ConstantsLemma DEF Status, Requests
      <4> QED
        BY <4>1, <4>2
    <3> QED
      BY <1>1, <2>1, <3>1, <3>2, <3>3 DEF TypeInv, TypeOK, Entries
  <2> QED
    BY <2>2, <2>3
<1>11. CASE Timeout \/ UNCHANGED vars
  BY <1>11 DEF Timeout, vars, pages, publisher, TypeInv, TypeOK
<1> QED
  BY <1>2, <1>3, <1>4, <1>5, <1>6, <1>7, <1>8, <1>9, <1>10, <1>11
     DEF Next, World, Settling, Publisher

(* Initially there are no pages, no messages and no sockets. *)
LEMMA TypeInit == Init => TypeInv
<1> SUFFICES ASSUME Init PROVE TypeInv
  OBVIOUS
<1>1. sendQ \in Seq(Requests) /\ Len(sendQ) = 0 /\ 0 <= WsQueueLen
  BY ConstantsLemma DEF Init
<1>2. req \in Requests /\ 0 \in Parms /\ 1 \in Slots
  BY ConstantsLemma DEF Init, Requests
<1> QED
  BY <1>1, <1>2 DEF Init, TypeInv, TypeOK

(* The queue stays within its capacity, and the table holds only handles    *)
(* and numbers of sockets.                                                  *)
LEMMA TypeInvCorrect == Spec => []TypeInv
  BY TypeInit, TypeStep, PTL DEF Spec

THEOREM TypeCorrect == Spec => []TypeOK
<1>1. TypeInv => TypeOK
  BY DEF TypeInv
<1> QED
  BY <1>1, TypeInvCorrect, PTL

-----------------------------------------------------------------------------
(* Pages in the table *)

(* A step of the task that only sends keeps the places of other sockets: a  *)
(* socket it finds in the table was there, with no more to be shown.        *)
LEMMA SentLemma ==
  ASSUME TypeOK, running' = running, page' = page, NEW hd, NEW g, NEW q,
         SendSocket(hd, g, q) \/ UNCHANGED <<slots, stale>>,
         NEW fd \in Fds
  PROVE  /\ stale'[fd] \subseteq stale[fd]
         /\ \A i \in Slots : slots'[i] = [hd |-> running, fd |-> fd] => slots[i] = slots'[i]
         /\ Registered(fd)' => Registered(fd)
<1>1. /\ stale'[fd] \subseteq stale[fd]
      /\ \A i \in Slots : slots'[i] # slots[i] => slots'[i] = Empty
  BY SendSocketLemma
<1>2. fd # 0
  BY ConstantsLemma
<1>3. \A i \in Slots : slots'[i] = [hd |-> running, fd |-> fd] => slots[i] = slots'[i]
  BY <1>1, <1>2 DEF Empty
<1> QED
  BY <1>1, <1>3 DEF Registered, IsOpen

(* A page loses its place only to a failed send to its number. *)
LEMMA RemovedLemma ==
  ASSUME TypeOK, NEW hd, NEW g, NEW q, SendSocket(hd, g, q), NEW fd \in Fds,
         running' = running, IsOpen(fd)', Registered(fd), ~Registered(fd)'
  PROVE  g = fd /\ hd # running
<1>1. PICK i \in Slots : slots[i] = [hd |-> running, fd |-> fd]
  BY DEF Registered
<1>2. slots'[i] # slots[i]
  BY <1>1 DEF Registered
<1>3. slots[i].fd = g /\ ~(IsOpen(g) /\ hd = running)
  BY <1>2, SendSocketLemma
<1>4. IsOpen(fd)
  BY DEF Registered
<1> QED
  BY <1>1, <1>3, <1>4

(* An open page stays in the table: nothing but a send with the handle of   *)
(* an earlier server, to its number, takes it out.                          *)
THEOREM LivePageKeptCorrect == Spec => LivePageKept
<1>1. TypeInv /\ [Next]_vars =>
        [\A fd \in Fds :
           Registered(fd) /\ IsOpen(fd)' /\ running' = running
             => \/ Registered(fd)'
                \/ \E e \in {req} \cup {slots[i] : i \in Slots} : e.fd = fd /\ e.hd # running]_vars
  <2> SUFFICES ASSUME TypeInv, Next, NEW fd \in Fds,
                      Registered(fd), IsOpen(fd)', running' = running, ~Registered(fd)'
               PROVE  \E e \in {req} \cup {slots[i] : i \in Slots} : e.fd = fd /\ e.hd # running
    OBVIOUS
  <2>1. TypeOK /\ slots \in [Slots -> Entries] /\ sock \in Slots
    BY DEF TypeInv, TypeOK, Entries
  <2>2. PICK k \in Slots : slots[k] = [hd |-> running, fd |-> fd]
    BY DEF Registered
  <2>3. slots' # slots
    BY <2>2 DEF Registered
  <2>4. CASE Receive
    <3>1. req'.idx < 0 /\ slots' = AddSocket(slots, req')
      BY <2>3, <2>4 DEF Receive
    <3>2. req' \in Requests
      BY <2>4 DEF Receive, TypeInv
    <3>3. PICK h \in Handles, g \in Fds : req' = Start(h, g)
      BY <3>1, <3>2, RequestLemma, ConstantsLemma
    <3>4. slots'[k] # slots[k] => slots'[k] = [hd |-> h, fd |-> g] /\ slots[k].fd = 0
      <4>1. slots' = AddSocket(slots, Start(h, g))
        BY <3>1, <3>3
      <4> QED
        BY <2>1, <4>1, AddSocketLemma
    <3>5. slots'[k] = slots[k]
      BY <2>2, <3>4, ConstantsLemma
    <3> QED
      BY <2>2, <3>5 DEF Registered
  <2>5. CASE Greet
    <3>1. req.fd = fd /\ req.hd # running
      BY <2>1, <2>5, RemovedLemma DEF Greet
    <3> QED
      BY <3>1
  <2>6. CASE All \/ Status
    <3>1. PICK q : SendSocket(slots[sock].hd, slots[sock].fd, q)
      BY <2>3, <2>6 DEF All, Status
    <3>2. slots[sock].fd = fd /\ slots[sock].hd # running
      BY <2>1, <3>1, RemovedLemma
    <3> QED
      BY <2>1, <3>2
  <2>7. CASE World \/ Settling \/ Timeout
    BY <2>3, <2>7 DEF World, ServerStarts, ServerStops, PageCloses, StatusChanges,
       StatusPosts, ThresholdRewritten, Settling, WsStart, WsSetting, SwitchStores, Post,
       Timeout, publisher
  <2> QED
    BY <2>4, <2>5, <2>6, <2>7 DEF Next, Publisher
<1> QED
  BY <1>1, TypeInvCorrect, PTL DEF Spec, LivePageKept

-----------------------------------------------------------------------------
(* Settings *)

(* Only open pages can lack a value, and only a server has open pages. *)
LEMMA PageStep == TypeInv /\ PageInv /\ [Next]_vars => PageInv'
<1> SUFFICES ASSUME TypeInv, PageInv, [Next]_vars PROVE PageInv'
  OBVIOUS
<1> USE DEF PageInv
<1>1. TypeOK /\ page \in [Fds -> {"closed", "posted", "dropped"}]
      /\ stale \in [Fds -> SUBSET Parms]
  BY DEF TypeInv, TypeOK
<1>2. CASE ServerStarts
  BY <1>2, HandlesAssumption DEF ServerStarts, pages
<1>3. CASE ServerStops
  BY <1>3 DEF ServerStops
<1>4. CASE PageCloses
  BY <1>1, <1>4 DEF PageCloses
<1>5. CASE StatusChanges \/ ThresholdRewritten \/ WsSetting \/ \E a \in SwitchAutos : SwitchStores(a)
  <2>1. page' = page /\ running' = running /\ \E S : Change(S)
    BY <1>5 DEF StatusChanges, ThresholdRewritten, WsSetting, SwitchStores
  <2>2. \A fd \in Fds : page[fd] = "closed" => stale'[fd] = {}
    BY <2>1 DEF Change, IsOpen
  <2> QED
    BY <1>1, <2>1, <2>2
<1>6. CASE WsStart
  BY <1>1, <1>6 DEF WsStart
<1>7. CASE Greet \/ All \/ Status
  <2>1. page' = page /\ running' = running
    BY <1>7 DEF Greet, All, Status
  <2>2. PICK hd, g, q : SendSocket(hd, g, q) \/ UNCHANGED <<slots, stale>>
    BY <1>7 DEF Greet, All, Status
  <2>3. \A fd \in Fds : stale'[fd] \subseteq stale[fd]
    BY <1>1, <2>1, <2>2, SentLemma
  <2> QED
    BY <2>1, <2>3
<1>8. CASE StatusPosts \/ (\E w \in Writers : Post(w)) \/ Receive \/ Timeout \/ UNCHANGED vars
  BY <1>8 DEF StatusPosts, Post, Receive, Timeout, vars, pages
<1> QED
  BY <1>2, <1>3, <1>4, <1>5, <1>6, <1>7, <1>8 DEF Next, World, Settling, Publisher

(* The loops end with their variables as they began. *)
LEMMA LoopStep == TypeInv /\ LoopInv /\ [Next]_vars => LoopInv'
<1> SUFFICES ASSUME TypeInv, LoopInv, [Next]_vars PROVE LoopInv'
  OBVIOUS
<1> USE DEF LoopInv
<1>1. sock \in Slots
  BY DEF TypeInv, TypeOK
<1>2. CASE Receive \/ Greet
  BY <1>2 DEF Receive, Greet
<1>3. CASE All
  BY <1>1, <1>3, NextSockLemma DEF All
<1>4. CASE Status
  <2>1. CASE idx = 0 /\ slots[sock].fd = 0
    BY <1>1, <1>4, <2>1, NextSockLemma DEF Status
  <2>2. CASE ~(idx = 0 /\ slots[sock].fd = 0) /\ idx < NStatus - 1
    BY <1>4, <2>2 DEF Status
  <2>3. CASE ~(idx = 0 /\ slots[sock].fd = 0) /\ ~(idx < NStatus - 1)
    BY <1>1, <1>4, <2>3, NextSockLemma DEF Status
  <2> QED
    BY <2>1, <2>2, <2>3
<1>5. CASE World \/ Settling \/ Timeout \/ UNCHANGED vars
  BY <1>5 DEF World, ServerStarts, ServerStops, PageCloses, StatusChanges, StatusPosts,
     ThresholdRewritten, Settling, WsStart, WsSetting, SwitchStores, Post, Timeout,
     publisher, vars
<1> QED
  BY <1>2, <1>3, <1>4, <1>5 DEF Next, Publisher

(* What was posted stays posted. *)
LEMMA KeptLemma ==
  ASSUME TypeInv, NEW r, sendQ' = QueueSend(sendQ, WsQueueLen, r),
         NEW i \in 1 .. Len(sendQ)
  PROVE  i \in 1 .. Len(sendQ') /\ sendQ'[i] = sendQ[i]
<1>1. sendQ \in Seq(Requests)
  BY DEF TypeInv
<1> QED
  BY <1>1 DEF QueueSend, QueueFull

(* What is posted and not dropped is in the queue. *)
LEMMA PostedLemma ==
  ASSUME TypeInv, NEW r, sendQ' = QueueSend(sendQ, WsQueueLen, r),
         ~QueueFull(sendQ, WsQueueLen)
  PROVE  \E i \in 1 .. Len(sendQ') : sendQ'[i] = r
<1>1. sendQ \in Seq(Requests)
  BY DEF TypeInv
<1>2. Len(sendQ') = Len(sendQ) + 1 /\ sendQ'[Len(sendQ) + 1] = r /\ Len(sendQ) \in Nat
  BY <1>1 DEF QueueSend
<1> QED
  BY <1>2

(* The writers post what they owe; what CheckBathHum owes is in unposted. *)
LEMMA PostingStep ==
  ASSUME TypeInv, PageInv, SettingsInv, World \/ Settling,
         NEW fd \in Fds, NEW p \in Settings,
         page'[fd] = "posted", Registered(fd)', p \in stale'[fd] \ unposted'
  PROVE  OnItsWay(fd, p)'
<1>1. /\ TypeOK /\ page \in [Fds -> {"closed", "posted", "dropped"}]
      /\ stale \in [Fds -> SUBSET Parms]
  BY DEF TypeInv, TypeOK
<1>2. slots' = slots /\ UNCHANGED <<wpc, req, sock, idx>>
  BY DEF World, ServerStarts, ServerStops, PageCloses, StatusChanges, StatusPosts,
     ThresholdRewritten, Settling, WsStart, WsSetting, SwitchStores, Post, publisher
<1>21. /\ toPost \in [Writers -> Seq(Settings)]
       /\ EchoHandler \in Writers /\ SwitchAutos \subseteq Writers
  BY <1>1, ConstantsLemma DEF TypeOK
<1>3. CASE ServerStarts \/ ServerStops
  BY <1>3 DEF ServerStarts, ServerStops, pages, PageInv
<1>4. CASE PageCloses
  <2>1. /\ page[fd] = "posted" /\ stale'[fd] = stale[fd]
        /\ UNCHANGED <<running, toPost, sendQ, unposted>>
    BY <1>1, <1>4 DEF PageCloses
  <2> QED
    BY <1>2, <2>1 DEF SettingsInv, Registered, IsOpen, OnItsWay
<1>5. CASE StatusChanges \/ StatusPosts \/ ThresholdRewritten
  <2>1. \/ stale' = stale
        \/ \E q \in Parms : Change({q}) /\ (q \in Statuses \/ q \in unposted')
    BY <1>5, ConstantsLemma DEF StatusChanges, StatusPosts, ThresholdRewritten, pages
  <2>2. p \in stale[fd]
    <3>1. CASE stale' = stale
      BY <3>1
    <3>2. CASE \E q \in Parms : Change({q}) /\ (q \in Statuses \/ q \in unposted')
      <4>1. PICK q \in Parms : Change({q}) /\ (q \in Statuses \/ q \in unposted')
        BY <3>2
      <4>2. stale'[fd] \subseteq stale[fd] \cup {q}
        BY <1>1, <4>1, ChangeLemma
      <4> QED
        BY <4>1, <4>2, ConstantsLemma
    <3> QED
      BY <2>1, <3>1, <3>2
  <2>3. \/ sendQ' = sendQ
        \/ \E r \in {ToAll(q) : q \in Statuses} : sendQ' = QueueSend(sendQ, WsQueueLen, r)
    BY <1>5 DEF StatusChanges, StatusPosts, ThresholdRewritten
  <2>4. \A i \in 1 .. Len(sendQ) : i \in 1 .. Len(sendQ') /\ sendQ'[i] = sendQ[i]
    BY <2>3, KeptLemma
  <2>5. UNCHANGED <<running, page, toPost>> /\ unposted \subseteq unposted'
    BY <1>5 DEF StatusChanges, StatusPosts, ThresholdRewritten, pages
  <2>6. OnItsWay(fd, p)
    BY <1>2, <2>2, <2>5 DEF SettingsInv, Registered, IsOpen
  <2> QED
    BY <1>2, <2>4, <2>5, <2>6 DEF OnItsWay
<1>6. CASE WsStart
  <2>1. PICK g \in Fds :
          /\ page' = [page EXCEPT ![g] =
                        IF QueueFull(sendQ, WsQueueLen) THEN "dropped" ELSE "posted"]
          /\ stale' = [stale EXCEPT ![g] = Parms]
          /\ sendQ' = QueueSend(sendQ, WsQueueLen, Start(running, g))
    BY <1>6 DEF WsStart
  <2>2. UNCHANGED <<running, toPost, unposted>>
    BY <1>6 DEF WsStart
  <2>3. CASE fd = g
    <3>1. ~QueueFull(sendQ, WsQueueLen)
      BY <1>1, <2>1, <2>3
    <3>2. \E i \in 1 .. Len(sendQ') : sendQ'[i] = Start(running, fd)
      BY <2>1, <2>3, <3>1, PostedLemma
    <3> QED
      BY <2>2, <3>2 DEF OnItsWay
  <2>4. CASE fd # g
    <3>1. page'[fd] = page[fd] /\ stale'[fd] = stale[fd]
      BY <1>1, <2>1, <2>4
    <3>2. OnItsWay(fd, p)
      BY <1>2, <2>2, <3>1 DEF SettingsInv, Registered, IsOpen
    <3>3. \A i \in 1 .. Len(sendQ) : i \in 1 .. Len(sendQ') /\ sendQ'[i] = sendQ[i]
      BY <2>1, KeptLemma
    <3> QED
      BY <1>2, <2>2, <3>2, <3>3 DEF OnItsWay
  <2> QED
    BY <2>3, <2>4
<1>7. CASE WsSetting \/ \E a \in SwitchAutos : SwitchStores(a)
  <2>1. PICK w \in Writers, s \in Seq(Settings) :
          /\ Change({s[i] : i \in 1 .. Len(s)})
          /\ toPost[w] = <<>> /\ toPost' = [toPost EXCEPT ![w] = s]
    <3>1. CASE WsSetting
      <4>1. PICK q \in Settings :
              Change({q}) /\ toPost[EchoHandler] = <<>>
              /\ toPost' = [toPost EXCEPT ![EchoHandler] = <<q>>]
        BY <3>1 DEF WsSetting
      <4> DEFINE s == <<q>>
      <4>2. s \in Seq(Settings) /\ {s[i] : i \in 1 .. Len(s)} = {q}
        OBVIOUS
      <4> QED
        BY <1>21, <4>1, <4>2
    <3>2. CASE \E a \in SwitchAutos : SwitchStores(a)
      <4>1. PICK a \in SwitchAutos :
              Change({a, OnOff(a)}) /\ toPost[a] = <<>>
              /\ toPost' = [toPost EXCEPT ![a] = <<a, OnOff(a)>>]
        BY <3>2 DEF SwitchStores
      <4>2. a \in Settings /\ OnOff(a) \in Settings
        BY ConstantsLemma
      <4> DEFINE s == <<a, OnOff(a)>>
      <4>3. s \in Seq(Settings) /\ {s[i] : i \in 1 .. Len(s)} = {a, OnOff(a)}
        BY <4>2
      <4> QED
        BY <1>21, <4>1, <4>3
    <3> QED
      BY <1>7, <3>1, <3>2
  <2>2. UNCHANGED <<running, page, sendQ, unposted>>
    BY <1>7 DEF WsSetting, SwitchStores
  <2>3. toPost'[w] = s /\ \A v \in Writers \ {w} : toPost'[v] = toPost[v]
    BY <1>21, <2>1
  <2>4. CASE p \in {s[i] : i \in 1 .. Len(s)}
    <3>1. PICK i \in 1 .. Len(s) : s[i] = p
      BY <2>4
    <3>2. \E v \in Writers : \E n \in 1 .. Len(toPost'[v]) : toPost'[v][n] = p
      BY <2>3, <3>1
    <3> QED
      BY <3>2 DEF OnItsWay
  <2>5. CASE p \notin {s[i] : i \in 1 .. Len(s)}
    <3>1. {s[i] : i \in 1 .. Len(s)} \subseteq Parms
      <4>1. \A i \in 1 .. Len(s) : s[i] \in Settings
        OBVIOUS
      <4> QED
        BY <4>1, ConstantsLemma
    <3>2. p \in stale[fd]
      BY <1>1, <2>1, <2>5, <3>1, ChangeLemma
    <3>3. OnItsWay(fd, p)
      BY <1>2, <2>2, <3>2 DEF SettingsInv, Registered, IsOpen
    <3>4. \A v \in Writers : \A i \in 1 .. Len(toPost[v]) : toPost'[v] = toPost[v]
      BY <2>1, <2>3
    <3> QED
      BY <1>2, <2>2, <3>3, <3>4 DEF OnItsWay
  <2> QED
    BY <2>4, <2>5
<1>8. CASE \E w \in Writers : Post(w)
  <2> DEFINE q(w) == Head(toPost[w])
  <2>1. PICK w \in Writers :
          /\ toPost[w] # <<>> /\ toPost' = [toPost EXCEPT ![w] = Tail(@)]
          /\ sendQ' = QueueSend(sendQ, WsQueueLen, ToAll(q(w)))
          /\ unposted' = IF QueueFull(sendQ, WsQueueLen)
                         THEN unposted \cup {q(w)} ELSE unposted \ {q(w)}
          /\ UNCHANGED <<running, page, stale>>
    BY <1>8 DEF Post, pages
  <2>2. CASE p = q(w)
    <3>1. ~QueueFull(sendQ, WsQueueLen)
      BY <2>1, <2>2
    <3>2. \E i \in 1 .. Len(sendQ') : sendQ'[i] = ToAll(p)
      BY <2>1, <2>2, <3>1, PostedLemma
    <3> QED
      BY <3>2 DEF OnItsWay
  <2>3. CASE p # q(w)
    <3>1. p \notin unposted
      BY <2>1, <2>3
    <3>2. OnItsWay(fd, p)
      BY <1>2, <2>1, <3>1 DEF SettingsInv, Registered, IsOpen
    <3>3. \A i \in 1 .. Len(sendQ) : i \in 1 .. Len(sendQ') /\ sendQ'[i] = sendQ[i]
      BY <2>1, KeptLemma
    <3>4. ASSUME NEW v \in Writers, NEW i \in 1 .. Len(toPost[v]), toPost[v][i] = p
          PROVE  \E n \in 1 .. Len(toPost'[v]) : toPost'[v][n] = p
      <4>1. CASE v # w
        BY <1>21, <2>1, <3>4, <4>1
      <4>2. CASE v = w
        <5>1. toPost[w] \in Seq(Settings) /\ toPost'[w] = Tail(toPost[w])
          BY <1>21, <2>1
        <5>2. i # 1
          BY <2>1, <2>3, <3>4, <4>2, <5>1
        <5>3. i - 1 \in 1 .. Len(Tail(toPost[w])) /\ Tail(toPost[w])[i - 1] = toPost[w][i]
          BY <2>1, <3>4, <4>2, <5>1, <5>2
        <5> QED
          BY <3>4, <4>2, <5>1, <5>3
      <4> QED
        BY <4>1, <4>2
    <3> QED
      BY <1>2, <2>1, <3>2, <3>3, <3>4 DEF OnItsWay
  <2> QED
    BY <2>2, <2>3
<1> QED
  BY <1>3, <1>4, <1>5, <1>6, <1>7, <1>8 DEF World, Settling

(* The task receives what it owes. *)
LEMMA ReceivingStep ==
  ASSUME TypeInv, LoopInv, SettingsInv, Receive,
         NEW fd \in Fds, NEW p \in Settings,
         page'[fd] = "posted", Registered(fd)', p \in stale'[fd] \ unposted'
  PROVE  OnItsWay(fd, p)'
<1>1. /\ TypeOK /\ slots \in [Slots -> Entries] /\ sendQ \in Seq(Requests)
      /\ p \in Nat /\ fd \in Nat \ {0}
  BY ConstantsLemma DEF TypeInv, TypeOK, Entries
<1>2. /\ wpc = "receive" /\ sendQ # <<>> /\ sendQ' = Tail(sendQ) /\ req' = Head(sendQ)
      /\ UNCHANGED <<running, page, stale, toPost, sock, idx, unposted>>
  BY DEF Receive, pages
<1>3. req' \in Requests /\ req' = sendQ[1]
      /\ \A i \in 2 .. Len(sendQ) : i - 1 \in 1 .. Len(sendQ') /\ sendQ'[i - 1] = sendQ[i]
  BY <1>1, <1>2
<1>4. sock = 1 /\ idx = 0
  BY <1>2 DEF LoopInv
<1>5. ASSUME OnItsWay(fd, p), req' \notin {ToAll(p), Start(running, fd)} PROVE OnItsWay(fd, p)'
  <2>1. CASE \E w \in Writers : \E i \in 1 .. Len(toPost[w]) : toPost[w][i] = p
    BY <1>2, <2>1 DEF OnItsWay
  <2>2. CASE \E i \in 1 .. Len(sendQ) : sendQ[i] \in {ToAll(p), Start(running, fd)}
    <3>1. PICK i \in 1 .. Len(sendQ) : sendQ[i] \in {ToAll(p), Start(running, fd)}
      BY <2>2
    <3>2. i \in 2 .. Len(sendQ)
      BY <1>1, <1>3, <1>5, <3>1
    <3>3. i - 1 \in 1 .. Len(sendQ') /\ sendQ'[i - 1] \in {ToAll(p), Start(running, fd)}
      BY <1>3, <3>1, <3>2
    <3> QED
      BY <1>2, <3>3 DEF OnItsWay
  <2> QED
    BY <1>2, <1>5, <2>1, <2>2 DEF OnItsWay
<1>6. CASE req'.idx < 0
  <2>1. wpc' = "greet" /\ slots' = AddSocket(slots, req')
    BY <1>6 DEF Receive
  <2>2. PICK h \in Handles, g \in Fds : req' = Start(h, g)
    BY <1>3, <1>6, RequestLemma, ConstantsLemma
  <2>3. CASE req' = Start(running, fd)
    BY <1>1, <1>2, <1>4, <2>1, <2>3 DEF OnItsWay
  <2>4. CASE req' # Start(running, fd)
    <3>1. PICK i \in Slots : slots'[i] = [hd |-> running, fd |-> fd]
      BY <1>2 DEF Registered
    <3>2. slots'[i] # slots[i] => slots'[i] = [hd |-> h, fd |-> g]
      BY <1>1, <2>1, <2>2, AddSocketLemma
    <3>3. slots'[i] = slots[i]
      BY <2>2, <2>4, <3>1, <3>2 DEF Start
    <3>4. Registered(fd)
      BY <1>2, <3>1, <3>3 DEF Registered, IsOpen
    <3>5. req' # ToAll(p)
      BY <1>1, <1>6 DEF ToAll
    <3> QED
      BY <1>2, <1>5, <2>4, <3>4, <3>5 DEF SettingsInv
  <2> QED
    BY <2>3, <2>4
<1>7. CASE ~(req'.idx < 0)
  <2>1. wpc' = "all" /\ slots' = slots
    BY <1>7 DEF Receive
  <2>2. Registered(fd)
    BY <1>2, <2>1 DEF Registered, IsOpen
  <2>3. CASE req' = ToAll(p)
    <3>1. PICK j \in 1 .. NSlots : slots[j] = [hd |-> running, fd |-> fd]
      BY <2>2 DEF Registered, Slots
    <3> QED
      BY <1>2, <1>4, <2>1, <2>3, <3>1 DEF OnItsWay
  <2>4. CASE req' # ToAll(p)
    <3>1. req' # Start(running, fd)
      BY <1>7 DEF Start
    <3> QED
      BY <1>2, <1>5, <2>2, <2>4, <3>1 DEF SettingsInv
  <2> QED
    BY <2>3, <2>4
<1> QED
  BY <1>6, <1>7

(* The loop over the parameters sends each of them to a new page. *)
LEMMA GreetingStep ==
  ASSUME TypeInv, SettingsInv, Greet,
         NEW fd \in Fds, NEW p \in Settings,
         page'[fd] = "posted", Registered(fd)', p \in stale'[fd] \ unposted'
  PROVE  OnItsWay(fd, p)'
<1>1. /\ wpc = "greet" /\ SendSocket(req.hd, req.fd, idx)
      /\ UNCHANGED <<running, page, toPost, sendQ, sock, unposted>>
  BY DEF Greet
<1>2. TypeOK /\ idx \in Nat /\ p \in Nat /\ p <= NParms - 1
  BY ConstantsLemma, ParmsAssumption DEF TypeInv, TypeOK, Settings
<1>3. stale'[fd] \subseteq stale[fd] /\ Registered(fd)
  BY <1>1, <1>2, SentLemma
<1>4. OnItsWay(fd, p)
  BY <1>1, <1>3 DEF SettingsInv
<1>5. CASE req = Start(running, fd) /\ idx <= p
  <2>1. req.hd = running /\ req.fd = fd /\ IsOpen(fd)
    BY <1>3, <1>5 DEF Start, Registered
  <2>2. idx \notin stale'[fd]
    BY <1>1, <1>2, <2>1, SendSocketLemma
  <2>3. idx # p
    BY <2>2
  <2>4. idx < NParms - 1 /\ idx + 1 <= p
    BY <1>2, <1>5, <2>3, ParmsAssumption
  <2>5. idx' = idx + 1 /\ wpc' = wpc /\ req' = req
    BY <2>4 DEF Greet
  <2> QED
    BY <1>1, <1>5, <2>4, <2>5 DEF OnItsWay
<1>6. CASE ~(req = Start(running, fd) /\ idx <= p)
  BY <1>1, <1>4, <1>6 DEF OnItsWay
<1> QED
  BY <1>5, <1>6

(* The loop over the table sends a change to each page: a failed send does  *)
(* not take out a place the loop has still to come to, as it clears the     *)
(* first place of its number.                                               *)
LEMMA SendingStep ==
  ASSUME TypeInv, SettingsInv, All,
         NEW fd \in Fds, NEW p \in Settings,
         page'[fd] = "posted", Registered(fd)', p \in stale'[fd] \ unposted'
  PROVE  OnItsWay(fd, p)'
<1> DEFINE here == slots[sock]
<1>1. /\ wpc = "all" /\ NextSock
      /\ UNCHANGED <<running, page, toPost, sendQ, idx, unposted>>
  BY DEF All
<1>2. /\ TypeOK /\ sock \in Slots /\ fd # 0 /\ sock \in Nat /\ NSlots \in Nat
      /\ Slots = 1 .. NSlots
  BY ConstantsLemma DEF TypeInv, TypeOK, Slots
<1>3. \/ here.fd = 0 /\ UNCHANGED <<slots, stale>>
      \/ here.fd # 0 /\ SendSocket(here.hd, here.fd, req.idx)
  BY DEF All
<1>4. stale'[fd] \subseteq stale[fd] /\ Registered(fd)
  BY <1>1, <1>2, <1>3, SentLemma
<1>5. OnItsWay(fd, p)
  BY <1>1, <1>4 DEF SettingsInv
<1>6. CASE req = ToAll(p) /\ \E j \in sock .. NSlots : slots[j] = [hd |-> running, fd |-> fd]
  <2>1. PICK j \in sock .. NSlots : slots[j] = [hd |-> running, fd |-> fd]
    BY <1>6
  <2>2. here # [hd |-> running, fd |-> fd]
    <3> SUFFICES ASSUME here = [hd |-> running, fd |-> fd] PROVE FALSE
      OBVIOUS
    <3>1. here.hd = running /\ here.fd = fd /\ req.idx = p /\ IsOpen(fd)
      BY <1>4, <1>6 DEF ToAll, Registered
    <3>2. SendSocket(running, fd, p)
      BY <1>2, <1>3, <3>1
    <3> QED
      BY <1>2, <3>1, <3>2, SendSocketLemma
  <2>3. j \in sock + 1 .. NSlots /\ j \in Slots
    BY <1>2, <2>1, <2>2
  <2>4. slots'[j] = slots[j]
    <3>1. CASE here.fd = 0 /\ UNCHANGED <<slots, stale>>
      BY <3>1
    <3>2. CASE here.fd # 0 /\ SendSocket(here.hd, here.fd, req.idx)
      <4>1. slots'[j] # slots[j] => j <= sock
        BY <1>2, <2>3, <3>2, SendSocketLemma
      <4> QED
        BY <1>2, <2>3, <4>1
    <3> QED
      BY <1>3, <3>1, <3>2
  <2>5. sock' = sock + 1 /\ wpc' = wpc /\ req' = req
    BY <1>1, <1>2, <2>3, NextSockLemma
  <2> QED
    BY <1>1, <1>6, <2>1, <2>3, <2>4, <2>5 DEF OnItsWay
<1>7. CASE ~(req = ToAll(p) /\ \E j \in sock .. NSlots : slots[j] = [hd |-> running, fd |-> fd])
  BY <1>1, <1>5, <1>7 DEF OnItsWay
<1> QED
  BY <1>6, <1>7

(* A setting a greeted page does not show is on its way to it. *)
LEMMA SettingsStep ==
  TypeInv /\ PageInv /\ LoopInv /\ SettingsInv /\ [Next]_vars => SettingsInv'
<1> SUFFICES ASSUME TypeInv, PageInv, LoopInv, SettingsInv, [Next]_vars,
                    NEW fd \in Fds, NEW p \in Settings,
                    page'[fd] = "posted", Registered(fd)', p \in stale'[fd] \ unposted'
             PROVE  OnItsWay(fd, p)'
  BY DEF SettingsInv
<1>1. CASE World \/ Settling
  BY <1>1, PostingStep
<1>2. CASE Receive
  BY <1>2, ReceivingStep
<1>3. CASE Greet
  BY <1>3, GreetingStep
<1>4. CASE All
  BY <1>4, SendingStep
<1>5. CASE Status
  <2>1. /\ wpc = "status" /\ UNCHANGED <<running, page, toPost, sendQ, unposted>>
    BY <1>5 DEF Status
  <2>2. PICK hd, g, q : SendSocket(hd, g, q) \/ UNCHANGED <<slots, stale>>
    BY <1>5 DEF Status
  <2>3. stale'[fd] \subseteq stale[fd] /\ Registered(fd)
    BY <2>1, <2>2, SentLemma DEF TypeInv
  <2> QED
    BY <2>1, <2>3 DEF SettingsInv, OnItsWay
<1>6. CASE Timeout \/ UNCHANGED vars
  <2>1. /\ UNCHANGED <<running, page, stale, toPost, sendQ, slots, req, sock, idx, unposted>>
        /\ wpc' = wpc \/ wpc = "receive"
    BY <1>6 DEF Timeout, vars, pages, publisher
  <2> QED
    BY <2>1 DEF SettingsInv, Registered, IsOpen, OnItsWay
<1> QED
  BY <1>1, <1>2, <1>3, <1>4, <1>5, <1>6 DEF Next, Publisher

(* A page that was greeted and is in the table shows every setting, once    *)
(* all is quiet, unless the setting was last changed by CheckBathHum, or    *)
(* its last post was dropped.                                               *)
THEOREM SettingsReachPageCorrect == Spec => []SettingsReachPage
<1>1. Init => PageInv /\ LoopInv /\ SettingsInv
  BY DEF Init, PageInv, LoopInv, SettingsInv
<1>2. TypeInv /\ SettingsInv => SettingsReachPage
  <2> SUFFICES ASSUME TypeInv, SettingsInv, Idle, NEW fd \in Fds,
                      Registered(fd), page[fd] = "posted",
                      NEW p \in stale[fd] \cap Settings, p \notin unposted
               PROVE  FALSE
    BY DEF SettingsReachPage
  <2>1. OnItsWay(fd, p)
    BY DEF SettingsInv
  <2>2. wpc = "receive" /\ Len(sendQ) = 0 /\ \A w \in Writers : Len(toPost[w]) = 0
    BY DEF Idle
  <2> QED
    BY <2>1, <2>2 DEF OnItsWay
<1>3. Spec => []PageInv
  BY <1>1, TypeInvCorrect, PageStep, PTL DEF Spec
<1>4. Spec => []LoopInv
  BY <1>1, TypeInvCorrect, LoopStep, PTL DEF Spec
<1>5. Spec => []SettingsInv
  BY <1>1, <1>3, <1>4, TypeInvCorrect, SettingsStep, PTL DEF Spec
<1> QED
  BY <1>2, <1>5, TypeInvCorrect, PTL
=============================================================================
