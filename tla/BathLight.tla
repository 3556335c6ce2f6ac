----------------------------- MODULE BathLight -----------------------------
(***************************************************************************)
(* The bathroom light: the task BathLightControl, the four tasks that      *)
(* command it and the task it notifies.                                    *)
(*                                                                         *)
(* CheckIrMove, CheckMvMove, the HTTP server's echo_handler and            *)
(* QuickBathLightSw each write DataParmTable under DataParmTableMutex and  *)
(* THEN, in a second step, post a message to BathLightSendToCtrl, a queue  *)
(* of two places that drops what does not fit.  BathLightControl takes a   *)
(* message, recomputes the light from the table under the mutex and, when  *)
(* the status changed, drives the relay and then posts the new state to    *)
(* BathLightIsrQueue, from where CheckBathLightOnOff runs the fan.         *)
(*                                                                         *)
(* A critical section of the mutex is one action: the mutex is never held  *)
(* across another blocking call, nor taken twice.  The posts to            *)
(* SendWsQueue (refreshing web pages) are not part of this module.         *)
(***************************************************************************)
EXTENDS RtosQueue

CONSTANTS
  QueueLen,    \* places in BathLightSendToCtrl and in BathLightIsrQueue
  IrMvAnyAll,  \* 1: both sensors must see motion, 0: one is enough
  WebParms     \* bound: the parameters users of the web page change

Bit == {0, 1}
Sensors == {"Ir", "Mv"}
HttpWriters == {"echo_handler", "QuickBathLightSw"}
Writers == Sensors \cup HttpWriters
Senders == Sensors \cup {"Http"}

ASSUME QueueLenAssumption == QueueLen \in Nat \ {0}
ASSUME IrMvAnyAllAssumption == IrMvAnyAll \in Bit
ASSUME WebParmsAssumption ==
  WebParms \subseteq Sensors \cup {"AutoEnable", "OnOff", "Delay"}

VARIABLES
  autoEnable,  \* DataParmTable[IDX_BATHLIGHTAUTOENABLE]
  onOff,       \* DataParmTable[IDX_BATHLIGHTONOFF]
  use,         \* DataParmTable[IDX_BATHLIGHTIRUSE, IDX_BATHLIGHTMVUSE]
  vol,         \* DataParmTable[IDX_IRVOL, IDX_MVVOL]
  status,      \* DataParmTable[IDX_BATHLIGHTSTATUS]
  writer,      \* per writer: "idle", or "send" between its write and its post
  ctrlQ,       \* BathLightSendToCtrl, by the sender of each message
  pc,          \* BathLightControl: "receive", "decide", "actuate" or "notify"
  sender,      \* its unidata.HttpData.sender; "none" once it is dead
  relay,       \* level of GPIO_BATH_LIGHT_OUT
  lightQ,      \* BathLightIsrQueue
  ventLight,   \* CheckBathLightOnOff's lightOnOff: the last state it received
  served,      \* history: BathLightControl has served a message since boot
  httpLost,    \* history: the last "Http" message posted was dropped
  lightLost    \* history: the last post to lightQ was dropped

table == <<autoEnable, onOff, use, vol>>
ctrl == <<pc, sender, status, relay>>
vars == <<table, writer, ctrlQ, ctrl, lightQ, ventLight, served, httpLost, lightLost>>

(* The light the sensors ask for; with neither sensor in use, the light as *)
(* it is.                                                                  *)
SensorLight ==
  LET on == {s \in Sensors : vol[s] = 1}
      inUse == {s \in Sensors : use[s] = 1}
  IN  IF inUse = {} THEN status
      ELSE IF inUse = Sensors /\ IrMvAnyAll = 0 THEN IF on # {} THEN 1 ELSE 0
      ELSE IF inUse \subseteq on THEN 1 ELSE 0

(* Mutation: the light is not recomputed when automatic mode is switched back on *)
LightOnOff_NoAutoOnHttp(m) ==
  IF autoEnable # 0 THEN IF m = "Http" THEN status ELSE SensorLight
  ELSE IF m = "Http" THEN onOff ELSE status

(* Mutation: the sensor cases forget to test for manual mode *)
LightOnOff_NoManualTest(m) ==
  IF autoEnable # 0 \/ m # "Http" THEN SensorLight ELSE onOff

(* What BathLightControl makes of the table on a message from m. *)
LightOnOff(m) ==
  IF autoEnable # 0 THEN SensorLight
  ELSE IF m = "Http" THEN onOff ELSE status

-----------------------------------------------------------------------------
(* Mutations of the actions: the bugs the properties are shown to exclude. *)

(* the switch's change is stored and the controller not told *)
SwitchWrite_NoPost(auto, level) ==
  /\ writer["QuickBathLightSw"] = "idle"
  /\ autoEnable' = auto /\ onOff' = level
  /\ UNCHANGED <<writer, use, vol, ctrlQ, ctrl, lightQ, ventLight, served, httpLost, lightLost>>

(* a queue that grows without limit *)
Send_Unbounded(w) ==
  /\ writer[w] = "send"
  /\ ctrlQ' = Append(ctrlQ, IF w \in Sensors THEN w ELSE "Http")
  /\ httpLost' = FALSE
  /\ writer' = [writer EXCEPT ![w] = "idle"]
  /\ UNCHANGED <<table, ctrl, lightQ, ventLight, served, lightLost>>

(* "flag" computed after the status has been overwritten *)
Decide_LateFlag ==
  /\ pc = "decide"
  /\ status' = LightOnOff(sender)
  /\ pc' = "receive"
  /\ sender' = "none"
  /\ served' = TRUE
  /\ UNCHANGED <<table, relay, writer, ctrlQ, lightQ, ventLight, httpLost, lightLost>>

(* the fan is told the level the relay had *)
Notify_OldLevel ==
  /\ pc = "notify"
  /\ lightQ' = QueueSend(lightQ, QueueLen, 1 - status)
  /\ lightLost' = QueueFull(lightQ, QueueLen)
  /\ pc' = "receive"
  /\ UNCHANGED <<table, sender, status, relay, writer, ctrlQ, ventLight, served, httpLost>>
-----------------------------------------------------------------------------
(* The table's initial values; the output register and the locals start at 0. *)
Init ==
  /\ autoEnable = 1 /\ onOff = 0
  /\ use = [s \in Sensors |-> 1] /\ vol = [s \in Sensors |-> 1]
  /\ status = 0 /\ relay = 0
  /\ writer = [w \in Writers |-> "idle"]
  /\ pc = "receive" /\ sender = "none"
  /\ ctrlQ = <<>> /\ lightQ = <<>> /\ ventLight = 0
  /\ served = FALSE /\ httpLost = FALSE /\ lightLost = FALSE

(* A sensor's task stores a new motion state. *)
WriteVol(s, v) ==
  /\ writer[s] = "idle"
  /\ vol' = [vol EXCEPT ![s] = v]
  /\ writer' = [writer EXCEPT ![s] = "send"]
  /\ UNCHANGED <<autoEnable, onOff, use, ctrlQ, ctrl, lightQ, ventLight,
                 served, httpLost, lightLost>>

(* echo_handler stores a parameter from the web page; the delays of the     *)
(* light ("Delay") are addressed to the controller too but it ignores them. *)
WebWrite(p, v) ==
  /\ p \in WebParms
  /\ writer["echo_handler"] = "idle"
  /\ autoEnable' = IF p = "AutoEnable" THEN v ELSE autoEnable
  /\ onOff' = IF p = "OnOff" THEN v ELSE onOff
  /\ use' = IF p \in Sensors THEN [use EXCEPT ![p] = v] ELSE use
  /\ writer' = [writer EXCEPT !["echo_handler"] = "send"]
  /\ UNCHANGED <<vol, ctrlQ, ctrl, lightQ, ventLight, served, httpLost, lightLost>>

(* The wall switch: one flip selects manual mode, quick flips automatic mode. *)
SwitchWrite(auto, level) ==
  /\ writer["QuickBathLightSw"] = "idle"
  /\ autoEnable' = auto /\ onOff' = level
  /\ writer' = [writer EXCEPT !["QuickBathLightSw"] = "send"]
  /\ UNCHANGED <<use, vol, ctrlQ, ctrl, lightQ, ventLight, served, httpLost, lightLost>>

(* The second half of every writer: post to BathLightSendToCtrl. *)
Send(w) ==
  /\ writer[w] = "send"
  /\ ctrlQ' = QueueSend(ctrlQ, QueueLen, IF w \in Sensors THEN w ELSE "Http")
  /\ httpLost' = IF w \in Sensors THEN httpLost ELSE QueueFull(ctrlQ, QueueLen)
  /\ writer' = [writer EXCEPT ![w] = "idle"]
  /\ UNCHANGED <<table, ctrl, lightQ, ventLight, served, lightLost>>

-----------------------------------------------------------------------------
(* BathLightControl *)

Receive ==
  /\ pc = "receive" /\ ctrlQ # <<>>
  /\ sender' = Head(ctrlQ) /\ ctrlQ' = Tail(ctrlQ)
  /\ pc' = "decide"
  /\ UNCHANGED <<table, status, relay, writer, lightQ, ventLight,
                 served, httpLost, lightLost>>

(* The critical section: status is the only table entry it writes, and the *)
(* local "flag" says whether it changed.                                   *)
Decide ==
  /\ pc = "decide"
  /\ status' = LightOnOff(sender)
  /\ pc' = IF status' = status THEN "receive" ELSE "actuate"
  /\ sender' = "none"
  /\ served' = TRUE
  /\ UNCHANGED <<table, relay, writer, ctrlQ, lightQ, ventLight,
                 httpLost, lightLost>>

(* Nothing else writes the status, so the local LightOnOff is still it. *)
Actuate ==
  /\ pc = "actuate"
  /\ relay' = status
  /\ pc' = "notify"
  /\ UNCHANGED <<table, sender, status, writer, ctrlQ, lightQ, ventLight, served, httpLost,
                 lightLost>>

(* Only now is CheckBathLightOnOff told: its delay may run out in between. *)
Notify ==
  /\ pc = "notify"
  /\ lightQ' = QueueSend(lightQ, QueueLen, status)
  /\ lightLost' = QueueFull(lightQ, QueueLen)
  /\ pc' = "receive"
  /\ UNCHANGED <<table, sender, status, relay, writer, ctrlQ, ventLight, served, httpLost>>

(* CheckBathLightOnOff receives; what it does then is module VentTimer's. *)
VentReceive ==
  /\ lightQ # <<>>
  /\ ventLight' = Head(lightQ) /\ lightQ' = Tail(lightQ)
  /\ UNCHANGED <<table, writer, ctrlQ, ctrl, served, httpLost, lightLost>>

Environment ==
  \/ \E s \in Sensors, v \in Bit : WriteVol(s, v)
  \/ \E p \in WebParms, v \in Bit : WebWrite(p, v)
  \/ \E a, l \in Bit : SwitchWrite(a, l)

Firmware ==
  \/ \E w \in Writers : Send(w)
  \/ Receive \/ Decide \/ Actuate \/ Notify \/ VentReceive

Next == Environment \/ Firmware

Spec == Init /\ [][Next]_vars

(* All these tasks have FreeRTOS priority 1 or, for the HTTP server, higher, *)
(* and equal priorities are time-sliced: each runs again and again.          *)
Fairness ==
  /\ \A w \in Writers : WF_vars(Send(w))
  /\ WF_vars(Receive) /\ WF_vars(Decide) /\ WF_vars(Actuate) /\ WF_vars(Notify)
  /\ WF_vars(VentReceive)

FairSpec == Spec /\ Fairness

-----------------------------------------------------------------------------
(* Properties *)

TypeOK ==
  /\ autoEnable \in Bit /\ onOff \in Bit /\ status \in Bit /\ relay \in Bit
  /\ use \in [Sensors -> Bit] /\ vol \in [Sensors -> Bit]
  /\ writer \in [Writers -> {"idle", "send"}]
  /\ ctrlQ \in Seq(Senders) /\ Len(ctrlQ) <= QueueLen
  /\ pc \in {"receive", "decide", "actuate", "notify"} /\ sender \in Senders \cup {"none"}
  /\ (pc = "decide" <=> sender # "none")
  /\ lightQ \in Seq(Bit) /\ Len(lightQ) <= QueueLen /\ ventLight \in Bit
  /\ served \in BOOLEAN /\ httpLost \in BOOLEAN /\ lightLost \in BOOLEAN

(* No command is on its way to the relay. *)
Settled ==
  /\ \A w \in Writers : writer[w] = "idle"
  /\ ctrlQ = <<>> /\ pc = "receive"

(* In automatic mode the light agrees with the sensors in use whenever no   *)
(* command is under way, EVEN IF messages were dropped: whatever message    *)
(* filled the queue makes the controller read the table again.  Where two   *)
(* sensors disagree, IrMvAnyAll decides.  Needs one message since boot: the *)
(* table is born with both sensors at 1 and the light off.                  *)
AutoLightFollowsSensors ==
  LET seen == {vol[s] : s \in {t \in Sensors : use[t] = 1}}
  IN  Settled /\ served /\ autoEnable = 1 /\ seen # {}
        => relay \in seen /\ (seen = Bit => relay = 1 - IrMvAnyAll)

(* In manual mode the light is what the switch or the page last asked for, *)
(* whenever no command is under way and the last "Http" message got into   *)
(* the queue (sensor messages that share the queue are ignored here).      *)
ManualLightFollowsSwitch ==
  Settled /\ ~httpLost /\ autoEnable = 0 => relay = onOff

(* CheckBathLightOnOff's idea of the light is the light, once its queue is *)
(* drained, unless the last notification was dropped or is still to come.  *)
VentHearsLight ==
  pc # "notify" /\ lightQ = <<>> /\ ~lightLost => ventLight = relay

(* While the switch rules, motion never changes the light: a step taken in *)
(* manual mode either keeps the status or gives it the switch's value.     *)
ManualStatusOnlyFromSwitch ==
  [][autoEnable = 0 /\ status' # status => status' = onOff']_vars

(* What the table asks the relay to be. *)
Wanted(v) ==
  IF autoEnable = 1 THEN served /\ SensorLight = v ELSE ~httpLost /\ onOff = v

(* A light asked for persistently is eventually given. *)
RelayReachesWanted ==
  \A v \in Bit : Wanted(v) ~> (relay = v \/ ~Wanted(v))
=============================================================================
