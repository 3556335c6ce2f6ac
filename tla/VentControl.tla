---------------------------- MODULE VentControl ----------------------------
(***************************************************************************)
(* The fan controllers BathVentControl and RestVentControl.  Three kinds   *)
(* of message reach a controller through one queue of two places: settings *)
(* changed on the web page ("Http"), the humidity task's command           *)
(* ("HumData", bathroom only) and the light's timer's command              *)
(* ("LightData").  Commands carry a value and are posted only when they    *)
(* change; there is no copy of them in the table, so a dropped command is  *)
(* gone.                                                                   *)
(*                                                                         *)
(* The posts to SendWsQueue (refreshing web pages) are not part of this    *)
(* module.                                                                 *)
(***************************************************************************)
EXTENDS RtosQueue

CONSTANTS
  QueueLen,  \* places in BathVentSendToCtrl (RestVentSendToCtrl)
  Room       \* "Bath" or "Rest"

ASSUME QueueLenAssumption == QueueLen \in Nat \ {0}
ASSUME RoomAssumption == Room \in {"Bath", "Rest"}

Bit == {0, 1}
Sources == IF Room = "Bath" THEN {"HumData", "LightData"} ELSE {"LightData"}
Parms == IF Room = "Bath"
         THEN {"AutoEnable", "OnOff", "HumData", "LightData", "Other"}
         ELSE {"AutoEnable", "OnOff", "Other"}
HttpMsg == [sender |-> "Http", data |-> 0]
Messages == {HttpMsg} \cup [sender : Sources, data : Bit]

VARIABLES
  autoVent,  \* DataParmTable[IDX_BATHVENTAUTOENABLE]
  onOff,     \* DataParmTable[IDX_BATHVENTONOFF]
  use,       \* DataParmTable[IDX_BATHVENTUSEHUM, IDX_BATHVENTUSEMOVE]
  status,    \* DataParmTable[IDX_BATHVENTSTATUS]
  web,       \* echo_handler: "idle", or "send" between its write and its post
  ctrlQ,     \* BathVentSendToCtrl
  pc,        \* the controller: "receive", "decide" or "actuate"
  msg,       \* its unidata; HttpMsg once it is dead
  relay,     \* level of GPIO_BATH_VENT_OUT
  command,   \* per source: the value it last decided on, its ventOnOff
  last       \* history: the last message that entered the queue

table == <<autoVent, onOff, use>>
ctrl == <<status, pc, msg, relay>>
vars == <<table, ctrl, web, ctrlQ, command, last>>

(* Mutation: the manual test of the sensor cases is missing. *)
VentOnOff_NoManualTest(m) == IF m.sender \in Sources THEN m.data ELSE onOff

(* Mutation: a message in automatic mode repeats the fan's present state. *)
VentOnOff_KeepStatus(m) == IF autoVent # 0 THEN status ELSE onOff

(* What the controller makes of a message: the manual setting, unless the   *)
(* fan is automatic and the message a command it follows.  A humidity       *)
(* command that USEHUM does not admit falls through to the case of          *)
(* LightData and is subject to USEMOVE.                                     *)
VentOnOff(m) ==
  LET followed ==
        \/ m.sender = "HumData" /\ (use["HumData"] = 1 \/ use["LightData"] = 1)
        \/ m.sender = "LightData" /\ (Room = "Rest" \/ use["LightData"] = 1)
  IN  IF autoVent # 0 /\ followed THEN m.data ELSE onOff

-----------------------------------------------------------------------------
(* Mutations of the actions: the bugs the properties are shown to exclude. *)

(* a queue that grows without limit *)
WebSend_Unbounded ==
  /\ web = "send"
  /\ web' = "idle"
  /\ ctrlQ' = Append(ctrlQ, HttpMsg)
  /\ last' = HttpMsg
  /\ UNCHANGED <<table, ctrl, command>>

(* the relay is driven only when the fan is switched on *)
Actuate_OnOnly ==
  /\ pc = "actuate"
  /\ relay' = 1
  /\ pc' = "receive"
  /\ UNCHANGED <<table, status, msg, web, ctrlQ, command, last>>

-----------------------------------------------------------------------------
Init ==
  /\ autoVent = 1 /\ onOff = 0 /\ use = [s \in Sources |-> 1]
  /\ status = 0 /\ relay = 0
  /\ web = "idle" /\ ctrlQ = <<>> /\ pc = "receive" /\ msg = HttpMsg
  /\ command = [s \in Sources |-> 0]
  /\ last = HttpMsg

(* echo_handler stores a parameter addressed to this controller.  "Other"   *)
(* stands for those it does not read: humidity thresholds and delays.       *)
WebWrite(p, v) ==
  /\ web = "idle" /\ p \in Parms
  /\ autoVent' = IF p = "AutoEnable" THEN v ELSE autoVent
  /\ onOff' = IF p = "OnOff" THEN v ELSE onOff
  /\ use' = IF p \in Sources THEN [use EXCEPT ![p] = v] ELSE use
  /\ web' = "send"
  /\ UNCHANGED <<ctrl, ctrlQ, command, last>>

(* ... and posts to the controller. *)
WebSend ==
  /\ web = "send"
  /\ web' = "idle"
  /\ ctrlQ' = QueueSend(ctrlQ, QueueLen, HttpMsg)
  /\ last' = IF QueueFull(ctrlQ, QueueLen) THEN last ELSE HttpMsg
  /\ UNCHANGED <<table, ctrl, command>>

(* CheckBathHum or CheckBathLightOnOff changes its mind and posts it. *)
Command(s) ==
  LET m == [sender |-> s, data |-> 1 - command[s]]
  IN  /\ command' = [command EXCEPT ![s] = m.data]
      /\ ctrlQ' = QueueSend(ctrlQ, QueueLen, m)
      /\ last' = IF QueueFull(ctrlQ, QueueLen) THEN last ELSE m
      /\ UNCHANGED <<table, ctrl, web>>

Receive ==
  /\ pc = "receive" /\ ctrlQ # <<>>
  /\ msg' = Head(ctrlQ) /\ ctrlQ' = Tail(ctrlQ)
  /\ pc' = "decide"
  /\ UNCHANGED <<table, status, relay, web, command, last>>

(* The critical section; the local "flag" says whether the status changed. *)
Decide ==
  /\ pc = "decide"
  /\ status' = VentOnOff(msg)
  /\ pc' = IF status' = status THEN "receive" ELSE "actuate"
  /\ msg' = HttpMsg
  /\ UNCHANGED <<table, relay, web, ctrlQ, command, last>>

(* Nothing else writes the status, so the local ventOnOff is still it. *)
Actuate ==
  /\ pc = "actuate"
  /\ relay' = status
  /\ pc' = "receive"
  /\ UNCHANGED <<table, status, msg, web, ctrlQ, command, last>>

Controller == Receive \/ Decide \/ Actuate

Next ==
  \/ \E p \in Parms, v \in Bit : WebWrite(p, v)
  \/ WebSend
  \/ \E s \in Sources : Command(s)
  \/ Controller

Spec == Init /\ [][Next]_vars

(* The tasks are scheduled; nobody has to use the page or the bathroom. *)
FairSpec == Spec /\ WF_vars(WebSend) /\ WF_vars(Controller)

-----------------------------------------------------------------------------
(* Properties *)

TypeOK ==
  /\ autoVent \in Bit /\ onOff \in Bit /\ use \in [Sources -> Bit]
  /\ status \in Bit /\ relay \in Bit
  /\ web \in {"idle", "send"} /\ pc \in {"receive", "decide", "actuate"}
  /\ ctrlQ \in Seq(Messages) /\ Len(ctrlQ) <= QueueLen /\ msg \in Messages
  /\ command \in [Sources -> Bit] /\ last \in Messages

(* No message is on its way to the relay. *)
Settled == web = "idle" /\ ctrlQ = <<>> /\ pc = "receive"

(* In manual mode the fan is what the switch says, even if the message that *)
(* announced it was dropped: every message makes the controller apply the   *)
(* switch.                                                                  *)
ManualVentFollowsSwitch == Settled /\ autoVent = 0 => relay = onOff

(* Whose commands an automatic fan obeys. *)
Enabled(s) == Room = "Rest" \/ use[s] = 1

(* In automatic mode a settled fan obeys the last message, if that was a    *)
(* command of a source in use, whatever the page changed since.             *)
AutoVentFollowsCommand ==
  Settled /\ autoVent # 0 /\ last.sender \in Sources
    => (Enabled(last.sender) => relay = last.data)

(* A fan that stays manual with the switch at one value ends up there. *)
ManualVentSettles ==
  \A v \in Bit :
    autoVent = 0 /\ onOff = v ~> relay = v \/ ~(autoVent = 0 /\ onOff = v)
=============================================================================
