------------------------------- MODULE Toilet -------------------------------
(***************************************************************************)
(* The toilet from its distance meter and wall switch to its two relays:   *)
(* the light (RestLight), the timer that follows it (VentTimer's           *)
(* CheckRestLightOnOff) and the fan's controller (VentControl's            *)
(* RestVentControl), running together.  See module Bathroom for how the    *)
(* components are put together.  RestLight leaves out RestLightIsrQueue,    *)
(* so RestLightControl's post to it, a step between switching the light    *)
(* and its next message, is added here.                                    *)
(***************************************************************************)
EXTENDS RestLight

VARIABLES
  telling,    \* RestLightControl has switched the light and not posted yet
  lightQ,     \* RestLightIsrQueue
  ventLight,  \* CheckRestLightOnOff: its lightOnOff,
  ventOnOff,  \* its ventOnOff,
  delay,      \* its delay
  relit,      \* and VentTimer's history of it
  autoVent,   \* DataParmTable[IDX_RESTVENTAUTOENABLE]
  fanOnOff,   \* DataParmTable[IDX_RESTVENTONOFF]
  fanUse,     \* VentControl's use, which RestVentControl does without
  fanStatus,  \* DataParmTable[IDX_RESTVENTSTATUS]
  fanWeb,     \* echo_handler, serving a parameter of the fan
  fanQ,       \* RestVentSendToCtrl
  fanPc,      \* RestVentControl: "receive", "decide" or "actuate"
  fanMsg,     \* its unidata
  fanRelay,   \* level of GPIO_REST_VENT_OUT
  fanLast,    \* history: the last message that entered fanQ
  ventData,   \* history: the last LightData RestVentControl received
  lightLost,  \* history: the last post to lightQ was dropped
  ventLost    \* history: the last LightData posted was dropped

timer == <<telling, lightQ, ventLight, ventOnOff, delay, relit>>
fan == <<autoVent, fanOnOff, fanUse, fanStatus, fanWeb, fanQ, fanPc, fanMsg, fanRelay, fanLast>>
heard == <<ventData, lightLost, ventLost>>
toiletVars == <<vars, timer, fan, heard>>

(* The command last posted, by its source. *)
Commands == [s \in {"LightData"} |-> ventOnOff]

(* The other components, with the theorems about them. *)
Vent == INSTANCE VentControl_proofs
          WITH Room <- "Rest", onOff <- fanOnOff, use <- fanUse, status <- fanStatus,
               web <- fanWeb, ctrlQ <- fanQ, pc <- fanPc, msg <- fanMsg, relay <- fanRelay,
               last <- fanLast, command <- Commands
TimerQ == Vent!TimerView(fanQ)
Timer == INSTANCE VentTimer_proofs
           WITH light <- relay, lightOnOff <- ventLight, ventQ <- TimerQ

-----------------------------------------------------------------------------
ToiletInit ==
  /\ Init
  /\ telling = FALSE /\ lightQ = <<>> /\ ventLight = 0
  /\ ventOnOff = 0 /\ delay = Timer!Forever /\ relit = FALSE
  /\ autoVent = 1 /\ fanOnOff = 0 /\ fanUse = [s \in Vent!Sources |-> 1]
  /\ fanStatus = 0 /\ fanRelay = 0
  /\ fanWeb = "idle" /\ fanQ = <<>> /\ fanPc = "receive"
  /\ fanMsg = Vent!HttpMsg /\ fanLast = Vent!HttpMsg
  /\ ventData = 0 /\ lightLost = FALSE /\ ventLost = FALSE

(* The light, up to the relay. *)
LightStep ==
  /\ UNCHANGED <<timer, fan, heard>>
  /\ \/ \E d \in Distances : Measure(d)
     \/ SamplePost
     \/ fanWeb = "idle" /\ WebWrite
     \/ SwitchWrite
     \/ \E w \in HttpWriters : Send(w)
     \/ CheckDistMove
     \/ ~telling /\ Receive
     \/ Decide

(* RestLightControl drives the relay ... *)
LightSwitches ==
  /\ Actuate /\ telling' = TRUE
  /\ UNCHANGED <<lightQ, ventLight, ventOnOff, delay, relit, fan, heard>>

(* ... and then tells the timer, whose delay may run out in between. *)
LightTells ==
  /\ telling /\ telling' = FALSE
  /\ lightQ' = QueueSend(lightQ, QueueLen, status)
  /\ lightLost' = QueueFull(lightQ, QueueLen)
  /\ UNCHANGED <<vars, ventLight, ventOnOff, delay, relit, fan, ventData, ventLost>>

(* The timer hears of the light. *)
TimerReceives ==
  /\ UNCHANGED <<vars, fan, heard>>
  /\ Timer!LightOn \/ Timer!LightOff

(* The timer's delay runs out: it toggles and commands the fan. *)
TimerExpires ==
  LET m == [sender |-> "LightData", data |-> ventOnOff']
  IN  /\ lightQ = <<>> /\ delay # Timer!Forever
      /\ ventOnOff' = IF ventOnOff = 0 THEN 1 ELSE 0
      /\ delay' = Timer!Forever
      /\ relit' = (relit /\ ventLight = 1)
      /\ fanQ' = QueueSend(fanQ, QueueLen, m)
      /\ fanLast' = IF QueueFull(fanQ, QueueLen) THEN fanLast ELSE m
      /\ ventLost' = QueueFull(fanQ, QueueLen)
      /\ UNCHANGED <<vars, telling, lightQ, ventLight, autoVent, fanOnOff, fanUse, fanStatus,
                     fanWeb, fanPc, fanMsg, fanRelay, ventData, lightLost>>

(* The fan's controller, and the page setting its parameters. *)
FanStep ==
  /\ UNCHANGED <<vars, timer, heard>>
  /\ \/ \E p \in Vent!Parms, v \in Bit :
          writer["echo_handler"] = "idle" /\ Vent!WebWrite(p, v)
     \/ Vent!WebSend \/ Vent!Decide \/ Vent!Actuate

(* The fan's controller takes a message, the timer's or another. *)
FanReceives ==
  /\ UNCHANGED <<vars, timer, lightLost, ventLost>>
  /\ Vent!Receive
  /\ ventData' = IF Head(fanQ).sender = "LightData" THEN Head(fanQ).data ELSE ventData

ToiletNext ==
  \/ LightStep \/ LightSwitches \/ LightTells
  \/ TimerReceives \/ TimerExpires \/ FanStep \/ FanReceives

ToiletSpec == ToiletInit /\ [][ToiletNext]_toiletVars

-----------------------------------------------------------------------------
(* Properties *)

(* Nothing is under way between the meter and the relays, nor awaited. *)
ToiletSettled == Settled /\ Vent!Settled /\ Timer!AtRest

(* The automatic fan has heard of the light from the timer last, and so has *)
(* the timer; a light that came on over a running fan is its known          *)
(* exception.                                                               *)
FanObeys ==
  /\ autoVent = 1 /\ fanLast.sender = "LightData"
  /\ ~lightLost /\ ~ventLost /\ (relay = 1 => ~relit)

(* From the distance to both relays: when nothing is under way, an          *)
(* automatic light is on exactly if the last sample was near, provided it   *)
(* was not dropped nor CheckDistMove's report of it, nor a setting touched  *)
(* since; and the fan runs exactly if the light is on.                      *)
ToiletFollowsDistance ==
  ToiletSettled /\ autoEnable = 1 /\ last # Http /\ ~moveLost /\ ~sampleLost
    => /\ relay = 1 <=> distVol < distOn
       /\ FanObeys => (fanRelay = 1 <=> distVol < distOn)

(* From the wall switch or the page to both relays: a manual light is as    *)
(* asked for, unless the message that said so was dropped, and so is a fan  *)
(* that is not manual itself.                                               *)
ToiletFollowsSwitch ==
  ToiletSettled /\ autoEnable = 0 /\ ~httpLost
    => relay = onOff /\ (FanObeys => fanRelay = onOff)
=============================================================================
