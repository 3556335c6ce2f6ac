------------------------------ MODULE Bathroom ------------------------------
(***************************************************************************)
(* The bathroom from its sensors to its two relays: the light (BathLight), *)
(* the timer that follows it (VentTimer), the humidity task (Humidity) and *)
(* the fan's controller that obeys both (VentControl), running together.   *)
(*                                                                         *)
(* Each of the four modules leaves its neighbours free; here they are the  *)
(* real ones.  Each variable is kept once.  The light a timer hears of is  *)
(* the relay, the queue it reads is BathLight's, and the two commands      *)
(* VentControl's sources have last posted are what the timer and the       *)
(* humidity task remember of them.  The web server's echo_handler, one     *)
(* task, serves one message of the page at a time.                         *)
(*                                                                         *)
(* A step is made of steps of the components: a reception by the timer is  *)
(* one of BathLight and of VentTimer.  The steps that post to the fan are  *)
(* written for their sender only, and that the fan's controller and the    *)
(* timer find in them what they expect is for the proofs to show.          *)
(***************************************************************************)
EXTENDS BathLight, Humidity

VARIABLES
  timerOnOff,  \* CheckBathLightOnOff: its ventOnOff,
  delay,       \* its delay
  relit,       \* and VentTimer's history of it
  autoVent,    \* DataParmTable[IDX_BATHVENTAUTOENABLE]
  fanOnOff,    \* DataParmTable[IDX_BATHVENTONOFF]
  fanUse,      \* DataParmTable[IDX_BATHVENTUSEHUM, IDX_BATHVENTUSEMOVE]
  fanStatus,   \* DataParmTable[IDX_BATHVENTSTATUS]
  fanWeb,      \* echo_handler, serving a parameter of the fan
  fanQ,        \* BathVentSendToCtrl
  fanPc,       \* BathVentControl: "receive", "decide" or "actuate"
  fanMsg,      \* its unidata
  fanRelay,    \* level of GPIO_BATH_VENT_OUT
  fanLast,     \* history: the last message that entered fanQ
  ventData,    \* history: the last LightData BathVentControl received
  ventLost,    \* history: the last LightData posted was dropped
  humLost      \* history: the last HumData posted was dropped

timer == <<timerOnOff, delay, relit>>
fan == <<autoVent, fanOnOff, fanUse, fanStatus, fanWeb, fanQ, fanPc, fanMsg, fanRelay, fanLast>>
heard == <<ventData, ventLost, humLost>>
bathroomVars == <<vars, timer, humVars, fan, heard>>

(* The command CheckBathHum last posted: it decides one step earlier. *)
Posted == IF humPc = "post" THEN IF ventOnOff = 0 THEN 1 ELSE 0 ELSE ventOnOff

(* The commands last posted, by their source. *)
Commands ==
  [s \in {"HumData", "LightData"} |-> IF s = "LightData" THEN timerOnOff ELSE Posted]

(* The other components, with the theorems about them. *)
Vent == INSTANCE VentControl_proofs
          WITH Room <- "Bath", onOff <- fanOnOff, use <- fanUse, status <- fanStatus,
               web <- fanWeb, ctrlQ <- fanQ, pc <- fanPc, msg <- fanMsg, relay <- fanRelay,
               last <- fanLast, command <- Commands
TimerQ == Vent!TimerView(fanQ)
Timer == INSTANCE VentTimer_proofs
           WITH light <- relay, telling <- pc = "notify", lightOnOff <- ventLight,
                ventOnOff <- timerOnOff, ventQ <- TimerQ

-----------------------------------------------------------------------------
BathroomInit ==
  /\ Init
  /\ timerOnOff = 0 /\ delay = Timer!Forever /\ relit = FALSE
  /\ HumInit
  /\ autoVent = 1 /\ fanOnOff = 0 /\ fanUse = [s \in Vent!Sources |-> 1]
  /\ fanStatus = 0 /\ fanRelay = 0
  /\ fanWeb = "idle" /\ fanQ = <<>> /\ fanPc = "receive"
  /\ fanMsg = Vent!HttpMsg /\ fanLast = Vent!HttpMsg
  /\ ventData = 0 /\ ventLost = FALSE /\ humLost = FALSE

(* A post to the fan's controller. *)
FanPost(m) ==
  /\ fanQ' = QueueSend(fanQ, QueueLen, m)
  /\ fanLast' = IF QueueFull(fanQ, QueueLen) THEN fanLast ELSE m
  /\ UNCHANGED <<autoVent, fanOnOff, fanUse, fanStatus, fanWeb, fanPc, fanMsg, fanRelay>>

-----------------------------------------------------------------------------
(* Steps of one component. *)

(* The light, up to the relay and the post to the timer. *)
LightStep ==
  /\ UNCHANGED <<timer, humVars, fan, heard>>
  /\ \/ \E s \in Sensors, v \in Bit : WriteVol(s, v)
     \/ \E p \in WebParms, v \in Bit : fanWeb = "idle" /\ WebWrite(p, v)
     \/ \E a, l \in Bit : SwitchWrite(a, l)
     \/ \E w \in Writers : Send(w)
     \/ Receive \/ Decide \/ Actuate \/ Notify

(* The humidity task and its sensor, up to the post to the fan. *)
HumidityStep ==
  /\ UNCHANGED <<vars, timer, fan, heard>>
  /\ AirChanges \/ HumIsrSetup \/ ReceiveHum \/ Judge

(* The fan's controller, and the page setting its parameters. *)
FanStep ==
  /\ UNCHANGED <<vars, timer, humVars, heard>>
  /\ \/ \E p \in Vent!Parms, v \in Bit :
          writer["echo_handler"] = "idle" /\ Vent!WebWrite(p, v)
     \/ Vent!WebSend \/ Vent!Decide \/ Vent!Actuate

(* Steps of two components. *)

(* The timer hears of the light. *)
TimerReceives ==
  /\ UNCHANGED <<humVars, fan, heard>>
  /\ VentReceive /\ (Timer!LightOn \/ Timer!LightOff)

(* The timer's delay runs out: it toggles and commands the fan. *)
TimerExpires ==
  /\ lightQ = <<>> /\ delay # Timer!Forever
  /\ timerOnOff' = IF timerOnOff = 0 THEN 1 ELSE 0
  /\ delay' = Timer!Forever
  /\ relit' = (relit /\ ventLight = 1)
  /\ FanPost([sender |-> "LightData", data |-> timerOnOff'])
  /\ ventLost' = QueueFull(fanQ, QueueLen)
  /\ UNCHANGED <<vars, humVars, ventData, humLost>>

(* The humidity task commands the fan. *)
HumidityTells ==
  /\ Tell
  /\ FanPost([sender |-> "HumData", data |-> ventOnOff])
  /\ humLost' = QueueFull(fanQ, QueueLen)
  /\ UNCHANGED <<vars, timer, ventData, ventLost>>

(* The page sets a threshold, which echo_handler announces to the fan. *)
SetThreshold ==
  /\ UNCHANGED <<vars, timer, heard>>
  /\ writer["echo_handler"] = "idle"
  /\ WriteThreshold /\ Vent!WebWrite("Other", 0)

(* The fan's controller takes a message, the timer's or another. *)
FanReceives ==
  /\ UNCHANGED <<vars, timer, humVars, ventLost, humLost>>
  /\ Vent!Receive
  /\ ventData' = IF Head(fanQ).sender = "LightData" THEN Head(fanQ).data ELSE ventData

BathroomNext ==
  \/ LightStep \/ HumidityStep \/ FanStep
  \/ TimerReceives \/ TimerExpires \/ HumidityTells \/ SetThreshold \/ FanReceives

BathroomSpec == BathroomInit /\ [][BathroomNext]_bathroomVars

-----------------------------------------------------------------------------
(* Properties *)

(* Nothing is under way between the sensors and the relays, nor awaited. *)
BathroomSettled == Settled /\ Vent!Settled /\ Timer!AtRest

(* All motion sensors in use, at least one, say v. *)
MotionIs(v) == {vol[s] : s \in {t \in Sensors : use[t] = 1}} = {v}

(* The automatic fan obeys s, which was the last to command it. *)
FanObeys(s) == autoVent = 1 /\ fanUse[s] = 1 /\ fanLast.sender = s

(* The fan obeys the timer, which has heard of the light: the last posts to *)
(* and from the timer were not dropped; a light that came on over a running *)
(* fan is the timer's known exception.                                      *)
FanObeysLight ==
  FanObeys("LightData") /\ ~lightLost /\ ~ventLost /\ (relay = 1 => ~relit)

(* From motion to both relays: with the light automatic and nothing under   *)
(* way, it is what all motion sensors in use agree on, and so is a fan that *)
(* obeys it.                                                                *)
RoomFollowsMotion ==
  \A v \in Bit :
    BathroomSettled /\ served /\ autoEnable = 1 /\ MotionIs(v)
      => relay = v /\ (FanObeysLight => fanRelay = v)

(* From the wall switch or the page to both relays: a manual light is as    *)
(* asked for, unless the message that said so was dropped, and so is a fan  *)
(* that obeys it.                                                           *)
RoomFollowsSwitch ==
  BathroomSettled /\ autoEnable = 0 /\ ~httpLost
    => relay = onOff /\ (FanObeysLight => fanRelay = onOff)

(* From humidity to the fan's relay: a fan that obeys the humidity task     *)
(* runs as the task has decided, if its last post was not dropped.          *)
FanFollowsHumidity ==
  Vent!Settled /\ humPc # "post" /\ FanObeys("HumData") /\ ~humLost => fanRelay = ventOnOff
=============================================================================
