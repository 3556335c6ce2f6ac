----------------------------- MODULE VentTimer -----------------------------
(***************************************************************************)
(* From a light to its fan: CheckBathLightOnOff (and CheckRestLightOnOff,  *)
(* the same code over the other room's queues).  The light's controller    *)
(* switches the light and then posts its new state to BathLightIsrQueue;   *)
(* the task turns the fan on a delay after the light went on and off a     *)
(* delay after it went off, by posting to the fan's controller through a   *)
(* queue it shares with the web page and the humidity sensor.              *)
(*                                                                         *)
(* Time is the timeout of xQueueReceive: it may expire whenever the queue  *)
(* is empty, whatever the length of the delay.                             *)
(***************************************************************************)
EXTENDS RtosQueue

CONSTANTS QueueLen  \* places in BathLightIsrQueue and in BathVentSendToCtrl

ASSUME QueueLenAssumption == QueueLen \in Nat \ {0}

Bit == {0, 1}
Forever == "portMAX_DELAY"
Other == 2  \* a message of the web page or the humidity sensor

VARIABLES
  light,       \* the state of the light
  telling,     \* the light's controller has switched it and not posted yet
  lightQ,      \* BathLightIsrQueue
  lightOnOff,  \* the task's lightOnOff: the last state it received
  ventOnOff,   \* the task's ventOnOff: whether it has asked for the fan
  delay,       \* the task's delay: Forever, "OnDelay" or "OffDelay" ticks
  ventQ,       \* BathVentSendToCtrl: LightData of the task's messages, or Other
  ventData,    \* the last LightData the fan's controller received
  lightLost,   \* history: the last post to lightQ was dropped
  ventLost,    \* history: the last LightData posted to ventQ was dropped
  relit        \* history: the light came on while the fan was already running

vars == <<light, telling, lightQ, lightOnOff, ventOnOff, delay, ventQ, ventData,
          lightLost, ventLost, relit>>

-----------------------------------------------------------------------------
(* Mutations: the bugs the properties are shown to exclude. *)

(* the light's controller ignores the capacity of the queue *)
LightPost_Unbounded ==
  /\ telling /\ telling' = FALSE
  /\ lightQ' = Append(lightQ, light)
  /\ UNCHANGED <<light, lightOnOff, ventOnOff, delay, ventQ, ventData, lightLost, ventLost,
                 relit>>

(* the off-delay is started although the fan never came on *)
LightOff_AlwaysDelay ==
  /\ lightQ # <<>> /\ Head(lightQ) # 1
  /\ lightOnOff' = Head(lightQ) /\ lightQ' = Tail(lightQ)
  /\ delay' = "OffDelay"
  /\ UNCHANGED <<light, telling, ventOnOff, ventQ, ventData, lightLost, ventLost, relit>>

(* the light going off is taken for the end of all waiting *)
LightOff_NeverDelay ==
  /\ lightQ # <<>> /\ Head(lightQ) # 1
  /\ lightOnOff' = Head(lightQ) /\ lightQ' = Tail(lightQ)
  /\ delay' = Forever
  /\ relit' = (relit /\ ventOnOff = 1)
  /\ UNCHANGED <<light, telling, ventOnOff, ventQ, ventData, lightLost, ventLost>>

(* a light going on does not restart the wait that was given up *)
LightOn_NoDelay ==
  /\ lightQ # <<>> /\ Head(lightQ) = 1
  /\ lightOnOff' = 1 /\ lightQ' = Tail(lightQ)
  /\ relit' = (ventOnOff = 1)
  /\ UNCHANGED <<light, telling, ventOnOff, delay, ventQ, ventData, lightLost, ventLost>>

(* the message carries the state before the toggle *)
Timeout_OldState ==
  /\ lightQ = <<>> /\ delay # Forever
  /\ ventOnOff' = 1 - ventOnOff
  /\ delay' = Forever
  /\ ventQ' = QueueSend(ventQ, QueueLen, ventOnOff)
  /\ ventLost' = QueueFull(ventQ, QueueLen)
  /\ relit' = (relit /\ lightOnOff = 1)
  /\ UNCHANGED <<light, telling, lightQ, lightOnOff, ventData, lightLost>>

-----------------------------------------------------------------------------
Init ==
  /\ light = 0 /\ telling = FALSE /\ lightQ = <<>>
  /\ lightOnOff = 0 /\ ventOnOff = 0 /\ delay = Forever
  /\ ventQ = <<>> /\ ventData = 0
  /\ lightLost = FALSE /\ ventLost = FALSE /\ relit = FALSE

(* The light's controller switches the light ... *)
LightSwitch ==
  /\ ~telling /\ telling' = TRUE
  /\ light' = 1 - light
  /\ UNCHANGED <<lightQ, lightOnOff, ventOnOff, delay, ventQ, ventData, lightLost, ventLost,
                 relit>>

(* ... and posts its new state. *)
LightPost ==
  /\ telling /\ telling' = FALSE
  /\ lightQ' = QueueSend(lightQ, QueueLen, light)
  /\ lightLost' = QueueFull(lightQ, QueueLen)
  /\ UNCHANGED <<light, lightOnOff, ventOnOff, delay, ventQ, ventData, ventLost, relit>>

(* The light came on: wait for the on-delay, whatever the fan does. *)
LightOn ==
  /\ lightQ # <<>> /\ Head(lightQ) = 1
  /\ lightOnOff' = 1 /\ lightQ' = Tail(lightQ)
  /\ delay' = "OnDelay"
  /\ relit' = (ventOnOff = 1)
  /\ UNCHANGED <<light, telling, ventOnOff, ventQ, ventData, lightLost, ventLost>>

(* The light went off: nothing to do unless the fan is on. *)
LightOff ==
  /\ lightQ # <<>> /\ Head(lightQ) # 1
  /\ lightOnOff' = Head(lightQ) /\ lightQ' = Tail(lightQ)
  /\ delay' = IF ventOnOff = 0 THEN Forever ELSE "OffDelay"
  /\ relit' = (relit /\ ventOnOff = 1)
  /\ UNCHANGED <<light, telling, ventOnOff, ventQ, ventData, lightLost, ventLost>>

(* A delay ran out: the fan is toggled and its controller told. *)
Timeout ==
  /\ lightQ = <<>> /\ delay # Forever
  /\ ventOnOff' = IF ventOnOff = 0 THEN 1 ELSE 0
  /\ delay' = Forever
  /\ ventQ' = QueueSend(ventQ, QueueLen, ventOnOff')
  /\ ventLost' = QueueFull(ventQ, QueueLen)
  /\ relit' = (relit /\ lightOnOff = 1)
  /\ UNCHANGED <<light, telling, lightQ, lightOnOff, ventData, lightLost>>

(* The other senders to the fan's controller. *)
OtherPost ==
  /\ ventQ' = QueueSend(ventQ, QueueLen, Other)
  /\ UNCHANGED <<light, telling, lightQ, lightOnOff, ventOnOff, delay, ventData,
                 lightLost, ventLost, relit>>

(* BathVentControl receives; what it decides is module VentControl's. *)
VentReceive ==
  /\ ventQ # <<>>
  /\ ventQ' = Tail(ventQ)
  /\ ventData' = IF Head(ventQ) = Other THEN ventData ELSE Head(ventQ)
  /\ UNCHANGED <<light, telling, lightQ, lightOnOff, ventOnOff, delay, lightLost, ventLost, relit>>

Task == LightOn \/ LightOff \/ Timeout

Next == LightSwitch \/ LightPost \/ Task \/ OtherPost \/ VentReceive

Spec == Init /\ [][Next]_vars

(* The tasks are scheduled and a delay that is waited for runs out. *)
FairSpec == Spec /\ WF_vars(LightPost) /\ WF_vars(Task) /\ WF_vars(VentReceive)

-----------------------------------------------------------------------------
(* Properties *)

TypeOK ==
  /\ light \in Bit /\ telling \in BOOLEAN /\ lightOnOff \in Bit /\ ventOnOff \in Bit /\ ventData \in Bit
  /\ lightQ \in Seq(Bit) /\ Len(lightQ) <= QueueLen
  /\ ventQ \in Seq(Bit \cup {Other}) /\ Len(ventQ) <= QueueLen
  /\ delay \in {Forever, "OnDelay", "OffDelay"}
  /\ lightLost \in BOOLEAN /\ ventLost \in BOOLEAN /\ relit \in BOOLEAN

(* The task waits for nothing, and nothing is about to be posted to it. *)
AtRest == ~telling /\ lightQ = <<>> /\ delay = Forever

(* "If the light is switched off before the on-delay, the fan is not        *)
(* switched on": the task asks for the fan in the dark only if the delay    *)
(* ran out between the switching of the light and the post that tells so.   *)
FanStartsOnlyInLight ==
  [][ventOnOff = 0 /\ ventOnOff' = 1 => light = 1 \/ telling \/ lightLost]_vars

(* The fan's controller has read its queue and heard v from the task,       *)
(* unless the other senders had filled the queue.                           *)
ControllerHears(v) == ventQ = <<>> /\ ~ventLost => ventData = v

(* A dark room at rest has no fan running, and the fan's controller, which  *)
(* shares its queue with other senders, was told so last.                   *)
NoFanInDarkRoom ==
  AtRest /\ light = 0 /\ ~lightLost => ventOnOff = 0 /\ ControllerHears(0)

(* A lit room at rest has its fan running, if the light did not come on     *)
(* while the fan of the previous visit was still running; likewise.         *)
FanRunsUnlessRelit ==
  AtRest /\ light = 1 /\ ~lightLost /\ ~relit => ventOnOff = 1 /\ ControllerHears(1)

(* After the light goes off the fan is eventually told to stop. *)
FanStops == light = 0 ~> ventOnOff = 0 \/ light = 1 \/ lightLost

(* "The fan is switched on after the light is and off after the light is":  *)
(* with no proviso about when the light comes on.                           *)
FanFollowsLight == AtRest /\ light = 1 /\ ~lightLost => ventOnOff = 1
=============================================================================
