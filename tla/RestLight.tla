----------------------------- MODULE RestLight -----------------------------
(***************************************************************************)
(* The toilet's light: the distance meter (DistIsrSetup), the task that    *)
(* compares its samples with the switch-on distance (CheckDistMove), the   *)
(* controller RestLightControl and the writers of its settings.            *)
(*                                                                         *)
(* CheckDistMove reports only CHANGES of its local lightOnOff and, before  *)
(* reporting that somebody left, sleeps for RestLightDelay seconds with    *)
(* samples piling up behind it.  On a message from the page or the wall    *)
(* switch the controller decides by a comparison of its own, from the      *)
(* table, of which CheckDistMove knows nothing.                            *)
(*                                                                         *)
(* DistIsrSetup stores the largest of every four echoes, here any distance, *)
(* in the table and then posts it.  The posts to SendWsQueue are not part   *)
(* of this module; RestLightIsrQueue, to which the controller posts after   *)
(* it has switched the light, is module Toilet's.                          *)
(***************************************************************************)
EXTENDS RtosQueue

CONSTANTS
  QueueLen,    \* places in DistIsrQueue and RestLightSendToCtrl
  Distances,   \* bound: the distances measured
  OnDistances  \* bound: the switch-on distances in the table at boot and set
               \* on the page

ASSUME QueueLenAssumption == QueueLen \in Nat \ {0}
ASSUME DistancesAssumption ==
  Distances \subseteq Nat /\ OnDistances \subseteq Nat /\ OnDistances # {}

Bit == {0, 1}
Http == 2  \* a message of the page or the switch; 0 and 1 are DistStatus
HttpWriters == {"echo_handler", "QuickRestLightSw"}

VARIABLES
  autoEnable,  \* DataParmTable[IDX_RESTLIGHTAUTOENABLE]
  onOff,       \* DataParmTable[IDX_RESTLIGHTONOFF]
  onDist,      \* DataParmTable[IDX_RESTLIGHTONDIST]
  distVol,     \* DataParmTable[IDX_DISTVOL]
  status,      \* DataParmTable[IDX_RESTLIGHTSTATUS]
  writer,      \* per writer: "idle", or "send" between its write and its post
  meter,       \* DistIsrSetup: "measure", or "post" between its write and its post
  midlDist,    \* its midl_dist; 0 once it is dead
  distQ,       \* DistIsrQueue
  taskPc,      \* CheckDistMove: "receive", "compare", "delay" or "post"
  dist,        \* its dist; 0 once it is dead
  distOn,      \* its distOn
  lightOnOff,  \* its lightOnOff
  ctrlQ,       \* RestLightSendToCtrl
  pc,          \* RestLightControl: "receive", "decide" or "actuate"
  msg,         \* its unidata; Http once it is dead
  relay,       \* level of GPIO_REST_LIGHT_OUT
  last,        \* history: the last message that entered ctrlQ
  httpLost,    \* history: the last Http message was dropped
  moveLost,    \* history: the last report of CheckDistMove was dropped
  sampleLost   \* history: the last sample was dropped

settings == <<autoEnable, onOff, onDist>>
sensor == <<taskPc, dist, distOn, lightOnOff>>
ctrl == <<status, pc, msg, relay>>
history == <<last, httpLost, moveLost, sampleLost>>
isr == <<meter, midlDist>>
vars == <<settings, distVol, writer, isr, distQ, sensor, ctrlQ, ctrl, history>>

(* What the controller makes of the table on message m.  On a return to     *)
(* automatic mode (or any other setting) it compares the distances itself.  *)
LightOnOff(m) ==
  IF m = Http
  THEN IF autoEnable = 0 THEN onOff ELSE IF onDist < distVol THEN 0 ELSE 1
  ELSE IF autoEnable = 0 THEN status ELSE m

-----------------------------------------------------------------------------
(* Mutations of the actions: the bugs the properties are shown to exclude. *)

(* the meter ignores the capacity of its queue *)
SamplePost_Unbounded ==
  /\ meter = "post" /\ meter' = "measure"
  /\ distQ' = Append(distQ, midlDist)
  /\ midlDist' = 0
  /\ UNCHANGED <<settings, distVol, writer, sensor, ctrlQ, ctrl, history>>

(* a sample beyond the distance is stored but nobody is taken to have left *)
Far_NoDelay ==
  /\ taskPc = "compare" /\ dist >= onDist
  /\ distVol' = dist /\ distOn' = onDist /\ dist' = 0
  /\ taskPc' = "receive"
  /\ UNCHANGED <<settings, writer, isr, distQ, lightOnOff, ctrlQ, ctrl, history>>

(* the task never reports after its delay *)
DelayOver_NoPost ==
  /\ taskPc = "delay"
  /\ lightOnOff' = 0 /\ taskPc' = "receive"
  /\ UNCHANGED <<settings, distVol, writer, isr, distQ, dist, distOn, ctrlQ, ctrl, history>>

(* the switch's change is stored and the controller not told *)
SwitchWrite_NoPost ==
  /\ writer["QuickRestLightSw"] = "idle"
  /\ autoEnable' \in Bit /\ onOff' \in Bit
  /\ UNCHANGED <<onDist, distVol, writer, isr, distQ, sensor, ctrlQ, ctrl, history>>
-----------------------------------------------------------------------------
(* The table's DISTVOL of 230 cm is beyond the ONDIST of 120 cm. *)
Init ==
  /\ autoEnable = 1 /\ onOff = 0 /\ onDist \in OnDistances
  /\ distVol \in {d \in Distances : d > onDist}
  /\ status = 0 /\ relay = 0
  /\ writer = [w \in HttpWriters |-> "idle"]
  /\ meter = "measure" /\ midlDist = 0
  /\ distQ = <<>> /\ taskPc = "receive" /\ dist = 0 /\ distOn = onDist
  /\ lightOnOff = 0
  /\ ctrlQ = <<>> /\ pc = "receive" /\ msg = Http
  /\ last = 0 /\ httpLost = FALSE /\ moveLost = FALSE /\ sampleLost = FALSE

(* DistIsrSetup stores a sample in the table ... *)
Measure(d) ==
  /\ meter = "measure" /\ meter' = "post"
  /\ distVol' = d /\ midlDist' = d
  /\ UNCHANGED <<settings, writer, distQ, sensor, ctrlQ, ctrl, history>>

(* ... and posts it, CheckDistMove perhaps storing an older one in between. *)
SamplePost ==
  /\ meter = "post" /\ meter' = "measure"
  /\ distQ' = QueueSend(distQ, QueueLen, midlDist)
  /\ sampleLost' = QueueFull(distQ, QueueLen)
  /\ midlDist' = 0
  /\ UNCHANGED <<settings, distVol, writer, sensor, ctrlQ, ctrl, last, httpLost, moveLost>>

(* echo_handler stores one setting; one that it stores unchanged stands for  *)
(* OFFDIST, which is addressed to the controller and read by nobody.         *)
WebWrite ==
  /\ writer["echo_handler"] = "idle"
  /\ \/ autoEnable' \in Bit /\ UNCHANGED <<onOff, onDist>>
     \/ onOff' \in Bit /\ UNCHANGED <<autoEnable, onDist>>
     \/ onDist' \in OnDistances /\ UNCHANGED <<autoEnable, onOff>>
  /\ writer' = [writer EXCEPT !["echo_handler"] = "send"]
  /\ UNCHANGED <<distVol, isr, distQ, sensor, ctrlQ, ctrl, history>>

(* The wall switch: one flip selects manual mode, quick flips automatic mode. *)
SwitchWrite ==
  /\ writer["QuickRestLightSw"] = "idle"
  /\ autoEnable' \in Bit /\ onOff' \in Bit
  /\ writer' = [writer EXCEPT !["QuickRestLightSw"] = "send"]
  /\ UNCHANGED <<onDist, distVol, isr, distQ, sensor, ctrlQ, ctrl, history>>

(* ... and posts to the controller. *)
Send(w) ==
  /\ writer[w] = "send"
  /\ writer' = [writer EXCEPT ![w] = "idle"]
  /\ ctrlQ' = QueueSend(ctrlQ, QueueLen, Http)
  /\ httpLost' = QueueFull(ctrlQ, QueueLen)
  /\ last' = IF QueueFull(ctrlQ, QueueLen) THEN last ELSE Http
  /\ UNCHANGED <<settings, distVol, isr, distQ, sensor, ctrl, moveLost, sampleLost>>

-----------------------------------------------------------------------------
(* CheckDistMove *)

Take ==
  /\ taskPc = "receive" /\ distQ # <<>>
  /\ dist' = Head(distQ) /\ distQ' = Tail(distQ)
  /\ taskPc' = "compare"
  /\ UNCHANGED <<settings, distVol, writer, isr, distOn, lightOnOff, ctrlQ, ctrl, history>>

(* The critical section stores the sample and reads the distance. *)
Near ==
  /\ taskPc = "compare" /\ dist < onDist
  /\ distVol' = dist /\ distOn' = onDist /\ dist' = 0
  /\ lightOnOff' = 1
  /\ taskPc' = IF lightOnOff = 0 THEN "post" ELSE "receive"
  /\ UNCHANGED <<settings, writer, isr, distQ, ctrlQ, ctrl, history>>

Far ==
  /\ taskPc = "compare" /\ dist >= onDist
  /\ distVol' = dist /\ distOn' = onDist /\ dist' = 0
  /\ taskPc' = IF lightOnOff = 1 THEN "delay" ELSE "receive"
  /\ UNCHANGED <<settings, writer, isr, distQ, lightOnOff, ctrlQ, ctrl, history>>

(* vTaskDelay has passed. *)
DelayOver ==
  /\ taskPc = "delay"
  /\ lightOnOff' = 0 /\ taskPc' = "post"
  /\ UNCHANGED <<settings, distVol, writer, isr, distQ, dist, distOn, ctrlQ, ctrl, history>>

Post ==
  /\ taskPc = "post"
  /\ taskPc' = "receive"
  /\ ctrlQ' = QueueSend(ctrlQ, QueueLen, lightOnOff)
  /\ moveLost' = QueueFull(ctrlQ, QueueLen)
  /\ last' = IF QueueFull(ctrlQ, QueueLen) THEN last ELSE lightOnOff
  /\ UNCHANGED <<settings, distVol, writer, isr, distQ, dist, distOn, lightOnOff, ctrl,
                 httpLost, sampleLost>>

CheckDistMove == Take \/ Near \/ Far \/ DelayOver \/ Post

-----------------------------------------------------------------------------
(* RestLightControl *)

Receive ==
  /\ pc = "receive" /\ ctrlQ # <<>>
  /\ msg' = Head(ctrlQ) /\ ctrlQ' = Tail(ctrlQ)
  /\ pc' = "decide"
  /\ UNCHANGED <<settings, distVol, writer, isr, distQ, sensor, status, relay, history>>

Decide ==
  /\ pc = "decide"
  /\ status' = LightOnOff(msg)
  /\ pc' = IF status' = status THEN "receive" ELSE "actuate"
  /\ msg' = Http
  /\ UNCHANGED <<settings, distVol, writer, isr, distQ, sensor, ctrlQ, relay, history>>

(* The post to RestLightIsrQueue, next, is module Toilet's. *)
Actuate ==
  /\ pc = "actuate"
  /\ relay' = status
  /\ pc' = "receive"
  /\ UNCHANGED <<settings, distVol, writer, isr, distQ, sensor, ctrlQ, status, msg, history>>

RestLightControl == Receive \/ Decide \/ Actuate

Next ==
  \/ \E d \in Distances : Measure(d)
  \/ SamplePost
  \/ WebWrite \/ SwitchWrite
  \/ \E w \in HttpWriters : Send(w)
  \/ CheckDistMove \/ RestLightControl

Spec == Init /\ [][Next]_vars

(* The tasks are scheduled and vTaskDelay returns; of the writers it is     *)
(* enough that one or the other gets to post.                               *)
FairSpec ==
  /\ Spec
  /\ WF_vars(\E w \in HttpWriters : Send(w))
  /\ WF_vars(SamplePost) /\ WF_vars(CheckDistMove) /\ WF_vars(RestLightControl)

-----------------------------------------------------------------------------
(* Properties *)

TypeOK ==
  /\ autoEnable \in Bit /\ onOff \in Bit /\ onDist \in OnDistances
  /\ distVol \in Distances /\ status \in Bit /\ relay \in Bit
  /\ writer \in [HttpWriters -> {"idle", "send"}]
  /\ meter \in {"measure", "post"} /\ midlDist \in Distances \cup {0}
  /\ distQ \in Seq(Distances) /\ Len(distQ) <= QueueLen
  /\ taskPc \in {"receive", "compare", "delay", "post"}
  /\ dist \in Distances \cup {0} /\ distOn \in OnDistances /\ lightOnOff \in Bit
  /\ ctrlQ \in Seq(Bit \cup {Http}) /\ Len(ctrlQ) <= QueueLen
  /\ pc \in {"receive", "decide", "actuate"} /\ msg \in Bit \cup {Http}
  /\ last \in Bit \cup {Http}
  /\ httpLost \in BOOLEAN /\ moveLost \in BOOLEAN /\ sampleLost \in BOOLEAN

(* No sample and no message is on its way to the relay. *)
Settled ==
  /\ \A w \in HttpWriters : writer[w] = "idle"
  /\ meter = "measure" /\ distQ = <<>> /\ taskPc = "receive"
  /\ ctrlQ = <<>> /\ pc = "receive"

(* In manual mode the settled light is what the switch or page asked for,   *)
(* if the last such message got into the queue.                             *)
ManualLightFollowsSwitch == Settled /\ autoEnable = 0 /\ ~httpLost => relay = onOff

(* In automatic mode the settled light agrees with the last sample and the  *)
(* distance it was compared with, if the controller last heard of it from   *)
(* CheckDistMove and nothing was dropped: the two-second sleep, the samples *)
(* stored twice and the ones queued during the sleep do no harm.            *)
AutoLightFollowsDistance ==
  Settled /\ autoEnable = 1 /\ last # Http /\ ~moveLost /\ ~sampleLost
    => (relay = 1 <=> distVol < distOn)

(* Somebody who leaves for good is noticed: an automatic light goes off     *)
(* once the last sample was compared with the present switch-on distance,   *)
(* unless settings change or a message is dropped meanwhile.                *)
Left == /\ autoEnable = 1 /\ distVol >= onDist /\ distOn = onDist /\ last # Http
        /\ ~moveLost /\ ~sampleLost
LeavingIsNoticed == Left ~> relay = 0 \/ ~Left

(* The comment of CheckDistMove: the light is switched on and off by one    *)
(* parameter, the switch-on distance.  Once a sample has been compared with *)
(* the present value of the parameter and nothing was dropped, the light is *)
(* off if the sample is beyond it.                                          *)
LightOffWhenFar ==
  Settled /\ autoEnable = 1 /\ distOn = onDist /\ distVol > onDist
    /\ ~moveLost /\ ~sampleLost /\ ~httpLost => relay = 0
=============================================================================
