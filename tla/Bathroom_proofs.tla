-------------------------- MODULE Bathroom_proofs ---------------------------
(***************************************************************************)
(* Proofs about the bathroom's parts and the bathroom, for every queue      *)
(* length, either value of IrMvAnyAll and all thresholds.                  *)
(*                                                                         *)
(* First BathLight.  The controller only ever looks at the table when it   *)
(* serves a message, so each proof rests on an invariant of the form "the  *)
(* light is right, or a message that will make it right is still on its    *)
(* way".  Then Humidity.                                                   *)
(*                                                                         *)
(* The last part is about the whole room, module Bathroom: what each       *)
(* component assumes of its neighbours is what they do, so that each works *)
(* there as it does alone, and their theorems add up to those that lead    *)
(* from the motion sensors, the switch and the air to the relays.          *)
(***************************************************************************)
EXTENDS Bathroom, TLAPS

(* Some message is queued, being served, or about to be posted. *)
MessageUnderWay ==
  \/ ctrlQ # <<>>
  \/ pc = "decide"
  \/ \E w \in Writers : writer[w] = "send"

(* The same of a message that carries out a command of the switch or page. *)
HttpUnderWay ==
  \/ \E i \in 1 .. Len(ctrlQ) : ctrlQ[i] = "Http"
  \/ sender = "Http"
  \/ \E w \in HttpWriters : writer[w] = "send"

RelayInv == pc # "actuate" => relay = status

AutoInv == served /\ autoEnable = 1 => status = SensorLight \/ MessageUnderWay

VentInv ==
  pc # "notify" /\ ~lightLost => IF lightQ = <<>> THEN ventLight = relay ELSE lightQ[Len(lightQ)] = relay

ManualInv == ~httpLost /\ autoEnable = 0 => status = onOff \/ HttpUnderWay

-----------------------------------------------------------------------------
(* The light computed from a well-typed table is on or off. *)
LEMMA LightOnOffType ==
  ASSUME TypeOK, NEW m PROVE LightOnOff(m) \in Bit
  BY DEF TypeOK, LightOnOff, SensorLight, Bit

(* TypeOK is inductive: the queues stay within their capacity and every     *)
(* local of the controller and its writers within its type.                 *)
THEOREM TypeCorrect == Spec => []TypeOK
<1>1. Init => TypeOK
  <2> SUFFICES ASSUME Init PROVE TypeOK
    OBVIOUS
  <2>1. <<>> \in Seq(Senders) /\ <<>> \in Seq(Bit) /\ Len(<<>>) = 0 /\ 0 <= QueueLen
    BY QueueLenAssumption
  <2>2. ctrlQ \in Seq(Senders) /\ Len(ctrlQ) <= QueueLen
        /\ lightQ \in Seq(Bit) /\ Len(lightQ) <= QueueLen
    BY <2>1 DEF Init
  <2>3. use \in [Sensors -> Bit] /\ vol \in [Sensors -> Bit]
    BY DEF Init, Bit
  <2>4. writer \in [Writers -> {"idle", "send"}]
    BY DEF Init
  <2> QED
    BY <2>2, <2>3, <2>4 DEF Init, TypeOK, Bit
<1>2. TypeOK /\ [Next]_vars => TypeOK'
  <2> SUFFICES ASSUME TypeOK, [Next]_vars PROVE TypeOK'
    OBVIOUS
  <2> USE DEF TypeOK
  <2>1. ASSUME NEW s \in Sensors, NEW v \in Bit, WriteVol(s, v) PROVE TypeOK'
    BY <2>1 DEF WriteVol, ctrl, Writers, Sensors
  <2>2. ASSUME NEW p \in WebParms, NEW v \in Bit, WebWrite(p, v) PROVE TypeOK'
    BY <2>2 DEF WebWrite, ctrl, Writers, HttpWriters
  <2>3. ASSUME NEW a \in Bit, NEW l \in Bit, SwitchWrite(a, l) PROVE TypeOK'
    BY <2>3 DEF SwitchWrite, ctrl, Writers, HttpWriters
  <2>4. ASSUME NEW w \in Writers, Send(w) PROVE TypeOK'
    <3> DEFINE m == IF w \in Sensors THEN w ELSE "Http"
    <3>1. m \in Senders
      BY DEF Senders
    <3>2. ctrlQ' \in Seq(Senders) /\ Len(ctrlQ') <= QueueLen
      BY <2>4, <3>1, QueueLenAssumption DEF Send, QueueSend, QueueFull
    <3>3. httpLost' \in BOOLEAN
      <4>1. CASE w \in Sensors
        BY <2>4, <4>1 DEF Send
      <4>2. CASE w \notin Sensors
        BY <2>4, <4>2 DEF Send, QueueFull
      <4> QED
        BY <4>1, <4>2
    <3>4. writer' \in [Writers -> {"idle", "send"}]
      BY <2>4 DEF Send
    <3> HIDE DEF m
    <3> QED
      BY <2>4, <3>2, <3>3, <3>4 DEF Send, table, ctrl
  <2>5. CASE Receive
    <3>1. Head(ctrlQ) \in Senders /\ Tail(ctrlQ) \in Seq(Senders)
          /\ Len(Tail(ctrlQ)) <= QueueLen
      BY <2>5, QueueLenAssumption DEF Receive
    <3>2. Head(ctrlQ) # "none"
      BY <3>1 DEF Senders, Sensors
    <3> QED
      BY <2>5, <3>1, <3>2 DEF Receive, table
  <2>6. CASE Decide
    BY <2>6, LightOnOffType DEF Decide, table
  <2>7. CASE Actuate
    BY <2>7 DEF Actuate, table
  <2>10. CASE Notify
    <3>1. lightQ' \in Seq(Bit) /\ Len(lightQ') <= QueueLen
      BY <2>10, QueueLenAssumption DEF Notify, QueueSend, QueueFull
    <3> QED
      BY <2>10, <3>1 DEF Notify, table, QueueFull
  <2>8. CASE VentReceive
    <3>1. Head(lightQ) \in Bit /\ Tail(lightQ) \in Seq(Bit) /\ Len(Tail(lightQ)) <= QueueLen
      BY <2>8, QueueLenAssumption DEF VentReceive
    <3> QED
      BY <2>8, <3>1 DEF VentReceive, table, ctrl
  <2>9. CASE UNCHANGED vars
    BY <2>9 DEF vars, table, ctrl
  <2> QED
    BY <2>1, <2>2, <2>3, <2>4, <2>5, <2>6, <2>7, <2>8, <2>9, <2>10
       DEF Next, Environment, Firmware
<1> QED
  BY <1>1, <1>2, PTL DEF Spec

-----------------------------------------------------------------------------
(* The relay shows the status except between the decision and the relay call. *)
LEMMA RelayStep == TypeOK /\ RelayInv /\ [Next]_vars => RelayInv'
<1> SUFFICES ASSUME TypeOK, RelayInv, [Next]_vars PROVE RelayInv'
  OBVIOUS
<1> USE DEF RelayInv
<1>1. CASE Environment
  BY <1>1 DEF Environment, WriteVol, WebWrite, SwitchWrite, ctrl
<1>2. ASSUME NEW w \in Writers, Send(w) PROVE RelayInv'
  BY <1>2 DEF Send, ctrl
<1>3. CASE Receive
  BY <1>3 DEF Receive
<1>4. CASE Decide
  BY <1>4 DEF Decide
<1>5. CASE Actuate \/ Notify
  BY <1>5 DEF Actuate, Notify
<1>6. CASE VentReceive \/ UNCHANGED vars
  BY <1>6 DEF VentReceive, vars, ctrl
<1> QED
  BY <1>1, <1>2, <1>3, <1>4, <1>5, <1>6 DEF Next, Firmware

(* In automatic mode a status that is not what the sensors ask for has a    *)
(* message under way: every writer of the table posts after it writes, and  *)
(* a post is dropped only when the queue holds other messages.              *)
LEMMA AutoStep == TypeOK /\ AutoInv /\ [Next]_vars => AutoInv'
<1> SUFFICES ASSUME TypeOK, AutoInv, [Next]_vars, served', autoEnable' = 1
             PROVE  status' = SensorLight' \/ MessageUnderWay'
  BY DEF AutoInv
<1>1. ASSUME NEW w \in Writers, writer' = [writer EXCEPT ![w] = "send"]
      PROVE  MessageUnderWay'
  BY <1>1 DEF TypeOK, MessageUnderWay
<1>2. CASE Environment
  BY <1>1, <1>2 DEF Environment, WriteVol, WebWrite, SwitchWrite, Writers, HttpWriters
<1>3. ASSUME NEW w \in Writers, Send(w) PROVE MessageUnderWay'
  <2>1. (IF w \in Sensors THEN w ELSE "Http") \in Senders
    BY DEF Senders
  <2> QED
    <3>1. ctrlQ \in Seq(Senders) /\ Len(ctrlQ) <= QueueLen
      BY DEF TypeOK
    <3>2. ctrlQ' # <<>>
      BY <1>3, <2>1, <3>1, QueueLenAssumption DEF Send, QueueSend, QueueFull
    <3> QED
      BY <3>2 DEF MessageUnderWay
<1>4. CASE Receive
  BY <1>4 DEF Receive, MessageUnderWay
<1>5. CASE Decide
  <2>1. autoEnable = 1 /\ use' = use /\ vol' = vol /\ status' = SensorLight
    BY <1>5 DEF Decide, LightOnOff, table
  <2> QED
    BY <2>1 DEF SensorLight
<1>6. CASE Actuate \/ Notify \/ VentReceive \/ UNCHANGED vars
  <2>1. /\ UNCHANGED <<table, status, writer, ctrlQ, served>>
        /\ pc' = "decide" <=> pc = "decide"
    BY <1>6 DEF Actuate, Notify, VentReceive, vars, ctrl
  <2>2. UNCHANGED <<autoEnable, use, vol>>
    BY <2>1 DEF table
  <2> QED
    BY <2>1, <2>2 DEF AutoInv, SensorLight, MessageUnderWay
<1> QED
  BY <1>2, <1>3, <1>4, <1>5, <1>6 DEF Next, Firmware

(* In manual mode a status that is not the switch's has an "Http" message   *)
(* under way, unless the last one was dropped.                              *)
LEMMA ManualStep == TypeOK /\ ManualInv /\ [Next]_vars => ManualInv'
<1> SUFFICES ASSUME TypeOK, ManualInv, [Next]_vars, ~httpLost', autoEnable' = 0
             PROVE  status' = onOff' \/ HttpUnderWay'
  BY DEF ManualInv
<1>1. ASSUME NEW s \in Sensors, NEW v \in Bit, WriteVol(s, v)
      PROVE  status' = onOff' \/ HttpUnderWay'
  <2>1. \A w \in HttpWriters : writer'[w] = writer[w]
    BY <1>1 DEF WriteVol, TypeOK, HttpWriters, Writers, Sensors
  <2> QED
    BY <1>1, <2>1 DEF WriteVol, ctrl, ManualInv, HttpUnderWay
<1>2. ASSUME NEW p \in WebParms, NEW v \in Bit, WebWrite(p, v) PROVE HttpUnderWay'
  BY <1>2 DEF WebWrite, TypeOK, HttpUnderWay, HttpWriters, Writers
<1>3. ASSUME NEW a \in Bit, NEW l \in Bit, SwitchWrite(a, l) PROVE HttpUnderWay'
  BY <1>3 DEF SwitchWrite, TypeOK, HttpUnderWay, HttpWriters, Writers
<1>4. ASSUME NEW w \in Writers, Send(w) PROVE status' = onOff' \/ HttpUnderWay'
  <2>1. PICK m \in Senders : /\ ctrlQ' = QueueSend(ctrlQ, QueueLen, m)
                             /\ w \notin Sensors => m = "Http"
    BY <1>4 DEF Send, Senders
  <2>2. ctrlQ \in Seq(Senders) /\ Len(ctrlQ) <= QueueLen /\ QueueLen \in Nat
    BY QueueLenAssumption DEF TypeOK
  <2>3. CASE w \in Sensors
    <3>1. ~httpLost /\ \A x \in HttpWriters : writer'[x] = writer[x]
      BY <1>4, <2>3 DEF Send, TypeOK, HttpWriters, Writers, Sensors
    <3>2. ASSUME NEW i \in 1 .. Len(ctrlQ)
          PROVE  i \in 1 .. Len(ctrlQ') /\ ctrlQ'[i] = ctrlQ[i]
      <4>1. i \in 1 .. Len(QueueSend(ctrlQ, QueueLen, m))
            /\ QueueSend(ctrlQ, QueueLen, m)[i] = ctrlQ[i]
        BY <2>2 DEF QueueSend, QueueFull
      <4> QED
        BY <2>1, <4>1
    <3> QED
      BY <1>4, <3>1, <3>2 DEF Send, table, ctrl, ManualInv, HttpUnderWay
  <2>4. CASE w \notin Sensors
    <3>1. m = "Http" /\ ~QueueFull(ctrlQ, QueueLen)
      BY <1>4, <2>1, <2>4 DEF Send
    <3>2. Len(ctrlQ') \in 1 .. Len(ctrlQ') /\ ctrlQ'[Len(ctrlQ')] = m
      BY <2>1, <2>2, <3>1, QueueLenAssumption DEF QueueSend, QueueFull
    <3> QED
      BY <3>1, <3>2 DEF HttpUnderWay
  <2> QED
    BY <2>3, <2>4
<1>5. CASE Receive
  <2>1. /\ sender' = ctrlQ[1]
        /\ \A i \in 2 .. Len(ctrlQ) : i - 1 \in 1 .. Len(ctrlQ') /\ ctrlQ'[i - 1] = ctrlQ[i]
    BY <1>5 DEF Receive, TypeOK
  <2>2. UNCHANGED <<autoEnable, onOff, status, writer, httpLost>> /\ sender = "none"
    BY <1>5 DEF Receive, table, TypeOK
  <2>3. ASSUME NEW i \in 1 .. Len(ctrlQ), ctrlQ[i] = "Http" PROVE HttpUnderWay'
    <3>1. CASE i = 1
      BY <2>1, <2>3, <3>1 DEF HttpUnderWay
    <3>2. CASE i # 1
      <4>1. i \in 2 .. Len(ctrlQ)
        BY <3>2
      <4> QED
        BY <2>1, <2>3, <4>1 DEF HttpUnderWay
    <3> QED
      BY <3>1, <3>2
  <2> QED
    BY <2>2, <2>3 DEF ManualInv, HttpUnderWay
<1>6. CASE Decide
  <2>1. UNCHANGED <<autoEnable, onOff, writer, ctrlQ, httpLost>>
        /\ status' = LightOnOff(sender)
    BY <1>6 DEF Decide, table
  <2>2. CASE sender = "Http"
    BY <2>1, <2>2 DEF LightOnOff
  <2>3. CASE sender # "Http"
    <3>1. status' = status
      BY <2>1, <2>3 DEF LightOnOff
    <3> QED
      BY <2>1, <2>3, <3>1 DEF ManualInv, HttpUnderWay
  <2> QED
    BY <2>2, <2>3
<1>7. CASE Actuate \/ Notify \/ VentReceive \/ UNCHANGED vars
  <2>1. UNCHANGED <<autoEnable, onOff, status, sender, writer, ctrlQ, httpLost>>
    BY <1>7 DEF Actuate, Notify, VentReceive, vars, ctrl, table
  <2> QED
    BY <2>1 DEF ManualInv, HttpUnderWay
<1> QED
  BY <1>1, <1>2, <1>3, <1>4, <1>5, <1>6, <1>7 DEF Next, Environment, Firmware

(* The last state in the fan task's queue is the relay's, unless dropped. *)
LEMMA VentStep == TypeOK /\ RelayInv /\ VentInv /\ [Next]_vars => VentInv'
<1> SUFFICES ASSUME TypeOK, RelayInv, VentInv, [Next]_vars PROVE VentInv'
  OBVIOUS
<1>0. lightQ \in Seq(Bit) /\ Len(lightQ) <= QueueLen /\ status \in Bit
  BY DEF TypeOK
<1>1. CASE Notify
  <2>1. /\ relay' = status /\ lightQ' = QueueSend(lightQ, QueueLen, status)
        /\ lightLost' = QueueFull(lightQ, QueueLen)
    BY <1>1 DEF Notify, RelayInv
  <2>2. ASSUME ~lightLost' PROVE lightQ' # <<>> /\ lightQ'[Len(lightQ')] = status
    <3>1. ~QueueFull(lightQ, QueueLen)
      BY <2>1, <2>2, Zenon
    <3> QED
      BY <1>0, <2>1, <3>1, QueueLenAssumption DEF QueueSend, QueueFull
  <2> QED
    BY <2>1, <2>2 DEF VentInv
<1>2. CASE VentReceive
  <2>1. /\ lightQ # <<>> /\ ventLight' = Head(lightQ) /\ lightQ' = Tail(lightQ)
        /\ UNCHANGED <<pc, relay, lightLost>>
    BY <1>2 DEF VentReceive, ctrl
  <2>2. CASE Len(lightQ) = 1
    BY <2>1, <2>2 DEF VentInv, TypeOK
  <2>3. CASE Len(lightQ) # 1
    <3>0. Len(lightQ) \in Nat /\ Len(lightQ) # 0 /\ Len(lightQ') = Len(lightQ) - 1
      BY <1>0, <2>1
    <3>1. Len(lightQ) \in 2 .. Len(lightQ) /\ Len(lightQ') = Len(lightQ) - 1 /\ Len(lightQ') # 0
      BY <2>3, <3>0
    <3>2. lightQ'[Len(lightQ')] = lightQ[Len(lightQ)] /\ lightQ' # <<>>
      <4> DEFINE n == Len(lightQ) - 1
      <4>1. n \in 1 .. Len(Tail(lightQ)) /\ Tail(lightQ)[n] = lightQ[n + 1] /\ n + 1 = Len(lightQ)
        BY <1>0, <2>1, <3>1
      <4> QED
        BY <1>0, <2>1, <3>0, <3>1, <4>1
    <3> QED
      BY <2>1, <3>2 DEF VentInv
  <2> QED
    BY <2>2, <2>3
<1>3. CASE Actuate
  BY <1>3 DEF Actuate, VentInv
<1>4. ASSUME ~Actuate, ~Notify, ~VentReceive
      PROVE  /\ UNCHANGED <<relay, lightQ, ventLight, lightLost>>
             /\ pc' = "notify" <=> pc = "notify"
  BY <1>4 DEF Next, Environment, Firmware, WriteVol, WebWrite, SwitchWrite, Send,
              Receive, Decide, vars, ctrl
<1> QED
  BY <1>1, <1>2, <1>3, <1>4 DEF VentInv

-----------------------------------------------------------------------------
(* The invariants hold initially, so they hold in every reachable state. *)
LEMMA InitInvariants == Init => RelayInv /\ AutoInv /\ ManualInv /\ VentInv
  BY DEF Init, RelayInv, AutoInv, ManualInv, VentInv

(* When nothing is under way the light computed from the table is the one   *)
(* the sensors in use show, with IrMvAnyAll deciding between two that differ. *)
LEMMA SensorLightAgrees ==
  ASSUME TypeOK
  PROVE  LET seen == {vol[s] : s \in {t \in Sensors : use[t] = 1}}
         IN  seen # {} => /\ SensorLight \in seen
                          /\ seen = Bit => SensorLight = 1 - IrMvAnyAll
<1> DEFINE seen == {vol[s] : s \in {t \in Sensors : use[t] = 1}}
<1>1. /\ vol["Ir"] \in Bit /\ vol["Mv"] \in Bit
      /\ use["Ir"] \in Bit /\ use["Mv"] \in Bit
  BY DEF TypeOK, Sensors
<1>2. seen = {vol[s] : s \in {t \in {"Ir", "Mv"} : use[t] = 1}}
  BY DEF Sensors
<1>3. CASE use["Ir"] = 1 /\ use["Mv"] = 1
  <2>1. seen = {vol["Ir"], vol["Mv"]}
    BY <1>2, <1>3
  <2>2. SensorLight = IF IrMvAnyAll = 0
                      THEN IF vol["Ir"] = 1 \/ vol["Mv"] = 1 THEN 1 ELSE 0
                      ELSE IF vol["Ir"] = 1 /\ vol["Mv"] = 1 THEN 1 ELSE 0
    BY <1>3 DEF SensorLight, Sensors
  <2> QED
    BY <1>1, <2>1, <2>2, IrMvAnyAllAssumption DEF Bit
<1>4. CASE use["Ir"] = 1 /\ use["Mv"] # 1
  <2>1. seen = {vol["Ir"]}
    BY <1>2, <1>4
  <2>2. SensorLight = IF vol["Ir"] = 1 THEN 1 ELSE 0
    BY <1>4 DEF SensorLight, Sensors
  <2> QED
    BY <1>1, <2>1, <2>2 DEF Bit
<1>5. CASE use["Ir"] # 1 /\ use["Mv"] = 1
  <2>1. seen = {vol["Mv"]}
    BY <1>2, <1>5
  <2>2. SensorLight = IF vol["Mv"] = 1 THEN 1 ELSE 0
    BY <1>5 DEF SensorLight, Sensors
  <2> QED
    BY <1>1, <2>1, <2>2 DEF Bit
<1>6. CASE use["Ir"] # 1 /\ use["Mv"] # 1
  BY <1>2, <1>6
<1> QED
  BY <1>3, <1>4, <1>5, <1>6

(* In automatic mode a settled system shows the light the sensors ask for,  *)
(* whatever messages the bounded queue dropped on the way.                  *)
THEOREM AutoLightCorrect == Spec => []AutoLightFollowsSensors
<1>1. TypeOK /\ RelayInv /\ AutoInv => AutoLightFollowsSensors
  <2> SUFFICES ASSUME TypeOK, RelayInv, AutoInv, Settled, served, autoEnable = 1
               PROVE  relay = SensorLight
    BY SensorLightAgrees DEF AutoLightFollowsSensors
  <2>1. ~MessageUnderWay
    BY DEF Settled, MessageUnderWay
  <2> QED
    BY <2>1 DEF RelayInv, AutoInv, Settled
<1>2. Spec => []RelayInv
  BY TypeCorrect, InitInvariants, RelayStep, PTL DEF Spec
<1>3. Spec => []AutoInv
  BY TypeCorrect, InitInvariants, AutoStep, PTL DEF Spec
<1> QED
  BY <1>1, <1>2, <1>3, TypeCorrect, PTL

(* In manual mode a settled system shows what was last asked for, provided  *)
(* the last command's message was not dropped.                              *)
THEOREM ManualLightCorrect == Spec => []ManualLightFollowsSwitch
<1>1. TypeOK /\ RelayInv /\ ManualInv => ManualLightFollowsSwitch
  <2> SUFFICES ASSUME TypeOK, RelayInv, ManualInv, Settled, ~httpLost, autoEnable = 0
               PROVE  relay = onOff
    BY DEF ManualLightFollowsSwitch
  <2>1. ~HttpUnderWay
    BY DEF Settled, HttpUnderWay, TypeOK, Writers
  <2> QED
    BY <2>1 DEF RelayInv, ManualInv, Settled
<1>2. Spec => []RelayInv
  BY TypeCorrect, InitInvariants, RelayStep, PTL DEF Spec
<1>3. Spec => []ManualInv
  BY TypeCorrect, InitInvariants, ManualStep, PTL DEF Spec
<1> QED
  BY <1>1, <1>2, <1>3, TypeCorrect, PTL

(* The fan's task, once it has read its queue and unless the last post was  *)
(* dropped, knows the state of the light.                                   *)
THEOREM VentCorrect == Spec => []VentHearsLight
<1>1. VentInv => VentHearsLight
  BY DEF VentInv, VentHearsLight
<1>2. Spec => []VentInv
  BY TypeCorrect, InitInvariants, RelayStep, VentStep, PTL DEF Spec
<1> QED
  BY <1>1, <1>2, PTL

(* No step taken in manual mode gives the light a value other than the      *)
(* switch's: motion cannot change it.                                       *)
THEOREM ManualModeRespected == Spec => ManualStatusOnlyFromSwitch
<1>1. [Next]_vars => [autoEnable = 0 /\ status' # status => status' = onOff']_vars
  <2> SUFFICES ASSUME Next, autoEnable = 0, status' # status PROVE status' = onOff'
    OBVIOUS
  <2>1. Decide
    BY DEF Next, Environment, Firmware, WriteVol, WebWrite, SwitchWrite, Send, Receive,
           Actuate, Notify, VentReceive, ctrl
  <2> QED
    BY <2>1 DEF Decide, LightOnOff, table
<1> QED
  BY <1>1, PTL DEF Spec, ManualStatusOnlyFromSwitch

-----------------------------------------------------------------------------
(***************************************************************************)
(* The sender of the humidity commands, module Humidity: the gap between   *)
(* asking for the fan and taking it back does not depend on the order in   *)
(* which thresholds are written and judged.                                *)
(***************************************************************************)

(* A reading that is judged is one: 0 stands for none. *)
HumTypeInv == HumTypeOK /\ (humPc = "judge" => hum \in Humidities)

(* The reading that got the fan asked for is still above the threshold. *)
OnInv == ventOnOff = 1 /\ ~raised => onHum > humOn

-----------------------------------------------------------------------------
(* Thresholds are numbers. *)
LEMMA ThresholdIsInt == \A t \in Thresholds : t \in Int
  BY ThresholdsAssumption

(* Every step keeps the queue bounded and the types. *)
LEMMA HumTypeStep == HumTypeInv /\ [HumNext]_humVars => HumTypeInv'
<1> SUFFICES ASSUME HumTypeInv, HumTypeOK, [HumNext]_humVars PROVE HumTypeInv'
  BY DEF HumTypeInv
<1> USE ThresholdsAssumption, MaxHumAssumption
<1>1. humQ \in Seq(Humidities) /\ Len(humQ) <= HumQueueLen
  BY DEF HumTypeOK
<1>2. CASE AirChanges
  BY <1>2 DEF AirChanges, HumTypeOK, HumTypeInv
<1>3. CASE WriteThreshold
  <2>1. raised' \in BOOLEAN
    BY <1>3 DEF WriteThreshold, HumTypeOK
  <2>2. /\ \/ humOn' \in Thresholds /\ humOff' = humOff
           \/ humOff' \in Thresholds /\ humOn' = humOn
        /\ UNCHANGED <<air, humVol, reading, humQ, humPc, hum, ventOnOff, onHum>>
    BY <1>3, Zenon DEF WriteThreshold
  <2>3. humOn' \in Thresholds /\ humOff' \in Int
    BY <2>2, ThresholdIsInt, Zenon DEF HumTypeOK
  <2>4. UNCHANGED <<air, humVol, reading, humQ, humPc, hum, ventOnOff, onHum>>
    BY <2>2
  <2> QED
    BY <2>1, <2>3, <2>4 DEF HumTypeOK, HumTypeInv
<1>4. CASE Measure
  BY <1>4 DEF Measure, HumTypeOK, HumTypeInv
<1>5. CASE Post
  <2>1. humQ' \in Seq(Humidities) /\ Len(humQ') <= HumQueueLen
    BY <1>1, <1>5, HumQueueLenAssumption DEF Post, HumTypeOK, QueueSend, QueueFull
  <2> QED
    BY <1>5, <2>1 DEF Post, HumTypeOK, HumTypeInv
<1>6. CASE ReceiveHum
  <2>1. hum' \in Humidities /\ humQ' \in Seq(Humidities) /\ Len(humQ') <= HumQueueLen
    BY <1>1, <1>6, HumQueueLenAssumption DEF ReceiveHum
  <2> QED
    BY <1>6, <2>1 DEF ReceiveHum, HumTypeOK, HumTypeInv
<1>7. CASE Judge
  <2>1. UsedOff(humOn, humOff) \in Int
    BY DEF UsedOff, HumTypeOK, HumTypeInv
  <2>2. raised' \in BOOLEAN /\ hum' = 0 /\ humOff' \in Int /\ ventOnOff' \in {0, 1}
        /\ onHum' \in Humidities \cup {0} /\ humPc' \in {"receive", "post"}
    BY <1>7, <2>1 DEF Judge, HumTypeOK
  <2>3. humVol' \in Humidities
    BY <1>7 DEF Judge, HumTypeOK, HumTypeInv
  <2> QED
    BY <1>7, <2>2, <2>3 DEF Judge, HumTypeOK, HumTypeInv
<1>8. CASE Tell
  BY <1>8 DEF Tell, HumTypeOK, HumTypeInv
<1>9. CASE UNCHANGED humVars
  BY <1>9 DEF humVars, HumTypeOK, HumTypeInv
<1> QED
  BY <1>2, <1>3, <1>4, <1>5, <1>6, <1>7, <1>8, <1>9 DEF HumNext, HumIsrSetup, CheckBathHum

(* The queue stays within its capacity and every local within its type. *)
THEOREM HumTypeCorrect == HumSpec => []HumTypeOK
<1>1. HumInit => HumTypeInv
  <2> SUFFICES ASSUME HumInit PROVE HumTypeInv
    OBVIOUS
  <2>1. humQ \in Seq(Humidities) /\ Len(humQ) <= HumQueueLen
    BY HumQueueLenAssumption DEF HumInit
  <2>2. humOn \in Thresholds /\ humOff \in Int
    BY ThresholdsAssumption DEF HumInit
  <2> QED
    BY <2>1, <2>2 DEF HumInit, HumTypeOK, HumTypeInv
<1>2. HumTypeInv => HumTypeOK
  BY DEF HumTypeInv
<1> QED
  BY <1>1, <1>2, HumTypeStep, PTL DEF HumSpec

-----------------------------------------------------------------------------
(* Only a raised threshold overtakes the reading, and that is recorded. *)
LEMMA OnStep == HumTypeOK /\ OnInv /\ [HumNext]_humVars => OnInv'
<1> SUFFICES ASSUME HumTypeOK, OnInv, [HumNext]_humVars, ventOnOff' = 1, ~raised'
             PROVE  onHum' > humOn'
  BY DEF OnInv
<1>1. humOn \in Int /\ onHum \in Int /\ ventOnOff \in {0, 1}
  BY ThresholdsAssumption, MaxHumAssumption DEF HumTypeOK, Humidities
<1>2. CASE WriteThreshold
  <2>1. ~raised /\ ~(humOn' > humOn) /\ UNCHANGED <<ventOnOff, onHum>>
    BY <1>2, Zenon DEF WriteThreshold
  <2>2. humOn' \in Thresholds \/ humOn' = humOn
    BY <1>2, Zenon DEF WriteThreshold
  <2>3. humOn' \in Int
    BY <1>1, <2>2, ThresholdIsInt, Zenon
  <2> QED
    BY <1>1, <2>1, <2>3 DEF OnInv
<1>3. CASE Judge
  <2>1. CASE ventOnOff = 0
    BY <1>1, <1>3, <2>1 DEF Judge
  <2>2. CASE ventOnOff = 1
    <3>1. humOn' = humOn /\ onHum' = onHum /\ raised' = raised
      BY <1>3, <2>2 DEF Judge, HumTypeOK
    <3> QED
      BY <2>2, <3>1 DEF OnInv
  <2> QED
    BY <1>1, <2>1, <2>2 DEF HumTypeOK
<1>4. CASE AirChanges \/ Measure \/ Post \/ ReceiveHum \/ Tell \/ UNCHANGED humVars
  BY <1>4 DEF AirChanges, Measure, Post, ReceiveHum, Tell, humVars, OnInv
<1> QED
  BY <1>2, <1>3, <1>4 DEF HumNext, HumIsrSetup, CheckBathHum

(* Hysteresis: a fan asked for is taken back at a reading at least three    *)
(* units lower only, unless the upper threshold was raised meanwhile.       *)
THEOREM NoChatterCorrect == HumSpec => NoChatter
<1>1. HumInit => OnInv
  BY DEF HumInit, OnInv
<1>2. HumTypeOK /\ OnInv /\ [HumNext]_humVars
        => [ventOnOff = 1 /\ ventOnOff' = 0 /\ ~raised => hum <= onHum - 3]_humVars
  <2> SUFFICES ASSUME HumTypeOK, OnInv, HumNext, ventOnOff = 1, ventOnOff' = 0, ~raised
               PROVE  hum <= onHum - 3
    BY DEF HumTypeOK
  <2>1. humOn \in Int /\ humOff \in Int /\ onHum \in Int /\ hum \in Int
    BY ThresholdsAssumption, MaxHumAssumption DEF HumTypeOK, Humidities
  <2>2. Judge
    BY DEF HumNext, HumIsrSetup, CheckBathHum, AirChanges, WriteThreshold, Measure, Post,
       ReceiveHum, Tell
  <2>3. hum < UsedOff(humOn, humOff)
    BY <2>2 DEF Judge
  <2>4. UsedOff(humOn, humOff) < humOn /\ UsedOff(humOn, humOff) \in Int
    BY <2>1 DEF UsedOff
  <2> QED
    BY <2>1, <2>3, <2>4 DEF OnInv
<1> QED
  BY <1>1, <1>2, HumTypeCorrect, OnStep, PTL DEF HumSpec, NoChatter

-----------------------------------------------------------------------------
(* A verdict that is still to be posted differs from the last that was. *)
LEMMA JudgeLemma ==
  ASSUME HumTypeOK, Judge
  PROVE  Posted' = Posted
<1>1. /\ ventOnOff \in {0, 1} /\ ventOnOff' \in {0, 1}
      /\ humPc = "judge" /\ humPc' = IF ventOnOff' = ventOnOff THEN "receive" ELSE "post"
  BY DEF HumTypeOK, Judge
<1>2. Posted = ventOnOff
  BY <1>1 DEF Posted
<1>3. CASE ventOnOff' = ventOnOff
  BY <1>1, <1>2, <1>3 DEF Posted
<1>4. CASE ventOnOff' # ventOnOff
  BY <1>1, <1>2, <1>4 DEF Posted
<1> QED
  BY <1>3, <1>4

(* A post carries the other command than the last one did. *)
CommandsAlternate ==
  IF Tell THEN Posted' = 1 - Posted /\ Posted' = ventOnOff ELSE Posted' = Posted

(* CheckBathHum's posts carry 1, 0, 1, 0, ...: what VentControl's Command   *)
(* assumes of the source HumData, whose command is 0 at first and changes   *)
(* with every post.                                                         *)
THEOREM HumCommandsAlternate == HumSpec => Posted = 0 /\ [][CommandsAlternate]_humVars
<1>1. HumInit => Posted = 0
  BY DEF HumInit, Posted
<1>2. HumTypeOK /\ [HumNext]_humVars => [CommandsAlternate]_humVars
  <2> SUFFICES ASSUME HumTypeOK, HumNext
               PROVE  IF Tell THEN Posted' = 1 - Posted /\ Posted' = ventOnOff
                              ELSE Posted' = Posted
    BY DEF CommandsAlternate
  <2>1. CASE Tell
    <3>1. humPc = "post" /\ humPc' = "receive" /\ ventOnOff' = ventOnOff /\ ventOnOff \in {0, 1}
      BY <2>1 DEF Tell, HumTypeOK
    <3>2. Posted' = 1 - Posted /\ Posted' = ventOnOff
      BY <3>1 DEF Posted
    <3> QED
      BY <2>1, <3>2
  <2>2. CASE ~Tell /\ Judge
    BY <2>2, JudgeLemma
  <2>3. CASE ~Tell /\ ~Judge
    <3>1. /\ ventOnOff' = ventOnOff
          /\ humPc' = humPc \/ {humPc, humPc'} \subseteq {"receive", "judge"}
      BY <2>3 DEF HumNext, HumIsrSetup, CheckBathHum, AirChanges,
         WriteThreshold, Measure, Post, ReceiveHum
    <3>2. Posted' = Posted
      BY <3>1 DEF Posted
    <3> QED
      BY <2>3, <3>2
  <2> QED
    BY <2>1, <2>2, <2>3
<1>3. HumSpec => []HumTypeOK
  BY HumTypeCorrect
<1> QED
  BY <1>1, <1>2, <1>3, PTL DEF HumSpec

-----------------------------------------------------------------------------
(***************************************************************************)
(* The bathroom.                                                           *)
(***************************************************************************)

(* The constants are as the components assume. *)
LEMMA Assumptions ==
  Timer!QueueLenAssumption /\ Vent!QueueLenAssumption /\ Vent!RoomAssumption
  BY QueueLenAssumption
     DEF Timer!QueueLenAssumption, Vent!QueueLenAssumption, Vent!RoomAssumption

(* The light works in the bathroom as BathLight says. *)
THEOREM LightInBathroom == BathroomSpec => Spec
<1>1. BathroomInit => Init
  BY DEF BathroomInit
<1>2. [BathroomNext]_bathroomVars => [Next]_vars
  <2> SUFFICES ASSUME [BathroomNext]_bathroomVars PROVE [Next]_vars
    OBVIOUS
  <2>1. CASE LightStep
    BY <2>1 DEF LightStep, Next, Environment, Firmware
  <2>2. CASE TimerReceives
    BY <2>2 DEF TimerReceives, Next, Firmware
  <2>3. CASE \/ HumidityStep \/ FanStep \/ TimerExpires \/ HumidityTells
             \/ SetThreshold \/ FanReceives \/ UNCHANGED bathroomVars
    BY <2>3 DEF HumidityStep, FanStep, TimerExpires, HumidityTells, SetThreshold, FanReceives,
       bathroomVars
  <2> QED
    BY <2>1, <2>2, <2>3 DEF BathroomNext
<1> QED
  BY <1>1, <1>2, PTL DEF BathroomSpec, Spec

(* The humidity task does as Humidity says: the threshold the page sets is  *)
(* written in the step that begins echo_handler's message to the fan.       *)
THEOREM HumidityInBathroom == BathroomSpec => HumSpec
<1>1. BathroomInit => HumInit
  BY DEF BathroomInit
<1>2. [BathroomNext]_bathroomVars => [HumNext]_humVars
  <2> SUFFICES ASSUME [BathroomNext]_bathroomVars PROVE [HumNext]_humVars
    OBVIOUS
  <2>1. CASE HumidityStep
    BY <2>1 DEF HumidityStep, HumNext, CheckBathHum
  <2>2. CASE HumidityTells
    BY <2>2 DEF HumidityTells, HumNext, CheckBathHum
  <2>3. CASE SetThreshold
    BY <2>3 DEF SetThreshold, HumNext
  <2>4. CASE \/ LightStep \/ FanStep \/ TimerReceives \/ TimerExpires
             \/ FanReceives \/ UNCHANGED bathroomVars
    BY <2>4 DEF LightStep, FanStep, TimerReceives, TimerExpires, FanReceives,
       bathroomVars
  <2> QED
    BY <2>1, <2>2, <2>3, <2>4 DEF BathroomNext
<1> QED
  BY <1>1, <1>2, PTL DEF BathroomSpec, HumSpec

(* The timer's memory of the fan is a level, as its command is. *)
LEMMA TimerLevel == BathroomSpec => [](timerOnOff \in Bit)
<1>1. BathroomInit => timerOnOff \in Bit
  BY DEF BathroomInit, Bit
<1>2. timerOnOff \in Bit /\ [BathroomNext]_bathroomVars => (timerOnOff \in Bit)'
  <2> SUFFICES ASSUME timerOnOff \in Bit, [BathroomNext]_bathroomVars PROVE timerOnOff' \in Bit
    OBVIOUS
  <2>1. CASE TimerReceives
    BY <2>1 DEF TimerReceives, Timer!LightOn, Timer!LightOff
  <2>2. CASE TimerExpires
    BY <2>2 DEF TimerExpires, Bit
  <2>3. CASE \/ LightStep \/ HumidityStep \/ FanStep \/ HumidityTells
             \/ SetThreshold \/ FanReceives \/ UNCHANGED bathroomVars
    BY <2>3 DEF LightStep, HumidityStep, FanStep, HumidityTells, SetThreshold, FanReceives,
       bathroomVars, timer
  <2> QED
    BY <2>1, <2>2, <2>3 DEF BathroomNext
<1> QED
  BY <1>1, <1>2, PTL DEF BathroomSpec

(* Apart from the humidity task's posts, which alternate, its last command stays. *)
LEMMA PostedStep ==
  ASSUME [CommandsAlternate]_humVars,
         [BathroomNext]_bathroomVars
  PROVE  IF HumidityTells THEN Posted' = 1 - Posted /\ Posted' = ventOnOff
                          ELSE Posted' = Posted
<1>2. CASE HumidityTells
  <2>1. Tell /\ humVars' # humVars
    BY <1>2 DEF HumidityTells, Tell, humVars
  <2> QED
    BY <1>2, <2>1 DEF CommandsAlternate
<1>3. CASE ~HumidityTells
  <2>1. ~Tell
    <3>1. CASE HumidityStep
      BY <3>1 DEF HumidityStep, AirChanges, HumIsrSetup, Measure, Post,
         ReceiveHum, Judge, Tell
    <3>2. CASE SetThreshold
      BY <3>2 DEF SetThreshold, WriteThreshold, Tell
    <3>3. CASE \/ LightStep \/ FanStep \/ TimerReceives \/ TimerExpires
               \/ FanReceives \/ UNCHANGED bathroomVars
      BY <3>3 DEF LightStep, FanStep, TimerReceives, TimerExpires, FanReceives, bathroomVars,
         humVars, Tell
    <3> QED
      BY <1>3, <3>1, <3>2, <3>3 DEF BathroomNext
  <2>2. UNCHANGED humVars => Posted' = Posted
    BY DEF humVars, Posted
  <2> QED
    BY <1>3, <2>1, <2>2 DEF CommandsAlternate
<1> QED
  BY <1>2, <1>3

(* Each post to the fan is the command its controller expects next. *)
LEMMA FanNextStep ==
  ASSUME timerOnOff \in Bit, [BathroomNext]_bathroomVars,
         IF HumidityTells THEN Posted' = 1 - Posted /\ Posted' = ventOnOff
                          ELSE Posted' = Posted
  PROVE  [Vent!Next]_(Vent!vars)
<1>1. Vent!Sources = {"HumData", "LightData"}
  BY DEF Vent!Sources
<1>2. UNCHANGED <<timerOnOff, Posted>> => Commands' = Commands
  BY DEF Commands
<1>3. UNCHANGED fan /\ Commands' = Commands => UNCHANGED Vent!vars
  BY DEF fan, Vent!vars, Vent!table, Vent!ctrl
<1>4. CASE TimerExpires
  <2>1. Posted' = Posted
    BY <1>4 DEF TimerExpires, humVars, Posted
  <2>2. timerOnOff' = 1 - timerOnOff
    BY <1>4 DEF TimerExpires, Bit
  <2>3. Commands["LightData"] = timerOnOff
        /\ Commands' = [Commands EXCEPT !["LightData"] = 1 - timerOnOff]
    BY <2>1, <2>2 DEF Commands
  <2>4. Vent!Command("LightData")
    BY <1>4, <2>2, <2>3
       DEF TimerExpires, FanPost, Vent!Command, Vent!table, Vent!ctrl, QueueSend, QueueFull,
           Vent!QueueSend, Vent!QueueFull
  <2> QED
    BY <1>1, <2>4 DEF Vent!Next
<1>5. CASE HumidityTells
  <2>1. timerOnOff' = timerOnOff
    BY <1>5 DEF HumidityTells, timer
  <2>2. Posted' = 1 - Posted /\ Posted' = ventOnOff
    BY <1>5
  <2>3. Commands["HumData"] = Posted
        /\ Commands' = [Commands EXCEPT !["HumData"] = 1 - Posted]
    BY <2>1, <2>2 DEF Commands
  <2>4. Vent!Command("HumData")
    BY <1>5, <2>2, <2>3
       DEF HumidityTells, FanPost, Vent!Command, Vent!table, Vent!ctrl, QueueSend, QueueFull,
           Vent!QueueSend, Vent!QueueFull
  <2> QED
    BY <1>1, <2>4 DEF Vent!Next
<1>6. CASE FanStep
  BY <1>6 DEF FanStep, Vent!Next, Vent!Controller, Bit, Vent!Bit
<1>7. CASE SetThreshold
  <2>1. "Other" \in Vent!Parms /\ 0 \in Vent!Bit
    BY DEF Vent!Parms, Vent!Bit
  <2> QED
    BY <1>7, <2>1 DEF SetThreshold, Vent!Next
<1>8. CASE FanReceives
  BY <1>8 DEF FanReceives, Vent!Next, Vent!Controller
<1>9. CASE LightStep \/ HumidityStep \/ TimerReceives \/ UNCHANGED bathroomVars
  <2>1. UNCHANGED <<fan, timerOnOff>>
    BY <1>9 DEF LightStep, HumidityStep, TimerReceives, bathroomVars, timer,
       Timer!LightOn, Timer!LightOff
  <2>2. HumidityTells \/ Posted' = Posted
    OBVIOUS
  <2> QED
    BY <1>2, <1>3, <1>5, <2>1, <2>2
<1> QED
  BY <1>4, <1>5, <1>6, <1>7, <1>8, <1>9 DEF BathroomNext

(* The fan's controller works as VentControl says: the timer and the        *)
(* humidity task each post 1, 0, 1, ..., although neither keeps a copy of   *)
(* its last command, and the page's messages are those of one task.         *)
THEOREM FanInBathroom == BathroomSpec => Vent!Spec
<1>1. BathroomInit => Vent!Init
  BY DEF BathroomInit, HumInit, Vent!Init, Commands, Posted, Vent!Sources
<1>2. timerOnOff \in Bit /\ [BathroomNext]_bathroomVars
        /\ [CommandsAlternate]_humVars => [Vent!Next]_(Vent!vars)
  <2> SUFFICES ASSUME timerOnOff \in Bit, [BathroomNext]_bathroomVars,
                      [CommandsAlternate]_humVars
               PROVE  [Vent!Next]_(Vent!vars)
    OBVIOUS
  <2> QED
    BY PostedStep, FanNextStep
<1>3. BathroomSpec => [][CommandsAlternate]_humVars
  BY HumidityInBathroom, HumCommandsAlternate, Assumptions, PTL
<1> QED
  BY <1>1, <1>2, <1>3, TimerLevel, PTL DEF BathroomSpec, Vent!Spec

-----------------------------------------------------------------------------
(* A light is switched only when its state changes. *)
SwitchInv == pc = "actuate" => status = 1 - relay

(* The light's controller actuates a change of the relay, never a repetition. *)
LEMMA SwitchCorrect == Spec => []SwitchInv
<1>1. Init => SwitchInv
  BY DEF Init, SwitchInv
<1>2. TypeOK /\ RelayInv /\ SwitchInv /\ [Next]_vars => SwitchInv'
  <2> SUFFICES ASSUME TypeOK, RelayInv, SwitchInv, [Next]_vars PROVE SwitchInv'
    OBVIOUS
  <2>1. CASE Environment
    BY <2>1 DEF Environment, WriteVol, WebWrite, SwitchWrite, ctrl, SwitchInv
  <2>2. ASSUME NEW w \in Writers, Send(w) PROVE SwitchInv'
    BY <2>2 DEF Send, ctrl, SwitchInv
  <2>3. CASE Decide
    <3>1. status \in Bit /\ relay = status /\ relay' = relay
      BY <2>3 DEF Decide, RelayInv, TypeOK
    <3>2. status' \in Bit
      BY <2>3, LightOnOffType DEF Decide
    <3>3. pc' = IF status' = status THEN "receive" ELSE "actuate"
      BY <2>3 DEF Decide
    <3> QED
      BY <3>1, <3>2, <3>3 DEF SwitchInv, Bit
  <2>4. CASE Receive \/ Actuate \/ Notify \/ VentReceive \/ UNCHANGED vars
    BY <2>4 DEF Receive, Actuate, Notify, VentReceive, vars, ctrl, SwitchInv
  <2> QED
    BY <2>1, <2>2, <2>3, <2>4 DEF Next, Firmware
<1>3. Init => RelayInv
  BY DEF Init, RelayInv
<1> QED
  BY <1>1, <1>2, <1>3, TypeCorrect, RelayStep, PTL DEF Spec

(* What the timer sees of the fan's queue changes with it. *)
LEMMA TimerQLemma ==
  ASSUME fanQ \in Seq(Vent!Messages)
  PROVE  /\ fanQ' = fanQ => TimerQ' = TimerQ
         /\ \A m \in Vent!Messages :
              fanQ' = QueueSend(fanQ, QueueLen, m)
              => /\ Timer!QueueFull(TimerQ, QueueLen) <=> QueueFull(fanQ, QueueLen)
                 /\ TimerQ' = Timer!QueueSend(TimerQ, QueueLen, Vent!TimerMsg(m))
         /\ fanQ # <<>> /\ fanQ' = Tail(fanQ)
              => /\ TimerQ # <<>> /\ Head(TimerQ) = Vent!TimerMsg(Head(fanQ))
                 /\ TimerQ' = Tail(TimerQ)
<1>1. TimerQ = Vent!TimerView(fanQ) /\ TimerQ' = Vent!TimerView(fanQ')
  BY DEF TimerQ, Vent!TimerView, Vent!TimerMsg
<1>2. ASSUME NEW m \in Vent!Messages, fanQ' = QueueSend(fanQ, QueueLen, m)
      PROVE  /\ Timer!QueueFull(TimerQ, QueueLen) <=> QueueFull(fanQ, QueueLen)
             /\ TimerQ' = Timer!QueueSend(TimerQ, QueueLen, Vent!TimerMsg(m))
  <2>1. /\ Vent!QueueFull(TimerQ, QueueLen) <=> Vent!QueueFull(fanQ, QueueLen)
        /\ Vent!TimerView(Vent!QueueSend(fanQ, QueueLen, m))
             = Vent!QueueSend(TimerQ, QueueLen, Vent!TimerMsg(m))
    BY <1>1, Assumptions, Vent!ViewSend
  <2> QED
    BY <1>1, <1>2, <2>1 DEF QueueSend, QueueFull, Vent!QueueSend, Vent!QueueFull,
       Timer!QueueSend, Timer!QueueFull
<1>3. ASSUME fanQ # <<>>, fanQ' = Tail(fanQ)
      PROVE  /\ TimerQ # <<>> /\ Head(TimerQ) = Vent!TimerMsg(Head(fanQ))
             /\ TimerQ' = Tail(TimerQ)
  BY <1>1, <1>3, Assumptions, Vent!ViewReceive
<1> QED
  BY <1>1, <1>2, <1>3

(* The light's controller and the fan's queue are what the timer takes them for. *)
LEMMA TimerNextStep ==
  ASSUME TypeOK, RelayInv, SwitchInv, Vent!TypeOK, HumTypeOK, timerOnOff \in Bit,
         [BathroomNext]_bathroomVars
  PROVE  [Timer!Next]_(Timer!vars)
<1>1. /\ fanQ \in Seq(Vent!Messages) /\ relay \in Bit
      /\ ventOnOff \in Vent!Bit
  BY DEF Vent!TypeOK, HumTypeOK, TypeOK, Vent!Bit
<1>2. UNCHANGED fanQ => TimerQ' = TimerQ
  BY <1>1, TimerQLemma
<1>3. UNCHANGED <<relay, pc, lightQ, ventLight, lightLost, timer, fanQ, ventData, ventLost>>
        => UNCHANGED Timer!vars
  BY <1>2 DEF Timer!vars, timer
<1>4. CASE LightStep
  <2>1. UNCHANGED <<timerOnOff, delay, relit, TimerQ, ventData, ventLost>>
    BY <1>2, <1>4 DEF LightStep, timer, fan, heard
  <2>2. CASE Actuate
    <3>1. /\ pc # "notify" /\ pc' = "notify"
          /\ relay' = 1 - relay /\ UNCHANGED <<lightQ, ventLight, lightLost>>
      BY <2>2 DEF Actuate, SwitchInv
    <3>2. Timer!LightSwitch
      BY <2>1, <3>1 DEF Timer!LightSwitch
    <3> QED
      BY <3>2 DEF Timer!Next
  <2>3. CASE Notify
    <3>1. /\ pc = "notify" /\ pc' # "notify" /\ UNCHANGED <<relay, ventLight>>
          /\ lightQ' = Timer!QueueSend(lightQ, QueueLen, relay)
          /\ lightLost' = Timer!QueueFull(lightQ, QueueLen)
      BY <2>3 DEF Notify, RelayInv, QueueSend, QueueFull, Timer!QueueSend, Timer!QueueFull
    <3>2. Timer!LightPost
      BY <2>1, <3>1 DEF Timer!LightPost
    <3> QED
      BY <3>2 DEF Timer!Next
  <2>4. CASE ~Actuate /\ ~Notify
    <3>1. /\ UNCHANGED <<relay, lightQ, ventLight, lightLost>>
          /\ (pc = "notify")' = (pc = "notify")
      BY <1>4, <2>4 DEF LightStep, WriteVol, WebWrite, SwitchWrite, Send, Receive, Decide, ctrl
    <3> QED
      BY <2>1, <3>1 DEF Timer!vars
  <2> QED
    BY <2>2, <2>3, <2>4
<1>5. CASE TimerReceives
  <2>1. Timer!LightOn \/ Timer!LightOff
    BY <1>5 DEF TimerReceives
  <2> QED
    BY <2>1 DEF Timer!Next, Timer!Task
<1>6. CASE TimerExpires
  <2>1. timerOnOff' \in Bit
    BY <1>6 DEF TimerExpires, Bit
  <2> DEFINE m == [sender |-> "LightData", data |-> timerOnOff']
  <2>2. m \in Vent!Messages /\ Vent!TimerMsg(m) = timerOnOff'
    BY <2>1 DEF Vent!Messages, Vent!Sources, Vent!Bit, Bit, Vent!TimerMsg
  <2>3. fanQ' = QueueSend(fanQ, QueueLen, m)
    BY <1>6 DEF TimerExpires, FanPost
  <2>4. /\ TimerQ' = Timer!QueueSend(TimerQ, QueueLen, timerOnOff')
        /\ ventLost' = Timer!QueueFull(TimerQ, QueueLen)
    <3>1. /\ Timer!QueueFull(TimerQ, QueueLen) <=> QueueFull(fanQ, QueueLen)
          /\ TimerQ' = Timer!QueueSend(TimerQ, QueueLen, Vent!TimerMsg(m))
      BY <1>1, <2>2, <2>3, TimerQLemma
    <3>2. ventLost' = QueueFull(fanQ, QueueLen)
      BY <1>6 DEF TimerExpires
    <3> QED
      BY <2>2, <3>1, <3>2 DEF QueueFull, Timer!QueueFull
  <2>5. Timer!Timeout
    BY <1>6, <2>4 DEF TimerExpires, Timer!Timeout, vars, ctrl
  <2> QED
    BY <2>5 DEF Timer!Next, Timer!Task
<1>7. ASSUME NEW m \in Vent!Messages, m.sender # "LightData",
             fanQ' = QueueSend(fanQ, QueueLen, m),
             UNCHANGED <<vars, timer, ventData, ventLost>>
      PROVE  Timer!OtherPost
  <2>1. Vent!TimerMsg(m) = Timer!Other
    BY <1>7 DEF Vent!TimerMsg, Timer!Other
  <2>2. TimerQ' = Timer!QueueSend(TimerQ, QueueLen, Timer!Other)
    BY <1>1, <1>7, <2>1, TimerQLemma
  <2> QED
    BY <1>7, <2>2 DEF Timer!OtherPost, vars, ctrl, timer
<1>8. CASE HumidityTells
  <2>1. [sender |-> "HumData", data |-> ventOnOff] \in Vent!Messages
    BY <1>1 DEF Vent!Messages, Vent!Sources
  <2> QED
    BY <1>7, <1>8, <2>1 DEF HumidityTells, FanPost, Timer!Next
<1>9. CASE FanStep
  <2>1. CASE Vent!WebSend
    <3>1. fanQ' = QueueSend(fanQ, QueueLen, Vent!HttpMsg)
      BY <2>1 DEF Vent!WebSend, QueueSend, QueueFull, Vent!QueueSend, Vent!QueueFull
    <3>2. Vent!HttpMsg \in Vent!Messages /\ Vent!HttpMsg.sender # "LightData"
      BY DEF Vent!Messages, Vent!HttpMsg
    <3> QED
      BY <1>7, <1>9, <3>1, <3>2 DEF FanStep, heard, Timer!Next
  <2>2. CASE ~Vent!WebSend
    <3>1. UNCHANGED fanQ
      BY <1>9, <2>2 DEF FanStep, Vent!WebWrite, Vent!Decide, Vent!Actuate
    <3> QED
      BY <1>3, <1>9, <3>1 DEF FanStep, heard, vars, ctrl
  <2> QED
    BY <2>1, <2>2
<1>10. CASE FanReceives
  <2>1. fanQ # <<>> /\ fanQ' = Tail(fanQ)
    BY <1>10 DEF FanReceives, Vent!Receive
  <2>2. TimerQ # <<>> /\ Head(TimerQ) = Vent!TimerMsg(Head(fanQ)) /\ TimerQ' = Tail(TimerQ)
    BY <1>1, <2>1, TimerQLemma
  <2>3. Head(fanQ) \in Vent!Messages
    BY <1>1, <2>1
  <2>4. ventData' = IF Head(TimerQ) = Timer!Other THEN ventData ELSE Head(TimerQ)
    BY <1>10, <2>2, <2>3
       DEF FanReceives, Vent!TimerMsg, Timer!Other, Vent!Messages, Vent!HttpMsg, Vent!Bit
  <2>5. Timer!VentReceive
    BY <1>10, <2>2, <2>4 DEF FanReceives, Timer!VentReceive, vars, ctrl, timer
  <2> QED
    BY <2>5 DEF Timer!Next
<1>11. CASE HumidityStep \/ SetThreshold \/ UNCHANGED bathroomVars
  BY <1>3, <1>11 DEF HumidityStep, SetThreshold, Vent!WebWrite, bathroomVars, vars, ctrl,
     fan, heard
<1> QED
  BY <1>4, <1>5, <1>6, <1>8, <1>9, <1>10, <1>11 DEF BathroomNext

(* The timer works as VentTimer says: the light's controller posts, after   *)
(* each change of the relay, the new level and nothing else, and in the fan's queue the timer's *)
(* messages keep their order among those of the others.                     *)
THEOREM TimerInBathroom == BathroomSpec => Timer!Spec
<1>1. BathroomInit => Timer!Init
  <2> SUFFICES ASSUME BathroomInit PROVE Timer!Init
    OBVIOUS
  <2>1. TimerQ = <<>>
    BY DEF BathroomInit, TimerQ, Vent!TimerView
  <2> QED
    BY <2>1 DEF BathroomInit, Init, Timer!Init
<1>2. TypeOK /\ RelayInv /\ SwitchInv /\ Vent!TypeOK /\ HumTypeOK /\ timerOnOff \in Bit
        /\ [BathroomNext]_bathroomVars => [Timer!Next]_(Timer!vars)
  BY TimerNextStep
<1>3. BathroomSpec => []TypeOK /\ []RelayInv /\ []SwitchInv
  BY LightInBathroom, TypeCorrect, InitInvariants, RelayStep, SwitchCorrect, PTL DEF Spec
<1>4. BathroomSpec => []Vent!TypeOK /\ []HumTypeOK
  BY FanInBathroom, HumidityInBathroom, Vent!TypeCorrect, HumTypeCorrect, Assumptions, PTL
<1> QED
  BY <1>1, <1>2, <1>3, <1>4, TimerLevel, PTL DEF BathroomSpec, Timer!Spec

-----------------------------------------------------------------------------
(* The last message in the fan's queue, if it is a command and none of that *)
(* source was dropped since, is what the source still wants.                *)
CommandInv ==
  /\ fanLast.sender = "LightData" /\ ~ventLost => fanLast.data = timerOnOff
  /\ fanLast.sender = "HumData" /\ ~humLost => fanLast.data = Posted

(* Each sender's command goes with its state; the page's carry none. *)
LEMMA CommandStep ==
  ASSUME CommandInv, [BathroomNext]_bathroomVars,
         IF HumidityTells THEN Posted' = 1 - Posted /\ Posted' = ventOnOff
                          ELSE Posted' = Posted
  PROVE  CommandInv'
<1>1. CASE TimerExpires
  <2>1. Posted' = Posted
    BY <1>1 DEF TimerExpires, humVars, Posted
  <2>2. CASE QueueFull(fanQ, QueueLen)
    BY <1>1, <2>1, <2>2 DEF TimerExpires, FanPost, CommandInv
  <2>3. CASE ~QueueFull(fanQ, QueueLen)
    BY <1>1, <2>3 DEF TimerExpires, FanPost, CommandInv
  <2> QED
    BY <2>2, <2>3
<1>2. CASE HumidityTells
  <2>1. Posted' = ventOnOff /\ timerOnOff' = timerOnOff
    BY <1>2 DEF HumidityTells, timer
  <2>2. CASE QueueFull(fanQ, QueueLen)
    BY <1>2, <2>1, <2>2 DEF HumidityTells, FanPost, CommandInv
  <2>3. CASE ~QueueFull(fanQ, QueueLen)
    BY <1>2, <2>1, <2>3 DEF HumidityTells, FanPost, CommandInv
  <2> QED
    BY <2>2, <2>3
<1>3. ASSUME ~TimerExpires, ~HumidityTells PROVE CommandInv'
  <2>1. Posted' = Posted
    BY <1>3
  <2>2. UNCHANGED <<timerOnOff, ventLost, humLost>>
    BY <1>3 DEF BathroomNext, LightStep, HumidityStep, FanStep, TimerReceives, SetThreshold,
       FanReceives, bathroomVars, timer, heard, Timer!LightOn, Timer!LightOff
  <2>3. fanLast' = fanLast \/ fanLast' = Vent!HttpMsg
    <3>1. CASE FanStep
      BY <3>1 DEF FanStep, Vent!WebWrite, Vent!WebSend, Vent!Decide, Vent!Actuate
    <3>2. CASE SetThreshold \/ FanReceives
      BY <3>2 DEF SetThreshold, FanReceives, Vent!WebWrite, Vent!Receive
    <3>3. CASE LightStep \/ HumidityStep \/ TimerReceives \/ UNCHANGED bathroomVars
      BY <3>3 DEF LightStep, HumidityStep, TimerReceives, bathroomVars, fan
    <3> QED
      BY <1>3, <3>1, <3>2, <3>3 DEF BathroomNext
  <2> QED
    BY <2>1, <2>2, <2>3 DEF CommandInv, Vent!HttpMsg
<1> QED
  BY <1>1, <1>2, <1>3

(* Initially nobody has commanded the fan. *)
LEMMA CommandCorrect == BathroomSpec => []CommandInv
<1>1. BathroomInit => CommandInv
  BY DEF BathroomInit, CommandInv, Vent!HttpMsg
<1>2. CommandInv /\ [BathroomNext]_bathroomVars /\ [CommandsAlternate]_humVars
        => CommandInv'
  <2> SUFFICES ASSUME CommandInv, [BathroomNext]_bathroomVars,
                      [CommandsAlternate]_humVars
               PROVE  CommandInv'
    OBVIOUS
  <2> QED
    BY PostedStep, CommandStep
<1>3. BathroomSpec => [][CommandsAlternate]_humVars
  BY HumidityInBathroom, HumCommandsAlternate, Assumptions, PTL
<1> QED
  BY <1>1, <1>2, <1>3, PTL DEF BathroomSpec

(* A fan that obeys a settled timer runs exactly in the light. *)
LEMMA FanLemma ==
  ASSUME BathroomSettled, FanObeysLight, Timer!NoFanInDarkRoom, Timer!FanRunsUnlessRelit,
         Vent!AutoVentFollowsCommand, CommandInv, relay \in Bit
  PROVE  fanRelay = relay
<1>1. timerOnOff = relay
  BY DEF Timer!NoFanInDarkRoom, Timer!FanRunsUnlessRelit, BathroomSettled, FanObeysLight, Bit
<1>2. fanLast.data = relay
  BY <1>1 DEF CommandInv, FanObeysLight, FanObeys
<1>3. fanRelay = fanLast.data
  BY DEF BathroomSettled, Vent!AutoVentFollowsCommand, Vent!Sources, Vent!Enabled,
     FanObeysLight, FanObeys
<1> QED
  BY <1>2, <1>3

(* The components' properties hold of the room. *)
LEMMA ComponentsCorrect ==
  BathroomSpec => /\ []TypeOK /\ []AutoLightFollowsSensors /\ []ManualLightFollowsSwitch
                  /\ []Timer!NoFanInDarkRoom /\ []Timer!FanRunsUnlessRelit
                  /\ []Vent!AutoVentFollowsCommand
<1>1. BathroomSpec => []TypeOK /\ []AutoLightFollowsSensors /\ []ManualLightFollowsSwitch
  BY LightInBathroom, TypeCorrect, AutoLightCorrect, ManualLightCorrect, PTL
<1>2. BathroomSpec => []Timer!NoFanInDarkRoom /\ []Timer!FanRunsUnlessRelit
  BY TimerInBathroom, Timer!NoFanInDarkRoomCorrect, Timer!FanRunsUnlessRelitCorrect,
     Assumptions, PTL
<1>3. BathroomSpec => []Vent!AutoVentFollowsCommand
  BY FanInBathroom, Vent!AutoVentCorrect, Assumptions, PTL
<1> QED
  BY <1>1, <1>2, <1>3, PTL

(* From motion to both relays: a quiet bathroom has its light and, if it    *)
(* obeys the timer, its fan as the motion sensors agree.                    *)
THEOREM RoomFollowsMotionCorrect == BathroomSpec => []RoomFollowsMotion
<1>1. TypeOK /\ AutoLightFollowsSensors /\ Timer!NoFanInDarkRoom /\ Timer!FanRunsUnlessRelit
        /\ Vent!AutoVentFollowsCommand /\ CommandInv => RoomFollowsMotion
  <2> SUFFICES ASSUME TypeOK, AutoLightFollowsSensors, Timer!NoFanInDarkRoom,
                      Timer!FanRunsUnlessRelit, Vent!AutoVentFollowsCommand, CommandInv,
                      NEW v \in Bit, BathroomSettled, served, autoEnable = 1, MotionIs(v)
               PROVE  relay = v /\ (FanObeysLight => fanRelay = v)
    BY DEF RoomFollowsMotion
  <2>1. relay = v
    BY DEF AutoLightFollowsSensors, BathroomSettled, MotionIs
  <2> QED
    BY <2>1, FanLemma
<1> QED
  BY <1>1, ComponentsCorrect, CommandCorrect, PTL

(* From the switch or the page to both relays, likewise. *)
THEOREM RoomFollowsSwitchCorrect == BathroomSpec => []RoomFollowsSwitch
<1>1. TypeOK /\ ManualLightFollowsSwitch /\ Timer!NoFanInDarkRoom /\ Timer!FanRunsUnlessRelit
        /\ Vent!AutoVentFollowsCommand /\ CommandInv => RoomFollowsSwitch
  <2> SUFFICES ASSUME TypeOK, ManualLightFollowsSwitch, Timer!NoFanInDarkRoom,
                      Timer!FanRunsUnlessRelit, Vent!AutoVentFollowsCommand, CommandInv,
                      BathroomSettled, autoEnable = 0, ~httpLost
               PROVE  relay = onOff /\ (FanObeysLight => fanRelay = onOff)
    BY DEF RoomFollowsSwitch
  <2>1. relay = onOff
    BY DEF ManualLightFollowsSwitch, BathroomSettled
  <2>2. relay \in Bit
    BY DEF TypeOK
  <2> QED
    BY <2>1, <2>2, FanLemma
<1> QED
  BY <1>1, ComponentsCorrect, CommandCorrect, PTL

(* From humidity to the relay: a fan that obeys the humidity task runs as   *)
(* that has decided.                                                        *)
THEOREM FanFollowsHumidityCorrect ==
  BathroomSpec => []FanFollowsHumidity
<1>1. Vent!AutoVentFollowsCommand /\ CommandInv => FanFollowsHumidity
  BY DEF Vent!AutoVentFollowsCommand, Vent!Sources, Vent!Enabled, CommandInv, Posted,
     FanObeys, FanFollowsHumidity
<1>2. BathroomSpec => []Vent!AutoVentFollowsCommand
  BY FanInBathroom, Vent!AutoVentCorrect, Assumptions, PTL
<1> QED
  BY <1>1, <1>2, CommandCorrect, PTL
=============================================================================
