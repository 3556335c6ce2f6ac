---------------------------- MODULE Toilet_proofs ---------------------------
(***************************************************************************)
(* Proofs about RestLight, for every length of its queues and every set of *)
(* distances.                                                              *)
(*                                                                         *)
(* The toilet's light has two deciders.  In manual mode only messages of   *)
(* the page and the switch count, and ManualInv says that one of them is   *)
(* under way to make the status right.  In automatic mode a chain of three *)
(* invariants leads from the last sample to the status: SampleInv from the *)
(* sample to CheckDistMove's own idea of the light, ReportInv from there   *)
(* to the last message in the controller's queue, LastInv from that to the *)
(* status; RelayInv leads to the relay in either mode.                     *)
(*                                                                         *)
(* The second part is about the whole room, module Toilet: each component  *)
(* works there as it does alone, so their theorems add up to two that lead *)
(* from the distance, or the switch, to both relays.                       *)
(***************************************************************************)
EXTENDS Toilet, TLAPS

(* A sample that is compared is one: 0 stands for none. *)
TypeInv ==
  /\ TypeOK
  /\ taskPc = "compare" => dist \in Distances
  /\ meter = "post" => midlDist \in Distances

RelayInv == pc # "actuate" => relay = status

(* A message on which the controller will apply the manual setting. *)
HttpUnderWay ==
  \/ \E w \in HttpWriters : writer[w] = "send"
  \/ \E i \in 1 .. Len(ctrlQ) : ctrlQ[i] = Http
  \/ pc = "decide" /\ msg = Http

ManualInv == autoEnable = 0 /\ ~httpLost => status = onOff \/ HttpUnderWay

(* Once the last sample is compared, CheckDistMove has its verdict, and     *)
(* during the delay before it reports that somebody left, will have it.     *)
SampleInv ==
  meter = "measure" /\ distQ = <<>> /\ ~sampleLost =>
    /\ taskPc \in {"receive", "post"} => (lightOnOff = 1 <=> distVol < distOn)
    /\ taskPc = "delay" => ~(distVol < distOn)

(* What CheckDistMove believes is what it has told the controller. *)
ReportInv == taskPc # "post" /\ ~moveLost /\ last # Http => last = lightOnOff

(* The last message, unless it is still to be read, is obeyed. *)
Obeyed ==
  autoEnable = 1 /\ last # Http /\ (\A w \in HttpWriters : writer[w] = "idle")
    => status = last

LastInv ==
  /\ ctrlQ # <<>> => ctrlQ[Len(ctrlQ)] = last
  /\ ctrlQ = <<>> /\ pc = "decide" => msg = last
  /\ ctrlQ = <<>> /\ pc # "decide" => Obeyed

Messages == Bit \cup {Http}

-----------------------------------------------------------------------------
(* The controller's verdict is a level. *)
LEMMA LightOnOffType ==
  ASSUME TypeOK, NEW m \in Messages PROVE LightOnOff(m) \in Bit
<1>1. onOff \in Bit /\ status \in Bit
  BY DEF TypeOK
<1>2. CASE m = Http
  BY <1>1, <1>2 DEF LightOnOff, Bit
<1>3. CASE m # Http
  BY <1>1, <1>3 DEF LightOnOff, Messages
<1> QED
  BY <1>2, <1>3

(* What the types say of the two queues. *)
LEMMA QueuesLemma ==
  ASSUME TypeOK
  PROVE  /\ ctrlQ \in Seq(Messages) /\ Len(ctrlQ) <= QueueLen
         /\ distQ \in Seq(Distances) /\ Len(distQ) <= QueueLen
         /\ QueueLen \in Nat \ {0} /\ Http \in Messages /\ lightOnOff \in Messages
  BY QueueLenAssumption DEF TypeOK, Messages

(* Every step keeps the queues bounded and the types. *)
LEMMA TypeStep == TypeInv /\ [Next]_vars => TypeInv'
<1> SUFFICES ASSUME TypeInv, TypeOK, [Next]_vars PROVE TypeInv'
  BY DEF TypeInv
<1> USE DEF settings, isr, sensor, ctrl, history, TypeInv
<1>1. ASSUME NEW d \in Distances, Measure(d) PROVE TypeInv'
  BY <1>1 DEF Measure, TypeOK
<1>13. CASE SamplePost
  <2>1. distQ' \in Seq(Distances) /\ Len(distQ') <= QueueLen
    BY <1>13, QueuesLemma DEF SamplePost, QueueSend, QueueFull, TypeOK
  <2>2. sampleLost' \in BOOLEAN
    BY <1>13 DEF SamplePost, QueueFull
  <2> QED
    BY <1>13, <2>1, <2>2 DEF SamplePost, TypeOK
<1>2. CASE WebWrite
  <2>1. autoEnable' \in Bit /\ onOff' \in Bit /\ onDist' \in OnDistances
    BY <1>2, Zenon DEF WebWrite, TypeOK
  <2>2. writer' \in [HttpWriters -> {"idle", "send"}]
    BY <1>2 DEF WebWrite, TypeOK
  <2> QED
    BY <1>2, <2>1, <2>2 DEF WebWrite, TypeOK
<1>3. CASE SwitchWrite
  <2>1. writer' \in [HttpWriters -> {"idle", "send"}]
    BY <1>3 DEF SwitchWrite, TypeOK
  <2> QED
    BY <1>3, <2>1 DEF SwitchWrite, TypeOK
<1>4. ASSUME NEW w \in HttpWriters, Send(w) PROVE TypeInv'
  <2>1. ctrlQ' \in Seq(Messages) /\ Len(ctrlQ') <= QueueLen
    BY <1>4, QueuesLemma DEF Send, QueueSend, QueueFull
  <2>2. httpLost' \in BOOLEAN /\ last' \in Messages
    BY <1>4, QueuesLemma DEF Send, TypeOK, Messages, QueueFull
  <2>3. writer' \in [HttpWriters -> {"idle", "send"}]
    BY <1>4 DEF Send, TypeOK
  <2> QED
    BY <1>4, <2>1, <2>2, <2>3 DEF Send, TypeOK, Messages
<1>5. CASE Take
  <2>1. dist' \in Distances /\ distQ' \in Seq(Distances) /\ Len(distQ') <= QueueLen
    BY <1>5, QueuesLemma DEF Take
  <2> QED
    BY <1>5, <2>1 DEF Take, TypeOK
<1>6. ASSUME Near \/ Far PROVE TypeInv'
  <2>1. dist \in Distances
    BY <1>6 DEF Near, Far, TypeOK
  <2> QED
    BY <1>6, <2>1 DEF Near, Far, TypeOK, Bit
<1>7. CASE DelayOver
  BY <1>7 DEF DelayOver, TypeOK, Bit
<1>8. CASE Post
  <2>1. ctrlQ' \in Seq(Messages) /\ Len(ctrlQ') <= QueueLen
    BY <1>8, QueuesLemma DEF Post, QueueSend, QueueFull
  <2>2. moveLost' \in BOOLEAN /\ last' \in Messages
    BY <1>8, QueuesLemma DEF Post, TypeOK, Messages, QueueFull
  <2> QED
    BY <1>8, <2>1, <2>2 DEF Post, TypeOK, Messages
<1>9. CASE Receive
  <2>1. msg' \in Messages /\ ctrlQ' \in Seq(Messages) /\ Len(ctrlQ') <= QueueLen
    BY <1>9, QueuesLemma DEF Receive
  <2> QED
    BY <1>9, <2>1 DEF Receive, TypeOK, Messages
<1>10. CASE Decide
  <2>1. status' \in Bit
    BY <1>10, LightOnOffType DEF Decide, TypeOK, Messages
  <2> QED
    BY <1>10, <2>1 DEF Decide, TypeOK
<1>11. CASE Actuate
  BY <1>11 DEF Actuate, TypeOK
<1>12. CASE UNCHANGED vars
  BY <1>12 DEF vars, TypeOK
<1> QED
  BY <1>1, <1>2, <1>3, <1>4, <1>5, <1>6, <1>7, <1>8, <1>9, <1>10, <1>11, <1>12, <1>13
     DEF Next, CheckDistMove, RestLightControl

(* Both queues stay within their capacity, and every local within its type. *)
THEOREM TypeCorrect == Spec => []TypeOK
<1>1. Init => TypeInv
  <2> SUFFICES ASSUME Init PROVE TypeInv
    OBVIOUS
  <2>1. /\ ctrlQ \in Seq(Bit \cup {Http}) /\ Len(ctrlQ) <= QueueLen
        /\ distQ \in Seq(Distances) /\ Len(distQ) <= QueueLen
    BY QueueLenAssumption DEF Init
  <2> QED
    BY <2>1 DEF Init, TypeOK, TypeInv, Bit
<1>2. TypeInv => TypeOK
  BY DEF TypeInv
<1> QED
  BY <1>1, <1>2, TypeStep, PTL DEF Spec

-----------------------------------------------------------------------------
(* The relay lags behind the status only on the way to it. *)
LEMMA RelayStep == RelayInv /\ [Next]_vars => RelayInv'
  BY DEF RelayInv, Next, Measure, SamplePost, WebWrite, SwitchWrite, Send, CheckDistMove, Take, Near, Far,
         DelayOver, Post, RestLightControl, Receive, Decide, Actuate, vars, ctrl

(* A reception takes the first message and no other out of the queue. *)
LEMMA HttpReceived ==
  ASSUME TypeOK, HttpUnderWay, Receive PROVE HttpUnderWay'
<1>1. ctrlQ # <<>> /\ msg' = Head(ctrlQ) /\ ctrlQ' = Tail(ctrlQ) /\ pc' = "decide"
      /\ pc # "decide" /\ writer' = writer
  BY DEF Receive
<1>2. CASE \E w \in HttpWriters : writer[w] = "send"
  BY <1>1, <1>2 DEF HttpUnderWay
<1>3. ASSUME NEW i \in 1 .. Len(ctrlQ), ctrlQ[i] = Http PROVE HttpUnderWay'
  <2>1. CASE i = 1
    <3>1. msg' = Http
      BY <1>1, <1>3, <2>1, QueuesLemma
    <3> QED
      BY <1>1, <3>1 DEF HttpUnderWay
  <2>2. CASE i # 1
    <3>1. i \in 2 .. Len(ctrlQ)
      BY <1>3, <2>2, QueuesLemma
    <3>2. i - 1 \in 1 .. Len(ctrlQ') /\ ctrlQ'[i - 1] = Http
      BY <1>1, <1>3, <3>1, QueuesLemma
    <3> QED
      BY <3>2 DEF HttpUnderWay
  <2> QED
    BY <2>1, <2>2
<1> QED
  BY <1>1, <1>2, <1>3 DEF HttpUnderWay

(* A post to the controller leaves what is under way there. *)
LEMMA HttpKept ==
  ASSUME TypeOK, HttpUnderWay, NEW m \in Messages, ctrlQ' = QueueSend(ctrlQ, QueueLen, m),
         writer' = writer, pc' = pc, msg' = msg
  PROVE  HttpUnderWay'
<1>1. ctrlQ \in Seq(Messages) /\ QueueLen \in Nat
  BY QueuesLemma
<1>2. \A i \in 1 .. Len(ctrlQ) : /\ i \in 1 .. Len(QueueSend(ctrlQ, QueueLen, m))
                                /\ QueueSend(ctrlQ, QueueLen, m)[i] = ctrlQ[i]
  BY <1>1 DEF QueueSend, QueueFull
<1>3. ASSUME NEW i \in 1 .. Len(ctrlQ), ctrlQ[i] = Http PROVE HttpUnderWay'
  <2>1. i \in 1 .. Len(ctrlQ') /\ ctrlQ'[i] = Http
    BY <1>2, <1>3
  <2> QED
    BY <2>1 DEF HttpUnderWay
<1> QED
  BY <1>3 DEF HttpUnderWay

(* In manual mode the status is what is asked for, or will be. *)
LEMMA ManualStep == TypeOK /\ ManualInv /\ [Next]_vars => ManualInv'
<1> SUFFICES ASSUME TypeOK, ManualInv, [Next]_vars, autoEnable' = 0, ~httpLost'
             PROVE  status' = onOff' \/ HttpUnderWay'
  BY DEF ManualInv
<1> USE DEF settings, sensor, ctrl, history
<1>1. CASE (\E d \in Distances : Measure(d)) \/ SamplePost
  BY <1>1 DEF Measure, SamplePost, ManualInv, HttpUnderWay
<1>2. CASE WebWrite
  <2>1. writer'["echo_handler"] = "send"
    BY <1>2 DEF WebWrite, TypeOK, HttpWriters
  <2> QED
    BY <2>1 DEF HttpUnderWay, HttpWriters
<1>3. CASE SwitchWrite
  <2>1. writer'["QuickRestLightSw"] = "send"
    BY <1>3 DEF SwitchWrite, TypeOK, HttpWriters
  <2> QED
    BY <2>1 DEF HttpUnderWay, HttpWriters
<1>4. ASSUME NEW w \in HttpWriters, Send(w) PROVE HttpUnderWay'
  <2>1. ~QueueFull(ctrlQ, QueueLen) /\ ctrlQ' = QueueSend(ctrlQ, QueueLen, Http)
    BY <1>4 DEF Send
  <2>2. Len(ctrlQ') \in 1 .. Len(ctrlQ') /\ ctrlQ'[Len(ctrlQ')] = Http
    BY <2>1, QueuesLemma DEF QueueSend, QueueFull
  <2> QED
    BY <2>2 DEF HttpUnderWay
<1>5. CASE Take \/ Near \/ Far \/ DelayOver
  BY <1>5 DEF Take, Near, Far, DelayOver, ManualInv, HttpUnderWay
<1>6. CASE Post
  <2>1. ctrlQ' = QueueSend(ctrlQ, QueueLen, lightOnOff)
        /\ UNCHANGED <<settings, writer, ctrl, httpLost>>
    BY <1>6 DEF Post
  <2>2. HttpUnderWay => HttpUnderWay'
    BY <2>1, QueuesLemma, HttpKept
  <2> QED
    BY <2>1, <2>2 DEF ManualInv
<1>7. CASE Receive
  <2>1. UNCHANGED <<settings, status, httpLost>>
    BY <1>7 DEF Receive
  <2> QED
    BY <1>7, <2>1, HttpReceived DEF ManualInv
<1>8. CASE Decide
  <2>1. status' = LightOnOff(msg) /\ UNCHANGED <<settings, writer, ctrlQ, httpLost>>
        /\ pc = "decide"
    BY <1>8 DEF Decide
  <2>2. CASE msg = Http
    BY <2>1, <2>2 DEF LightOnOff
  <2>3. CASE msg # Http
    BY <2>1, <2>3 DEF LightOnOff, ManualInv, HttpUnderWay
  <2> QED
    BY <2>2, <2>3
<1>9. CASE Actuate
  BY <1>9 DEF Actuate, ManualInv, HttpUnderWay
<1>10. CASE UNCHANGED vars
  BY <1>10 DEF vars, ManualInv, HttpUnderWay
<1> QED
  BY <1>1, <1>2, <1>3, <1>4, <1>5, <1>6, <1>7, <1>8, <1>9, <1>10
     DEF Next, CheckDistMove, RestLightControl

(* A settled manual light is what the switch or the page asked for, unless  *)
(* the last such message was dropped.                                       *)
THEOREM ManualLightCorrect == Spec => []ManualLightFollowsSwitch
<1>1. Init => RelayInv /\ ManualInv
  BY DEF Init, RelayInv, ManualInv
<1>2. TypeOK /\ RelayInv /\ ManualInv => ManualLightFollowsSwitch
  <2> SUFFICES ASSUME TypeOK, RelayInv, ManualInv, Settled, autoEnable = 0, ~httpLost
               PROVE  relay = onOff
    BY DEF ManualLightFollowsSwitch
  <2>1. ~HttpUnderWay
    BY DEF HttpUnderWay, Settled
  <2> QED
    BY <2>1 DEF RelayInv, ManualInv, Settled
<1> QED
  BY <1>1, <1>2, TypeCorrect, RelayStep, ManualStep, PTL DEF Spec

-----------------------------------------------------------------------------
(* Samples that pile up during the delay are compared afterwards, and the   *)
(* last comparison decides.                                                 *)
LEMMA SampleStep == TypeOK /\ SampleInv /\ [Next]_vars => SampleInv'
<1> SUFFICES ASSUME TypeOK, SampleInv, [Next]_vars,
                    meter' = "measure", distQ' = <<>>, ~sampleLost'
             PROVE  /\ taskPc' \in {"receive", "post"} => (lightOnOff' = 1 <=> distVol' < distOn')
                    /\ taskPc' = "delay" => ~(distVol' < distOn')
  BY DEF SampleInv
<1> USE DEF isr, sensor, history
<1>1. dist \in Nat /\ onDist \in Nat /\ lightOnOff \in Bit
  BY DistancesAssumption DEF TypeOK
<1>2. CASE \E d \in Distances : Measure(d)
  BY <1>2 DEF Measure
<1>10. ASSUME SamplePost PROVE FALSE
  BY <1>10, QueuesLemma DEF SamplePost, QueueSend, QueueFull
<1>3. CASE Take
  BY <1>3 DEF Take
<1>4. CASE Near
  BY <1>1, <1>4 DEF Near
<1>5. CASE Far
  BY <1>1, <1>5 DEF Far, Bit
<1>6. CASE DelayOver
  BY <1>6 DEF DelayOver, SampleInv
<1>7. CASE Post
  BY <1>7 DEF Post, SampleInv
<1>8. CASE WebWrite \/ SwitchWrite \/ (\E w \in HttpWriters : Send(w)) \/ RestLightControl
  BY <1>8 DEF WebWrite, SwitchWrite, Send, RestLightControl, Receive, Decide, Actuate, SampleInv
<1>9. CASE UNCHANGED vars
  BY <1>9 DEF vars, SampleInv
<1> QED
  BY <1>2, <1>3, <1>4, <1>5, <1>6, <1>7, <1>8, <1>9, <1>10 DEF Next, CheckDistMove

(* CheckDistMove reports every change of its mind. *)
LEMMA ReportStep == TypeOK /\ ReportInv /\ [Next]_vars => ReportInv'
<1> SUFFICES ASSUME TypeOK, ReportInv, [Next]_vars, taskPc' # "post", ~moveLost', last' # Http
             PROVE  last' = lightOnOff'
  BY DEF ReportInv
<1> USE DEF sensor, history, ReportInv
<1>1. lightOnOff \in Bit
  BY DEF TypeOK
<1>2. CASE Near
  BY <1>1, <1>2 DEF Near, Bit
<1>3. ASSUME NEW w \in HttpWriters, Send(w) PROVE last' = lightOnOff'
  BY <1>3 DEF Send
<1>4. CASE Post
  BY <1>4 DEF Post
<1>5. CASE Take \/ Far \/ DelayOver
  BY <1>5 DEF Take, Far, DelayOver
<1>6. CASE \/ \E d \in Distances : Measure(d)
           \/ SamplePost \/ WebWrite \/ SwitchWrite \/ RestLightControl
  BY <1>6 DEF Measure, SamplePost, WebWrite, SwitchWrite, RestLightControl, Receive, Decide, Actuate
<1>7. CASE UNCHANGED vars
  BY <1>7 DEF vars
<1> QED
  BY <1>2, <1>3, <1>4, <1>5, <1>6, <1>7 DEF Next, CheckDistMove

(* A post that is not dropped becomes the last of the queue; a dropped one  *)
(* leaves the last where it was.                                            *)
LEMMA PostLemma ==
  ASSUME TypeOK, LastInv, NEW m \in Messages, ctrlQ' = QueueSend(ctrlQ, QueueLen, m),
         last' = IF QueueFull(ctrlQ, QueueLen) THEN last ELSE m
  PROVE  ctrlQ' # <<>> /\ ctrlQ'[Len(ctrlQ')] = last'
<1>1. ctrlQ' # <<>>
  BY QueuesLemma DEF QueueSend, QueueFull
<1>2. CASE QueueFull(ctrlQ, QueueLen)
  <2>1. ctrlQ' = ctrlQ /\ last' = last
    BY <1>2 DEF QueueSend
  <2> QED
    BY <1>1, <2>1 DEF LastInv
<1>3. CASE ~QueueFull(ctrlQ, QueueLen)
  <2>1. ctrlQ'[Len(ctrlQ')] = m
    BY <1>3, QueuesLemma DEF QueueSend, QueueFull
  <2> QED
    BY <1>1, <1>3, <2>1
<1> QED
  BY <1>2, <1>3

(* The last message is on its way, or obeyed. *)
LEMMA LastStep == TypeOK /\ LastInv /\ [Next]_vars => LastInv'
<1> SUFFICES ASSUME TypeOK, LastInv, [Next]_vars PROVE LastInv'
  OBVIOUS
<1> USE DEF settings, ctrl, history
<1>1. ASSUME NEW w \in HttpWriters, Send(w) PROVE LastInv'
  <2>1. ctrlQ' # <<>> /\ ctrlQ'[Len(ctrlQ')] = last'
    BY <1>1, QueuesLemma, PostLemma DEF Send
  <2> QED
    BY <2>1 DEF LastInv
<1>2. CASE Post
  <2>1. ctrlQ' # <<>> /\ ctrlQ'[Len(ctrlQ')] = last'
    BY <1>2, QueuesLemma, PostLemma DEF Post
  <2> QED
    BY <2>1 DEF LastInv
<1>3. ASSUME WebWrite \/ SwitchWrite PROVE LastInv'
  <2>1. \E w \in HttpWriters : writer'[w] = "send"
    BY <1>3 DEF WebWrite, SwitchWrite, TypeOK, HttpWriters
  <2>2. ~(\A w \in HttpWriters : writer'[w] = "idle")
    BY <2>1
  <2>3. UNCHANGED <<ctrlQ, pc, msg, last>>
    BY <1>3 DEF WebWrite, SwitchWrite
  <2> QED
    BY <2>2, <2>3 DEF LastInv, Obeyed
<1>4. CASE Receive
  <2>1. /\ ctrlQ # <<>> /\ ctrlQ' = Tail(ctrlQ) /\ msg' = Head(ctrlQ) /\ pc' = "decide"
        /\ last' = last
    BY <1>4 DEF Receive
  <2>2. CASE Len(ctrlQ) = 1
    <3>1. ctrlQ' = <<>> /\ msg' = last
      BY <2>1, <2>2, QueuesLemma DEF LastInv
    <3> QED
      BY <2>1, <3>1 DEF LastInv
  <2>3. CASE Len(ctrlQ) # 1
    <3>0. Len(ctrlQ) \in Nat /\ Len(ctrlQ) # 0 /\ Len(ctrlQ') = Len(ctrlQ) - 1
      BY <2>1, QueuesLemma
    <3>1. Len(ctrlQ) \in 2 .. Len(ctrlQ) /\ Len(ctrlQ') = Len(ctrlQ) - 1 /\ ctrlQ' # <<>>
      BY <2>3, <3>0
    <3>2. ctrlQ'[Len(ctrlQ')] = ctrlQ[Len(ctrlQ)]
      BY <2>1, <3>1, QueuesLemma
    <3> QED
      BY <2>1, <3>1, <3>2 DEF LastInv
  <2> QED
    BY <2>2, <2>3
<1>5. CASE Decide
  <2>1. /\ pc = "decide" /\ pc' # "decide" /\ status' = LightOnOff(msg)
        /\ UNCHANGED <<settings, writer, ctrlQ, last>>
    BY <1>5 DEF Decide
  <2>2. ctrlQ = <<>> => Obeyed'
    BY <2>1 DEF LastInv, Obeyed, LightOnOff
  <2> QED
    BY <2>1, <2>2 DEF LastInv
<1>6. CASE \/ Actuate \/ Take \/ Near \/ Far \/ DelayOver
           \/ SamplePost \/ \E d \in Distances : Measure(d)
  BY <1>6 DEF Actuate, Take, Near, Far, DelayOver, Measure, SamplePost, LastInv, Obeyed
<1>7. CASE UNCHANGED vars
  BY <1>7 DEF vars, LastInv, Obeyed
<1> QED
  BY <1>1, <1>2, <1>3, <1>4, <1>5, <1>6, <1>7 DEF Next, CheckDistMove, RestLightControl

(* A settled automatic light agrees with the last sample and the distance   *)
(* it was compared with, if the controller last heard of it from            *)
(* CheckDistMove and nothing was dropped.                                   *)
THEOREM AutoLightCorrect == Spec => []AutoLightFollowsDistance
<1>1. Init => RelayInv /\ SampleInv /\ ReportInv /\ LastInv
  <2> SUFFICES ASSUME Init PROVE RelayInv /\ SampleInv /\ ReportInv /\ LastInv
    OBVIOUS
  <2>1. distVol \in Nat /\ distOn \in Nat /\ distVol > distOn
    BY DistancesAssumption DEF Init
  <2>2. RelayInv /\ ReportInv /\ LastInv
    BY DEF Init, RelayInv, ReportInv, LastInv, Obeyed
  <2>3. SampleInv
    BY <2>1 DEF Init, SampleInv
  <2> QED
    BY <2>2, <2>3
<1>2. RelayInv /\ SampleInv /\ ReportInv /\ LastInv => AutoLightFollowsDistance
  BY DEF RelayInv, SampleInv, ReportInv, LastInv, Obeyed, AutoLightFollowsDistance, Settled
<1>3. Spec => []RelayInv
  BY <1>1, RelayStep, PTL DEF Spec
<1>4. Spec => []SampleInv
  BY <1>1, TypeCorrect, SampleStep, PTL DEF Spec
<1>5. Spec => []ReportInv
  BY <1>1, TypeCorrect, ReportStep, PTL DEF Spec
<1>6. Spec => []LastInv
  BY <1>1, TypeCorrect, LastStep, PTL DEF Spec
<1> QED
  BY <1>2, <1>3, <1>4, <1>5, <1>6, PTL

-----------------------------------------------------------------------------
(***************************************************************************)
(* The toilet.                                                             *)
(***************************************************************************)

(* A light is switched only when its state changes. *)
SwitchInv == pc = "actuate" => status = 1 - relay

(* The constants are as the components assume. *)
LEMMA Assumptions ==
  Timer!QueueLenAssumption /\ Vent!QueueLenAssumption /\ Vent!RoomAssumption
  BY QueueLenAssumption
     DEF Timer!QueueLenAssumption, Vent!QueueLenAssumption, Vent!RoomAssumption

(* The controller actuates a change of the relay, never a repetition. *)
LEMMA SwitchCorrect == Spec => []SwitchInv
<1>1. Init => SwitchInv /\ RelayInv
  BY DEF Init, SwitchInv, RelayInv
<1>2. TypeOK /\ RelayInv /\ SwitchInv /\ [Next]_vars => SwitchInv'
  <2> SUFFICES ASSUME TypeOK, RelayInv, SwitchInv, [Next]_vars PROVE SwitchInv'
    OBVIOUS
  <2>1. CASE Decide
    <3>1. status \in Bit /\ relay = status /\ relay' = relay
      BY <2>1 DEF Decide, RelayInv, TypeOK
    <3>2. status' \in Bit
      BY <2>1, LightOnOffType DEF Decide, TypeOK, Messages
    <3>3. pc' = IF status' = status THEN "receive" ELSE "actuate"
      BY <2>1 DEF Decide
    <3> QED
      BY <3>1, <3>2, <3>3 DEF SwitchInv, Bit
  <2>2. CASE CheckDistMove
    BY <2>2 DEF CheckDistMove, Take, Near, Far, DelayOver, Post, ctrl, SwitchInv
  <2>3. CASE \/ (\E d \in Distances : Measure(d)) \/ SamplePost
             \/ WebWrite \/ SwitchWrite \/ \E w \in HttpWriters : Send(w)
    BY <2>3 DEF Measure, SamplePost, WebWrite, SwitchWrite, Send, ctrl, SwitchInv
  <2>4. CASE Receive \/ Actuate \/ UNCHANGED vars
    BY <2>4 DEF Receive, Actuate, vars, ctrl, SwitchInv
  <2> QED
    BY <2>1, <2>2, <2>3, <2>4 DEF Next, RestLightControl
<1> QED
  BY <1>1, <1>2, TypeCorrect, RelayStep, PTL DEF Spec

(* The light works in the toilet as RestLight says. *)
THEOREM LightInToilet == ToiletSpec => Spec
<1>1. ToiletInit => Init
  BY DEF ToiletInit
<1>2. [ToiletNext]_toiletVars => [Next]_vars
  <2> SUFFICES ASSUME [ToiletNext]_toiletVars PROVE [Next]_vars
    OBVIOUS
  <2>1. CASE LightStep
    BY <2>1 DEF LightStep, Next, RestLightControl
  <2>2. CASE LightSwitches
    BY <2>2 DEF LightSwitches, Next, RestLightControl
  <2>3. CASE \/ LightTells \/ TimerReceives \/ TimerExpires \/ FanStep \/ FanReceives
             \/ UNCHANGED toiletVars
    BY <2>3 DEF LightTells, TimerReceives, TimerExpires, FanStep, FanReceives, toiletVars
  <2> QED
    BY <2>1, <2>2, <2>3 DEF ToiletNext
<1> QED
  BY <1>1, <1>2, PTL DEF ToiletSpec, Spec

-----------------------------------------------------------------------------
(* The timer's memory of the fan is a level, as its command is. *)
TimerInv == ventOnOff \in Bit

LEMMA TimerLevel == ToiletSpec => []TimerInv
<1>1. ToiletInit => TimerInv
  BY DEF ToiletInit, TimerInv, Bit
<1>2. TimerInv /\ [ToiletNext]_toiletVars => TimerInv'
  BY DEF TimerInv, ToiletNext, LightStep, LightSwitches, LightTells, TimerReceives,
     TimerExpires, FanStep, FanReceives, Timer!LightOn, Timer!LightOff, toiletVars, timer, Bit
<1> QED
  BY <1>1, <1>2, PTL DEF ToiletSpec

(* Each command is the one the fan's controller expects next, and the       *)
(* page's messages are those of one task.                                   *)
THEOREM FanInToilet == ToiletSpec => Vent!Spec
<1>1. ToiletInit => Vent!Init
  BY DEF ToiletInit, Vent!Init, Commands, Vent!Sources
<1>2. TimerInv /\ [ToiletNext]_toiletVars => [Vent!Next]_(Vent!vars)
  <2> SUFFICES ASSUME TimerInv, [ToiletNext]_toiletVars PROVE [Vent!Next]_(Vent!vars)
    OBVIOUS
  <2>1. UNCHANGED <<fan, ventOnOff>> => UNCHANGED Vent!vars
    BY DEF fan, Vent!vars, Vent!table, Vent!ctrl, Commands
  <2>2. CASE TimerExpires
    <3>1. ventOnOff' = 1 - ventOnOff
      BY <2>2 DEF TimerExpires, TimerInv, Bit
    <3>2. Commands["LightData"] = ventOnOff
          /\ Commands' = [Commands EXCEPT !["LightData"] = 1 - ventOnOff]
      BY <3>1 DEF Commands
    <3>3. Vent!Command("LightData")
      BY <2>2, <3>1, <3>2
         DEF TimerExpires, Vent!Command, Vent!table, Vent!ctrl, QueueSend, QueueFull,
             Vent!QueueSend, Vent!QueueFull
    <3> QED
      BY <3>3 DEF Vent!Next, Vent!Sources
  <2>3. CASE FanStep
    <3>1. Commands' = Commands
      BY <2>3 DEF FanStep, timer, Commands
    <3> QED
      BY <2>3, <3>1 DEF FanStep, Vent!Next, Vent!Controller, Bit, Vent!Bit
  <2>4. CASE FanReceives
    BY <2>4 DEF FanReceives, Vent!Next, Vent!Controller
  <2>5. CASE LightStep \/ LightSwitches \/ LightTells \/ TimerReceives \/ UNCHANGED toiletVars
    <3>1. UNCHANGED <<fan, ventOnOff>>
      BY <2>5 DEF LightStep, LightSwitches, LightTells, TimerReceives, toiletVars, timer,
         Timer!LightOn, Timer!LightOff
    <3> QED
      BY <2>1, <3>1
  <2> QED
    BY <2>2, <2>3, <2>4, <2>5 DEF ToiletNext
<1> QED
  BY <1>1, <1>2, TimerLevel, PTL DEF ToiletSpec, Vent!Spec

-----------------------------------------------------------------------------
(* What the timer sees of the fan's queue changes with it. *)
LEMMA TimerQLemma ==
  ASSUME fanQ \in Seq(Vent!Messages)
  PROVE  /\ fanQ' = fanQ => TimerQ' = TimerQ
         /\ \A m \in Vent!Messages :
              fanQ' = QueueSend(fanQ, QueueLen, m)
              => /\ Timer!QueueFull(TimerQ, QueueLen) <=> QueueFull(fanQ, QueueLen)
                 /\ TimerQ' = Timer!QueueSend(TimerQ, QueueLen, Vent!TimerMsg(m))
         /\ fanQ # <<>> /\ fanQ' = Tail(fanQ)
              => /\ TimerQ # <<>> /\ Head(TimerQ) = Vent!TimerMsg(Head(fanQ))
                 /\ TimerQ' = Tail(TimerQ)
<1>1. TimerQ = Vent!TimerView(fanQ) /\ TimerQ' = Vent!TimerView(fanQ')
  BY DEF TimerQ, Vent!TimerView, Vent!TimerMsg
<1>2. ASSUME NEW m \in Vent!Messages, fanQ' = QueueSend(fanQ, QueueLen, m)
      PROVE  /\ Timer!QueueFull(TimerQ, QueueLen) <=> QueueFull(fanQ, QueueLen)
             /\ TimerQ' = Timer!QueueSend(TimerQ, QueueLen, Vent!TimerMsg(m))
  <2>1. /\ Vent!QueueFull(TimerQ, QueueLen) <=> Vent!QueueFull(fanQ, QueueLen)
        /\ Vent!TimerView(Vent!QueueSend(fanQ, QueueLen, m))
             = Vent!QueueSend(TimerQ, QueueLen, Vent!TimerMsg(m))
    BY <1>1, Assumptions, Vent!ViewSend
  <2> QED
    BY <1>1, <1>2, <2>1 DEF QueueSend, QueueFull, Vent!QueueSend, Vent!QueueFull,
       Timer!QueueSend, Timer!QueueFull
<1>3. ASSUME fanQ # <<>>, fanQ' = Tail(fanQ)
      PROVE  /\ TimerQ # <<>> /\ Head(TimerQ) = Vent!TimerMsg(Head(fanQ))
             /\ TimerQ' = Tail(TimerQ)
  BY <1>1, <1>3, Assumptions, Vent!ViewReceive
<1> QED
  BY <1>1, <1>2, <1>3

(* The controller tells the timer of a change before it takes its next message. *)
TellInv == telling \in BOOLEAN /\ (telling => pc = "receive")

LEMMA TellCorrect == ToiletSpec => []TellInv
<1>1. ToiletInit => TellInv
  BY DEF ToiletInit, TellInv
<1>2. TellInv /\ [ToiletNext]_toiletVars => TellInv'
  <2> SUFFICES ASSUME TellInv, [ToiletNext]_toiletVars PROVE TellInv'
    OBVIOUS
  <2>1. CASE LightStep
    BY <2>1 DEF LightStep, Measure, SamplePost, WebWrite, SwitchWrite, Send, CheckDistMove,
       Take, Near, Far, DelayOver, Post, Receive, Decide, timer, ctrl, TellInv
  <2>2. CASE LightSwitches \/ LightTells
    BY <2>2 DEF LightSwitches, LightTells, Actuate, TellInv
  <2>3. CASE TimerReceives \/ TimerExpires \/ FanStep \/ FanReceives \/ UNCHANGED toiletVars
    BY <2>3 DEF TimerReceives, TimerExpires, FanStep, FanReceives, toiletVars, vars, ctrl,
       timer, Timer!LightOn, Timer!LightOff, TellInv
  <2> QED
    BY <2>1, <2>2, <2>3 DEF ToiletNext
<1> QED
  BY <1>1, <1>2, PTL DEF ToiletSpec

(* The light's controller and the fan's queue are what the timer takes them for. *)
LEMMA TimerNextStep ==
  ASSUME RelayInv, SwitchInv, TellInv, Vent!TypeOK, TimerInv, [ToiletNext]_toiletVars
  PROVE  [Timer!Next]_(Timer!vars)
<1>1. fanQ \in Seq(Vent!Messages)
  BY DEF Vent!TypeOK
<1>2. UNCHANGED <<relay, timer, heard, fanQ>> => UNCHANGED Timer!vars
  BY <1>1, TimerQLemma DEF Timer!vars, timer, heard
<1>3. CASE LightSwitches
  <2>1. TimerQ' = TimerQ
    BY <1>1, <1>3, TimerQLemma DEF LightSwitches, fan
  <2>2. relay' = 1 - relay /\ ~telling
    BY <1>3 DEF LightSwitches, Actuate, SwitchInv, TellInv
  <2>3. Timer!LightSwitch
    BY <1>3, <2>1, <2>2 DEF LightSwitches, heard, Timer!LightSwitch
  <2> QED
    BY <2>3 DEF Timer!Next
<1>10. CASE LightTells
  <2>1. TimerQ' = TimerQ
    BY <1>1, <1>10, TimerQLemma DEF LightTells, fan
  <2>2. relay = status
    BY <1>10 DEF LightTells, TellInv, RelayInv
  <2>3. Timer!LightPost
    BY <1>10, <2>1, <2>2 DEF LightTells, vars, ctrl, Timer!LightPost, QueueSend, QueueFull,
       Timer!QueueSend, Timer!QueueFull
  <2> QED
    BY <2>3 DEF Timer!Next
<1>4. CASE TimerReceives
  <2>1. Timer!LightOn \/ Timer!LightOff
    BY <1>4 DEF TimerReceives
  <2> QED
    BY <2>1 DEF Timer!Next, Timer!Task
<1>5. CASE TimerExpires
  <2> DEFINE m == [sender |-> "LightData", data |-> ventOnOff']
  <2>1. m \in Vent!Messages /\ Vent!TimerMsg(m) = ventOnOff'
    BY <1>5 DEF TimerExpires, Vent!Messages, Vent!Sources, Vent!Bit, Vent!TimerMsg
  <2>2. fanQ' = QueueSend(fanQ, QueueLen, m) /\ ventLost' = QueueFull(fanQ, QueueLen)
    BY <1>5 DEF TimerExpires
  <2>3. /\ TimerQ' = Timer!QueueSend(TimerQ, QueueLen, ventOnOff')
        /\ Timer!QueueFull(TimerQ, QueueLen) <=> QueueFull(fanQ, QueueLen)
    BY <1>1, <2>1, <2>2, TimerQLemma
  <2>4. ventLost' = Timer!QueueFull(TimerQ, QueueLen)
    BY <2>2, <2>3 DEF QueueFull, Timer!QueueFull
  <2>5. Timer!Timeout
    BY <1>5, <2>3, <2>4 DEF TimerExpires, Timer!Timeout, vars, ctrl
  <2> QED
    BY <2>5 DEF Timer!Next, Timer!Task
<1>6. CASE Vent!WebSend /\ FanStep
  <2>1. fanQ' = QueueSend(fanQ, QueueLen, Vent!HttpMsg)
    BY <1>6 DEF Vent!WebSend, QueueSend, QueueFull, Vent!QueueSend, Vent!QueueFull
  <2>2. Vent!HttpMsg \in Vent!Messages /\ Vent!TimerMsg(Vent!HttpMsg) = Timer!Other
    BY DEF Vent!Messages, Vent!HttpMsg, Vent!TimerMsg, Timer!Other
  <2>3. TimerQ' = Timer!QueueSend(TimerQ, QueueLen, Timer!Other)
    BY <1>1, <2>1, <2>2, TimerQLemma
  <2>4. Timer!OtherPost
    BY <1>6, <2>3 DEF FanStep, Timer!OtherPost, vars, ctrl, timer, heard
  <2> QED
    BY <2>4 DEF Timer!Next
<1>7. CASE ~Vent!WebSend /\ FanStep
  <2>1. UNCHANGED fanQ
    BY <1>7 DEF FanStep, Vent!WebWrite, Vent!Decide, Vent!Actuate
  <2> QED
    BY <1>2, <1>7, <2>1 DEF FanStep, vars, ctrl
<1>8. CASE FanReceives
  <2>1. fanQ # <<>> /\ fanQ' = Tail(fanQ)
    BY <1>8 DEF FanReceives, Vent!Receive
  <2>2. TimerQ # <<>> /\ Head(TimerQ) = Vent!TimerMsg(Head(fanQ)) /\ TimerQ' = Tail(TimerQ)
    BY <1>1, <2>1, TimerQLemma
  <2>3. Head(fanQ) \in Vent!Messages
    BY <1>1, <2>1
  <2>4. ventData' = IF Head(TimerQ) = Timer!Other THEN ventData ELSE Head(TimerQ)
    BY <1>8, <2>2, <2>3
       DEF FanReceives, Vent!TimerMsg, Timer!Other, Vent!Messages, Vent!HttpMsg, Vent!Bit
  <2>5. Timer!VentReceive
    BY <1>8, <2>2, <2>4 DEF FanReceives, Timer!VentReceive, vars, ctrl, timer
  <2> QED
    BY <2>5 DEF Timer!Next
<1>9. CASE LightStep \/ UNCHANGED toiletVars
  <2>1. UNCHANGED <<timer, heard, fanQ>>
    BY <1>9 DEF LightStep, toiletVars, fan
  <2>2. UNCHANGED relay
    <3>1. CASE LightStep
      BY <3>1 DEF LightStep, Measure, SamplePost, WebWrite, SwitchWrite, Send, CheckDistMove, Take, Near,
         Far, DelayOver, Post, Receive, Decide, ctrl
    <3>2. CASE UNCHANGED toiletVars
      BY <3>2 DEF toiletVars, vars, ctrl
    <3> QED
      BY <1>9, <3>1, <3>2
  <2> QED
    BY <1>2, <2>1, <2>2
<1> QED
  BY <1>3, <1>4, <1>5, <1>6, <1>7, <1>8, <1>9, <1>10 DEF ToiletNext

(* The timer works as VentTimer says: the light's controller posts, after   *)
(* each change of the relay, the new level and nothing else, and in the fan's queue the timer's *)
(* messages keep their order among the page's.                              *)
THEOREM TimerInToilet == ToiletSpec => Timer!Spec
<1>1. ToiletInit => Timer!Init
  <2> SUFFICES ASSUME ToiletInit PROVE Timer!Init
    OBVIOUS
  <2>1. TimerQ = <<>>
    BY DEF ToiletInit, TimerQ, Vent!TimerView
  <2> QED
    BY <2>1 DEF ToiletInit, Init, Timer!Init
<1>2. RelayInv /\ SwitchInv /\ TellInv /\ Vent!TypeOK /\ TimerInv /\ [ToiletNext]_toiletVars
        => [Timer!Next]_(Timer!vars)
  BY TimerNextStep
<1>3. ToiletSpec => []RelayInv /\ []SwitchInv
  <2>1. Init => RelayInv
    BY DEF Init, RelayInv
  <2> QED
    BY <2>1, LightInToilet, RelayStep, SwitchCorrect, PTL DEF Spec
<1>4. ToiletSpec => []Vent!TypeOK
  BY FanInToilet, Vent!TypeCorrect, Assumptions, PTL
<1> QED
  BY <1>1, <1>2, <1>3, <1>4, TellCorrect, TimerLevel, PTL DEF ToiletSpec, Timer!Spec

-----------------------------------------------------------------------------
(* The timer's last command, while it is the last message and was not       *)
(* dropped, is what the timer still wants.                                  *)
CommandInv == fanLast.sender = "LightData" /\ ~ventLost => fanLast.data = ventOnOff

LEMMA CommandCorrect == ToiletSpec => []CommandInv
<1>1. ToiletInit => CommandInv
  BY DEF ToiletInit, CommandInv, Vent!HttpMsg
<1>2. CommandInv /\ [ToiletNext]_toiletVars => CommandInv'
  <2> SUFFICES ASSUME CommandInv, [ToiletNext]_toiletVars PROVE CommandInv'
    OBVIOUS
  <2>1. CASE TimerExpires
    <3>1. CASE QueueFull(fanQ, QueueLen)
      BY <2>1, <3>1 DEF TimerExpires, CommandInv
    <3>2. CASE ~QueueFull(fanQ, QueueLen)
      BY <2>1, <3>2 DEF TimerExpires, CommandInv
    <3> QED
      BY <3>1, <3>2
  <2>2. CASE FanStep
    <3>1. fanLast' = fanLast \/ fanLast' = Vent!HttpMsg
      BY <2>2 DEF FanStep, Vent!WebWrite, Vent!WebSend, Vent!Decide, Vent!Actuate
    <3> QED
      BY <2>2, <3>1 DEF FanStep, timer, heard, CommandInv, Vent!HttpMsg
  <2>3. CASE FanReceives
    BY <2>3 DEF FanReceives, Vent!Receive, timer, CommandInv
  <2>4. CASE LightStep \/ LightSwitches \/ LightTells \/ TimerReceives \/ UNCHANGED toiletVars
    BY <2>4 DEF LightStep, LightSwitches, LightTells, TimerReceives, Timer!LightOn, Timer!LightOff,
       toiletVars, timer, fan, heard, CommandInv
  <2> QED
    BY <2>1, <2>2, <2>3, <2>4 DEF ToiletNext
<1> QED
  BY <1>1, <1>2, PTL DEF ToiletSpec

(* A fan that obeys a settled timer runs exactly in the light. *)
LEMMA FanLemma ==
  ASSUME ToiletSettled, FanObeys, Timer!NoFanInDarkRoom, Timer!FanRunsUnlessRelit,
         Vent!AutoVentFollowsCommand, CommandInv, relay \in Bit
  PROVE  fanRelay = relay
<1>1. ventOnOff = relay
  BY DEF Timer!NoFanInDarkRoom, Timer!FanRunsUnlessRelit, ToiletSettled, FanObeys, Bit
<1>2. fanLast.data = relay
  BY <1>1 DEF CommandInv, FanObeys
<1>3. fanRelay = fanLast.data
  BY DEF ToiletSettled, Vent!AutoVentFollowsCommand, Vent!Sources, Vent!Enabled, FanObeys
<1> QED
  BY <1>2, <1>3

(* The components' properties hold of the room. *)
LEMMA ComponentsCorrect ==
  ToiletSpec => /\ []TypeOK /\ []AutoLightFollowsDistance /\ []ManualLightFollowsSwitch
                /\ []Timer!NoFanInDarkRoom /\ []Timer!FanRunsUnlessRelit
                /\ []Vent!AutoVentFollowsCommand
<1>1. ToiletSpec => []TypeOK /\ []AutoLightFollowsDistance /\ []ManualLightFollowsSwitch
  BY LightInToilet, TypeCorrect, AutoLightCorrect, ManualLightCorrect, PTL
<1>2. ToiletSpec => []Timer!NoFanInDarkRoom /\ []Timer!FanRunsUnlessRelit
  BY TimerInToilet, Timer!NoFanInDarkRoomCorrect, Timer!FanRunsUnlessRelitCorrect,
     Assumptions, PTL
<1>3. ToiletSpec => []Vent!AutoVentFollowsCommand
  BY FanInToilet, Vent!AutoVentCorrect, Assumptions, PTL
<1> QED
  BY <1>1, <1>2, <1>3, PTL

(* From the distance to both relays. *)
THEOREM ToiletFollowsDistanceCorrect == ToiletSpec => []ToiletFollowsDistance
<1>1. TypeOK /\ AutoLightFollowsDistance /\ Timer!NoFanInDarkRoom /\ Timer!FanRunsUnlessRelit
        /\ Vent!AutoVentFollowsCommand /\ CommandInv => ToiletFollowsDistance
  <2> SUFFICES ASSUME TypeOK, AutoLightFollowsDistance, Timer!NoFanInDarkRoom,
                      Timer!FanRunsUnlessRelit, Vent!AutoVentFollowsCommand, CommandInv,
                      ToiletSettled, autoEnable = 1, last # Http, ~moveLost, ~sampleLost
               PROVE  /\ relay = 1 <=> distVol < distOn
                      /\ FanObeys => (fanRelay = 1 <=> distVol < distOn)
    BY DEF ToiletFollowsDistance
  <2>1. relay = 1 <=> distVol < distOn
    BY DEF AutoLightFollowsDistance, ToiletSettled
  <2>2. FanObeys => fanRelay = relay
    BY FanLemma DEF TypeOK
  <2> QED
    BY <2>1, <2>2
<1> QED
  BY <1>1, ComponentsCorrect, CommandCorrect, PTL

(* From the switch or the page to both relays. *)
THEOREM ToiletFollowsSwitchCorrect == ToiletSpec => []ToiletFollowsSwitch
<1>1. TypeOK /\ ManualLightFollowsSwitch /\ Timer!NoFanInDarkRoom /\ Timer!FanRunsUnlessRelit
        /\ Vent!AutoVentFollowsCommand /\ CommandInv => ToiletFollowsSwitch
  <2> SUFFICES ASSUME TypeOK, ManualLightFollowsSwitch, Timer!NoFanInDarkRoom,
                      Timer!FanRunsUnlessRelit, Vent!AutoVentFollowsCommand, CommandInv,
                      ToiletSettled, autoEnable = 0, ~httpLost
               PROVE  relay = onOff /\ (FanObeys => fanRelay = onOff)
    BY DEF ToiletFollowsSwitch
  <2>1. relay = onOff
    BY DEF ManualLightFollowsSwitch, ToiletSettled
  <2>2. FanObeys => fanRelay = relay
    BY FanLemma DEF TypeOK
  <2> QED
    BY <2>1, <2>2
<1> QED
  BY <1>1, ComponentsCorrect, CommandCorrect, PTL
=============================================================================
