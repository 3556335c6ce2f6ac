------------------------- MODULE VentControl_proofs -------------------------
(***************************************************************************)
(* Proofs about VentControl, for either room and every length of the       *)
(* queue.                                                                  *)
(*                                                                         *)
(* In manual mode the status is the switch or some message, whichever it   *)
(* is, will make it so: a dropped post leaves others in the queue.  In     *)
(* automatic mode only the last message counts, and LastInv follows it     *)
(* through the queue to the status.                                        *)
(*                                                                         *)
(* The last part is for the modules that compose VentControl with          *)
(* VentTimer, which sees the same queue with less in it.                   *)
(***************************************************************************)
EXTENDS VentControl, TLAPS

RelayInv == pc # "actuate" => relay = status

ManualInv ==
  autoVent = 0 => status = onOff \/ web = "send" \/ ctrlQ # <<>> \/ pc = "decide"

(* last obeyed, if it was a command of a source in use *)
Obeyed ==
  autoVent # 0 /\ last.sender \in Sources /\ Enabled(last.sender) => status = last.data

LastInv ==
  /\ ctrlQ # <<>> => ctrlQ[Len(ctrlQ)] = last
  /\ ctrlQ = <<>> /\ pc = "decide" => msg = last
  /\ ctrlQ = <<>> /\ pc # "decide" /\ web = "idle" => Obeyed

-----------------------------------------------------------------------------
(* The controller's verdict is a level, and its messages are messages. *)
LEMMA VentOnOffType ==
  ASSUME TypeOK, NEW m \in Messages PROVE VentOnOff(m) \in Bit
<1>1. m.sender \in Sources => m.data \in Bit
  BY RoomAssumption DEF Messages, HttpMsg, Sources
<1>2. m.sender = "HumData" /\ Room # "Rest" => m.sender \in Sources
  BY RoomAssumption DEF Sources
<1>3. m.data \in Bit
  BY DEF Messages, HttpMsg, Bit
<1>4. onOff \in Bit
  BY DEF TypeOK
<1> QED
  BY <1>3, <1>4 DEF VentOnOff

(* A command is a message. *)
LEMMA CommandType ==
  ASSUME TypeOK, NEW s \in Sources
  PROVE  [sender |-> s, data |-> 1 - command[s]] \in Messages /\ 1 - command[s] \in Bit
<1>1. command[s] \in Bit
  BY DEF TypeOK
<1>2. 1 - command[s] \in Bit
  BY <1>1 DEF Bit
<1> QED
  BY <1>2 DEF Messages

(* Every step keeps the queue bounded and the types. *)
LEMMA TypeStep == TypeOK /\ [Next]_vars => TypeOK'
<1> SUFFICES ASSUME TypeOK, [Next]_vars PROVE TypeOK'
  OBVIOUS
<1>1. ctrlQ \in Seq(Messages) /\ Len(ctrlQ) <= QueueLen /\ QueueLen \in Nat \ {0}
      /\ HttpMsg \in Messages
  BY QueueLenAssumption DEF TypeOK, Messages
<1>2. ASSUME NEW p \in Parms, NEW v \in Bit, WebWrite(p, v) PROVE TypeOK'
  <2>1. autoVent' \in Bit /\ onOff' \in Bit /\ use' \in [Sources -> Bit]
    BY <1>2 DEF WebWrite, TypeOK
  <2> QED
    BY <1>2, <2>1 DEF WebWrite, TypeOK, ctrl
<1>3. CASE WebSend
  <2>1. ctrlQ' \in Seq(Messages) /\ Len(ctrlQ') <= QueueLen
    BY <1>1, <1>3 DEF WebSend, QueueSend, QueueFull
  <2>2. last' \in Messages
    BY <1>1, <1>3 DEF WebSend, TypeOK
  <2> QED
    BY <1>3, <2>1, <2>2 DEF WebSend, TypeOK, ctrl, table
<1>4. ASSUME NEW s \in Sources, Command(s) PROVE TypeOK'
  <2>1. ctrlQ' \in Seq(Messages) /\ Len(ctrlQ') <= QueueLen
    BY <1>1, <1>4, CommandType DEF Command, QueueSend, QueueFull
  <2>2. last' \in Messages /\ command' \in [Sources -> Bit]
    BY <1>4, CommandType DEF Command, TypeOK
  <2> QED
    BY <1>4, <2>1, <2>2 DEF Command, TypeOK, ctrl, table
<1>5. CASE Receive
  <2>1. msg' \in Messages /\ ctrlQ' \in Seq(Messages) /\ Len(ctrlQ') <= QueueLen
    BY <1>1, <1>5 DEF Receive
  <2> QED
    BY <1>5, <2>1 DEF Receive, TypeOK, table
<1>6. CASE Decide
  <2>1. status' \in Bit
    BY <1>6, VentOnOffType DEF Decide, TypeOK
  <2> QED
    BY <1>1, <1>6, <2>1 DEF Decide, TypeOK, table
<1>7. CASE Actuate
  BY <1>7 DEF Actuate, TypeOK, table
<1>8. CASE UNCHANGED vars
  BY <1>8 DEF vars, table, ctrl, TypeOK
<1> QED
  BY <1>2, <1>3, <1>4, <1>5, <1>6, <1>7, <1>8 DEF Next, Controller

(* The queue stays within its capacity, and every local within its type. *)
THEOREM TypeCorrect == Spec => []TypeOK
<1>1. Init => TypeOK
  <2> SUFFICES ASSUME Init PROVE TypeOK
    OBVIOUS
  <2>1. ctrlQ \in Seq(Messages) /\ Len(ctrlQ) <= QueueLen
    BY QueueLenAssumption DEF Init
  <2>2. HttpMsg \in Messages
    BY DEF Messages
  <2> QED
    BY <2>1, <2>2 DEF Init, TypeOK, Bit
<1> QED
  BY <1>1, TypeStep, PTL DEF Spec

-----------------------------------------------------------------------------
(* The relay lags behind the status only on the way to it. *)
LEMMA RelayStep == RelayInv /\ [Next]_vars => RelayInv'
  BY DEF RelayInv, Next, WebWrite, WebSend, Command, Controller, Receive, Decide, Actuate,
         vars, ctrl, table

(* The manual status is the switch's, or a message will make it so. *)
LEMMA ManualStep == TypeOK /\ ManualInv /\ [Next]_vars => ManualInv'
<1> SUFFICES ASSUME TypeOK, ManualInv, [Next]_vars, autoVent' = 0
             PROVE  status' = onOff' \/ web' = "send" \/ ctrlQ' # <<>> \/ pc' = "decide"
  BY DEF ManualInv
<1>1. ctrlQ \in Seq(Messages) /\ Len(ctrlQ) <= QueueLen /\ QueueLen \in Nat \ {0}
      /\ HttpMsg \in Messages
  BY QueueLenAssumption DEF TypeOK, Messages
<1>2. CASE \E p \in Parms, v \in Bit : WebWrite(p, v)
  BY <1>2 DEF WebWrite
<1>3. CASE WebSend
  BY <1>1, <1>3 DEF WebSend, QueueSend, QueueFull
<1>4. ASSUME NEW s \in Sources, Command(s) PROVE ctrlQ' # <<>>
  BY <1>1, <1>4, CommandType DEF Command, QueueSend, QueueFull
<1>5. CASE Receive
  BY <1>5 DEF Receive
<1>6. CASE Decide
  BY <1>6 DEF Decide, VentOnOff, table
<1>7. CASE Actuate \/ UNCHANGED vars
  BY <1>7 DEF Actuate, vars, ctrl, table, ManualInv
<1> QED
  BY <1>2, <1>3, <1>4, <1>5, <1>6, <1>7 DEF Next, Controller

(* A settled manual fan is what the switch says. *)
THEOREM ManualVentCorrect == Spec => []ManualVentFollowsSwitch
<1>1. Init => RelayInv /\ ManualInv
  BY DEF Init, RelayInv, ManualInv
<1>2. RelayInv /\ ManualInv => ManualVentFollowsSwitch
  BY DEF RelayInv, ManualInv, ManualVentFollowsSwitch, Settled
<1> QED
  BY <1>1, <1>2, TypeCorrect, RelayStep, ManualStep, PTL DEF Spec

-----------------------------------------------------------------------------
(* A post that is not dropped becomes the last of the queue; a dropped one  *)
(* leaves the last where it was.                                            *)
LEMMA PostLemma ==
  ASSUME TypeOK, LastInv, NEW m \in Messages, ctrlQ' = QueueSend(ctrlQ, QueueLen, m),
         last' = IF QueueFull(ctrlQ, QueueLen) THEN last ELSE m
  PROVE  ctrlQ' # <<>> /\ ctrlQ'[Len(ctrlQ')] = last'
<1>1. ctrlQ \in Seq(Messages) /\ Len(ctrlQ) <= QueueLen /\ QueueLen \in Nat \ {0}
  BY QueueLenAssumption DEF TypeOK
<1>2. ctrlQ' # <<>>
  BY <1>1 DEF QueueSend, QueueFull
<1>3. CASE QueueFull(ctrlQ, QueueLen)
  <2>1. ctrlQ' = ctrlQ /\ last' = last
    BY <1>3 DEF QueueSend
  <2> QED
    BY <1>2, <2>1 DEF LastInv
<1>4. CASE ~QueueFull(ctrlQ, QueueLen)
  <2>1. ctrlQ'[Len(ctrlQ')] = m
    BY <1>1, <1>4 DEF QueueSend, QueueFull
  <2> QED
    BY <1>2, <1>4, <2>1
<1> QED
  BY <1>3, <1>4

(* The last message is on its way, or obeyed. *)
LEMMA LastStep == TypeOK /\ LastInv /\ [Next]_vars => LastInv'
<1> SUFFICES ASSUME TypeOK, LastInv, [Next]_vars PROVE LastInv'
  OBVIOUS
<1>1. ctrlQ \in Seq(Messages) /\ HttpMsg \in Messages
  BY DEF TypeOK, Messages
<1>2. ASSUME NEW p \in Parms, NEW v \in Bit, WebWrite(p, v) PROVE LastInv'
  BY <1>2 DEF WebWrite, LastInv, ctrl
<1>3. CASE WebSend
  BY <1>1, <1>3, PostLemma DEF WebSend, LastInv
<1>4. ASSUME NEW s \in Sources, Command(s) PROVE LastInv'
  <2>1. ctrlQ' # <<>> /\ ctrlQ'[Len(ctrlQ')] = last'
    BY <1>4, CommandType, PostLemma DEF Command
  <2> QED
    BY <2>1 DEF LastInv
<1>5. CASE Receive
  <2>1. /\ ctrlQ # <<>> /\ ctrlQ' = Tail(ctrlQ) /\ msg' = Head(ctrlQ) /\ pc' = "decide"
        /\ last' = last
    BY <1>5 DEF Receive
  <2>2. CASE Len(ctrlQ) = 1
    <3>1. ctrlQ' = <<>> /\ msg' = last
      BY <1>1, <2>1, <2>2 DEF LastInv
    <3> QED
      BY <2>1, <3>1 DEF LastInv
  <2>3. CASE Len(ctrlQ) # 1
    <3>0. Len(ctrlQ) \in Nat /\ Len(ctrlQ) # 0 /\ Len(ctrlQ') = Len(ctrlQ) - 1
      BY <1>1, <2>1
    <3>1. Len(ctrlQ) \in 2 .. Len(ctrlQ) /\ Len(ctrlQ') = Len(ctrlQ) - 1 /\ ctrlQ' # <<>>
      BY <2>3, <3>0
    <3>2. ctrlQ'[Len(ctrlQ')] = ctrlQ[Len(ctrlQ)]
      BY <1>1, <2>1, <3>1
    <3> QED
      BY <2>1, <3>1, <3>2 DEF LastInv
  <2> QED
    BY <2>2, <2>3
<1>6. CASE Decide
  <2>1. /\ pc = "decide" /\ pc' # "decide" /\ status' = VentOnOff(msg)
        /\ UNCHANGED <<table, web, ctrlQ, last>>
    BY <1>6 DEF Decide
  <2>2. ASSUME ctrlQ = <<>>, autoVent # 0, last.sender \in Sources, Enabled(last.sender)
        PROVE  status' = last.data
    <3>1. msg = last
      BY <2>1, <2>2 DEF LastInv
    <3>2. Room = "Bath" /\ last.sender = "HumData" => use["HumData"] = 1
      BY <2>2 DEF Enabled
    <3>3. last.sender = "HumData" => Room = "Bath"
      BY <2>2, RoomAssumption DEF Sources
    <3>4. last.sender = "HumData" \/ last.sender = "LightData"
      BY <2>2, RoomAssumption DEF Sources
    <3> QED
      BY <2>1, <2>2, <3>1, <3>2, <3>3, <3>4 DEF VentOnOff, Enabled
  <2>3. ctrlQ' = <<>> => Obeyed'
    BY <2>1, <2>2 DEF Obeyed, Enabled, table
  <2> QED
    BY <2>1, <2>3 DEF LastInv
<1>7. CASE Actuate
  BY <1>7 DEF Actuate, LastInv, Obeyed, Enabled, table
<1>8. CASE UNCHANGED vars
  BY <1>8 DEF vars, ctrl, table, LastInv, Obeyed, Enabled
<1> QED
  BY <1>2, <1>3, <1>4, <1>5, <1>6, <1>7, <1>8 DEF Next, Controller

(* A settled automatic fan obeys the last message, if that was a command of *)
(* a source in use.                                                         *)
THEOREM AutoVentCorrect == Spec => []AutoVentFollowsCommand
<1>1. Init => RelayInv /\ LastInv
  BY DEF Init, RelayInv, LastInv, Obeyed, HttpMsg, Sources
<1>2. RelayInv /\ LastInv => AutoVentFollowsCommand
  BY DEF RelayInv, LastInv, Obeyed, AutoVentFollowsCommand, Settled
<1> QED
  BY <1>1, <1>2, TypeCorrect, RelayStep, LastStep, PTL DEF Spec

-----------------------------------------------------------------------------
(* A message as VentTimer sees it: the timer's LightData, or another's. *)
TimerMsg(m) == IF m.sender = "LightData" THEN m.data ELSE 2
TimerView(q) == [i \in DOMAIN q |-> TimerMsg(q[i])]

(* The view of a queue has its length. *)
LEMMA ViewLemma ==
  ASSUME NEW q \in Seq(Messages)
  PROVE  /\ TimerView(q) \in Seq({TimerMsg(m) : m \in Messages})
         /\ Len(TimerView(q)) = Len(q) /\ DOMAIN q = 1 .. Len(q) /\ Len(q) \in Nat
         /\ \A i \in 1 .. Len(q) : TimerView(q)[i] = TimerMsg(q[i])
<1>1. DOMAIN q = 1 .. Len(q) /\ Len(q) \in Nat
  OBVIOUS
<1>2. \A i \in 1 .. Len(q) : q[i] \in Messages
  BY <1>1
<1> QED
  BY <1>1, <1>2 DEF TimerView

(* A post, dropped or not, is one in the view. *)
LEMMA ViewSend ==
  ASSUME NEW q \in Seq(Messages), NEW m \in Messages
  PROVE  /\ QueueFull(TimerView(q), QueueLen) <=> QueueFull(q, QueueLen)
         /\ TimerView(QueueSend(q, QueueLen, m))
              = QueueSend(TimerView(q), QueueLen, TimerMsg(m))
<1>1. Len(TimerView(q)) = Len(q)
  BY ViewLemma
<1>2. CASE QueueFull(q, QueueLen)
  BY <1>1, <1>2 DEF QueueSend, QueueFull
<1>3. CASE ~QueueFull(q, QueueLen)
  <2> DEFINE r == Append(q, m)
             v == TimerView(q)
  <2>1. r \in Seq(Messages) /\ Len(r) = Len(q) + 1 /\ r[Len(q) + 1] = m
        /\ \A i \in 1 .. Len(q) : r[i] = q[i]
    OBVIOUS
  <2>2. /\ v \in Seq({TimerMsg(x) : x \in Messages}) /\ Len(v) = Len(q) /\ Len(q) \in Nat
        /\ \A i \in 1 .. Len(q) : v[i] = TimerMsg(q[i])
    BY ViewLemma
  <2>3. TimerView(r) = [i \in 1 .. Len(q) + 1 |-> TimerMsg(r[i])]
    <3> HIDE DEF r
    <3>1. DOMAIN r = 1 .. Len(q) + 1
      BY <2>1
    <3> QED
      BY <3>1 DEF TimerView
  <2>4. TimerView(r) = Append(v, TimerMsg(m))
    <3>1. v = [i \in 1 .. Len(q) |-> TimerMsg(q[i])]
      BY DEF TimerView
    <3> HIDE DEF r, v
    <3>2. Append(v, TimerMsg(m)) = [i \in 1 .. Len(q) + 1 |-> TimerMsg(r[i])]
      BY <2>1, <2>2, <3>1
    <3> QED
      BY <2>3, <3>2
  <2> QED
    BY <1>1, <1>3, <2>4 DEF QueueSend, QueueFull
<1> QED
  BY <1>2, <1>3

(* So is a reception. *)
LEMMA ViewReceive ==
  ASSUME NEW q \in Seq(Messages), q # <<>>
  PROVE  /\ TimerView(q) # <<>> /\ Head(TimerView(q)) = TimerMsg(Head(q))
         /\ TimerView(Tail(q)) = Tail(TimerView(q))
<1> DEFINE v == TimerView(q)
<1>1. Len(q) \in Nat \ {0} /\ Head(q) = q[1]
  OBVIOUS
<1>2. /\ v \in Seq({TimerMsg(x) : x \in Messages}) /\ Len(v) = Len(q)
      /\ \A i \in 1 .. Len(q) : v[i] = TimerMsg(q[i])
  BY ViewLemma
<1>3. /\ Tail(q) \in Seq(Messages) /\ Len(Tail(q)) = Len(q) - 1
      /\ \A i \in 1 .. Len(q) - 1 : Tail(q)[i] = q[i + 1]
  BY <1>1
<1>4. DOMAIN Tail(q) = 1 .. Len(q) - 1
  BY <1>3
<1>5. TimerView(Tail(q)) = [i \in 1 .. Len(q) - 1 |-> TimerMsg(q[i + 1])]
  BY <1>3, <1>4 DEF TimerView
<1> HIDE DEF v
<1>6. v # <<>> /\ Head(v) = v[1]
  BY <1>1, <1>2
<1>7. Tail(v) = TimerView(Tail(q))
  BY <1>1, <1>2, <1>5, <1>6
<1> QED
  BY <1>1, <1>2, <1>6, <1>7 DEF v
=============================================================================
