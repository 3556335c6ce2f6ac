-------------------------- MODULE VentTimer_proofs --------------------------
(***************************************************************************)
(* Proofs about VentTimer, for every length of its queues.                 *)
(*                                                                         *)
(* PhaseInv says which combinations of the task's locals occur: the task   *)
(* keeps no state but the delay it waits for and the fan's state, and the  *)
(* meaning of a timeout follows from the two.  LightInv ties the task's    *)
(* view to the light through the queue, HearInv the fan's controller to    *)
(* the task through the other one, between the messages of other senders.  *)
(***************************************************************************)
EXTENDS VentTimer, TLAPS

LastLight == IF lightQ = <<>> THEN lightOnOff ELSE lightQ[Len(lightQ)]

LightInv == ~lightLost => (LastLight = light <=> ~telling)

PhaseInv ==
  /\ delay = Forever /\ lightOnOff = 0 => ventOnOff = 0
  /\ delay = "OnDelay" => lightOnOff = 1
  /\ delay = "OffDelay" => lightOnOff = 0 /\ ventOnOff = 1
  /\ ~relit /\ lightOnOff = 1 => ventOnOff = IF delay = Forever THEN 1 ELSE 0

(* What the fan's controller knows after i messages of its queue, if the    *)
(* i-th is the task's; it is up to date if no later one is the task's.      *)
Word(i) == IF i = 0 THEN ventData ELSE ventQ[i]
Latest(i) == Word(i) # Other /\ \A j \in i + 1 .. Len(ventQ) : ventQ[j] = Other

HearInv == ~ventLost => \A i \in 0 .. Len(ventQ) : Latest(i) => Word(i) = ventOnOff

-----------------------------------------------------------------------------
(* Every step keeps the queues bounded and the types. *)
LEMMA TypeStep == TypeOK /\ [Next]_vars => TypeOK'
<1> SUFFICES ASSUME TypeOK, [Next]_vars PROVE TypeOK'
  OBVIOUS
<1>1. lightQ \in Seq(Bit) /\ Len(lightQ) <= QueueLen /\ light \in Bit /\ ventOnOff \in Bit
      /\ ventQ \in Seq(Bit \cup {Other}) /\ Len(ventQ) <= QueueLen
  BY DEF TypeOK
<1>2. CASE LightSwitch
  <2>1. 1 - light \in Bit
    BY <1>1 DEF Bit
  <2> QED
    BY <1>2, <2>1 DEF LightSwitch, TypeOK
<1>8. CASE LightPost
  <2>1. lightQ' \in Seq(Bit) /\ Len(lightQ') <= QueueLen
    BY <1>1, <1>8, QueueLenAssumption DEF LightPost, QueueSend, QueueFull
  <2>2. lightLost' \in BOOLEAN
    BY <1>8 DEF LightPost, QueueFull
  <2> QED
    BY <1>8, <2>1, <2>2 DEF LightPost, TypeOK
<1>3. ASSUME LightOn \/ LightOff PROVE TypeOK'
  <2>1. lightQ # <<>> /\ lightQ' = Tail(lightQ) /\ lightOnOff' = Head(lightQ)
    BY <1>3 DEF LightOn, LightOff
  <2>2. lightQ' \in Seq(Bit) /\ Len(lightQ') <= QueueLen /\ lightOnOff' \in Bit
    BY <1>1, <2>1, QueueLenAssumption
  <2>3. relit' \in BOOLEAN
    BY <1>3 DEF LightOn, LightOff, TypeOK
  <2> QED
    BY <1>3, <2>2, <2>3 DEF LightOn, LightOff, TypeOK
<1>4. CASE Timeout
  <2>1. ventOnOff' \in Bit
    BY <1>4 DEF Timeout, Bit
  <2>2. ventQ' \in Seq(Bit \cup {Other}) /\ Len(ventQ') <= QueueLen
    BY <1>1, <1>4, <2>1, QueueLenAssumption DEF Timeout, QueueSend, QueueFull
  <2>3. ventLost' \in BOOLEAN
    BY <1>4 DEF Timeout, QueueFull
  <2>4. relit' \in BOOLEAN
    BY <1>4 DEF Timeout, TypeOK
  <2> QED
    BY <1>4, <2>1, <2>2, <2>3, <2>4 DEF Timeout, TypeOK
<1>5. CASE OtherPost
  <2>1. ventQ' \in Seq(Bit \cup {Other}) /\ Len(ventQ') <= QueueLen
    BY <1>1, <1>5, QueueLenAssumption DEF OtherPost, QueueSend, QueueFull
  <2> QED
    BY <1>5, <2>1 DEF OtherPost, TypeOK
<1>6. CASE VentReceive
  <2>1. Head(ventQ) \in Bit \cup {Other} /\ ventQ' \in Seq(Bit \cup {Other})
        /\ Len(ventQ') <= QueueLen
    BY <1>1, <1>6, QueueLenAssumption DEF VentReceive
  <2> QED
    BY <1>6, <2>1 DEF VentReceive, TypeOK
<1>7. CASE UNCHANGED vars
  BY <1>7 DEF vars, TypeOK
<1> QED
  BY <1>2, <1>3, <1>4, <1>5, <1>6, <1>7, <1>8 DEF Next, Task

(* The queues stay within their capacity and every local within its type. *)
THEOREM TypeCorrect == Spec => []TypeOK
<1>1. Init => TypeOK
  <2> SUFFICES ASSUME Init PROVE TypeOK
    OBVIOUS
  <2>1. <<>> \in Seq(Bit) /\ <<>> \in Seq(Bit \cup {Other}) /\ Len(<<>>) = 0 /\ 0 <= QueueLen
    BY QueueLenAssumption
  <2>2. lightQ \in Seq(Bit) /\ Len(lightQ) <= QueueLen
        /\ ventQ \in Seq(Bit \cup {Other}) /\ Len(ventQ) <= QueueLen
    BY <2>1 DEF Init
  <2> QED
    BY <2>2 DEF Init, TypeOK, Bit
<1> QED
  BY <1>1, TypeStep, PTL DEF Spec

-----------------------------------------------------------------------------
(* The delay waited for and the fan's state always fit the light last heard of. *)
LEMMA PhaseStep == TypeOK /\ PhaseInv /\ [Next]_vars => PhaseInv'
<1> SUFFICES ASSUME TypeOK, PhaseInv, [Next]_vars PROVE PhaseInv'
  OBVIOUS
<1> USE DEF PhaseInv, Forever
<1>1. lightOnOff \in Bit /\ ventOnOff \in Bit /\ delay \in {Forever, "OnDelay", "OffDelay"}
  BY DEF TypeOK
<1>2. CASE LightOn
  BY <1>1, <1>2 DEF LightOn, Bit
<1>3. CASE LightOff
  <2>1. Head(lightQ) = 0
    <3>1. lightQ \in Seq(Bit) /\ lightQ # <<>> /\ Head(lightQ) # 1
      BY <1>3 DEF LightOff, TypeOK
    <3>2. Head(lightQ) \in Bit
      BY <3>1
    <3> QED
      BY <3>1, <3>2 DEF Bit
  <2> QED
    BY <1>1, <1>3, <2>1 DEF LightOff, Bit
<1>4. CASE Timeout
  BY <1>1, <1>4 DEF Timeout, Bit
<1>5. CASE LightSwitch \/ LightPost \/ OtherPost \/ VentReceive \/ UNCHANGED vars
  BY <1>5 DEF LightSwitch, LightPost, OtherPost, VentReceive, vars
<1> QED
  BY <1>2, <1>3, <1>4, <1>5 DEF Next, Task

(* The last light state received or queued is the light's, but for the time *)
(* between a switching and its post, and unless that was dropped.           *)
LEMMA LightStep == TypeOK /\ LightInv /\ [Next]_vars => LightInv'
<1> SUFFICES ASSUME TypeOK, LightInv, [Next]_vars, ~lightLost'
             PROVE  LastLight' = light' <=> ~telling'
  BY DEF LightInv
<1>1. /\ lightQ \in Seq(Bit) /\ light \in Bit /\ lightOnOff \in Bit /\ telling \in BOOLEAN
      /\ QueueLen \in Nat
  BY QueueLenAssumption DEF TypeOK
<1>2. CASE LightSwitch
  <2>1. LastLight' = LastLight /\ LastLight = light
    BY <1>2 DEF LightSwitch, LastLight, LightInv
  <2> QED
    BY <1>1, <1>2, <2>1 DEF LightSwitch, Bit
<1>5. CASE LightPost
  <2>1. ~QueueFull(lightQ, QueueLen)
    BY <1>5, Zenon DEF LightPost
  <2>2. lightQ' # <<>> /\ lightQ'[Len(lightQ')] = light
    BY <1>1, <1>5, <2>1 DEF LightPost, QueueSend, QueueFull
  <2> QED
    BY <1>5, <2>2 DEF LightPost, LastLight
<1>3. ASSUME LightOn \/ LightOff PROVE LastLight' = light' <=> ~telling'
  <2>1. /\ lightQ # <<>> /\ lightQ' = Tail(lightQ) /\ lightOnOff' = Head(lightQ)
        /\ UNCHANGED <<light, telling, lightLost>>
    BY <1>3 DEF LightOn, LightOff
  <2>2. CASE Len(lightQ) = 1
    BY <1>1, <2>1, <2>2 DEF LastLight, LightInv
  <2>3. CASE Len(lightQ) # 1
    <3>0. Len(lightQ) \in Nat /\ Len(lightQ) # 0 /\ Len(lightQ') = Len(lightQ) - 1
      BY <1>1, <2>1
    <3>1. Len(lightQ) \in 2 .. Len(lightQ) /\ Len(lightQ') = Len(lightQ) - 1 /\ lightQ' # <<>>
      BY <2>3, <3>0
    <3>2. lightQ'[Len(lightQ')] = lightQ[Len(lightQ)]
      BY <1>1, <2>1, <3>1
    <3> QED
      BY <2>1, <3>1, <3>2 DEF LastLight, LightInv
  <2> QED
    BY <2>2, <2>3
<1>4. CASE Timeout \/ OtherPost \/ VentReceive \/ UNCHANGED vars
  BY <1>4 DEF Timeout, OtherPost, VentReceive, vars, LastLight, LightInv
<1> QED
  BY <1>2, <1>3, <1>4, <1>5 DEF Next, Task

(* The last message of the task is its word, unless it was dropped. *)
LEMMA HearStep == TypeOK /\ HearInv /\ [Next]_vars => HearInv'
<1> SUFFICES ASSUME TypeOK, HearInv, [Next]_vars, ~ventLost',
                    NEW i \in 0 .. Len(ventQ'), Latest(i)'
             PROVE  Word(i)' = ventOnOff'
  BY DEF HearInv
<1>1. /\ ventQ \in Seq(Bit \cup {Other}) /\ ventQ' \in Seq(Bit \cup {Other})
      /\ QueueLen \in Nat /\ ventOnOff' \in Bit
  BY TypeStep, QueueLenAssumption DEF TypeOK
<1>2. CASE Timeout
  <2>1. ~QueueFull(ventQ, QueueLen)
    BY <1>2, Zenon DEF Timeout
  <2>2. Len(ventQ') \in 1 .. Len(ventQ') /\ ventQ'[Len(ventQ')] = ventOnOff'
    BY <1>1, <1>2, <2>1 DEF Timeout, QueueSend, QueueFull
  <2>3. ventOnOff' # Other
    BY <1>1 DEF Bit, Other
  <2>4. i = Len(ventQ')
    BY <2>2, <2>3 DEF Latest
  <2> QED
    BY <2>2, <2>4 DEF Word
<1>3. CASE OtherPost
  <2>1. UNCHANGED <<ventOnOff, ventData, ventLost>>
    BY <1>3 DEF OtherPost
  <2>2. \/ ventQ' = ventQ
        \/ ventQ' = Append(ventQ, Other)
    BY <1>3 DEF OtherPost, QueueSend
  <2>3. /\ \A j \in 1 .. Len(ventQ) : j \in 1 .. Len(ventQ') /\ ventQ'[j] = ventQ[j]
        /\ \A j \in 1 .. Len(ventQ') : j \in 1 .. Len(ventQ) \/ ventQ'[j] = Other
    BY <1>1, <2>2
  <2>4. i \in 0 .. Len(ventQ) /\ Word(i)' = Word(i)
    BY <1>1, <2>1, <2>3 DEF Word, Latest
  <2>5. Latest(i)
    BY <1>1, <2>3, <2>4 DEF Latest
  <2> QED
    BY <2>1, <2>4, <2>5 DEF HearInv
<1>4. CASE VentReceive
  <2>1. /\ ventQ # <<>> /\ ventQ' = Tail(ventQ) /\ UNCHANGED <<ventOnOff, ventLost>>
        /\ ventData' = IF Head(ventQ) = Other THEN ventData ELSE Head(ventQ)
    BY <1>4 DEF VentReceive
  <2>2. /\ Len(ventQ) \in Nat \ {0} /\ Len(ventQ') = Len(ventQ) - 1 /\ Head(ventQ) = ventQ[1]
        /\ \A j \in 1 .. Len(ventQ') : ventQ'[j] = ventQ[j + 1]
    BY <1>1, <2>1
  <2>3. \A j \in i + 2 .. Len(ventQ) : ventQ[j] = Other
    <3> SUFFICES ASSUME NEW j \in i + 2 .. Len(ventQ) PROVE ventQ[j] = Other
      OBVIOUS
    <3>1. j - 1 \in i + 1 .. Len(ventQ') /\ ventQ'[j - 1] = ventQ[j]
      BY <2>2
    <3> QED
      BY <3>1 DEF Latest
  <2>4. ~ventLost /\ \A k \in 0 .. Len(ventQ) : Latest(k) => Word(k) = ventOnOff
    BY <2>1 DEF HearInv
  <2>5. CASE i = 0 /\ Head(ventQ) = Other
    <3>1. \A j \in 1 .. Len(ventQ) : ventQ[j] = Other
      BY <2>2, <2>3, <2>5
    <3>2. Word(0)' = ventData /\ Word(0) = ventData
      BY <2>1, <2>5 DEF Word
    <3>3. Latest(0)
      BY <2>5, <3>1, <3>2 DEF Latest
    <3> QED
      BY <2>1, <2>2, <2>4, <2>5, <3>2, <3>3
  <2>6. CASE i # 0 \/ Head(ventQ) # Other
    <3>1. i + 1 \in 0 .. Len(ventQ) /\ Word(i)' = Word(i + 1)
      BY <2>1, <2>2, <2>6 DEF Word
    <3>2. Latest(i + 1)
      BY <2>3, <3>1 DEF Latest
    <3> QED
      BY <2>1, <2>4, <3>1, <3>2
  <2> QED
    BY <2>5, <2>6
<1>5. CASE LightSwitch \/ LightPost \/ LightOn \/ LightOff \/ UNCHANGED vars
  BY <1>5 DEF LightSwitch, LightPost, LightOn, LightOff, vars, HearInv, Latest, Word
<1> QED
  BY <1>2, <1>3, <1>4, <1>5 DEF Next, Task

(* The invariants hold in every reachable state. *)
LEMMA InvariantsCorrect == Spec => []PhaseInv /\ []LightInv /\ []HearInv
<1>1. Init => PhaseInv /\ LightInv /\ HearInv
  BY DEF Init, PhaseInv, LightInv, LastLight, Forever, HearInv, Latest, Word
<1> QED
  BY <1>1, TypeCorrect, PhaseStep, LightStep, HearStep, PTL DEF Spec

(* With the queue empty the controller's word is the task's. *)
LEMMA HearsLemma == TypeOK /\ HearInv => ControllerHears(ventOnOff)
<1> SUFFICES ASSUME TypeOK, HearInv, ventQ = <<>>, ~ventLost PROVE ventData = ventOnOff
  BY DEF ControllerHears
<1>1. Len(ventQ) = 0 /\ Word(0) = ventData /\ Word(0) # Other
  BY DEF Word, TypeOK, Bit, Other
<1>2. Latest(0)
  BY <1>1 DEF Latest
<1> QED
  BY <1>1, <1>2 DEF HearInv

(* A dark room at rest has no fan running, and the fan's controller knows. *)
THEOREM NoFanInDarkRoomCorrect == Spec => []NoFanInDarkRoom
<1>1. TypeOK /\ PhaseInv /\ LightInv /\ HearInv => NoFanInDarkRoom
  BY HearsLemma DEF PhaseInv, LightInv, LastLight, NoFanInDarkRoom, AtRest
<1> QED
  BY <1>1, TypeCorrect, InvariantsCorrect, PTL

(* A lit room at rest has its fan running, unless it was lit again while    *)
(* the fan was still running.                                               *)
THEOREM FanRunsUnlessRelitCorrect == Spec => []FanRunsUnlessRelit
<1>1. TypeOK /\ PhaseInv /\ LightInv /\ HearInv => FanRunsUnlessRelit
  BY HearsLemma DEF PhaseInv, LightInv, LastLight, FanRunsUnlessRelit, AtRest
<1> QED
  BY <1>1, TypeCorrect, InvariantsCorrect, PTL

(* The fan is started in the dark only if the light goes off just as the    *)
(* delay runs out, before the task could be told: the comment of the task.  *)
THEOREM FanStartsOnlyInLightCorrect == Spec => FanStartsOnlyInLight
<1>1. TypeOK /\ PhaseInv /\ LightInv /\ [Next]_vars
        => [ventOnOff = 0 /\ ventOnOff' = 1 => light = 1 \/ telling \/ lightLost]_vars
  <2> SUFFICES ASSUME TypeOK, PhaseInv, LightInv, Next, ventOnOff = 0, ventOnOff' = 1,
                      ~telling, ~lightLost
               PROVE  light = 1
    BY DEF TypeOK
  <2>1. Timeout
    BY DEF Next, Task, LightSwitch, LightPost, LightOn, LightOff, OtherPost, VentReceive
  <2> QED
    BY <2>1 DEF Timeout, TypeOK, PhaseInv, LightInv, LastLight
<1> QED
  BY <1>1, TypeCorrect, InvariantsCorrect, PTL DEF Spec, FanStartsOnlyInLight
=============================================================================
