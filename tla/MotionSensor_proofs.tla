------------------------ MODULE MotionSensor_proofs ------------------------
(***************************************************************************)
(* Proofs about MotionSensor, for every length of the reading queue.       *)
(*                                                                         *)
(* What the task will believe once it has drained its queue is the last    *)
(* reading posted, LastReading.  Being right about a pin at rest needs     *)
(* only that this reading is the pin's level (LastInv).  Being right about *)
(* motion needs more: while every edge has a reading of its own the        *)
(* readings alternate, so the task never takes a second "0" for the start  *)
(* of another quiet period (AltInv).                                       *)
(***************************************************************************)
EXTENDS MotionSensor, TLAPS

LastReading == IF isrQ = <<>> THEN on_off ELSE isrQ[Len(isrQ)]

LastInv == ~irq /\ ~dropped /\ LastReading # Uninit => LastReading = pin

RestInv == on_off = 0 /\ MoveDelay = Forever => vol = 0

AltInv ==
  /\ dropped => merged
  /\ ~merged =>
       /\ \A i \in 1 .. Len(isrQ) : isrQ[i] # IF i = 1 THEN on_off ELSE isrQ[i - 1]
       /\ irq => LastReading # pin
       /\ on_off # 0 \/ MoveDelay # Forever => vol = 1

-----------------------------------------------------------------------------
(* The queue stays within its capacity and every local within its type. *)
THEOREM TypeCorrect == Spec => []TypeOK
<1>1. Init => TypeOK
  <2> SUFFICES ASSUME Init PROVE TypeOK
    OBVIOUS
  <2>1. <<>> \in Seq(Bit) /\ Len(<<>>) = 0 /\ 0 <= QueueLen
    BY QueueLenAssumption
  <2>2. isrQ \in Seq(Bit) /\ Len(isrQ) <= QueueLen
    BY <2>1 DEF Init
  <2> QED
    BY <2>2 DEF Init, TypeOK, Bit
<1>2. TypeOK /\ [Next]_vars => TypeOK'
  <2> SUFFICES ASSUME TypeOK, [Next]_vars PROVE TypeOK'
    OBVIOUS
  <2>1. isrQ \in Seq(Bit) /\ Len(isrQ) <= QueueLen /\ pin \in Bit
    BY DEF TypeOK
  <2>2. CASE Edge
    <3>1. merged' \in BOOLEAN
      BY <2>2 DEF Edge, TypeOK
    <3> QED
      BY <2>2, <3>1 DEF Edge, TypeOK, Bit
  <2>3. CASE Isr
    <3>1. isrQ' \in Seq(Bit) /\ Len(isrQ') <= QueueLen
      BY <2>1, <2>3, QueueLenAssumption DEF Isr, QueueSend, QueueFull
    <3>2. dropped' \in BOOLEAN
      BY <2>3 DEF Isr, QueueFull
    <3>3. merged' \in BOOLEAN
      BY <2>3, Zenon DEF Isr, TypeOK, QueueFull
    <3> QED
      BY <2>3, <3>1, <3>2, <3>3 DEF Isr, TypeOK
  <2>4. ASSUME ReceiveOn \/ ReceiveArm \/ ReceiveDisarm \/ ReceiveAgain PROVE TypeOK'
    <3>1. isrQ # <<>> /\ isrQ' = Tail(isrQ)
      BY <2>4 DEF ReceiveOn, ReceiveArm, ReceiveDisarm, ReceiveAgain
    <3>2. isrQ' \in Seq(Bit) /\ Len(isrQ') <= QueueLen
      BY <2>1, <3>1, QueueLenAssumption
    <3> QED
      BY <2>4, <3>2 DEF ReceiveOn, ReceiveArm, ReceiveDisarm, ReceiveAgain, TypeOK, Bit
  <2>5. CASE TimeoutOff
    <3>1. merged' \in BOOLEAN
      BY <2>5 DEF TimeoutOff, TypeOK
    <3> QED
      BY <2>5, <3>1 DEF TimeoutOff, TypeOK, Bit
  <2>6. CASE Post \/ UNCHANGED vars
    BY <2>6 DEF Post, vars, TypeOK
  <2> QED
    BY <2>2, <2>3, <2>4, <2>5, <2>6 DEF Next, Task
<1> QED
  BY <1>1, <1>2, PTL DEF Spec

(* The task's branch for a timeout while on_off is 1 is dead code. *)
THEOREM NoStrayTimeoutCorrect == Spec => []NoStrayTimeout
<1>1. Init => NoStrayTimeout
  BY DEF Init, NoStrayTimeout
<1>2. NoStrayTimeout /\ [Next]_vars => NoStrayTimeout'
  BY DEF NoStrayTimeout, Next, Task, Edge, Isr, ReceiveOn, ReceiveArm, ReceiveDisarm,
         ReceiveAgain, TimeoutOff, Post, vars, Forever
<1> QED
  BY <1>1, <1>2, PTL DEF Spec

-----------------------------------------------------------------------------
(* The last reading changes only when the handler posts one. *)
LEMMA LastReadingStep ==
  ASSUME TypeOK, [Next]_vars
  PROVE  /\ ~Isr => LastReading' = LastReading
         /\ Isr /\ ~dropped' => LastReading' = pin /\ pin' = pin
<1>1. isrQ \in Seq(Bit) /\ pin \in Bit /\ QueueLen \in Nat
  BY QueueLenAssumption DEF TypeOK
<1>2. ASSUME Isr, ~dropped' PROVE LastReading' = pin /\ pin' = pin
  <2>1. ~QueueFull(isrQ, QueueLen)
    BY <1>2, Zenon DEF Isr
  <2>2. isrQ' # <<>> /\ isrQ'[Len(isrQ')] = pin
    BY <1>1, <1>2, <2>1 DEF Isr, QueueSend, QueueFull
  <2> QED
    BY <1>2, <2>2 DEF Isr, LastReading
<1>3. ASSUME ReceiveOn \/ ReceiveArm \/ ReceiveDisarm \/ ReceiveAgain
      PROVE  LastReading' = LastReading
  <2>1. isrQ # <<>> /\ isrQ' = Tail(isrQ) /\ on_off' = Head(isrQ)
    BY <1>3 DEF ReceiveOn, ReceiveArm, ReceiveDisarm, ReceiveAgain
  <2>2. CASE Len(isrQ) = 1
    BY <1>1, <2>1, <2>2 DEF LastReading
  <2>3. CASE Len(isrQ) # 1
    <3>0. Len(isrQ) \in Nat /\ Len(isrQ) # 0 /\ Len(isrQ') = Len(isrQ) - 1
      BY <1>1, <2>1
    <3>1. Len(isrQ) \in 2 .. Len(isrQ) /\ Len(isrQ') = Len(isrQ) - 1 /\ isrQ' # <<>>
      BY <2>3, <3>0
    <3>2. isrQ'[Len(isrQ')] = isrQ[Len(isrQ)]
      BY <1>1, <2>1, <3>1
    <3> QED
      BY <2>1, <3>1, <3>2 DEF LastReading
  <2> QED
    BY <2>2, <2>3
<1>4. ASSUME Edge \/ TimeoutOff \/ Post \/ UNCHANGED vars PROVE LastReading' = LastReading
  BY <1>4 DEF Edge, TimeoutOff, Post, vars, LastReading
<1> QED
  BY <1>2, <1>3, <1>4 DEF Next, Task

(* With no edge outstanding and the last reading not dropped, the last      *)
(* reading is the level of the pin.                                         *)
LEMMA LastStep == TypeOK /\ LastInv /\ [Next]_vars => LastInv'
<1> SUFFICES ASSUME TypeOK, LastInv, [Next]_vars, ~irq', ~dropped', LastReading' # Uninit
             PROVE  LastReading' = pin'
  BY DEF LastInv, Uninit
<1>1. CASE Isr
  BY <1>1, LastReadingStep
<1>2. CASE ~Isr
  <2>1. ~irq /\ ~dropped /\ pin' = pin
    BY <1>2 DEF Next, Task, Edge, ReceiveOn, ReceiveArm, ReceiveDisarm, ReceiveAgain,
                TimeoutOff, Post, vars
  <2> QED
    BY <1>2, <2>1, LastReadingStep DEF LastInv
<1> QED
  BY <1>1, <1>2

(* A task that received 0 and waits for no delay has stored "no motion". *)
LEMMA RestStep == RestInv /\ [Next]_vars => RestInv'
  BY DEF RestInv, Next, Task, Edge, Isr, ReceiveOn, ReceiveArm, ReceiveDisarm,
         ReceiveAgain, TimeoutOff, Post, vars, Forever

(* A detector at rest never holds the light on. *)
THEOREM NeverStuckOnCorrect == Spec => []NeverStuckOn
<1>1. Init => LastInv /\ RestInv
  BY DEF Init, LastInv, RestInv, LastReading, Uninit
<1>2. TypeOK /\ LastInv /\ RestInv => NeverStuckOn
  BY DEF NeverStuckOn, Settled, LastInv, RestInv, LastReading
<1>3. Spec => []LastInv
  BY <1>1, TypeCorrect, LastStep, PTL DEF Spec
<1>4. Spec => []RestInv
  BY <1>1, RestStep, PTL DEF Spec
<1> QED
  BY <1>2, <1>3, <1>4, TypeCorrect, PTL

-----------------------------------------------------------------------------
(* Receiving keeps the readings alternating. *)
LEMMA AltReceive ==
  ASSUME TypeOK, AltInv, ~merged, [Next]_vars, isrQ # <<>>,
         isrQ' = Tail(isrQ), on_off' = Head(isrQ)
  PROVE  /\ Head(isrQ) # on_off
         /\ \A i \in 1 .. Len(isrQ') : isrQ'[i] # IF i = 1 THEN on_off' ELSE isrQ'[i - 1]
<1>1. isrQ \in Seq(Bit)
  BY DEF TypeOK
<1>2. \A i \in 1 .. Len(isrQ) : isrQ[i] # IF i = 1 THEN on_off ELSE isrQ[i - 1]
  BY DEF AltInv
<1>3. Head(isrQ) = isrQ[1] /\ 1 \in 1 .. Len(isrQ)
  BY <1>1
<1>4. Len(isrQ') = Len(isrQ) - 1 /\ \A j \in 1 .. Len(isrQ') : isrQ'[j] = isrQ[j + 1]
  BY <1>1
<1>5. ASSUME NEW i \in 1 .. Len(isrQ')
      PROVE  isrQ'[i] # IF i = 1 THEN on_off' ELSE isrQ'[i - 1]
  <2>1. i + 1 \in 1 .. Len(isrQ) /\ i + 1 # 1 /\ (i + 1) - 1 = i
    BY <1>1, <1>4
  <2>2. isrQ'[i] # isrQ[i]
    BY <1>2, <1>4, <2>1
  <2>3. CASE i = 1
    BY <1>3, <2>2, <2>3
  <2>4. CASE i # 1
    <3>1. i - 1 \in 1 .. Len(isrQ') /\ (i - 1) + 1 = i
      BY <1>1, <1>4, <2>4
    <3>2. isrQ'[i - 1] = isrQ[i]
      BY <1>4, <3>1
    <3> QED
      BY <2>2, <2>4, <3>2
  <2> QED
    BY <2>3, <2>4
<1>6. Head(isrQ) # on_off
  BY <1>2, <1>3
<1> QED
  BY <1>5, <1>6

(* While no reading was merged or dropped the readings alternate. *)
LEMMA AltStep == TypeOK /\ NoStrayTimeout /\ LastInv /\ AltInv /\ [Next]_vars => AltInv'
<1> SUFFICES ASSUME TypeOK, NoStrayTimeout, LastInv, AltInv, [Next]_vars PROVE AltInv'
  OBVIOUS
<1>1. CASE Edge
  <2>1. LastReading' = LastReading
    BY <1>1 DEF Edge, LastReading
  <2>2. ~merged' => ~merged /\ ~irq /\ ~dropped
    BY <1>1 DEF Edge, AltInv
  <2>3. ~merged' => LastReading' # pin'
    BY <1>1, <2>1, <2>2 DEF Edge, LastInv, TypeOK, Bit, Uninit
  <2> QED
    BY <1>1, <2>2, <2>3 DEF Edge, AltInv
<1>2. CASE Isr
  <2>1. dropped' => merged'
    BY <1>2, Zenon DEF Isr, QueueFull
  <2>2. ASSUME ~merged' PROVE ~merged /\ ~QueueFull(isrQ, QueueLen)
    BY <1>2, <2>2, Zenon DEF Isr
  <2>3. ASSUME ~merged', NEW i \in 1 .. Len(isrQ')
        PROVE  isrQ'[i] # IF i = 1 THEN on_off' ELSE isrQ'[i - 1]
    <3>1. isrQ \in Seq(Bit) /\ pin \in Bit
      BY DEF TypeOK
    <3>2. isrQ' = Append(isrQ, pin) /\ on_off' = on_off
      BY <1>2, <2>2, <2>3 DEF Isr, QueueSend
    <3>3. Len(isrQ') = Len(isrQ) + 1 /\ isrQ'[Len(isrQ')] = pin
          /\ \A j \in 1 .. Len(isrQ) : isrQ'[j] = isrQ[j]
      BY <3>1, <3>2
    <3>4. CASE i = Len(isrQ')
      <4>1. LastReading # pin
        BY <1>2, <2>2, <2>3 DEF Isr, AltInv
      <4>2. CASE isrQ = <<>>
        BY <3>2, <3>3, <3>4, <4>1, <4>2 DEF LastReading
      <4>3. CASE isrQ # <<>>
        <5>1. Len(isrQ) \in 1 .. Len(isrQ) /\ i - 1 = Len(isrQ) /\ i # 1
          BY <3>1, <3>3, <3>4, <4>3
        <5>2. isrQ'[i - 1] = isrQ[Len(isrQ)]
          BY <3>3, <5>1
        <5> QED
          BY <3>3, <3>4, <4>1, <4>3, <5>1, <5>2 DEF LastReading
      <4> QED
        BY <4>2, <4>3
    <3>5. CASE i # Len(isrQ')
      <4>1. i \in 1 .. Len(isrQ) /\ (i # 1 => i - 1 \in 1 .. Len(isrQ))
        BY <3>1, <3>3, <3>5
      <4>2. isrQ[i] # IF i = 1 THEN on_off ELSE isrQ[i - 1]
        BY <2>2, <2>3, <4>1 DEF AltInv
      <4> QED
        BY <3>2, <3>3, <4>1, <4>2
    <3> QED
      BY <3>4, <3>5
  <2> QED
    BY <1>2, <2>1, <2>2, <2>3 DEF Isr, AltInv
<1>3. ASSUME ReceiveOn \/ ReceiveArm \/ ReceiveDisarm \/ ReceiveAgain PROVE AltInv'
  <2>1. /\ isrQ # <<>> /\ isrQ' = Tail(isrQ) /\ on_off' = Head(isrQ)
        /\ UNCHANGED <<pin, irq, merged, dropped>>
    BY <1>3 DEF ReceiveOn, ReceiveArm, ReceiveDisarm, ReceiveAgain
  <2>2. LastReading' = LastReading
    <3>1. ~Isr
      BY <2>1 DEF Isr, TypeOK
    <3> QED
      BY <3>1, LastReadingStep
  <2>3. ~merged => vol' = 1
    BY <1>3, AltReceive DEF ReceiveOn, ReceiveArm, ReceiveDisarm, ReceiveAgain, AltInv
  <2> QED
    BY <2>1, <2>2, <2>3, AltReceive DEF AltInv
<1>4. CASE TimeoutOff
  <2>1. isrQ' = <<>> /\ on_off' = 0 /\ MoveDelay' = Forever /\ LastReading' = LastReading
        /\ UNCHANGED <<pin, irq, dropped>>
    BY <1>4 DEF TimeoutOff, LastReading
  <2>2. ~merged' /\ irq' => ~merged /\ irq
    BY <1>4 DEF TimeoutOff
  <2>3. dropped' => merged'
    BY <1>4 DEF TimeoutOff, AltInv
  <2>4. \A i \in 1 .. Len(isrQ') : FALSE
    BY <2>1
  <2> QED
    BY <2>1, <2>2, <2>3, <2>4 DEF AltInv
<1>5. CASE Post \/ UNCHANGED vars
  BY <1>5 DEF Post, vars, AltInv, LastReading
<1> QED
  BY <1>1, <1>2, <1>3, <1>4, <1>5 DEF Next, Task

(* Motion is in the table whenever the system is at rest and every edge     *)
(* since the last quiet period had a reading of its own.                    *)
THEOREM MotionSeenCorrect == Spec => []MotionSeen
<1>1. Init => LastInv /\ AltInv
  BY DEF Init, LastInv, AltInv, LastReading, Uninit
<1>2. TypeOK /\ LastInv /\ AltInv => MotionSeen
  BY DEF MotionSeen, Settled, LastInv, AltInv, LastReading
<1>3. Spec => []LastInv
  BY <1>1, TypeCorrect, LastStep, PTL DEF Spec
<1>4. Spec => []AltInv
  BY <1>1, <1>3, TypeCorrect, NoStrayTimeoutCorrect, AltStep, PTL DEF Spec
<1> QED
  BY <1>2, <1>3, <1>4, TypeCorrect, PTL
=============================================================================
