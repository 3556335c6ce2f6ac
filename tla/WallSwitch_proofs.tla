------------------------- MODULE WallSwitch_proofs --------------------------
(***************************************************************************)
(* Proofs about WallSwitch, for every MAXFIXINT and all bounds.            *)
(*                                                                         *)
(* BoundInv says why the bounds on the environment bound the counters.     *)
(* CountInv says what the counter's cnt counts, LevelInv that a debouncer  *)
(* with no edge outstanding has the pin's level, TableInv that a clean     *)
(* sample is still the debounced level when the counter comes to rest.     *)
(***************************************************************************)
EXTENDS WallSwitch, TLAPS

(* The level the debouncer is about to have. *)
NextLvl == IF dpc = "accept" THEN swLvl ELSE currLvl

(* Flips accepted, to be accepted, and to be sampled. *)
BoundInv ==
  /\ irq => notify < MaxIrq
  /\ flips + (IF NextLvl = currLvl THEN 0 ELSE 1) + (IF pin = NextLvl THEN 0 ELSE 1)
       <= MaxFlips + 1

CountInv ==
  /\ qpc = "store" => qDelay = "quick"
  /\ qpc = "send" => qDelay = "forever"
  /\ qDelay = "forever" => flips = qNotify
  /\ qDelay = "quick" => flips = qNotify + cnt

LevelInv ==
  ~irq /\ notify = 0 =>
    /\ dpc = "wait" /\ dDelay = "forever" => currLvl = pin
    /\ dpc = "accept" => swLvl = pin

TableInv ==
  clean /\ qNotify = 0 =>
    /\ qpc = "store" => qLvl = currLvl
    /\ qDelay = "forever" => onOff = currLvl

Inv == TypeOK /\ BoundInv /\ CountInv

-----------------------------------------------------------------------------
(* Every step keeps the types and the bounds, and cnt exact. *)
LEMMA InvStep == Inv /\ [Next]_vars => Inv'
<1> SUFFICES ASSUME Inv, TypeOK, BoundInv, CountInv, [Next]_vars PROVE Inv'
  BY DEF Inv
<1> USE MAXFIXINTAssumption, MaxIrqAssumption, MaxFlipsAssumption DEF Inv, CountInv, Bit
<1>1. CASE Edge
  <2>1. pin' \in Bit /\ irq' = TRUE /\ pin' # pin
    BY <1>1 DEF Edge, TypeOK
  <2>2. UNCHANGED <<notify, dpc, dDelay, fix, swLvl, currLvl, qNotify, qpc, qDelay, cnt,
                    qLvl, autoEnable, onOff, clean, flips>>
    BY <1>1 DEF Edge, debouncer, counter
  <2>3. BoundInv'
    BY <1>1, <2>1, <2>2 DEF Edge, BoundInv, NextLvl, TypeOK
  <2> QED
    BY <2>1, <2>2, <2>3 DEF TypeOK
<1>2. CASE Isr
  <2>1. irq /\ irq' = FALSE /\ notify' = notify + 1
        /\ UNCHANGED <<pin, dpc, dDelay, fix, swLvl, currLvl, qNotify, qpc, qDelay, cnt,
                       qLvl, autoEnable, onOff, clean, flips>>
    BY <1>2 DEF Isr, debouncer, counter
  <2>2. BoundInv'
    BY <2>1 DEF BoundInv, NextLvl, TypeOK
  <2>3. notify' \in 0 .. MaxIrq
    BY <2>1 DEF BoundInv, TypeOK
  <2>4. irq' \in BOOLEAN /\ clean' \in BOOLEAN
    BY <2>1, Zenon DEF TypeOK
  <2>5. TypeOK' /\ CountInv'
    <3> UNCHANGED <<pin, dpc, dDelay, fix, swLvl, currLvl, qNotify, qpc, qDelay, cnt,
                    qLvl, autoEnable, onOff, flips>>
      BY <2>1, Zenon
    <3> QED
      BY <2>3, <2>4 DEF TypeOK
  <2> QED
    BY <2>2, <2>5
<1>3. CASE Wake
  <2>1. dpc = "wait" /\ notify > 0 /\ notify' = notify - 1 /\ dDelay' = "bounce" /\ fix' = 0
        /\ UNCHANGED <<pin, irq, dpc, swLvl, currLvl, qNotify, qpc, qDelay, cnt,
                       qLvl, autoEnable, onOff, clean, flips>>
    BY <1>3 DEF Wake, counter
  <2>2. BoundInv'
    BY <2>1 DEF BoundInv, NextLvl, TypeOK
  <2> QED
    BY <2>1, <2>2 DEF TypeOK
<1>4. CASE Interval
  <2>1. fix < MAXFIXINT /\ fix' = fix + 1
        /\ UNCHANGED <<pin, irq, notify, dpc, dDelay, swLvl, currLvl, qNotify, qpc, qDelay,
                       cnt, qLvl, autoEnable, onOff, clean, flips>>
    BY <1>4 DEF Interval, counter
  <2>2. BoundInv'
    BY <2>1 DEF BoundInv, NextLvl, TypeOK
  <2> QED
    BY <2>1, <2>2 DEF TypeOK
<1>5. CASE Sample
  <2>1. dpc = "wait" /\ dpc' = "accept" /\ swLvl' = pin
        /\ UNCHANGED <<pin, irq, notify, dDelay, fix, currLvl, qNotify, qpc, qDelay, cnt,
                       qLvl, autoEnable, onOff, clean, flips>>
    BY <1>5 DEF Sample, Quiet, counter
  <2>2. BoundInv'
    BY <2>1 DEF BoundInv, NextLvl, TypeOK
  <2> QED
    BY <2>1, <2>2 DEF TypeOK
<1>6. CASE Accept
  <2>1. dpc = "accept" /\ dpc' = "wait" /\ dDelay' = "forever" /\ currLvl' = swLvl
        /\ qNotify' = (IF swLvl = currLvl THEN qNotify ELSE qNotify + 1)
        /\ flips' = (IF swLvl = currLvl THEN flips ELSE flips + 1)
        /\ UNCHANGED <<pin, irq, notify, fix, swLvl, qpc, qDelay, cnt,
                       qLvl, autoEnable, onOff, clean>>
    BY <1>6 DEF Accept, counter
  <2>2. BoundInv'
    BY <2>1 DEF BoundInv, NextLvl, TypeOK
  <2>3. flips' \in 0 .. MaxFlips + 1 /\ qNotify' \in 0 .. flips'
    BY <2>1 DEF BoundInv, NextLvl, TypeOK
  <2>4. CountInv'
    BY <2>1 DEF TypeOK
  <2> QED
    BY <2>1, <2>2, <2>3, <2>4 DEF TypeOK
<1>7. CASE QuickWake
  <2>1. qpc = "wait" /\ qNotify > 0 /\ qNotify' = qNotify - 1 /\ qDelay' = "quick"
        /\ cnt' = (IF qDelay = "forever" THEN 1 ELSE cnt + 1)
        /\ UNCHANGED <<pin, irq, notify, dpc, dDelay, fix, swLvl, currLvl, qpc,
                       qLvl, autoEnable, onOff, clean, flips>>
    BY <1>7 DEF QuickWake, debouncer
  <2>2. BoundInv'
    BY <2>1 DEF BoundInv, NextLvl
  <2>3. CountInv' /\ cnt' \in Nat /\ cnt' <= MaxFlips + 1 /\ qNotify' \in 0 .. flips'
    BY <2>1 DEF TypeOK
  <2> QED
    BY <2>1, <2>2, <2>3 DEF TypeOK
<1>8. CASE QuickOver
  <2>1. qpc = "wait" /\ qDelay = "quick" /\ qpc' = "store" /\ qLvl' = pin
        /\ UNCHANGED <<pin, irq, notify, dpc, dDelay, fix, swLvl, currLvl, qNotify, qDelay, cnt,
                       autoEnable, onOff, flips>>
    BY <1>8 DEF QuickOver, debouncer
  <2>2. clean' \in BOOLEAN
    BY <1>8 DEF QuickOver
  <2>3. BoundInv'
    BY <2>1 DEF BoundInv, NextLvl
  <2> QED
    BY <2>1, <2>2, <2>3 DEF TypeOK
<1>9. CASE QuickStore
  <2>1. qpc' = "send" /\ qDelay' = "forever" /\ flips' = qNotify /\ onOff' = qLvl
        /\ autoEnable' \in Bit /\ cnt' = (IF cnt <= 1 THEN 0 ELSE cnt)
        /\ UNCHANGED <<pin, irq, notify, dpc, dDelay, fix, swLvl, currLvl, qNotify, qLvl, clean>>
    BY <1>9 DEF QuickStore, debouncer
  <2>2. BoundInv'
    BY <2>1 DEF BoundInv, NextLvl, TypeOK
  <2> QED
    BY <2>1, <2>2 DEF TypeOK
<1>10. CASE QuickSend
  <2>1. qpc = "send" /\ qpc' = "wait"
        /\ UNCHANGED <<pin, irq, notify, dpc, dDelay, fix, swLvl, currLvl, qNotify, qDelay, cnt,
                       qLvl, autoEnable, onOff, clean, flips>>
    BY <1>10 DEF QuickSend, debouncer
  <2>2. BoundInv'
    BY <2>1 DEF BoundInv, NextLvl
  <2> QED
    BY <2>1, <2>2 DEF TypeOK
<1>11. CASE UNCHANGED vars
  BY <1>11 DEF vars, debouncer, counter, TypeOK, BoundInv, NextLvl
<1> QED
  BY <1>1, <1>2, <1>3, <1>4, <1>5, <1>6, <1>7, <1>8, <1>9, <1>10, <1>11
     DEF Next, Debouncer, Counter

(* The three hold in every reachable state. *)
LEMMA InvCorrect == Spec => []Inv
<1>1. Init => Inv
  <2> SUFFICES ASSUME Init PROVE Inv
    OBVIOUS
  <2> USE MAXFIXINTAssumption, MaxIrqAssumption, MaxFlipsAssumption DEF Init, Bit
  <2>1. TypeOK
    <3>1. irq \in BOOLEAN /\ clean \in BOOLEAN
      BY Zenon
    <3>2. /\ pin \in Bit /\ currLvl = pin /\ qLvl = pin /\ swLvl = 0
          /\ {notify, fix, flips, qNotify, cnt, onOff} = {0} /\ autoEnable = 1
      BY Zenon
    <3> QED
      BY <3>1, <3>2 DEF TypeOK
  <2>2. BoundInv
    BY DEF BoundInv, NextLvl
  <2>3. CountInv
    BY DEF CountInv
  <2> QED
    BY <2>1, <2>2, <2>3 DEF Inv
<1> QED
  BY <1>1, InvStep, PTL DEF Spec

(* Notifications, flips and cnt stay within what the bounds on edges allow. *)
THEOREM TypeCorrect == Spec => []TypeOK
<1>1. Inv => TypeOK
  BY DEF Inv
<1> QED
  BY <1>1, InvCorrect, PTL

-----------------------------------------------------------------------------
(* A decision chooses automatic mode exactly when two flips or more were    *)
(* accepted since the decision before.                                      *)
THEOREM AutoIffQuickFlipsCorrect == Spec => AutoIffQuickFlips
<1>1. Inv /\ [Next]_vars
        => [qpc = "store" /\ qpc' = "send" => (autoEnable' = 1 <=> flips - qNotify >= 2)]_vars
  <2> SUFFICES ASSUME Inv, Next, qpc = "store", qpc' = "send"
               PROVE  autoEnable' = 1 <=> flips - qNotify >= 2
    OBVIOUS
  <2>1. QuickStore
    BY DEF Next, Debouncer, Counter, Edge, Isr, Wake, Interval, Quiet, Sample, Accept,
           QuickWake, QuickOver, QuickSend, debouncer, counter
  <2>2. autoEnable' = IF cnt <= 1 THEN 0 ELSE 1
    BY <2>1 DEF QuickStore
  <2>3. cnt \in Int /\ qNotify \in Int /\ flips = qNotify + cnt
    BY DEF Inv, TypeOK, CountInv
  <2> QED
    BY <2>2, <2>3
<1> QED
  BY <1>1, InvCorrect, PTL DEF Spec, AutoIffQuickFlips

-----------------------------------------------------------------------------
(* An edge is outstanding whenever the pin leaves the level accepted. *)
LEMMA LevelStep == Inv /\ LevelInv /\ [Next]_vars => LevelInv'
<1> SUFFICES ASSUME Inv, LevelInv, [Next]_vars, ~irq', notify' = 0
             PROVE  /\ dpc' = "wait" /\ dDelay' = "forever" => currLvl' = pin'
                    /\ dpc' = "accept" => swLvl' = pin'
  BY DEF LevelInv
<1> USE DEF LevelInv
<1>1. notify \in Nat
  BY MaxIrqAssumption DEF Inv, TypeOK
<1>2. CASE Edge \/ Isr
  BY <1>1, <1>2 DEF Edge, Isr
<1>3. CASE Wake
  BY <1>3 DEF Wake
<1>4. CASE Interval
  BY <1>4 DEF Interval, Quiet
<1>5. CASE Sample
  BY <1>5 DEF Sample
<1>6. CASE Accept
  BY <1>6 DEF Accept
<1>7. CASE QuickWake \/ QuickOver \/ QuickStore \/ QuickSend \/ UNCHANGED vars
  BY <1>7 DEF QuickWake, QuickOver, QuickStore, QuickSend, vars, debouncer
<1> QED
  BY <1>2, <1>3, <1>4, <1>5, <1>6, <1>7 DEF Next, Debouncer, Counter

(* A debouncer with no edge outstanding has the pin's level. *)
LEMMA LevelCorrect == Spec => []LevelInv
<1>1. Init => LevelInv
  BY DEF Init, LevelInv
<1> QED
  BY <1>1, InvCorrect, LevelStep, PTL DEF Spec

(* The debouncer implements the safe part of a follower of the pin: every   *)
(* edge is a move, accepting the pin's level with no edge outstanding is    *)
(* catching up, and every other step is work or invisible.                  *)
THEOREM DebouncerIsSafe == Spec => FollowedPin!Safe
<1>1. Init => FollowedPin!Init
  BY DEF Init, FollowedPin!Init, DebouncerAtRest
<1>2. Inv /\ LevelInv /\ Inv' /\ LevelInv' /\ [Next]_vars
        => [FollowedPin!Next]_(FollowedPin!vars)
  <2> SUFFICES ASSUME Inv, LevelInv, Inv', LevelInv', [Next]_vars
               PROVE  [FollowedPin!Next]_(FollowedPin!vars)
    OBVIOUS
  <2>1. /\ pin \in Bit /\ currLvl \in Bit /\ swLvl \in Bit /\ notify \in Nat
        /\ currLvl' \in Bit
    BY MaxIrqAssumption DEF Inv, TypeOK
  <2>2. CASE Edge
    <3>1. pin' \in Bit \ {pin} /\ currLvl' = currLvl /\ ~DebouncerAtRest'
      BY <2>1, <2>2 DEF Edge, debouncer, DebouncerAtRest, Bit
    <3> QED
      BY <3>1 DEF FollowedPin!Next, FollowedPin!Move
  <2>3. CASE Isr \/ Wake \/ Interval \/ Sample
    <3>1. pin' = pin /\ currLvl' = currLvl /\ ~DebouncerAtRest /\ ~DebouncerAtRest'
      BY <2>1, <2>3 DEF Isr, Wake, Interval, Sample, Quiet, debouncer, DebouncerAtRest
    <3> QED
      BY <2>1, <3>1 DEF FollowedPin!Next, FollowedPin!Work
  <2>4. CASE Accept
    <3>1. pin' = pin /\ ~DebouncerAtRest
      BY <2>4 DEF Accept, DebouncerAtRest
    <3>2. DebouncerAtRest' => currLvl' = pin'
      BY DEF LevelInv, DebouncerAtRest
    <3>3. CASE DebouncerAtRest'
      BY <3>1, <3>2, <3>3 DEF FollowedPin!Next, FollowedPin!Catch
    <3>4. CASE ~DebouncerAtRest'
      BY <2>1, <3>1, <3>4 DEF FollowedPin!Next, FollowedPin!Work
    <3> QED
      BY <3>3, <3>4
  <2>5. CASE QuickWake \/ QuickOver \/ QuickStore \/ QuickSend \/ UNCHANGED vars
    <3>1. pin' = pin /\ currLvl' = currLvl /\ DebouncerAtRest' = DebouncerAtRest
      BY <2>5 DEF QuickWake, QuickOver, QuickStore, QuickSend, vars, debouncer, DebouncerAtRest
    <3> QED
      BY <3>1 DEF FollowedPin!vars
  <2> QED
    BY <2>2, <2>3, <2>4, <2>5 DEF Next, Debouncer, Counter
<1> QED
  BY <1>1, <1>2, InvCorrect, LevelCorrect, PTL DEF Spec, FollowedPin!Safe

-----------------------------------------------------------------------------
(* The level sampled stays the debounced one until a flip restarts the count. *)
LEMMA TableStep == Inv /\ TableInv /\ [Next]_vars => TableInv'
<1> SUFFICES ASSUME Inv, TableInv, [Next]_vars, clean', qNotify' = 0
             PROVE  /\ qpc' = "store" => qLvl' = currLvl'
                    /\ qDelay' = "forever" => onOff' = currLvl'
  BY DEF TableInv
<1> USE DEF TableInv
<1>1. /\ qNotify \in Nat /\ currLvl \in Bit /\ swLvl \in Bit
      /\ qpc = "store" => qDelay = "quick"
      /\ qpc = "send" => qDelay = "forever"
  BY MaxFlipsAssumption DEF Inv, TypeOK, CountInv
<1>2. CASE Edge \/ Isr \/ UNCHANGED vars
  BY <1>2 DEF Edge, Isr, vars, debouncer, counter
<1>3. CASE Wake \/ Interval \/ Sample
  BY <1>3 DEF Wake, Interval, Sample, counter
<1>4. CASE Accept
  <2>1. swLvl = currLvl
    BY <1>1, <1>4 DEF Accept
  <2> QED
    BY <1>4, <2>1 DEF Accept, counter
<1>5. CASE QuickWake
  BY <1>1, <1>5 DEF QuickWake, debouncer
<1>6. CASE QuickOver
  <2>1. qLvl' = pin /\ pin = currLvl /\ currLvl' = currLvl /\ qDelay' = "quick"
    BY <1>6 DEF QuickOver, debouncer
  <2> QED
    BY <2>1
<1>7. CASE QuickStore
  BY <1>7 DEF QuickStore, debouncer
<1>8. CASE QuickSend
  BY <1>8 DEF QuickSend, debouncer
<1> QED
  BY <1>2, <1>3, <1>4, <1>5, <1>6, <1>7, <1>8 DEF Next, Debouncer, Counter

(* At rest the table's switch is the pin, after a clean sample. *)
THEOREM TableFollowsSwitchCorrect == Spec => []TableFollowsSwitch
<1>1. Init => TableInv
  BY DEF Init, TableInv
<1>2. LevelInv /\ TableInv => TableFollowsSwitch
  BY DEF LevelInv, TableInv, TableFollowsSwitch, AtRest, DebouncerAtRest
<1> QED
  BY <1>1, <1>2, InvCorrect, LevelCorrect, TableStep, PTL DEF Spec
=============================================================================
