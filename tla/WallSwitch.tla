----------------------------- MODULE WallSwitch -----------------------------
(***************************************************************************)
(* A wall light switch: the pin's interrupt handler, the task that         *)
(* debounces it (BathLightSwDebounce / RestLightSwDebounce) and the task   *)
(* that counts its flips (QuickBathLightSw / QuickRestLightSw); the two    *)
(* rooms run the same code on two pins.                                    *)
(*                                                                         *)
(* Every edge notifies the debouncer.  It accepts a level after MAXFIXINT  *)
(* and one more quiet BOUNCEDELAYs and notifies the counter if the level   *)
(* is new.  QUICK_SW_DELAY after the last flip the counter samples the PIN *)
(* and stores its decision: one flip means manual mode, more mean          *)
(* automatic mode.                                                         *)
(*                                                                         *)
(* Time is abstract: a finite delay may expire whenever the notification   *)
(* it waits for is absent.  The model starts when LightISRSetup returns.   *)
(***************************************************************************)
EXTENDS Integers

CONSTANTS
  MAXFIXINT,  \* quiet intervals before the one that accepts the level
  MaxIrq,     \* bound: edges the debouncer has not been told of or not taken
  MaxFlips    \* bound: flips awaiting a decision when the pin moves again

ASSUME MAXFIXINTAssumption == MAXFIXINT \in Nat
ASSUME MaxIrqAssumption == MaxIrq \in Nat \ {0}
ASSUME MaxFlipsAssumption == MaxFlips \in Nat \ {0}

Bit == {0, 1}

VARIABLES
  pin,      \* gpio_get_level(GPIO_..._LIGHT_SW_IN)
  irq,      \* the pin's interrupt is pending
  notify,   \* the debouncer's notification count
  dpc,      \* the debouncer: "wait" in ulTaskNotifyTake, or "accept"
  dDelay,   \* its delay: "forever" or "bounce"
  fix,      \* its count of quiet intervals
  swLvl,    \* its sw_lvl
  currLvl,  \* its curr_lvl
  qNotify,  \* the counter's notification count
  qpc,      \* the counter: "wait", "store" or "send"
  qDelay,   \* its delay: "forever" or "quick"
  cnt,      \* its cnt
  qLvl,     \* its sw_lvl
  autoEnable, onOff,  \* DataParmTable, as this switch last wrote it
  flips,    \* history: accepted flips no decision has used yet
  clean     \* history: the last sample agreed with the debounced level

debouncer == <<dpc, dDelay, fix, swLvl, currLvl>>
counter == <<qpc, qDelay, cnt, qLvl, autoEnable, onOff, clean>>
vars == <<pin, irq, notify, debouncer, qNotify, counter, flips>>

Init ==
  /\ pin \in Bit /\ irq = FALSE /\ notify = 0
  /\ dpc = "wait" /\ dDelay = "forever" /\ fix = 0 /\ swLvl = 0 /\ currLvl = pin
  /\ qNotify = 0 /\ qpc = "wait" /\ qDelay = "forever" /\ cnt = 0 /\ qLvl = pin
  /\ autoEnable = 1 /\ onOff = 0
  /\ flips = 0 /\ clean = FALSE

-----------------------------------------------------------------------------
(* Mutations of the actions: the bugs the properties are shown to exclude. *)

(* the handler forgets to notify the debouncer while it is bouncing *)
Isr_QuietOnly ==
  /\ irq /\ irq' = FALSE
  /\ notify' = IF dDelay = "forever" THEN notify + 1 ELSE notify
  /\ UNCHANGED <<pin, debouncer, qNotify, counter, flips>>

(* "no change, only bounce" is tested before the delay is put back *)
Accept_KeepDelay ==
  /\ dpc = "accept" /\ dpc' = "wait"
  /\ dDelay' = IF swLvl = currLvl THEN dDelay ELSE "forever"
  /\ currLvl' = swLvl
  /\ qNotify' = IF swLvl = currLvl THEN qNotify ELSE qNotify + 1
  /\ flips' = IF swLvl = currLvl THEN flips ELSE flips + 1
  /\ UNCHANGED <<pin, irq, notify, fix, swLvl, counter>>

(* the count of flips is not restarted by the first flip of a series *)
QuickWake_KeepCount ==
  /\ qpc = "wait" /\ qNotify > 0
  /\ qNotify' = qNotify - 1
  /\ cnt' = cnt + 1
  /\ qDelay' = "quick"
  /\ UNCHANGED <<pin, irq, notify, debouncer, qpc, qLvl, autoEnable, onOff, clean, flips>>

(* the switch is taken to toggle the light: the pin is not read *)
QuickOver_Toggle ==
  /\ qpc = "wait" /\ qNotify = 0 /\ qDelay = "quick"
  /\ qLvl' = 1 - onOff /\ clean' = (pin = currLvl)
  /\ qpc' = "store"
  /\ UNCHANGED <<pin, irq, notify, debouncer, qNotify, qDelay, cnt, autoEnable, onOff, flips>>

(* the notification that wakes the counter is not consumed *)
QuickWake_NoTake ==
  /\ qpc = "wait" /\ qNotify > 0
  /\ cnt' = IF qDelay = "forever" THEN 1 ELSE cnt + 1
  /\ qDelay' = "quick"
  /\ UNCHANGED <<pin, irq, notify, debouncer, qNotify, qpc, qLvl, autoEnable, onOff, clean, flips>>
-----------------------------------------------------------------------------
(* The pin and its interrupt *)

(* A flip of the switch, or one edge of its bouncing. *)
Edge ==
  /\ notify < MaxIrq /\ flips < MaxFlips
  /\ pin' = 1 - pin /\ irq' = TRUE
  /\ UNCHANGED <<notify, debouncer, qNotify, counter, flips>>

(* Edges that come before the handler has run are served as one. *)
Isr ==
  /\ irq /\ irq' = FALSE
  /\ notify' = notify + 1
  /\ UNCHANGED <<pin, debouncer, qNotify, counter, flips>>

-----------------------------------------------------------------------------
(* The debouncer *)

Wake ==
  /\ dpc = "wait" /\ notify > 0
  /\ notify' = notify - 1
  /\ dDelay' = "bounce" /\ fix' = 0
  /\ UNCHANGED <<pin, irq, dpc, swLvl, currLvl, qNotify, counter, flips>>

Quiet == dpc = "wait" /\ notify = 0 /\ dDelay = "bounce"

(* One quiet interval of the MAXFIXINT. *)
Interval ==
  /\ Quiet /\ fix < MAXFIXINT
  /\ fix' = fix + 1
  /\ UNCHANGED <<pin, irq, notify, dpc, dDelay, swLvl, currLvl, qNotify, counter, flips>>

Sample ==
  /\ Quiet /\ fix >= MAXFIXINT
  /\ swLvl' = pin
  /\ dpc' = "accept"
  /\ UNCHANGED <<pin, irq, notify, dDelay, fix, currLvl, qNotify, counter, flips>>

Accept ==
  /\ dpc = "accept" /\ dpc' = "wait"
  /\ dDelay' = "forever"
  /\ currLvl' = swLvl
  /\ qNotify' = IF swLvl = currLvl THEN qNotify ELSE qNotify + 1
  /\ flips' = IF swLvl = currLvl THEN flips ELSE flips + 1
  /\ UNCHANGED <<pin, irq, notify, fix, swLvl, counter>>

-----------------------------------------------------------------------------
(* The counter *)

QuickWake ==
  /\ qpc = "wait" /\ qNotify > 0
  /\ qNotify' = qNotify - 1
  /\ cnt' = IF qDelay = "forever" THEN 1 ELSE cnt + 1
  /\ qDelay' = "quick"
  /\ UNCHANGED <<pin, irq, notify, debouncer, qpc, qLvl, autoEnable, onOff, clean, flips>>

(* QUICK_SW_DELAY without a flip: sample the pin, not the debounced level. *)
QuickOver ==
  /\ qpc = "wait" /\ qNotify = 0 /\ qDelay = "quick"
  /\ qLvl' = pin /\ clean' = (pin = currLvl)
  /\ qpc' = "store"
  /\ UNCHANGED <<pin, irq, notify, debouncer, qNotify, qDelay, cnt, autoEnable, onOff, flips>>

(* The critical section; only the slow branch resets cnt. *)
QuickStore ==
  /\ qpc = "store" /\ qpc' = "send"
  /\ autoEnable' = IF cnt <= 1 THEN 0 ELSE 1
  /\ onOff' = qLvl
  /\ qDelay' = "forever"
  /\ cnt' = IF cnt <= 1 THEN 0 ELSE cnt
  /\ flips' = qNotify
  /\ UNCHANGED <<pin, irq, notify, debouncer, qNotify, qLvl, clean>>

(* The post to the light's controller: modules BathLight and RestLight. *)
QuickSend ==
  /\ qpc = "send" /\ qpc' = "wait"
  /\ UNCHANGED <<pin, irq, notify, debouncer, qNotify, qDelay, cnt, qLvl,
                 autoEnable, onOff, clean, flips>>

Debouncer == Wake \/ Interval \/ Sample \/ Accept
Counter == QuickWake \/ QuickOver \/ QuickStore \/ QuickSend

Next == Edge \/ Isr \/ Debouncer \/ Counter

Spec == Init /\ [][Next]_vars

(* The handler preempts the tasks; the tasks have equal, time-sliced        *)
(* priorities, and a finite delay expires if no notification comes.         *)
FairSpec == Spec /\ WF_vars(Isr) /\ WF_vars(Debouncer) /\ WF_vars(Counter)

-----------------------------------------------------------------------------
(* Properties *)

TypeOK ==
  /\ pin \in Bit /\ irq \in BOOLEAN /\ notify \in 0 .. MaxIrq
  /\ dpc \in {"wait", "accept"} /\ dDelay \in {"forever", "bounce"}
  /\ fix \in 0 .. MAXFIXINT /\ swLvl \in Bit /\ currLvl \in Bit
  /\ flips \in 0 .. MaxFlips + 1 /\ qNotify \in 0 .. flips
  /\ qpc \in {"wait", "store", "send"} /\ qDelay \in {"forever", "quick"}
  /\ cnt \in Nat /\ cnt <= MaxFlips + 1 /\ qLvl \in Bit
  /\ autoEnable \in Bit /\ onOff \in Bit /\ clean \in BOOLEAN

DebouncerAtRest == ~irq /\ notify = 0 /\ dpc = "wait" /\ dDelay = "forever"
AtRest == DebouncerAtRest /\ qNotify = 0 /\ qpc = "wait" /\ qDelay = "forever"

(* The debouncer implements a follower of the pin: it accepts a level only  *)
(* in its own time, but when it sleeps with no edge outstanding the level   *)
(* accepted is the pin's, so no flip is lost among the bounces though       *)
(* interrupts merge and the pin moves between its steps; it wakes for edges *)
(* only, and a pin left alone lets it sleep.                                *)
FollowedPin == INSTANCE Follower
                 WITH Values <- Bit, in <- pin, out <- currLvl, busy <- ~DebouncerAtRest
DebouncerFollowsPin == FollowedPin!Spec

(* A decision chooses automatic mode exactly when two flips or more were    *)
(* accepted since the decision before: cnt, which only one of the branches  *)
(* resets, and the notification counts lose and invent none.                *)
AutoIffQuickFlips ==
  [][qpc = "store" /\ qpc' = "send" => (autoEnable' = 1 <=> flips - qNotify >= 2)]_vars

(* At rest, the table's switch is the switch, if the pin agreed with the    *)
(* debounced level when the counter sampled it.                             *)
TableFollowsSwitch == AtRest /\ clean => onOff = pin

(* A switch left alone brings both tasks to rest: its flip is decided upon. *)
SwitchSettles == \A v \in Bit : pin = v ~> (AtRest \/ pin # v)
=============================================================================
