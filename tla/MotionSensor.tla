---------------------------- MODULE MotionSensor ----------------------------
(***************************************************************************)
(* One motion detector of the bathroom, from its pin to the table: the     *)
(* any-edge interrupt handler (Ir_isr_handler, Mv_isr_handler), the queue  *)
(* it posts readings to, and the task that debounces them with a switch-   *)
(* off delay (CheckIrMove, CheckMvMove).  The code of the two sensors is   *)
(* the same but for names.                                                 *)
(*                                                                         *)
(* The handler reads the pin when it RUNS: edges that arrive before that   *)
(* are seen as one, with the last level.  The task's timeout is the only   *)
(* clock; it may fire whenever its queue is empty.                         *)
(***************************************************************************)
EXTENDS RtosQueue

CONSTANTS QueueLen  \* places in IrIsrQueue (MvIsrQueue)

ASSUME QueueLenAssumption == QueueLen \in Nat \ {0}

Bit == {0, 1}
Forever == "portMAX_DELAY"
Uninit == 2  \* an on_off that is neither level

VARIABLES
  pin,        \* level of the sensor's output
  irq,        \* an edge has latched the interrupt, the handler has not run
  isrQ,       \* IrIsrQueue
  on_off,     \* the task's on_off; Uninit until the first reception
  MoveDelay,  \* the task's MoveDelay: Forever, or "OffDelay" ticks
  pc,         \* the task: "receive", or "send" between its write and its post
  vol,        \* DataParmTable[IDX_IRVOL]
  merged,     \* history: since the last quiet period, a reading stood for
              \* several edges or was dropped
  dropped     \* history: the last reading posted by the handler was dropped

vars == <<pin, irq, isrQ, on_off, MoveDelay, pc, vol, merged, dropped>>

-----------------------------------------------------------------------------
(* Mutations: the bugs the properties are shown to exclude. *)

(* the handler reports the level before the edge *)
Isr_OldLevel ==
  /\ irq
  /\ irq' = FALSE
  /\ isrQ' = QueueSend(isrQ, QueueLen, 1 - pin)
  /\ dropped' = QueueFull(isrQ, QueueLen)
  /\ merged' = (merged \/ QueueFull(isrQ, QueueLen))
  /\ UNCHANGED <<pin, on_off, MoveDelay, pc, vol>>

(* the handler ignores the capacity of the queue *)
Isr_Unbounded ==
  /\ irq
  /\ irq' = FALSE
  /\ isrQ' = Append(isrQ, pin)
  /\ UNCHANGED <<pin, on_off, MoveDelay, pc, vol, merged, dropped>>

(* motion seen again does not cancel the switch-off delay *)
ReceiveDisarm_KeepDelay ==
  /\ pc = "receive" /\ isrQ # <<>>
  /\ Head(isrQ) = 1 /\ MoveDelay # Forever
  /\ on_off' = 1 /\ isrQ' = Tail(isrQ)
  /\ UNCHANGED <<pin, irq, MoveDelay, pc, vol, merged, dropped>>

(* a second reading of "no motion" cancels the delay *)
ReceiveAgain_Disarm ==
  /\ pc = "receive" /\ isrQ # <<>>
  /\ Head(isrQ) = 0 /\ MoveDelay # Forever
  /\ on_off' = 0 /\ isrQ' = Tail(isrQ)
  /\ MoveDelay' = Forever
  /\ UNCHANGED <<pin, irq, pc, vol, merged, dropped>>

(* the delay is not switched off after it has run out *)
TimeoutOff_KeepDelay ==
  /\ pc = "receive" /\ isrQ = <<>> /\ MoveDelay # Forever
  /\ on_off = 0
  /\ vol' = 0 /\ pc' = "send"
  /\ UNCHANGED <<pin, irq, isrQ, on_off, MoveDelay, merged, dropped>>

-----------------------------------------------------------------------------
(* The table starts with "motion seen"; the pin may be at either level. *)
Init ==
  /\ pin \in Bit /\ irq = FALSE /\ isrQ = <<>>
  /\ on_off = Uninit /\ MoveDelay = Forever
  /\ pc = "receive" /\ vol = 1
  /\ merged = FALSE /\ dropped = FALSE

(* The environment: an edge on the pin. *)
Edge ==
  /\ pin' = 1 - pin
  /\ irq' = TRUE
  /\ merged' = (merged \/ irq)
  /\ UNCHANGED <<isrQ, on_off, MoveDelay, pc, vol, dropped>>

(* Ir_isr_handler: read the pin, post the reading. *)
Isr ==
  /\ irq
  /\ irq' = FALSE
  /\ isrQ' = QueueSend(isrQ, QueueLen, pin)
  /\ dropped' = QueueFull(isrQ, QueueLen)
  /\ merged' = (merged \/ QueueFull(isrQ, QueueLen))
  /\ UNCHANGED <<pin, on_off, MoveDelay, pc, vol>>

(* "1" with no delay running: motion; tell the light. *)
ReceiveOn ==
  /\ pc = "receive" /\ isrQ # <<>>
  /\ Head(isrQ) = 1 /\ MoveDelay = Forever
  /\ on_off' = 1 /\ isrQ' = Tail(isrQ)
  /\ vol' = 1 /\ pc' = "send"
  /\ UNCHANGED <<pin, irq, MoveDelay, merged, dropped>>

(* "0" with no delay running: start the switch-off delay. *)
ReceiveArm ==
  /\ pc = "receive" /\ isrQ # <<>>
  /\ Head(isrQ) = 0 /\ MoveDelay = Forever
  /\ on_off' = 0 /\ isrQ' = Tail(isrQ)
  /\ MoveDelay' = "OffDelay"
  /\ UNCHANGED <<pin, irq, pc, vol, merged, dropped>>

(* "1" during the delay: cancel it, nothing else. *)
ReceiveDisarm ==
  /\ pc = "receive" /\ isrQ # <<>>
  /\ Head(isrQ) = 1 /\ MoveDelay # Forever
  /\ on_off' = 1 /\ isrQ' = Tail(isrQ)
  /\ MoveDelay' = Forever
  /\ UNCHANGED <<pin, irq, pc, vol, merged, dropped>>

(* "0" during the delay: no branch applies, the delay starts over. *)
ReceiveAgain ==
  /\ pc = "receive" /\ isrQ # <<>>
  /\ Head(isrQ) = 0 /\ MoveDelay # Forever
  /\ on_off' = 0 /\ isrQ' = Tail(isrQ)
  /\ UNCHANGED <<pin, irq, MoveDelay, pc, vol, merged, dropped>>

(* The delay ran out with no reading in the queue: no motion.  When neither *)
(* an edge nor a dropped reading is outstanding, this is a quiet period and *)
(* the task is in step with the pin again.                                  *)
TimeoutOff ==
  /\ pc = "receive" /\ isrQ = <<>> /\ MoveDelay # Forever
  /\ on_off = 0
  /\ vol' = 0 /\ pc' = "send"
  /\ MoveDelay' = Forever
  /\ merged' = (merged /\ (irq \/ dropped))
  /\ UNCHANGED <<pin, irq, isrQ, on_off, dropped>>

(* The post to BathLightSendToCtrl: module BathLight's Send. *)
Post ==
  /\ pc = "send"
  /\ pc' = "receive"
  /\ UNCHANGED <<pin, irq, isrQ, on_off, MoveDelay, vol, merged, dropped>>

Task == ReceiveOn \/ ReceiveArm \/ ReceiveDisarm \/ ReceiveAgain \/ TimeoutOff \/ Post

Next == Edge \/ Isr \/ Task

Spec == Init /\ [][Next]_vars

(* A latched interrupt is served, the task is scheduled, and the delay it   *)
(* waits for runs out.                                                     *)
FairSpec == Spec /\ WF_vars(Isr) /\ WF_vars(Task)

-----------------------------------------------------------------------------
(* Properties *)

TypeOK ==
  /\ pin \in Bit /\ vol \in Bit
  /\ irq \in BOOLEAN /\ merged \in BOOLEAN /\ dropped \in BOOLEAN
  /\ isrQ \in Seq(Bit) /\ Len(isrQ) <= QueueLen
  /\ on_off \in Bit \cup {Uninit}
  /\ MoveDelay \in {Forever, "OffDelay"}
  /\ pc \in {"receive", "send"}

(* Every reading has been digested and no delay is running. *)
Settled == ~irq /\ isrQ = <<>> /\ pc = "receive" /\ MoveDelay = Forever

(* A delay only ever runs while the last reading was "no motion", so the    *)
(* task's branch for a timeout while on_off is 1, the one that logs         *)
(* exclamation marks and leaves the delay running, is never taken.          *)
NoStrayTimeout == MoveDelay # Forever => on_off = 0

(* The light is never held on by a detector at rest: once the readings are *)
(* digested and the delay is over, a pin at 0 means "no motion" in the     *)
(* table, however many edges the handler merged, unless the last reading   *)
(* was dropped.  Before the first reading the table holds its initial 1.    *)
NeverStuckOn == Settled /\ on_off # Uninit /\ ~dropped => (pin = 0 => vol = 0)

(* Motion is seen, as long as every edge since the last quiet period had a  *)
(* reading of its own; a quiet period heals whatever was lost before it.    *)
MotionSeen == Settled /\ on_off # Uninit /\ ~merged => (pin = 1 => vol = 1)

(* A room that stays quiet is eventually reported so. *)
QuietIsReported ==
  pin = 0 /\ on_off # Uninit ~> vol = 0 \/ pin = 1 \/ dropped
=============================================================================
