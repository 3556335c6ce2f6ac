----------------------------- MODULE RtosQueue -----------------------------
(***************************************************************************)
(* The FreeRTOS queue as this firmware uses it: a bounded FIFO created by  *)
(* xQueueCreate.  Every sender of the program passes a timeout of zero     *)
(* ticks and ignores the result, so a message that finds the queue full is *)
(* dropped.  Receivers block; they are modelled by Head and Tail under the *)
(* guard that the queue is not empty.  FreeRTOS is not part of the         *)
(* repository.                                                             *)
(***************************************************************************)
EXTENDS Naturals, Sequences

(* xQueueSend(q, &m, 0) would fail. *)
QueueFull(q, cap) == Len(q) >= cap

(* The queue after xQueueSend(q, &m, 0) or xQueueSendFromISR(q, &m, NULL). *)
QueueSend(q, cap, m) == IF QueueFull(q, cap) THEN q ELSE Append(q, m)
=============================================================================
