------------------------------ MODULE Follower ------------------------------
(***************************************************************************)
(* What a debouncer promises, without edges, interrupts, notifications or  *)
(* intervals: its output is its input whenever it is not busy, it is busy  *)
(* only after the input has moved, and an input that rests ends the work.  *)
(* While it is busy the output may be any value, whatever the input was.   *)
(***************************************************************************)
CONSTANT Values

VARIABLES
  in,   \* the input
  out,  \* the output
  busy  \* the output may still have to follow

vars == <<in, out, busy>>

Init == in \in Values /\ out = in /\ busy = FALSE

(* The input moves. *)
Move ==
  /\ in' \in Values \ {in} /\ busy' = TRUE
  /\ out' = out

(* The work goes on ... *)
Work ==
  /\ busy /\ busy' = TRUE
  /\ out' \in Values /\ in' = in

(* ... or is done: the output has caught up. *)
Catch ==
  /\ busy /\ busy' = FALSE
  /\ out' = in /\ in' = in

Next == Move \/ Work \/ Catch

(* Work on an input that stays is done some time. *)
Settles == \A v \in Values : in = v ~> ~busy \/ in # v

Safe == Init /\ [][Next]_vars

Spec == Safe /\ Settles
=============================================================================
