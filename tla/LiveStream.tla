------------------------------ MODULE LiveStream ------------------------------
(***************************************************************************)
(* What VideoQueue and the writer task promise the viewer, without queues, *)
(* tasks or permits: a stream that is allowed to lose frames, but only the *)
(* oldest ones, and never repeats or reorders any.                         *)
(*                                                                         *)
(* A frame is its number in production order.  The viewer is only ever     *)
(* shown a later frame than the one it saw last, and frame n may be passed *)
(* over only once Capacity newer frames exist.                             *)
(***************************************************************************)
EXTENDS Naturals

CONSTANT Capacity   \* how many newer frames it takes to displace a frame

VARIABLES
  pushed,           \* number of the newest frame produced
  lastSent          \* number of the last frame shown to the viewer

vars == <<pushed, lastSent>>

Init == pushed = 0 /\ lastSent = 0

(* Frame n was displaced: the queue has since taken Capacity newer frames. *)
Displaced(n) == n + Capacity <= pushed

Produce == pushed' = pushed + 1 /\ UNCHANGED lastSent

Show ==
  \E n \in (lastSent + 1) .. pushed :
    /\ \A skipped \in (lastSent + 1) .. (n - 1) : Displaced(skipped)
    /\ lastSent' = n
    /\ UNCHANGED pushed

Next == Produce \/ Show

Spec == Init /\ [][Next]_vars
===============================================================================
