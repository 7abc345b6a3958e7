---------------------------- MODULE ServerClock ----------------------------
(***************************************************************************)
(* The clock that every deadline of a booking or a payment is compared     *)
(* with, in units short enough to tell those deadlines apart.              *)
(***************************************************************************)
EXTENDS Integers

CONSTANT MaxTime   \* bound: where the modelled time ends

ASSUME TimeAssumption == MaxTime \in Nat

VARIABLE now

Tick == now < MaxTime /\ now' = now + 1

\* bound: only what runs out within the modelled time is begun.
RunsOut(length) == now + length <= MaxTime

=============================================================================
