---------------------------- MODULE SeatContract ----------------------------
(***************************************************************************)
(* What a booking page promises about its seats, without rows, holds that  *)
(* run out, payments or a clock: a customer gets a seat only in a slot     *)
(* with a free seat and no overlapping customer, one customer at a time;   *)
(* a firm seat is lost by its own cancellation and moved only to where     *)
(* there is room; a seat that was only kept aside may lapse at any time,   *)
(* but becomes firm where it was promised.                                 *)
(***************************************************************************)
EXTENDS Integers, FiniteSets

CONSTANTS Reservations, Slots, NoSlot, Clashing, Capacity

VARIABLES
    seat,   \* [Reservations -> Slots \cup {NoSlot}]
    firm    \* SUBSET Reservations

vars == <<seat, firm>>

Init ==
    /\ seat = [r \in Reservations |-> NoSlot]
    /\ firm = {}

Others(r) == {q \in Reservations \ {r} : seat[q] # NoSlot}

Free(r, s) ==
    /\ Cardinality({q \in Others(r) : seat[q] = s}) < Capacity
    /\ \A q \in Others(r) : <<seat[q], s>> \notin Clashing

Without(gone) == [r \in Reservations |-> IF r \in gone THEN NoSlot ELSE seat[r]]

Aside == {r \in Reservations : seat[r] # NoSlot /\ r \notin firm}

Lapse(gone) == seat' = Without(gone) /\ UNCHANGED firm

\* A seat for r, firm at once or not; the one it replaces may lapse.
Take(r, s, gone) ==
    /\ seat[r] = NoSlot
    /\ Free(r, s)
    /\ seat' = [Without(gone) EXCEPT ![r] = s]
    /\ firm' \in {firm, firm \cup {r}}

Confirm(r) ==
    /\ r \in Aside
    /\ firm' = firm \cup {r}
    /\ UNCHANGED seat

Move(r, s) ==
    /\ r \in firm
    /\ Free(r, s)
    /\ seat' = [seat EXCEPT ![r] = s]
    /\ UNCHANGED firm

Cancel(r) ==
    /\ r \in firm
    /\ seat' = Without({r})
    /\ firm' = firm \ {r}

Next ==
    \/ \E gone \in SUBSET Aside : Lapse(gone)
    \/ \E r \in Reservations, s \in Slots : \E gone \in SUBSET Aside : Take(r, s, gone)
    \/ \E r \in Reservations : Confirm(r) \/ Cancel(r)
    \/ \E r \in Reservations, s \in Slots : Move(r, s)

Spec == Init /\ [][Next]_vars
=============================================================================
