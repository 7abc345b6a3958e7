------------------------------ MODULE Bookings ------------------------------
(***************************************************************************)
(* The seats of one booking page:                                          *)
(* src/src/calendar/venture-booking-service.c, venture-booking-            *)
(* reservations.inc and venture-booking-actions.inc.                       *)
(*                                                                         *)
(* A seat is offered, held for a while and confirmed, each in a            *)
(* transaction that computes the free slots again.  A hold that ran out    *)
(* stops counting by itself; nothing sweeps it.  The owner's other         *)
(* meetings block a slot without asking.                                   *)
(*                                                                         *)
(* The slots lie beyond the modelled time.  Left out: named resources and  *)
(* group sizes, other pages of the same owner (they block like a meeting), *)
(* the page's own changes, the customer's link and the mail that carries   *)
(* it, and edits of a booked meeting outside the booking service.          *)
(***************************************************************************)
EXTENDS ServerClock, FiniteSets

CONSTANTS
    MaxReservations,   \* bound: reservation rows
    Slots,
    NoSlot,            \* the slot of a row that was never made
    Clashing,          \* pairs of different slots that overlap, buffer included
    Capacity,          \* seats of a slot
    Hold               \* how long a payment may take: 45 minutes

ASSUME SlotsAssumption ==
    /\ NoSlot \notin Slots
    /\ Clashing \subseteq Slots \X Slots
    /\ \A s, t \in Slots : <<s, t>> \in Clashing => s # t /\ <<t, s>> \in Clashing
ASSUME SeatsAssumption ==
    Capacity \in Nat \ {0} /\ Hold \in Nat \ {0} /\ MaxReservations \in Nat

Reservations == 1..MaxReservations

VARIABLES
    resv,      \* [Reservations -> Reservation]
    meetings   \* SUBSET Slots: slots with a planned meeting of the owner's own

bookings == <<resv, meetings>>

Reservation ==
    [state : {"none", "held", "confirmed", "cancelled", "expired"},
     slot : Slots \cup {NoSlot}, expires : 0..MaxTime]

NoReservation == [state |-> "none", slot |-> NoSlot, expires |-> 0]

BookingTypeOK ==
    resv \in [Reservations -> Reservation] /\ meetings \subseteq Slots

BookingInit ==
    resv = [r \in Reservations |-> NoReservation] /\ meetings = {}

-----------------------------------------------------------------------------

HoldLasts(r) == resv[r].state = "held" /\ now < resv[r].expires

\* The reservations that take a seat, but for the caller's own.
Busy(own) ==
    {r \in Reservations \ own : resv[r].state = "confirmed" \/ HoldLasts(r)}

Seated(s, own) == {r \in Busy(own) : resv[r].slot = s}

Overlaps(s, t) == <<s, t>> \in Clashing

\* Mutant: a full slot is offered.
OfferedOneMore(s, own) ==
    /\ \A t \in meetings : t # s /\ ~Overlaps(t, s)
    /\ \A r \in Busy(own) : ~Overlaps(resv[r].slot, s)
    /\ Cardinality(Seated(s, own)) <= Capacity

Offered(s, own) ==
    /\ \A t \in meetings : t # s /\ ~Overlaps(t, s)
    /\ \A r \in Busy(own) : ~Overlaps(resv[r].slot, s)
    /\ Cardinality(Seated(s, own)) < Capacity

Held(s, length) == [state |-> "held", slot |-> s, expires |-> now + length]

\* The next row, in the order of their ids.
IsNew(r) ==
    /\ resv[r].state = "none"
    /\ \A q \in Reservations : q < r => resv[q].state # "none"

CanReserve(r, s) == IsNew(r) /\ Offered(s, {})

CanConfirm(r) == HoldLasts(r) /\ Offered(resv[r].slot, {r})

Confirmed(r) == [resv EXCEPT ![r].state = "confirmed"]

\* A release asks for nothing: only a row still held changes.
Released(own) ==
    [r \in Reservations |->
       IF r \in own /\ resv[r].state = "held"
       THEN [resv[r] EXCEPT !.state = "expired"] ELSE resv[r]]

-----------------------------------------------------------------------------
(* What other customers and the owner do *)

\* A customer of the public page: reserve and confirm in one transaction.
Book(r, s) ==
    /\ CanReserve(r, s) /\ RunsOut(1)
    /\ resv' = [resv EXCEPT ![r] = [Held(s, 1) EXCEPT !.state = "confirmed"]]
    /\ UNCHANGED meetings

Move(r, s) ==
    /\ resv[r].state = "confirmed"
    /\ Offered(s, {r})
    /\ resv' = [resv EXCEPT ![r].slot = s]
    /\ UNCHANGED meetings

Cancel(r) ==
    /\ resv[r].state = "confirmed"
    /\ resv' = [resv EXCEPT ![r].state = "cancelled"]
    /\ UNCHANGED meetings

\* The owner writes a meeting into the calendar, here or on another device, or
\* drops it.
Meet(s) ==
    /\ meetings' = IF s \in meetings THEN meetings \ {s} ELSE meetings \cup {s}
    /\ UNCHANGED resv

BookingNext ==
    \/ \E r \in Reservations, s \in Slots : Book(r, s) \/ Move(r, s)
    \/ \E r \in Reservations : Cancel(r)
    \/ \E s \in Slots : Meet(s)

-----------------------------------------------------------------------------

\* No slot ever has more customers than seats, and no two overlapping slots
\* have one each, whichever way the seats were taken: held for a payment,
\* confirmed after it, booked directly, moved, or taken again after a hold ran
\* out (booking_offered() under the lock of each of these transactions).
SeatsWithinCapacity ==
    /\ \A s \in Slots : Cardinality(Seated(s, {})) <= Capacity
    /\ \A r, q \in Busy({}) : ~Overlaps(resv[r].slot, resv[q].slot)

=============================================================================
