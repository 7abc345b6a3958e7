----------------------------- MODULE PaidForms -----------------------------
(***************************************************************************)
(* A public form that takes a payment and may book a seat:                 *)
(* src/src/forms/venture-forms-payments.inc and venture-forms-booking.c,   *)
(* with Bookings and StripeCheckout.                                       *)
(*                                                                         *)
(* A submission becomes an intake: answers kept apart, an invoice, a held  *)
(* seat, a place under the form's response limit.  It becomes a response   *)
(* when the money has arrived, which the server hears from the provider's  *)
(* events.  Meanwhile the hold and the session run out, the invoice may be *)
(* paid on its own page, the form is closed, the owner erases or repairs.  *)
(*                                                                         *)
(* An intake and its invoice have one name here.  Left out: the limits per *)
(* address, contact and link, answers erased after they were accepted, and *)
(* what an accepted response sets off.                                     *)
(***************************************************************************)
EXTENDS Bookings, StripeCheckout

CONSTANTS
    Limit,         \* the form's response limit
    MaxDisturbed   \* bound: what others do to the calendar and the form

ASSUME FormAssumption ==
    /\ Limit \in Nat \ {0} /\ IsFiniteSet(Invoices) /\ MaxDisturbed \in Nat

\* The reservation-id of an intake without a booking.
NoSeat == 0

VARIABLES
    intake,   \* [Invoices -> Intake]: the form_payment rows
    live,     \* the form takes responses
    disturbed \* history: how often others stepped in

vars == <<now, bookings, stripe, intake, live, disturbed>>

States == {"none", "pending_payment", "processing", "paid_needs_booking",
           "paid_needs_capacity", "expired", "failed", "completed", "erased"}

Intake == [state : States, seat : Reservations \cup {NoSeat},
           expires : 0..MaxTime]

NoIntake == [state |-> "none", seat |-> NoSeat, expires |-> 0]

TypeOK ==
    /\ now \in 0..MaxTime
    /\ BookingTypeOK /\ StripeTypeOK
    /\ intake \in [Invoices -> Intake]
    /\ live \in BOOLEAN /\ disturbed \in 0..MaxDisturbed

Init ==
    /\ now = 0 /\ BookingInit /\ StripeInit
    /\ intake = [i \in Invoices |-> NoIntake]
    /\ live = TRUE /\ disturbed = 0

-----------------------------------------------------------------------------
(* The response limit *)

Answered == {i \in Invoices : intake[i].state = "completed"}

\* forms_payment_rows(): intakes that keep a place until they are settled.
Keeping ==
    {i \in Invoices : intake[i].state \in
        {"pending_payment", "processing", "paid_needs_booking"}}

PlaceLeft == live /\ Cardinality(Answered) + Cardinality(Keeping) < Limit

-----------------------------------------------------------------------------
(* The customer *)

\* One transaction: the limits, the seat, the invoice and the intake.
Begin(i, r, s) ==
    /\ intake[i].state = "none"
    /\ PlaceLeft /\ RunsOut(Hold)
    /\ IF r = NoSeat
       THEN s = NoSlot /\ UNCHANGED resv
       ELSE s \in Slots /\ CanReserve(r, s) /\ resv' = [resv EXCEPT ![r] = Held(s, Hold)]
    /\ intake' = [intake EXCEPT ![i] =
         [state |-> "pending_payment", seat |-> r, expires |-> now + Hold]]
    /\ UNCHANGED <<now, meetings, stripe, live, disturbed>>

\* After that transaction, or when the same form is sent again: a checkout
\* until the intake expires.
PayIntake(i, a) ==
    /\ intake[i].state = "pending_payment"
    /\ ReserveCheckout(i, a, intake[i].expires, intake[i].seat # NoSeat)
    /\ UNCHANGED <<now, bookings, intake, live, disturbed>>

\* The invoice has a page and a place in the portal of its own.
PayInvoice(i, a) ==
    /\ intake[i].state # "none"
    /\ ReserveCheckout(i, a, Beyond, FALSE)
    /\ UNCHANGED <<now, bookings, intake, live, disturbed>>

-----------------------------------------------------------------------------
(* Settlement *)

SeatOf(i) == intake[i].seat

Closed(i) == intake[i].state \in {"completed", "erased"}

\* Mutant: an expired intake is thought to keep its place.
GaveUpFailed(i) == intake[i].state \in {"failed", "paid_needs_capacity"}

\* The place was given up and must be taken again.
GaveUp(i) == intake[i].state \in {"expired", "failed", "paid_needs_capacity"}

SeatLost(i) == SeatOf(i) # NoSeat /\ ~HoldLasts(SeatOf(i))

Becomes(i, state) == intake' = [intake EXCEPT ![i].state = state]

\* venture_forms_payment_reconcile() for a checkout of the given status; it
\* fails, and changes nothing, when the seat cannot be confirmed.
Reconcile(i, status) ==
    \/ Closed(i) /\ UNCHANGED <<intake, resv>>
    \/ /\ ~Closed(i) /\ status \in {"failed", "expired"}
       /\ Becomes(i, status)
       /\ resv' = Released({SeatOf(i)})
    \/ /\ ~Closed(i) /\ status = "processing"
       /\ Becomes(i, "processing")
       /\ UNCHANGED resv
    \/ ~Closed(i) /\ status \in {"initiated", "open"} /\ UNCHANGED <<intake, resv>>
    \/ /\ ~Closed(i) /\ status = "complete"
       /\ UNCHANGED resv
       /\ \/ GaveUp(i) /\ ~PlaceLeft /\ Becomes(i, "paid_needs_capacity")
          \/ (GaveUp(i) => PlaceLeft) /\ SeatLost(i) /\ Becomes(i, "paid_needs_booking")
          \/ /\ GaveUp(i) => PlaceLeft
             /\ SeatOf(i) = NoSeat /\ Becomes(i, "completed")
    \/ /\ ~Closed(i) /\ status = "complete"
       /\ GaveUp(i) => PlaceLeft
       /\ SeatOf(i) # NoSeat /\ CanConfirm(SeatOf(i))
       /\ resv' = Confirmed(SeatOf(i)) /\ Becomes(i, "completed")

\* Mutant: a repeated event does not reach the form.
WebhookOnce(e) ==
    /\ Process(e)
    /\ IF e \in handled THEN UNCHANGED <<intake, resv>> ELSE Reconcile(e[1], Outcome(e))
    /\ answered' = answered \cup {e}
    /\ UNCHANGED <<now, meetings, live, disturbed>>

\* A delivery of an event: settle and commit, then bring the form up to date.
\* An event settled by an earlier delivery is not settled again, but the form
\* is looked at every time.
Webhook(e) ==
    /\ Process(e)
    /\ Reconcile(e[1], Outcome(e))
    /\ answered' = answered \cup {e}
    /\ UNCHANGED <<now, meetings, live, disturbed>>

\* The server dies between the two, or the second one fails.
WebhookCut(e) ==
    /\ e \notin handled
    /\ Process(e)
    /\ UNCHANGED <<now, bookings, answered, intake, live, disturbed>>

-----------------------------------------------------------------------------
(* The owner *)

\* The action reconcile_payment without a slot.
Recover(i) ==
    /\ \E a \in Attempts : IsNewest(i, a) /\ Reconcile(i, Status(i, a))
    /\ UNCHANGED <<now, meetings, stripe, live, disturbed>>

\* With a slot, first transaction: another seat for a paid intake.
NewSeat(i, r, s) ==
    /\ intake[i].state = "paid_needs_booking"
    /\ CanReserve(r, s) /\ RunsOut(1)
    /\ UNCHANGED <<now, meetings, stripe, live, disturbed>>

Reseated(i, r, s, state) ==
    [Released({SeatOf(i)}) EXCEPT ![r] = [Held(s, 1) EXCEPT !.state = state]]

\* The whole action: the newest checkout is paid, and the seat just taken is
\* confirmed.
RecoverWithSeat(i, r, s) ==
    /\ NewSeat(i, r, s)
    /\ \E a \in Attempts : IsNewest(i, a) /\ Status(i, a) = "complete"
    /\ resv' = Reseated(i, r, s, "confirmed")
    /\ intake' = [intake EXCEPT ![i].state = "completed", ![i].seat = r]

\* It stops after the first transaction.
RecoverCut(i, r, s) ==
    /\ NewSeat(i, r, s)
    /\ resv' = Reseated(i, r, s, "held")
    /\ intake' = [intake EXCEPT ![i].state = "pending_payment", ![i].seat = r]

\* Erasure on request, and the sweep of payloads after thirty days.
Forget(i) ==
    /\ intake[i].state # "none" /\ ~Closed(i)
    /\ resv' = Released({SeatOf(i)})
    /\ Becomes(i, "erased")
    /\ UNCHANGED <<now, meetings, stripe, live, disturbed>>

Disturbance == disturbed < MaxDisturbed /\ disturbed' = disturbed + 1

OpenOrClose ==
    /\ Disturbance
    /\ live' = ~live
    /\ UNCHANGED <<now, bookings, stripe, intake>>

-----------------------------------------------------------------------------

TimePasses == Tick /\ UNCHANGED <<bookings, stripe, intake, live, disturbed>>

Next ==
    \/ TimePasses
    \/ Disturbance /\ BookingNext /\ UNCHANGED <<now, stripe, intake, live>>
    \/ \E i \in Invoices, a \in Attempts :
          \/ PayIntake(i, a) \/ PayInvoice(i, a)
          \/ AnswerStored(i, a) /\ UNCHANGED <<now, bookings, intake, live, disturbed>>
          \/ Provider(i, a) /\ UNCHANGED <<now, bookings, intake, live, disturbed>>
    \/ \E i \in Invoices : \E r \in Reservations \cup {NoSeat} :
          \E s \in Slots \cup {NoSlot} : Begin(i, r, s)
    \/ \E e \in Events : Webhook(e) \/ WebhookCut(e)
    \/ \E i \in Invoices : Recover(i) \/ Forget(i)
    \/ \E i \in Invoices, r \in Reservations, s \in Slots :
          RecoverWithSeat(i, r, s) \/ RecoverCut(i, r, s)
    \/ OpenOrClose

Spec == Init /\ [][Next]_vars

-----------------------------------------------------------------------------

\* An expired or failed intake whose invoice is then paid by a bank debit on a
\* second checkout becomes "processing" again without asking for a place.
Revived(i) == \E a \in Attempts : a > 1 /\ <<i, a, "unpaid">> \in events

\* Responses and intakes that keep a place never exceed the response limit,
\* though an intake gives its place up when its session ends and a late payment
\* takes one again (forms_payment_limits()): the revived ones excepted, which
\* take one unasked, and nobody takes one because of them.
PlacesWithinLimit ==
    Cardinality({i \in Answered \cup Keeping : ~Revived(i)}) <= Limit

PaidStates == {"completed", "paid_needs_booking", "paid_needs_capacity"}

\* What the server says of an intake is true: it is a response, or paid and
\* waiting for a seat or a place, only if its newest checkout was paid at the
\* provider; and a response with a seat has had that seat confirmed.
PaidIsTrue ==
    \A i \in Invoices :
       /\ intake[i].state \in PaidStates
            => \E a \in Attempts : IsNewest(i, a) /\ session[i][a] = "paid"
       /\ intake[i].state = "completed" /\ SeatOf(i) # NoSeat
            => resv[SeatOf(i)].state \in {"confirmed", "cancelled"}

\* Everybody who was charged hears of it: the provider's report is answered,
\* and at some time the intake is a response or says what is missing, though
\* the server may die in the middle of a delivery and the seat may be refused
\* while its hold lasts (stripe_complete_paid_form()).
PaidIsAnswered ==
    \A i \in Invoices : \A a \in Attempts :
       <>(session[i][a] = "paid") =>
         <>(/\ <<i, a, "paid">> \in answered
            /\ intake[i].state \in PaidStates \cup {"erased"})

\* Time passes, and the provider delivers an event again until a delivery
\* succeeds.
FairSpec ==
    /\ Spec
    /\ WF_vars(TimePasses)
    /\ \A e \in Events : WF_vars(e \notin answered /\ Webhook(e))

=============================================================================
