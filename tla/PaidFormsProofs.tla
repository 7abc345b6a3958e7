-------------------------- MODULE PaidFormsProofs --------------------------
(***************************************************************************)
(* Proofs about PaidForms.  The payments come first, then the intakes they *)
(* belong to, then the places and the seats; each part needs of the others *)
(* only how a step may change their variables.                             *)
(***************************************************************************)
EXTENDS PaidFormsRefinement, FiniteSetTheorems, TLAPS

-----------------------------------------------------------------------------
(* Types *)

\* What an event makes of a checkout, without the order of the cases.
LEMMA NewStatusCases ==
  ASSUME NEW i, NEW a, NEW kind
  PROVE  /\ Status(i, a) = "complete" => NewStatus(i, a, kind) = "complete"
         /\ Status(i, a) # "complete" =>
              /\ kind = "paid" => NewStatus(i, a, kind) = "complete"
              /\ kind = "failed" => NewStatus(i, a, kind) = "failed"
              /\ kind = "unpaid" => NewStatus(i, a, kind) =
                   IF Status(i, a) \in {"initiated", "open"} THEN "processing" ELSE Status(i, a)
              /\ kind = "expired" => NewStatus(i, a, kind) =
                   IF Status(i, a) \in {"initiated", "open"} THEN "expired" ELSE Status(i, a)
  BY DEF NewStatus

LEMMA OutcomeTyped ==
  ASSUME TypeOK, NEW e \in Events
  PROVE  /\ e[1] \in Invoices /\ e[2] \in Attempts /\ e[3] \in Kinds
         /\ Status(e[1], e[2]) \in Statuses
         /\ Outcome(e) \in Statuses
  <1>1. e[1] \in Invoices /\ e[2] \in Attempts /\ e[3] \in Kinds
    BY DEF Events
  <1>2. Status(e[1], e[2]) \in Statuses
    BY <1>1 DEF TypeOK, StripeTypeOK, Status, Checkout
  <1>3. NewStatus(e[1], e[2], e[3]) \in Statuses
    BY <1>1, <1>2, NewStatusCases DEF Statuses, Kinds
  <1> QED
    BY <1>1, <1>2, <1>3 DEF Outcome

\* Each action changes one checkout, or one session, and no other.
LEMMA Reserving ==
  ASSUME TypeOK, NEW i \in Invoices, NEW a \in Attempts, NEW d \in Nat, NEW c \in BOOLEAN,
         ReserveCheckout(i, a, d, c)
  PROVE  /\ checkout' \in [Invoices -> [Attempts -> Checkout]]
         /\ \A j \in Invoices, b \in Attempts :
              Status(j, b)' = IF j = i /\ b = a THEN "initiated" ELSE Status(j, b)
  <1> DEFINE row == [status |-> "initiated", ach |-> AchEnabled /\ ~c, deadline |-> d]
  <1>1. row \in Checkout /\ row.status = "initiated"
    BY CheckoutAssumption DEF Checkout, Statuses
  <1>2. checkout' = [checkout EXCEPT ![i][a] = row]
    BY DEF ReserveCheckout
  <1> HIDE DEF row
  <1>3. /\ checkout' \in [Invoices -> [Attempts -> Checkout]]
        /\ \A j \in Invoices, b \in Attempts :
             checkout'[j][b] = IF j = i /\ b = a THEN row ELSE checkout[j][b]
    BY <1>1, <1>2 DEF TypeOK, StripeTypeOK
  <1> QED
    BY <1>1, <1>3 DEF Status

LEMMA Answering ==
  ASSUME TypeOK, NEW i \in Invoices, NEW a \in Attempts, AnswerStored(i, a)
  PROVE  /\ checkout' \in [Invoices -> [Attempts -> Checkout]]
         /\ \A j \in Invoices, b \in Attempts :
              Status(j, b)' = IF j = i /\ b = a THEN "open" ELSE Status(j, b)
  <1> DEFINE row == [checkout[i][a] EXCEPT !.status = "open"]
  <1>0. checkout[i][a] \in Checkout
    BY DEF TypeOK, StripeTypeOK
  <1>1. row \in Checkout /\ row.status = "open"
    BY <1>0 DEF Checkout, Statuses
  <1>2. checkout' = [checkout EXCEPT ![i][a] = row]
    BY DEF AnswerStored
  <1> HIDE DEF row
  <1>3. /\ checkout' \in [Invoices -> [Attempts -> Checkout]]
        /\ \A j \in Invoices, b \in Attempts :
             checkout'[j][b] = IF j = i /\ b = a THEN row ELSE checkout[j][b]
    BY <1>1, <1>2 DEF TypeOK, StripeTypeOK
  <1> QED
    BY <1>1, <1>3 DEF Status

LEMMA Processing ==
  ASSUME TypeOK, NEW e \in Events, Process(e)
  PROVE  /\ checkout' \in [Invoices -> [Attempts -> Checkout]]
         /\ \A j \in Invoices, b \in Attempts :
              Status(j, b)' = IF j = e[1] /\ b = e[2] THEN Outcome(e) ELSE Status(j, b)
  <1> DEFINE i == e[1]
             a == e[2]
             status == Outcome(e)
             row == [checkout[i][a] EXCEPT !.status = status]
  <1>1. i \in Invoices /\ a \in Attempts /\ status \in Statuses
    BY OutcomeTyped
  <1>2. checkout' = [checkout EXCEPT ![i][a] = row]
    BY DEF Process
  <1> HIDE DEF i, a, status
  <1>0. checkout[i][a] \in Checkout
    BY <1>1 DEF TypeOK, StripeTypeOK
  <1>3. row \in Checkout /\ row.status = status
    BY <1>0, <1>1 DEF Checkout
  <1> HIDE DEF row
  <1>4. /\ checkout' \in [Invoices -> [Attempts -> Checkout]]
        /\ \A j \in Invoices, b \in Attempts :
             checkout'[j][b] = IF j = i /\ b = a THEN row ELSE checkout[j][b]
    BY <1>1, <1>2, <1>3 DEF TypeOK, StripeTypeOK
  <1>5. \A j \in Invoices, b \in Attempts :
           Status(j, b)' = IF j = i /\ b = a THEN status ELSE Status(j, b)
    BY <1>3, <1>4 DEF Status
  <1> QED
    BY <1>4, <1>5 DEF i, a, status

LEMMA Reporting ==
  ASSUME TypeOK, NEW i \in Invoices, NEW a \in Attempts, NEW kind \in Kinds,
         Reports(i, a, kind)
  PROVE  /\ session' \in [Invoices -> [Attempts -> SessionStates]]
         /\ \A j \in Invoices, b \in Attempts :
              session'[j][b] = IF j = i /\ b = a THEN kind ELSE session[j][b]
         /\ events' = events \cup {<<i, a, kind>>}
         /\ events' \subseteq Events
         /\ UNCHANGED <<checkout, handled, answered>>
  BY DEF Reports, TypeOK, StripeTypeOK, Kinds, SessionStates, Events

LEMMA Creating ==
  ASSUME TypeOK, NEW i \in Invoices, NEW a \in Attempts, Creates(i, a)
  PROVE  /\ session' \in [Invoices -> [Attempts -> SessionStates]]
         /\ \A j \in Invoices, b \in Attempts :
              session'[j][b] = IF j = i /\ b = a THEN "open" ELSE session[j][b]
         /\ UNCHANGED <<checkout, events, handled, answered>>
  BY DEF Creates, TypeOK, StripeTypeOK, SessionStates

LEMMA ProviderMoves ==
  ASSUME NEW i, NEW a, Provider(i, a)
  PROVE  \/ Creates(i, a)
         \/ session[i][a] = "open" /\ Reports(i, a, "paid")
         \/ session[i][a] = "open" /\ Reports(i, a, "unpaid")
         \/ session[i][a] = "unpaid" /\ Reports(i, a, "paid")
         \/ session[i][a] = "unpaid" /\ Reports(i, a, "failed")
         \/ session[i][a] = "open" /\ Reports(i, a, "expired")
  BY DEF Provider, PaysByCard, PaysByBank, DebitEnds, SessionEnds

-----------------------------------------------------------------------------
(* What a step may do to each part of the system *)

StripeStep ==
    \/ UNCHANGED <<checkout, session, events, handled>>
    \/ \E i \in Invoices, a \in Attempts :
          \/ \E d \in Nat, c \in BOOLEAN : ReserveCheckout(i, a, d, c)
          \/ AnswerStored(i, a)
          \/ Provider(i, a)
    \/ \E e \in Events : Process(e)

\* A row is taken, or given another seat.
Takes(r, s, row) ==
    /\ CanReserve(r, s) /\ row.slot = s /\ row.state \in {"held", "confirmed"}

Swapped(own, r, row) == [Released(own) EXCEPT ![r] = row]

ResvStep ==
    \/ UNCHANGED resv
    \/ \E r \in Reservations, s \in Slots, row \in Reservation :
          Takes(r, s, row) /\ resv' = [resv EXCEPT ![r] = row]
    \/ \E r \in Reservations, s \in Slots : Move(r, s)
    \/ \E r \in Reservations : Cancel(r)
    \/ \E own : resv' = Released(own)
    \/ \E r \in Reservations : CanConfirm(r) /\ resv' = Confirmed(r)
    \/ \E own : \E r \in Reservations, s \in Slots, row \in Reservation :
          Takes(r, s, row) /\ resv' = Swapped(own, r, row)

IntakeStep ==
    \/ UNCHANGED intake
    \/ \E i \in Invoices, row \in Intake : intake' = [intake EXCEPT ![i] = row]

LEMMA StripeSteps ==
  ASSUME TypeOK, [Next]_vars
  PROVE  StripeStep
  <1>1. CASE UNCHANGED stripe
    BY <1>1 DEF stripe, StripeStep
  <1>2. ASSUME NEW i \in Invoices, NEW a \in Attempts, PayIntake(i, a) \/ PayInvoice(i, a)
        PROVE  StripeStep
    <2>1. intake[i].expires \in Nat /\ (intake[i].seat # NoSeat) \in BOOLEAN
      BY TimeAssumption DEF TypeOK, Intake
    <2>2. Beyond \in Nat
      BY TimeAssumption, CheckoutAssumption DEF Beyond
    <2> QED
      BY <1>2, <2>1, <2>2 DEF PayIntake, PayInvoice, StripeStep
  <1>3. ASSUME NEW e \in Events, Webhook(e) \/ WebhookCut(e)
        PROVE  StripeStep
    BY <1>3 DEF Webhook, WebhookCut, StripeStep
  <1>4. ASSUME NEW i \in Invoices, NEW a \in Attempts, AnswerStored(i, a) \/ Provider(i, a)
        PROVE  StripeStep
    BY <1>4 DEF StripeStep
  <1>5. CASE UNCHANGED vars
    BY <1>5, <1>1 DEF vars
  <1>6. CASE TimePasses \/ OpenOrClose
    BY <1>6, <1>1 DEF TimePasses, OpenOrClose
  <1>10. CASE Disturbance /\ BookingNext /\ UNCHANGED <<now, stripe, intake, live>>
    BY <1>10, <1>1
  <1>7. CASE \E i \in Invoices : \E r \in Reservations \cup {NoSeat} :
               \E s \in Slots \cup {NoSlot} : Begin(i, r, s)
    BY <1>7, <1>1 DEF Begin
  <1>8. CASE \E i \in Invoices : Recover(i) \/ Forget(i)
    BY <1>8, <1>1 DEF Recover, Forget
  <1>9. CASE \E i \in Invoices, r \in Reservations, s \in Slots :
               RecoverWithSeat(i, r, s) \/ RecoverCut(i, r, s)
    BY <1>9, <1>1 DEF RecoverWithSeat, RecoverCut, NewSeat
  <1> QED
    BY <1>2, <1>3, <1>4, <1>5, <1>6, <1>7, <1>8, <1>9, <1>10 DEF Next

\* What bringing a form up to date does to the seats and to the intake.
LEMMA Reconciling ==
  ASSUME TypeOK, NEW i \in Invoices, NEW status, Reconcile(i, status)
  PROVE  ResvStep /\ IntakeStep
  <1>1. intake[i] \in Intake
    BY DEF TypeOK
  <1>2. ASSUME NEW state \in States, Becomes(i, state)
        PROVE  IntakeStep
    <2> DEFINE row == [intake[i] EXCEPT !.state = state]
    <2>1. row \in Intake /\ intake' = [intake EXCEPT ![i] = row]
      BY <1>1, <1>2 DEF Intake, Becomes
    <2> QED
      BY <2>1 DEF IntakeStep
  <1>3. IntakeStep
    BY <1>2 DEF Reconcile, States, IntakeStep
  <1>4. \/ UNCHANGED resv \/ resv' = Released({SeatOf(i)})
        \/ SeatOf(i) # NoSeat /\ CanConfirm(SeatOf(i)) /\ resv' = Confirmed(SeatOf(i))
    BY DEF Reconcile
  <1>5. ResvStep
    <2>1. CASE UNCHANGED resv
      BY <2>1 DEF ResvStep
    <2>2. CASE resv' = Released({SeatOf(i)})
      BY <2>2 DEF ResvStep
    <2>3. CASE SeatOf(i) # NoSeat /\ CanConfirm(SeatOf(i)) /\ resv' = Confirmed(SeatOf(i))
      <3>1. SeatOf(i) \in Reservations
        BY <1>1, <2>3 DEF SeatOf, Intake
      <3> QED
        BY <2>3, <3>1 DEF ResvStep
    <2> QED
      BY <1>4, <2>1, <2>2, <2>3
  <1> QED
    BY <1>3, <1>5

LEMMA NextCases ==
  ASSUME Next
  PROVE  \/ TimePasses \/ OpenOrClose
         \/ Disturbance /\ BookingNext /\ UNCHANGED <<now, stripe, intake, live>>
         \/ \E i \in Invoices, a \in Attempts :
               /\ \/ PayIntake(i, a) \/ PayInvoice(i, a) \/ AnswerStored(i, a) \/ Provider(i, a)
               /\ UNCHANGED <<now, bookings, intake, live, disturbed>>
         \/ \E i \in Invoices, r \in Reservations \cup {NoSeat}, s \in Slots \cup {NoSlot} :
               Begin(i, r, s)
         \/ \E e \in Events : Webhook(e)
         \/ \E e \in Events : WebhookCut(e)
         \/ \E i \in Invoices : Recover(i)
         \/ \E i \in Invoices : Forget(i)
         \/ \E i \in Invoices, r \in Reservations, s \in Slots : RecoverWithSeat(i, r, s)
         \/ \E i \in Invoices, r \in Reservations, s \in Slots : RecoverCut(i, r, s)
  BY DEF Next, PayIntake, PayInvoice

LEMMA DeadlineTyped ==
  ASSUME TypeOK, NEW length \in Nat, RunsOut(length)
  PROVE  now + length \in 0..MaxTime
  BY TimeAssumption DEF RunsOut, TypeOK

LEMMA SeatSteps ==
  ASSUME TypeOK, [Next]_vars
  PROVE  ResvStep /\ IntakeStep
  <1>1. CASE UNCHANGED <<resv, intake>>
    BY <1>1 DEF ResvStep, IntakeStep
  <1>2. CASE UNCHANGED vars
    BY <1>1, <1>2 DEF vars, bookings
  <1>3. CASE TimePasses \/ OpenOrClose
    BY <1>1, <1>3 DEF TimePasses, OpenOrClose, bookings
  <1>4. CASE Disturbance /\ BookingNext /\ UNCHANGED <<now, stripe, intake, live>>
    <2>1. ASSUME NEW r \in Reservations, NEW s \in Slots, Book(r, s)
          PROVE  ResvStep
      <3> DEFINE row == [Held(s, 1) EXCEPT !.state = "confirmed"]
      <3>1. row \in Reservation /\ row.slot = s /\ row.state = "confirmed"
        BY <2>1, DeadlineTyped DEF Book, Held, Reservation
      <3>2. CanReserve(r, s) /\ resv' = [resv EXCEPT ![r] = row]
        BY <2>1 DEF Book
      <3> HIDE DEF row
      <3> QED
        BY <3>1, <3>2 DEF ResvStep, Takes
    <2> QED
      BY <1>4, <2>1 DEF BookingNext, ResvStep, IntakeStep, Meet
  <1>5. CASE \E i \in Invoices, a \in Attempts :
               /\ \/ PayIntake(i, a) \/ PayInvoice(i, a) \/ AnswerStored(i, a) \/ Provider(i, a)
               /\ UNCHANGED <<now, bookings, intake, live, disturbed>>
    BY <1>1, <1>5 DEF bookings
  <1>6. ASSUME NEW i \in Invoices, NEW r \in Reservations \cup {NoSeat},
               NEW s \in Slots \cup {NoSlot}, Begin(i, r, s)
        PROVE  ResvStep /\ IntakeStep
    <2> DEFINE row == [state |-> "pending_payment", seat |-> r, expires |-> now + Hold]
    <2>1. now + Hold \in 0..MaxTime
      BY <1>6, SeatsAssumption, DeadlineTyped DEF Begin
    <2>2. row \in Intake /\ intake' = [intake EXCEPT ![i] = row]
      BY <1>6, <2>1 DEF Begin, Intake, States
    <2>3. CASE r = NoSeat
      BY <1>6, <2>2, <2>3 DEF Begin, ResvStep, IntakeStep
    <2>4. CASE r # NoSeat
      <3> DEFINE new == Held(s, Hold)
      <3>1. r \in Reservations /\ s \in Slots /\ CanReserve(r, s)
        BY <1>6, <2>4 DEF Begin
      <3>2. new \in Reservation /\ new.slot = s /\ new.state = "held"
        BY <2>1, <3>1 DEF Held, Reservation
      <3>3. resv' = [resv EXCEPT ![r] = new]
        BY <1>6, <2>4 DEF Begin
      <3> HIDE DEF new
      <3> QED
        BY <2>2, <3>1, <3>2, <3>3 DEF ResvStep, IntakeStep, Takes
    <2> QED
      BY <2>3, <2>4
  <1>7. ASSUME NEW e \in Events, Webhook(e)
        PROVE  ResvStep /\ IntakeStep
    BY <1>7, OutcomeTyped, Reconciling DEF Webhook
  <1>8. ASSUME NEW e \in Events, WebhookCut(e)
        PROVE  ResvStep /\ IntakeStep
    BY <1>1, <1>8 DEF WebhookCut, bookings
  <1>9. ASSUME NEW i \in Invoices, Recover(i)
        PROVE  ResvStep /\ IntakeStep
    BY <1>9, Reconciling DEF Recover
  <1>10. ASSUME NEW i \in Invoices, Forget(i)
         PROVE  ResvStep /\ IntakeStep
    <2> DEFINE row == [intake[i] EXCEPT !.state = "erased"]
    <2>1. row \in Intake /\ intake' = [intake EXCEPT ![i] = row]
      BY <1>10 DEF TypeOK, Intake, States, Forget, Becomes
    <2> QED
      BY <1>10, <2>1 DEF Forget, ResvStep, IntakeStep
  <1>11. ASSUME NEW i \in Invoices, NEW r \in Reservations, NEW s \in Slots,
                RecoverWithSeat(i, r, s) \/ RecoverCut(i, r, s)
         PROVE  ResvStep /\ IntakeStep
    <2>1. PICK state \in {"held", "confirmed"}, after \in States :
             /\ NewSeat(i, r, s)
             /\ resv' = Reseated(i, r, s, state)
             /\ intake' = [intake EXCEPT ![i].state = after, ![i].seat = r]
      BY <1>11 DEF RecoverWithSeat, RecoverCut, States
    <2> DEFINE new == [Held(s, 1) EXCEPT !.state = state]
               row == [[intake[i] EXCEPT !.state = after] EXCEPT !.seat = r]
    <2> HIDE DEF new, row
    <2>2. new \in Reservation /\ new.slot = s /\ new.state = state
      <3>1. now + 1 \in 0..MaxTime
        BY <2>1, DeadlineTyped DEF NewSeat
      <3> QED
        BY <3>1 DEF new, Held, Reservation
    <2>3. CanReserve(r, s) /\ resv' = [Released({SeatOf(i)}) EXCEPT ![r] = new]
      BY <2>1 DEF NewSeat, Reseated, new
    <2>4. intake[i] \in Intake
      BY DEF TypeOK
    <2>5. row \in Intake
      BY <2>4 DEF Intake, row
    <2>6. intake' = [intake EXCEPT ![i] = row]
      BY <2>1 DEF TypeOK, row
    <2>7. ResvStep
      <3>1. Takes(r, s, new) /\ resv' = Swapped({SeatOf(i)}, r, new)
        BY <2>2, <2>3 DEF Takes, Swapped
      <3> QED
        BY <2>2, <3>1 DEF ResvStep
    <2> QED
      BY <2>5, <2>6, <2>7 DEF IntakeStep
  <1> QED
    BY <1>2, <1>3, <1>4, <1>5, <1>6, <1>7, <1>8, <1>9, <1>10, <1>11, NextCases

LEMMA ClockSteps ==
  ASSUME TypeOK, [Next]_vars
  PROVE  now' \in 0..MaxTime /\ now' >= now
  <1>1. CASE UNCHANGED now
    BY <1>1, TimeAssumption DEF TypeOK
  <1>2. CASE TimePasses
    BY <1>2, TimeAssumption DEF TypeOK, TimePasses, Tick
  <1> QED
    BY <1>1, <1>2, NextCases
       DEF vars, OpenOrClose, Begin, Webhook, WebhookCut, Recover, Forget,
           RecoverWithSeat, RecoverCut, NewSeat

\* The rows after a step on them, one by one.
LEMMA ResvTyped ==
  ASSUME TypeOK, ResvStep
  PROVE  resv' \in [Reservations -> Reservation]
  <1>1. resv \in [Reservations -> Reservation]
    BY DEF TypeOK, BookingTypeOK
  <1>2. \A own : Released(own) \in [Reservations -> Reservation]
    BY <1>1 DEF Released, Reservation
  <1>3. ASSUME NEW r \in Reservations, NEW s \in Slots, Move(r, s)
        PROVE  resv' \in [Reservations -> Reservation]
    BY <1>1, <1>3 DEF Move, Reservation
  <1>4. ASSUME NEW r \in Reservations, Cancel(r)
        PROVE  resv' \in [Reservations -> Reservation]
    BY <1>1, <1>4 DEF Cancel, Reservation
  <1>5. ASSUME NEW r \in Reservations
        PROVE  Confirmed(r) \in [Reservations -> Reservation]
    BY <1>1 DEF Confirmed, Reservation
  <1>6. ASSUME NEW own, NEW r \in Reservations, NEW row \in Reservation
        PROVE  Swapped(own, r, row) \in [Reservations -> Reservation]
    BY <1>2 DEF Swapped
  <1> QED
    BY <1>1, <1>2, <1>3, <1>4, <1>5, <1>6 DEF ResvStep

LEMMA OthersTyped ==
  ASSUME TypeOK, [Next]_vars
  PROVE  meetings' \subseteq Slots /\ live' \in BOOLEAN /\ disturbed' \in 0..MaxDisturbed
  <1>1. CASE UNCHANGED <<meetings, live, disturbed>>
    BY <1>1 DEF TypeOK, BookingTypeOK
  <1>2. CASE OpenOrClose
    BY <1>2, FormAssumption DEF OpenOrClose, Disturbance, TypeOK, BookingTypeOK, bookings
  <1>3. CASE Disturbance /\ BookingNext /\ UNCHANGED <<now, stripe, intake, live>>
    <2>1. live' \in BOOLEAN /\ disturbed' \in 0..MaxDisturbed
      BY <1>3, FormAssumption DEF Disturbance, TypeOK
    <2>2. meetings' \subseteq Slots
      BY <1>3 DEF BookingNext, Book, Move, Cancel, Meet, TypeOK, BookingTypeOK
    <2> QED
      BY <2>1, <2>2
  <1> QED
    BY <1>1, <1>2, <1>3, NextCases
       DEF vars, bookings, TimePasses, Begin, Webhook, WebhookCut, Recover, Forget,
           RecoverWithSeat, RecoverCut, NewSeat

\* The deliveries answered with success are among those with a row.
LEMMA AnswersTyped ==
  ASSUME TypeOK, [Next]_vars
  PROVE  handled' \subseteq events' /\ answered' \subseteq handled'
  <1>1. CASE UNCHANGED stripe
    BY <1>1 DEF stripe, TypeOK, StripeTypeOK
  <1>2. ASSUME NEW i \in Invoices, NEW a \in Attempts,
               PayIntake(i, a) \/ PayInvoice(i, a) \/ AnswerStored(i, a) \/ Provider(i, a)
        PROVE  handled' \subseteq events' /\ answered' \subseteq handled'
    <2>1. events \subseteq events' /\ UNCHANGED <<handled, answered>>
      BY <1>2 DEF PayIntake, PayInvoice, ReserveCheckout, AnswerStored, Provider, Creates,
         PaysByCard, PaysByBank, DebitEnds, SessionEnds, Reports
    <2> QED
      BY <2>1 DEF TypeOK, StripeTypeOK
  <1>3. ASSUME NEW e \in Events, Webhook(e) \/ WebhookCut(e)
        PROVE  handled' \subseteq events' /\ answered' \subseteq handled'
    BY <1>3 DEF Webhook, WebhookCut, Process, TypeOK, StripeTypeOK
  <1> QED
    BY <1>1, <1>2, <1>3, NextCases
       DEF vars, TimePasses, OpenOrClose, Begin, Recover, Forget, RecoverWithSeat,
           RecoverCut, NewSeat

LEMMA StripeTyped ==
  ASSUME TypeOK, StripeStep
  PROVE  /\ checkout' \in [Invoices -> [Attempts -> Checkout]]
         /\ session' \in [Invoices -> [Attempts -> SessionStates]]
         /\ events' \subseteq Events
  <1>1. CASE UNCHANGED <<checkout, session, events, handled>>
    BY <1>1 DEF TypeOK, StripeTypeOK
  <1>2. ASSUME NEW i \in Invoices, NEW a \in Attempts, NEW d \in Nat, NEW c \in BOOLEAN,
               ReserveCheckout(i, a, d, c)
        PROVE  /\ checkout' \in [Invoices -> [Attempts -> Checkout]]
               /\ UNCHANGED <<session, events>>
    BY <1>2, Reserving DEF ReserveCheckout
  <1>3. ASSUME NEW i \in Invoices, NEW a \in Attempts, AnswerStored(i, a)
        PROVE  /\ checkout' \in [Invoices -> [Attempts -> Checkout]]
               /\ UNCHANGED <<session, events>>
    BY <1>3, Answering DEF AnswerStored
  <1>4. ASSUME NEW i \in Invoices, NEW a \in Attempts, Provider(i, a)
        PROVE  /\ UNCHANGED checkout
               /\ session' \in [Invoices -> [Attempts -> SessionStates]]
               /\ events' \subseteq Events
    <2>1. CASE Creates(i, a)
      BY <2>1, Creating DEF TypeOK, StripeTypeOK
    <2>2. ASSUME NEW kind \in Kinds, Reports(i, a, kind)
          PROVE  /\ UNCHANGED checkout
                 /\ session' \in [Invoices -> [Attempts -> SessionStates]]
                 /\ events' \subseteq Events
      BY <2>2, Reporting
    <2> QED
      BY <1>4, <2>1, <2>2, ProviderMoves DEF Kinds
  <1>5. ASSUME NEW e \in Events, Process(e)
        PROVE  /\ checkout' \in [Invoices -> [Attempts -> Checkout]]
               /\ UNCHANGED <<session, events>>
    BY <1>5, Processing DEF Process
  <1>6. TypeOK
    OBVIOUS
  <1> QED
    BY <1>1, <1>2, <1>3, <1>4, <1>5, <1>6 DEF StripeStep, TypeOK, StripeTypeOK

\* Every variable keeps its type.
THEOREM TypesHold == Spec => []TypeOK
  <1>1. Init => TypeOK
    BY TimeAssumption, FormAssumption
       DEF Init, TypeOK, BookingInit, BookingTypeOK, StripeInit, StripeTypeOK, NoReservation,
           Reservation, NoCheckout, Checkout, Statuses, SessionStates, NoIntake, Intake, States
  <1>2. ASSUME TypeOK, [Next]_vars
        PROVE  TypeOK'
    <2>1. now' \in 0..MaxTime
      BY <1>2, ClockSteps
    <2>2. ResvStep /\ IntakeStep /\ StripeStep
      BY <1>2, SeatSteps, StripeSteps
    <2>3. intake' \in [Invoices -> Intake]
      BY <1>2, <2>2 DEF IntakeStep, TypeOK
    <2> QED
      BY <1>2, <2>1, <2>2, <2>3, ResvTyped, OthersTyped, StripeTyped, AnswersTyped
         DEF TypeOK, BookingTypeOK, StripeTypeOK
  <1> QED
    BY <1>1, <1>2, PTL DEF Spec

-----------------------------------------------------------------------------
(* The payments *)

\* A report describes the session as it is since.
Reported(i, a) ==
    /\ <<i, a, "paid">> \in events => session[i][a] = "paid"
    /\ <<i, a, "failed">> \in events => session[i][a] = "failed"
    /\ <<i, a, "expired">> \in events => session[i][a] = "expired"
    /\ <<i, a, "unpaid">> \in events => session[i][a] \in {"unpaid", "paid", "failed"}

\* What a checkout says of its session is true, if not the newest.
Told(i, a) ==
    /\ Status(i, a) = "none" => session[i][a] = "none"
    /\ Status(i, a) = "complete" => session[i][a] = "paid"
    /\ Status(i, a) = "failed" => session[i][a] = "failed"
    /\ Status(i, a) = "expired" => session[i][a] = "expired"
    /\ Status(i, a) = "processing" => <<i, a, "unpaid">> \in events

\* Every attempt but the newest has ended without money.
Superseded ==
    \A i \in Invoices : \A a, b \in Attempts :
        b < a /\ Status(i, a) # "none" => Status(i, b) \in {"failed", "expired"}

StripeInv ==
    /\ \A i \in Invoices, a \in Attempts : Reported(i, a) /\ Told(i, a)
    /\ Superseded

\* An event found its session in the state it reports, and the checkout with it.
LEMMA OutcomeIsTold ==
  ASSUME TypeOK, StripeInv, NEW e \in Events, e \in events
  PROVE  LET i == e[1]
             a == e[2]
         IN  /\ i \in Invoices /\ a \in Attempts /\ e = <<i, a, e[3]>>
             /\ Status(i, a) # "none" /\ Outcome(e) # "none"
             /\ Status(i, a) \in {"failed", "expired", "complete"} => Outcome(e) = Status(i, a)
             /\ Outcome(e) = "complete" => session[i][a] = "paid"
             /\ Outcome(e) = "failed" => session[i][a] = "failed"
             /\ Outcome(e) = "expired" => session[i][a] = "expired"
             /\ Outcome(e) = "processing" => <<i, a, "unpaid">> \in events
  <1> DEFINE i == e[1]
             a == e[2]
             kind == e[3]
  <1>1. i \in Invoices /\ a \in Attempts /\ kind \in Kinds /\ e = <<i, a, kind>>
    BY DEF Events
  <1>2. Status(i, a) \in Statuses
    BY OutcomeTyped
  <1>3. Reported(i, a) /\ Told(i, a) /\ <<i, a, kind>> \in events
    BY <1>1 DEF StripeInv
  <1>4. Outcome(e) = Status(i, a) \/ Outcome(e) = NewStatus(i, a, kind)
    BY DEF Outcome
  <1> HIDE DEF i, a, kind
  <1>5. Status(i, a) # "none"
    BY <1>1, <1>3 DEF Reported, Told, Kinds
  <1>6. Status(i, a) \in {"failed", "expired", "complete"} => NewStatus(i, a, kind) = Status(i, a)
    BY <1>1, <1>3, NewStatusCases DEF Reported, Told, Kinds
  <1>7. /\ NewStatus(i, a, kind) # "none"
        /\ NewStatus(i, a, kind) = "complete" => session[i][a] = "paid"
        /\ NewStatus(i, a, kind) = "failed" => session[i][a] = "failed"
        /\ NewStatus(i, a, kind) = "expired" => session[i][a] = "expired"
        /\ NewStatus(i, a, kind) = "processing" => <<i, a, "unpaid">> \in events
    BY <1>1, <1>2, <1>3, <1>5, NewStatusCases DEF Reported, Told, Kinds
  <1>8. /\ i \in Invoices /\ a \in Attempts /\ e = <<i, a, kind>>
        /\ Status(i, a) # "none" /\ Outcome(e) # "none"
        /\ Status(i, a) \in {"failed", "expired", "complete"} => Outcome(e) = Status(i, a)
        /\ Outcome(e) = "complete" => session[i][a] = "paid"
        /\ Outcome(e) = "failed" => session[i][a] = "failed"
        /\ Outcome(e) = "expired" => session[i][a] = "expired"
        /\ Outcome(e) = "processing" => <<i, a, "unpaid">> \in events
    BY <1>1, <1>3, <1>4, <1>5, <1>6, <1>7 DEF Told
  <1> QED
    BY <1>8 DEF i, a, kind

\* An open checkout says nothing of its session.
LEMMA StillTold ==
  ASSUME NEW j \in Invoices, NEW b \in Attempts, Reported(j, b), Told(j, b),
         UNCHANGED <<session, events>>, Status(j, b)' \in {Status(j, b), "initiated", "open"}
  PROVE  (Reported(j, b) /\ Told(j, b))'
  <1>1. Reported(j, b)'
    BY DEF Reported
  <1>2. Told(j, b)'
    BY DEF Told
  <1> QED
    BY <1>1, <1>2

LEMMA ReservingKeeps ==
  ASSUME TypeOK, StripeInv, NEW i \in Invoices, NEW a \in Attempts, NEW d \in Nat,
         NEW c \in BOOLEAN, ReserveCheckout(i, a, d, c)
  PROVE  StripeInv'
  <1>1. \A j \in Invoices, b \in Attempts :
           Status(j, b)' = IF j = i /\ b = a THEN "initiated" ELSE Status(j, b)
    BY Reserving
  <1>2. UNCHANGED <<session, events>> /\ Status(i, a) = "none"
    BY DEF ReserveCheckout, IsNext
  <1>3. ASSUME NEW j \in Invoices, NEW b \in Attempts
        PROVE  (Reported(j, b) /\ Told(j, b))'
    <2>1. Reported(j, b) /\ Told(j, b)
      BY DEF StripeInv
    <2>2. Status(j, b)' \in {Status(j, b), "initiated", "open"}
      BY <1>1
    <2> QED
      BY <1>2, <2>1, <2>2, StillTold
  <1>4. \A b \in Attempts : b < a => Status(i, b) \in {"failed", "expired"}
    BY DEF ReserveCheckout, IsNext, Paid, Pending, TypeOK, StripeTypeOK, Status, Checkout, Statuses
  <1>5. Superseded'
    BY <1>1, <1>2, <1>4 DEF StripeInv, Superseded, Attempts
  <1> QED
    BY <1>3, <1>5 DEF StripeInv

LEMMA AnsweringKeeps ==
  ASSUME TypeOK, StripeInv, NEW i \in Invoices, NEW a \in Attempts, AnswerStored(i, a)
  PROVE  StripeInv'
  <1>1. \A j \in Invoices, b \in Attempts :
           Status(j, b)' = IF j = i /\ b = a THEN "open" ELSE Status(j, b)
    BY Answering
  <1>2. UNCHANGED <<session, events>> /\ Status(i, a) = "initiated"
    BY DEF AnswerStored
  <1>3. ASSUME NEW j \in Invoices, NEW b \in Attempts
        PROVE  (Reported(j, b) /\ Told(j, b))'
    <2>1. Reported(j, b) /\ Told(j, b)
      BY DEF StripeInv
    <2>2. Status(j, b)' \in {Status(j, b), "initiated", "open"}
      BY <1>1
    <2> QED
      BY <1>2, <2>1, <2>2, StillTold
  <1>4. Superseded'
    BY <1>1, <1>2 DEF StripeInv, Superseded
  <1> QED
    BY <1>3, <1>4 DEF StripeInv

LEMMA ReportingKeeps ==
  ASSUME TypeOK, StripeInv, NEW i \in Invoices, NEW a \in Attempts, Provider(i, a)
  PROVE  StripeInv'
  <1>1. UNCHANGED checkout
    BY DEF Provider, Creates, PaysByCard, PaysByBank, DebitEnds, SessionEnds, Reports
  <1>2. \A j \in Invoices, b \in Attempts : Status(j, b)' = Status(j, b)
    BY <1>1 DEF Status
  <1>3. CASE Creates(i, a)
    <2>1. \A j \in Invoices, b \in Attempts :
             session'[j][b] = IF j = i /\ b = a THEN "open" ELSE session[j][b]
      BY <1>3, Creating
    <2>2. events' = events /\ session[i][a] = "none" /\ Status(i, a) # "none"
      BY <1>3 DEF Creates
    <2>3. \A j \in Invoices, b \in Attempts : (Reported(j, b) /\ Told(j, b))'
      <3> SUFFICES ASSUME NEW j \in Invoices, NEW b \in Attempts
                   PROVE  (Reported(j, b) /\ Told(j, b))'
        OBVIOUS
      <3>1. Reported(j, b) /\ Told(j, b) /\ Status(j, b)' = Status(j, b)
        BY <1>2 DEF StripeInv
      <3> QED
        BY <2>1, <2>2, <3>1 DEF Reported, Told
    <2> QED
      BY <1>2, <2>3 DEF StripeInv, Superseded
  <1>4. ASSUME NEW kind \in Kinds, Reports(i, a, kind),
               \/ session[i][a] = "open"
               \/ session[i][a] = "unpaid" /\ kind \in {"paid", "failed"}
        PROVE  StripeInv'
    <2>1. /\ \A j \in Invoices, b \in Attempts :
               session'[j][b] = IF j = i /\ b = a THEN kind ELSE session[j][b]
          /\ events' = events \cup {<<i, a, kind>>}
      BY <1>4, Reporting
    <2>2. \A j \in Invoices, b \in Attempts : (Reported(j, b) /\ Told(j, b))'
      <3> SUFFICES ASSUME NEW j \in Invoices, NEW b \in Attempts
                   PROVE  (Reported(j, b) /\ Told(j, b))'
        OBVIOUS
      <3>1. Reported(j, b) /\ Told(j, b) /\ Status(j, b)' = Status(j, b)
        BY <1>2 DEF StripeInv
      <3>2. CASE j = i /\ b = a
        BY <1>4, <2>1, <3>1, <3>2 DEF Reported, Told, Kinds
      <3>3. CASE ~(j = i /\ b = a)
        BY <2>1, <3>1, <3>3 DEF Reported, Told
      <3> QED
        BY <3>2, <3>3
    <2> QED
      BY <1>2, <2>2 DEF StripeInv, Superseded
  <1> QED
    BY <1>3, <1>4, ProviderMoves DEF Kinds

LEMMA ProcessingKeeps ==
  ASSUME TypeOK, StripeInv, NEW e \in Events, Process(e)
  PROVE  StripeInv'
  <1> DEFINE i == e[1]
             a == e[2]
             after == Outcome(e)
  <1>1. e \in events /\ UNCHANGED <<session, events>>
    BY DEF Process
  <1>2. \A j \in Invoices, b \in Attempts :
           Status(j, b)' = IF j = i /\ b = a THEN after ELSE Status(j, b)
    BY Processing
  <1>3. /\ i \in Invoices /\ a \in Attempts
        /\ Status(i, a) # "none" /\ after # "none"
        /\ Status(i, a) \in {"failed", "expired", "complete"} => after = Status(i, a)
        /\ after = "complete" => session[i][a] = "paid"
        /\ after = "failed" => session[i][a] = "failed"
        /\ after = "expired" => session[i][a] = "expired"
        /\ after = "processing" => <<i, a, "unpaid">> \in events
    BY <1>1, OutcomeIsTold
  <1> HIDE DEF i, a, after
  <1>4. ASSUME NEW j \in Invoices, NEW b \in Attempts
        PROVE  (Reported(j, b) /\ Told(j, b))'
    <2>1. Reported(j, b) /\ Told(j, b)
      BY DEF StripeInv
    <2>2. Reported(j, b)'
      BY <1>1, <2>1 DEF Reported
    <2>3. Status(j, b)' = IF j = i /\ b = a THEN after ELSE Status(j, b)
      BY <1>2
    <2>4. CASE j = i /\ b = a
      BY <1>1, <1>3, <2>2, <2>3, <2>4 DEF Told
    <2>5. CASE ~(j = i /\ b = a)
      BY <1>1, <2>1, <2>2, <2>3, <2>5 DEF Told
    <2> QED
      BY <2>4, <2>5
  <1>5. Superseded'
    BY <1>2, <1>3 DEF StripeInv, Superseded
  <1> QED
    BY <1>4, <1>5 DEF StripeInv

LEMMA PaymentsHold == Spec => []StripeInv
  <1>1. Init => StripeInv
    BY DEF Init, StripeInit, StripeInv, Reported, Told, Superseded, Status, NoCheckout
  <1>2. ASSUME TypeOK, StripeInv, StripeStep
        PROVE  StripeInv'
    <2>1. CASE UNCHANGED <<checkout, session, events, handled>>
      BY <1>2, <2>1 DEF StripeInv, Reported, Told, Superseded, Status
    <2> QED
      BY <1>2, <2>1, ReservingKeeps, AnsweringKeeps, ReportingKeeps, ProcessingKeeps
         DEF StripeStep
  <1>3. TypeOK /\ StripeInv /\ [Next]_vars => StripeInv'
    BY <1>2, StripeSteps
  <1> QED
    BY <1>1, <1>3, TypesHold, PTL DEF Spec

LEMMA AtMostOneWay == StripeInv => OneCharge
  <1>1. SUFFICES ASSUME StripeInv,
                        NEW i \in Invoices, NEW a \in Attempts, NEW b \in Attempts,
                        MayCharge(i, a), MayCharge(i, b), a < b
                 PROVE  FALSE
    BY DEF OneCharge, Attempts
  <1>2. Status(i, b) # "none"
    BY <1>1 DEF StripeInv, Told, MayCharge
  <1>3. Status(i, a) \in {"failed", "expired"}
    BY <1>1, <1>2 DEF StripeInv, Superseded
  <1> QED
    BY <1>1, <1>3 DEF StripeInv, Told, MayCharge

\* No invoice can be charged through two checkouts.
THEOREM ChargedOnce == Spec => []OneCharge
  BY AtMostOneWay, PaymentsHold, PTL

\* stripe_process_verified() refuses a payment for an invoice that was paid or
\* that another checkout may still collect; among checkouts of its own making it
\* never has to: the first delivery of any report finds the books ready for it.
THEOREM NoReportIsRefused ==
  Spec => [](\A e \in events \ handled : Settles(e[1], e[2], e[3]))
  <1>1. ASSUME TypeOK, StripeInv, NEW e \in events \ handled
        PROVE  Settles(e[1], e[2], e[3])
    <2> DEFINE i == e[1]
               a == e[2]
    <2>0. e \in Events
      BY <1>1 DEF TypeOK, StripeTypeOK
    <2>1. /\ i \in Invoices /\ a \in Attempts /\ e = <<i, a, e[3]>>
          /\ Status(i, a) # "none"
      BY <1>1, <2>0, OutcomeIsTold
    <2> SUFFICES ASSUME e[3] = "paid", Status(i, a) # "complete"
                 PROVE  ~Paid(i) /\ \A b \in Attempts \ {a} : ~Pending(i, b)
      BY DEF Settles
    <2>2. session[i][a] = "paid"
      <3>1. Reported(i, a) /\ <<i, a, "paid">> \in events
        BY <1>1, <2>1 DEF StripeInv
      <3> QED
        BY <3>1 DEF Reported
    <2> HIDE DEF i, a
    <2>3. MayCharge(i, a)
      BY <2>2 DEF MayCharge
    <2>4. ASSUME NEW b \in Attempts, Status(i, b) = "complete"
          PROVE  FALSE
      <3>1. session[i][b] = "paid"
        BY <1>1, <2>1, <2>4 DEF StripeInv, Told
      <3>2. a = b
        BY <1>1, <2>1, <2>3, <2>4, <3>1, AtMostOneWay DEF OneCharge, MayCharge
      <3> QED
        BY <2>4, <3>2
    <2>5. ASSUME NEW b \in Attempts \ {a}, Pending(i, b)
          PROVE  FALSE
      <3>1. CASE b < a
        BY <1>1, <2>1, <2>5, <3>1 DEF StripeInv, Superseded, Pending
      <3>2. CASE a < b
        <4>1. Status(i, a) \in {"failed", "expired"}
          BY <1>1, <2>1, <2>5, <3>2 DEF StripeInv, Superseded, Pending
        <4> QED
          BY <1>1, <2>1, <2>2, <4>1 DEF StripeInv, Told
      <3> QED
        BY <2>1, <2>5, <3>1, <3>2 DEF Attempts
    <2> QED
      BY <2>4, <2>5 DEF Paid
  <1>2. TypeOK /\ StripeInv => \A e \in events \ handled : Settles(e[1], e[2], e[3])
    BY <1>1
  <1> QED
    BY <1>2, TypesHold, PaymentsHold, PTL

-----------------------------------------------------------------------------
(* The intakes *)

LEMMA SettledStays ==
  ASSUME TypeOK, StripeInv, StripeStep, NEW i \in Invoices, NEW a \in Attempts
  PROVE  /\ Status(i, a) \in {"failed", "expired", "complete"} => Status(i, a)' = Status(i, a)
         /\ Status(i, a) # "none" => Status(i, a)' # "none"
         /\ events \subseteq events'
  <1>1. CASE UNCHANGED <<checkout, session, events, handled>>
    BY <1>1 DEF Status
  <1>2. ASSUME NEW j \in Invoices, NEW b \in Attempts, NEW d \in Nat, NEW c \in BOOLEAN,
               ReserveCheckout(j, b, d, c)
        PROVE  /\ Status(i, a) # "none" => Status(i, a)' = Status(i, a)
               /\ events' = events
    BY <1>2, Reserving DEF ReserveCheckout, IsNext
  <1>3. ASSUME NEW j \in Invoices, NEW b \in Attempts, AnswerStored(j, b)
        PROVE  /\ Status(i, a) # "initiated" => Status(i, a)' = Status(i, a)
               /\ Status(i, a)' # "none" \/ Status(i, a) = "none"
               /\ events' = events
    BY <1>3, Answering DEF AnswerStored
  <1>4. ASSUME NEW j \in Invoices, NEW b \in Attempts, Provider(j, b)
        PROVE  Status(i, a)' = Status(i, a) /\ events \subseteq events'
    BY <1>4
       DEF Provider, Creates, PaysByCard, PaysByBank, DebitEnds, SessionEnds, Reports, Status
  <1>5. ASSUME NEW e \in Events, Process(e)
        PROVE  /\ Status(i, a) \in {"failed", "expired", "complete"} => Status(i, a)' = Status(i, a)
               /\ Status(i, a) # "none" => Status(i, a)' # "none"
               /\ events' = events
    <2>1. e \in events /\ events' = events
      BY <1>5 DEF Process
    <2>2. /\ Status(e[1], e[2]) # "none" /\ Outcome(e) # "none"
          /\ Status(e[1], e[2]) \in {"failed", "expired", "complete"}
               => Outcome(e) = Status(e[1], e[2])
      BY <2>1, OutcomeIsTold
    <2>3. Status(i, a)' = IF i = e[1] /\ a = e[2] THEN Outcome(e) ELSE Status(i, a)
      BY <1>5, Processing
    <2> QED
      BY <2>1, <2>2, <2>3
  <1> QED
    BY <1>1, <1>2, <1>3, <1>4, <1>5 DEF StripeStep

\* A seat once confirmed stays so, or is cancelled.
Final == {"confirmed", "cancelled"}

LEMMA FinalStays ==
  ASSUME TypeOK, ResvStep, NEW q \in Reservations, resv[q].state \in Final
  PROVE  resv'[q].state \in Final
  <1>1. resv \in [Reservations -> Reservation]
    BY DEF TypeOK, BookingTypeOK
  <1>2. CASE UNCHANGED resv
    BY <1>2
  <1>3. ASSUME NEW r \in Reservations, NEW s \in Slots, NEW row \in Reservation,
               Takes(r, s, row), resv' = [resv EXCEPT ![r] = row]
        PROVE  resv'[q].state \in Final
    BY <1>1, <1>3 DEF Takes, CanReserve, IsNew, Final
  <1>4. ASSUME NEW r \in Reservations, NEW s \in Slots, Move(r, s)
        PROVE  resv'[q].state \in Final
    BY <1>1, <1>4 DEF Move, Final, Reservation
  <1>5. ASSUME NEW r \in Reservations, Cancel(r)
        PROVE  resv'[q].state \in Final
    BY <1>1, <1>5 DEF Cancel, Final, Reservation
  <1>6. \A own : Released(own)[q] = resv[q]
    BY DEF Released, Final
  <1>7. ASSUME NEW r \in Reservations, resv' = Confirmed(r)
        PROVE  resv'[q].state \in Final
    BY <1>1, <1>7 DEF Confirmed, Final, Reservation
  <1>8. ASSUME NEW own, NEW r \in Reservations, NEW s \in Slots, NEW row \in Reservation,
               Takes(r, s, row), resv' = Swapped(own, r, row)
        PROVE  resv'[q].state \in Final
    <2>1. r # q
      BY <1>8 DEF Takes, CanReserve, IsNew, Final
    <2>2. resv'[q] = Released(own)[q]
      BY <1>8, <2>1 DEF Swapped, Released
    <2> QED
      BY <1>6, <2>2
  <1> QED
    BY <1>2, <1>3, <1>4, <1>5, <1>6, <1>7, <1>8 DEF ResvStep

\* What one step may make of an intake.
IntakeMove(i) ==
    \/ /\ intake[i].state = "none" /\ PlaceLeft
       /\ intake'[i].state = "pending_payment"
    \/ /\ intake[i].state # "none" /\ ~Closed(i) /\ intake'[i].seat = intake[i].seat
       /\ \/ /\ intake'[i].state \in {"failed", "expired", "processing"}
             /\ \E a \in Attempts : Status(i, a)' = intake'[i].state
          \/ /\ intake'[i].state \in PaidStates
             /\ \E a \in Attempts : Status(i, a)' = "complete"
             /\ GaveUp(i) => intake'[i].state = "paid_needs_capacity" \/ PlaceLeft
             /\ intake'[i].state = "completed" /\ intake[i].seat # NoSeat
                  => resv'[intake[i].seat].state = "confirmed"
          \/ intake'[i].state = "erased"
    \/ /\ intake[i].state = "paid_needs_booking"
       /\ \/ intake'[i].state = "pending_payment"
          \/ /\ intake'[i].state = "completed"
             /\ \E a \in Attempts : Status(i, a)' = "complete"
             /\ resv'[intake'[i].seat].state = "confirmed"

IntakeMoves ==
    \/ UNCHANGED intake
    \/ \E i \in Invoices :
          IntakeMove(i) /\ \A j \in Invoices \ {i} : intake'[j] = intake[j]

LEMMA ReconcileMoves ==
  ASSUME TypeOK, NEW i \in Invoices, NEW a \in Attempts, intake[i].state # "none",
         Reconcile(i, Status(i, a)')
  PROVE  IntakeMoves
  <1> DEFINE status == Status(i, a)'
  <1>1. intake \in [Invoices -> Intake] /\ intake[i] \in Intake
    BY DEF TypeOK
  <1>2. ASSUME NEW state, Becomes(i, state)
        PROVE  /\ intake'[i].state = state /\ intake'[i].seat = intake[i].seat
               /\ \A j \in Invoices \ {i} : intake'[j] = intake[j]
    BY <1>1, <1>2 DEF Becomes, Intake
  <1>3. CASE Closed(i) \/ status \in {"initiated", "open"}
    BY <1>3 DEF Reconcile, IntakeMoves
  <1>4. CASE ~Closed(i) /\ status \in {"failed", "expired", "processing"}
    <2>1. Becomes(i, status)
      BY <1>4 DEF Reconcile
    <2> QED
      BY <1>2, <1>4, <2>1 DEF IntakeMoves, IntakeMove
  <1>5. CASE ~Closed(i) /\ status = "complete"
    <2>1. CASE GaveUp(i) /\ ~PlaceLeft /\ Becomes(i, "paid_needs_capacity")
      BY <1>2, <1>5, <2>1 DEF IntakeMoves, IntakeMove, PaidStates
    <2>2. CASE (GaveUp(i) => PlaceLeft) /\ Becomes(i, "paid_needs_booking")
      BY <1>2, <1>5, <2>2 DEF IntakeMoves, IntakeMove, PaidStates
    <2>3. CASE (GaveUp(i) => PlaceLeft) /\ SeatOf(i) = NoSeat /\ Becomes(i, "completed")
      BY <1>2, <1>5, <2>3 DEF IntakeMoves, IntakeMove, PaidStates, SeatOf
    <2>4. CASE /\ GaveUp(i) => PlaceLeft
               /\ SeatOf(i) # NoSeat
               /\ resv' = Confirmed(SeatOf(i)) /\ Becomes(i, "completed")
      <3>1. SeatOf(i) \in Reservations
        BY <1>1, <2>4 DEF SeatOf, Intake
      <3>2. resv'[SeatOf(i)].state = "confirmed"
        BY <2>4, <3>1 DEF Confirmed, TypeOK, BookingTypeOK, Reservation
      <3> QED
        BY <1>2, <1>5, <2>4, <3>2 DEF IntakeMoves, IntakeMove, PaidStates, SeatOf
    <2> QED
      BY <1>5, <2>1, <2>2, <2>3, <2>4 DEF Reconcile
  <1> QED
    BY <1>3, <1>4, <1>5 DEF Reconcile

\* A checkout has an intake; one that says it is paid, is; one that gave up
\* has an attempt that ended.
IntakeInv ==
    \A i \in Invoices :
       /\ \A a \in Attempts : Status(i, a) # "none" => intake[i].state # "none"
       /\ intake[i].state \in PaidStates => Paid(i)
       /\ GaveUp(i) =>
            \E a \in Attempts : Status(i, a) \in {"failed", "expired", "complete"}
       /\ intake[i].state = "completed" /\ SeatOf(i) # NoSeat
            => resv[SeatOf(i)].state \in Final

LEMMA IntakesMove ==
  ASSUME TypeOK, StripeInv, IntakeInv, [Next]_vars
  PROVE  IntakeMoves
  <1>1. CASE UNCHANGED intake
    BY <1>1 DEF IntakeMoves
  <1>2. intake \in [Invoices -> Intake]
    BY DEF TypeOK
  <1>3. ASSUME NEW i \in Invoices, NEW r \in Reservations \cup {NoSeat},
               NEW s \in Slots \cup {NoSlot}, Begin(i, r, s)
        PROVE  IntakeMoves
    BY <1>2, <1>3 DEF Begin, IntakeMoves, IntakeMove
  <1>4. ASSUME NEW e \in Events, Webhook(e)
        PROVE  IntakeMoves
    <2>1. e \in events /\ Process(e) /\ Reconcile(e[1], Outcome(e))
      BY <1>4 DEF Webhook, Process
    <2>2. e[1] \in Invoices /\ e[2] \in Attempts /\ Status(e[1], e[2]) # "none"
      BY <2>1, OutcomeIsTold
    <2>3. Status(e[1], e[2])' = Outcome(e)
      BY <2>1, <2>2, Processing
    <2>4. intake[e[1]].state # "none"
      BY <2>2 DEF IntakeInv
    <2> QED
      BY <2>1, <2>2, <2>3, <2>4, ReconcileMoves
  <1>5. ASSUME NEW i \in Invoices, Recover(i)
        PROVE  IntakeMoves
    <2>1. PICK a \in Attempts : IsNewest(i, a) /\ Reconcile(i, Status(i, a))
      BY <1>5 DEF Recover
    <2>2. Status(i, a)' = Status(i, a)
      BY <1>5 DEF Recover, stripe, Status
    <2>3. intake[i].state # "none"
      BY <2>1 DEF IsNewest, IntakeInv
    <2> QED
      BY <2>1, <2>2, <2>3, ReconcileMoves
  <1>6. ASSUME NEW i \in Invoices, Forget(i)
        PROVE  IntakeMoves
    BY <1>2, <1>6 DEF Forget, Becomes, IntakeMoves, IntakeMove, Intake
  <1>7. ASSUME NEW i \in Invoices, NEW r \in Reservations, NEW s \in Slots,
               RecoverWithSeat(i, r, s)
        PROVE  IntakeMoves
    <2>1. PICK a \in Attempts : IsNewest(i, a) /\ Status(i, a) = "complete"
      BY <1>7 DEF RecoverWithSeat
    <2>2. Status(i, a)' = "complete"
      BY <1>7, <2>1 DEF RecoverWithSeat, NewSeat, stripe, Status
    <2>3. resv'[r].state = "confirmed"
      BY <1>7 DEF RecoverWithSeat, Reseated, Released, Held
    <2>4. /\ intake[i].state = "paid_needs_booking"
          /\ intake'[i].state = "completed" /\ intake'[i].seat = r
          /\ \A j \in Invoices \ {i} : intake'[j] = intake[j]
      BY <1>2, <1>7 DEF RecoverWithSeat, NewSeat, Intake
    <2> QED
      BY <2>2, <2>3, <2>4 DEF IntakeMoves, IntakeMove
  <1>8. ASSUME NEW i \in Invoices, NEW r \in Reservations, NEW s \in Slots,
               RecoverCut(i, r, s)
        PROVE  IntakeMoves
    <2>1. /\ intake[i].state = "paid_needs_booking"
          /\ intake'[i].state = "pending_payment"
          /\ \A j \in Invoices \ {i} : intake'[j] = intake[j]
      BY <1>2, <1>8 DEF RecoverCut, NewSeat, Intake
    <2> QED
      BY <2>1 DEF IntakeMoves, IntakeMove
  <1> QED
    BY <1>1, <1>3, <1>4, <1>5, <1>6, <1>7, <1>8, NextCases
       DEF vars, TimePasses, OpenOrClose, WebhookCut

\* A checkout is only made for an intake.
LEMMA NewCheckouts ==
  ASSUME TypeOK, StripeInv, IntakeInv, [Next]_vars,
         NEW i \in Invoices, NEW a \in Attempts, Status(i, a)' # "none"
  PROVE  intake[i].state # "none"
  <1>1. CASE Status(i, a) # "none"
    BY <1>1 DEF IntakeInv
  <1>2. CASE UNCHANGED stripe
    BY <1>1, <1>2 DEF stripe, Status
  <1>3. ASSUME NEW j \in Invoices, NEW b \in Attempts, PayIntake(j, b) \/ PayInvoice(j, b)
        PROVE  intake[i].state # "none"
    <2>1. checkout' # checkout => intake[j].state # "none"
      BY <1>3 DEF PayIntake, PayInvoice
    <2>2. i # j => checkout'[i] = checkout[i]
      BY <1>3 DEF PayIntake, PayInvoice, ReserveCheckout, TypeOK, StripeTypeOK
    <2>3. CASE checkout'[i] = checkout[i]
      <3>1. Status(i, a)' = Status(i, a)
        BY <2>3 DEF Status
      <3> QED
        BY <1>1, <3>1
    <2>4. CASE checkout'[i] # checkout[i]
      BY <2>1, <2>2, <2>4
    <2> QED
      BY <2>3, <2>4
  <1>4. ASSUME NEW j \in Invoices, NEW b \in Attempts, AnswerStored(j, b)
        PROVE  intake[i].state # "none"
    <2>1. Status(i, a)' = IF i = j /\ a = b THEN "open" ELSE Status(i, a)
      BY <1>4, Answering
    <2>2. Status(j, b) = "initiated"
      BY <1>4 DEF AnswerStored
    <2>3. Status(i, a) # "none"
      BY <2>1, <2>2
    <2> QED
      BY <1>1, <2>3
  <1>5. ASSUME NEW j \in Invoices, NEW b \in Attempts, Provider(j, b)
        PROVE  intake[i].state # "none"
    BY <1>1, <1>5
       DEF Provider, Creates, PaysByCard, PaysByBank, DebitEnds, SessionEnds, Reports, Status
  <1>6. ASSUME NEW e \in Events, Webhook(e) \/ WebhookCut(e)
        PROVE  intake[i].state # "none"
    <2>1. Process(e) /\ e \in events
      BY <1>6 DEF Webhook, WebhookCut, Process
    <2>2. Status(e[1], e[2]) # "none"
      BY <2>1, OutcomeIsTold
    <2>3. Status(i, a)' = IF i = e[1] /\ a = e[2] THEN Outcome(e) ELSE Status(i, a)
      BY <2>1, Processing
    <2>4. Status(i, a) # "none"
      BY <2>2, <2>3
    <2> QED
      BY <1>1, <2>4
  <1> QED
    BY <1>2, <1>3, <1>4, <1>5, <1>6, NextCases
       DEF vars, TimePasses, OpenOrClose, Begin, Recover, Forget, RecoverWithSeat,
           RecoverCut, NewSeat

LEMMA IntakeInvKept ==
  ASSUME TypeOK, StripeInv, IntakeInv, [Next]_vars
  PROVE  IntakeInv'
  <1>1. StripeStep /\ ResvStep /\ IntakeMoves
    BY StripeSteps, SeatSteps, IntakesMove
  <1> SUFFICES ASSUME NEW i \in Invoices
               PROVE  /\ \A a \in Attempts : Status(i, a)' # "none" => intake'[i].state # "none"
                      /\ intake'[i].state \in PaidStates => Paid(i)'
                      /\ GaveUp(i)' => \E a \in Attempts :
                            Status(i, a)' \in {"failed", "expired", "complete"}
                      /\ intake'[i].state = "completed" /\ intake'[i].seat # NoSeat
                            => resv'[intake'[i].seat].state \in Final
    BY DEF IntakeInv, SeatOf
  <1>2. /\ \A a \in Attempts : Status(i, a)' # "none" => intake[i].state # "none"
        /\ intake[i].state \in PaidStates => Paid(i)'
        /\ GaveUp(i) => \E a \in Attempts :
              Status(i, a)' \in {"failed", "expired", "complete"}
    BY <1>1, NewCheckouts, SettledStays DEF IntakeInv, Paid
  <1>3. intake[i].state = "completed" /\ intake[i].seat # NoSeat
           => resv'[intake[i].seat].state \in Final
    BY <1>1, FinalStays DEF IntakeInv, SeatOf, TypeOK, Intake
  <1>4. CASE intake'[i] = intake[i]
    BY <1>2, <1>3, <1>4 DEF GaveUp
  <1>5. CASE IntakeMove(i)
    BY <1>2, <1>5 DEF IntakeMove, GaveUp, PaidStates, Paid, Final
  <1> QED
    BY <1>1, <1>4, <1>5 DEF IntakeMoves

LEMMA IntakesHold == Spec => []IntakeInv
  <1>1. Init => IntakeInv
    BY DEF Init, StripeInit, IntakeInv, Status, NoCheckout, NoIntake, PaidStates, GaveUp
  <1>2. TypeOK /\ StripeInv /\ IntakeInv /\ [Next]_vars => IntakeInv'
    BY IntakeInvKept
  <1> QED
    BY <1>1, <1>2, TypesHold, PaymentsHold, PTL DEF Spec

\* An intake says "paid" only of a newest checkout that was paid, and a response
\* has its seat.
THEOREM PaidMeansPaid == Spec => []PaidIsTrue
  <1>1. ASSUME TypeOK, StripeInv, IntakeInv
        PROVE  PaidIsTrue
    <2>1. ASSUME NEW i \in Invoices, intake[i].state \in PaidStates
          PROVE  \E a \in Attempts : IsNewest(i, a) /\ session[i][a] = "paid"
      <3>1. PICK a \in Attempts : Status(i, a) = "complete"
        BY <1>1, <2>1 DEF IntakeInv, Paid
      <3>2. session[i][a] = "paid"
        BY <1>1, <3>1 DEF StripeInv, Told
      <3>3. \A b \in Attempts : b > a => Status(i, b) = "none"
        BY <1>1, <3>1 DEF StripeInv, Superseded, Attempts
      <3> QED
        BY <3>1, <3>2, <3>3 DEF IsNewest
    <2> QED
      BY <1>1, <2>1 DEF PaidIsTrue, IntakeInv, Final
  <1> QED
    BY <1>1, TypesHold, PaymentsHold, IntakesHold, PTL

-----------------------------------------------------------------------------
(* The response limit *)

Placed == {i \in Answered \cup Keeping : ~Revived(i)}

LEMMA PlacesFinite ==
  /\ IsFiniteSet(Answered) /\ IsFiniteSet(Keeping) /\ IsFiniteSet(Placed)
  /\ Cardinality(Placed) <= Cardinality(Answered) + Cardinality(Keeping)
  /\ Cardinality(Answered) \in Nat /\ Cardinality(Keeping) \in Nat
  /\ Cardinality(Placed) \in Nat
  <1>1. IsFiniteSet(Answered) /\ IsFiniteSet(Keeping)
    BY FormAssumption, FS_Subset DEF Answered, Keeping
  <1>2. IsFiniteSet(Answered \cup Keeping) /\ IsFiniteSet(Answered \cap Keeping)
    BY <1>1, FS_Union, FS_Subset
  <1>3. Cardinality(Answered \cup Keeping) =
          Cardinality(Answered) + Cardinality(Keeping) - Cardinality(Answered \cap Keeping)
    BY <1>1, FS_Union
  <1>4. Placed \subseteq Answered \cup Keeping
    BY DEF Placed
  <1>5. IsFiniteSet(Placed) /\ Cardinality(Placed) <= Cardinality(Answered \cup Keeping)
    BY <1>2, <1>4, FS_Subset
  <1>6. /\ Cardinality(Answered) \in Nat /\ Cardinality(Keeping) \in Nat
        /\ Cardinality(Placed) \in Nat /\ Cardinality(Answered \cap Keeping) \in Nat
        /\ Cardinality(Answered \cup Keeping) \in Nat
    BY <1>1, <1>2, <1>5, FS_CardinalityType
  <1> QED
    BY <1>1, <1>3, <1>5, <1>6

\* Who comes to a place without asking has been revived.
LEMMA PlacesTaken ==
  ASSUME TypeOK, StripeInv, StripeInv', IntakeInv, [Next]_vars
  PROVE  Placed' \subseteq Placed \/ (PlaceLeft /\ \E i : Placed' \subseteq Placed \cup {i})
  <1>1. StripeStep /\ IntakeMoves
    BY StripeSteps, IntakesMove
  <1>2. \A j \in Invoices : Revived(j) => Revived(j)'
    BY <1>1, SettledStays DEF Revived
  <1>3. ASSUME NEW j \in Invoices, intake'[j].state = intake[j].state, j \in Placed'
        PROVE  j \in Placed
    BY <1>2, <1>3 DEF Placed, Answered, Keeping
  <1>4. CASE UNCHANGED intake
    BY <1>3, <1>4 DEF Placed, Answered, Keeping
  <1>5. ASSUME NEW i \in Invoices, IntakeMove(i),
               \A j \in Invoices \ {i} : intake'[j] = intake[j]
        PROVE  Placed' \subseteq Placed \/ (PlaceLeft /\ Placed' \subseteq Placed \cup {i})
    <2>1. Placed' \subseteq Placed \cup {i}
      BY <1>3, <1>5 DEF Placed, Answered, Keeping
    <2>2. CASE PlaceLeft
      BY <2>1, <2>2
    <2>3. CASE i \notin Placed' \/ i \in Placed
      BY <2>1, <2>3
    <2>4. ASSUME ~PlaceLeft, i \in Placed', i \notin Placed
          PROVE  FALSE
      <3>1. ~Revived(i)' /\ ~Revived(i)
        BY <1>2, <2>4 DEF Placed
      <3>2. intake[i].state \notin
              {"completed", "pending_payment", "processing", "paid_needs_booking"}
        BY <2>4, <3>1 DEF Placed, Answered, Keeping
      <3>3. intake'[i].state \in
              {"completed", "pending_payment", "processing", "paid_needs_booking"}
        BY <2>4 DEF Placed, Answered, Keeping
      <3>4. /\ intake[i].state \in {"expired", "failed", "paid_needs_capacity"}
            /\ intake'[i].state = "processing"
            /\ \E a \in Attempts : Status(i, a)' = "processing"
        BY <1>5, <2>4, <3>2, <3>3 DEF IntakeMove, TypeOK, Intake, States, Closed, GaveUp, PaidStates
      <3>5. PICK a \in Attempts : Status(i, a)' = "processing"
        BY <3>4
      <3>6. PICK b \in Attempts : Status(i, b) \in {"failed", "expired", "complete"}
        BY <3>4 DEF IntakeInv, GaveUp
      <3>7. Status(i, b)' \in {"failed", "expired", "complete"}
        BY <1>1, <3>6, SettledStays
      <3>8. b < a
        BY <3>5, <3>7 DEF StripeInv, Superseded, Attempts
      <3>9. <<i, a, "unpaid">> \in events'
        BY <3>5 DEF StripeInv, Told
      <3> QED
        BY <3>1, <3>8, <3>9 DEF Revived, Attempts
    <2> QED
      BY <2>2, <2>3, <2>4
  <1> QED
    BY <1>1, <1>4, <1>5 DEF IntakeMoves

\* The response limit holds, but for the revived.
THEOREM LimitIsKept == Spec => []PlacesWithinLimit
  <1> DEFINE Within == Cardinality(Placed) <= Limit
  <1>1. Init => Within
    <2> SUFFICES ASSUME Init PROVE Within
      OBVIOUS
    <2>1. Placed = {}
      BY DEF Init, NoIntake, Placed, Answered, Keeping
    <2> QED
      BY <2>1, FS_EmptySet, FormAssumption
  <1>2. ASSUME TypeOK, StripeInv, StripeInv', IntakeInv, [Next]_vars, Within
        PROVE  Within'
    <2>1. IsFiniteSet(Placed) /\ Cardinality(Placed) \in Nat /\ Limit \in Nat
      BY PlacesFinite, FormAssumption
    <2>2. CASE Placed' \subseteq Placed
      <3>1. Cardinality(Placed') <= Cardinality(Placed) /\ Cardinality(Placed') \in Nat
        BY <2>1, <2>2, FS_Subset, FS_CardinalityType
      <3> QED
        BY <1>2, <2>1, <3>1
    <2>3. ASSUME PlaceLeft, NEW i, Placed' \subseteq Placed \cup {i}
          PROVE  Within'
      <3>1. Cardinality(Placed) < Limit
        BY <2>1, <2>3, PlacesFinite DEF PlaceLeft
      <3>2. IsFiniteSet(Placed \cup {i}) /\ Cardinality(Placed \cup {i}) \in Nat
        BY <2>1, FS_AddElement, FS_CardinalityType
      <3>3. Cardinality(Placed \cup {i}) <= Cardinality(Placed) + 1
        BY <2>1, FS_AddElement
      <3>4. Cardinality(Placed') <= Cardinality(Placed \cup {i}) /\ Cardinality(Placed') \in Nat
        BY <2>3, <3>2, FS_Subset, FS_CardinalityType
      <3> QED
        BY <2>1, <3>1, <3>2, <3>3, <3>4
    <2> QED
      BY <1>2, <2>2, <2>3, PlacesTaken
  <1>3. Within => PlacesWithinLimit
    BY DEF PlacesWithinLimit, Placed
  <1> QED
    BY <1>1, <1>2, <1>3, TypesHold, PaymentsHold, IntakesHold, PTL DEF Spec

-----------------------------------------------------------------------------
(* The seats *)

NoSeatMore ==
    /\ Busy({})' \subseteq Busy({})
    /\ \A q \in Busy({})' : resv'[q].slot = resv[q].slot

\* One row gets a seat that was offered to it.
OneSeatMore(r, s, own) ==
    /\ own \subseteq {r} /\ Offered(s, own)
    /\ Busy({})' \subseteq Busy(own) \cup {r}
    /\ \A q \in Busy({})' \ {r} : resv'[q].slot = resv[q].slot
    /\ resv'[r].slot = s

SeatStep ==
    \/ NoSeatMore
    \/ \E r \in Reservations, s \in Slots : \E own : OneSeatMore(r, s, own)

\* Of a row nobody changed only the hold can run out.
LEMMA OnlyTimePasses ==
  ASSUME TypeOK, now' >= now, now' \in 0..MaxTime, NEW q \in Reservations,
         resv'[q] = resv[q], q \in Busy({})'
  PROVE  q \in Busy({})
  <1>1. resv[q].expires \in Int /\ now \in Int /\ now' \in Int
    BY TimeAssumption DEF TypeOK, BookingTypeOK, Reservation
  <1> QED
    BY <1>1 DEF Busy, HoldLasts

LEMMA SeatsMove ==
  ASSUME TypeOK, ResvStep, now' >= now, now' \in 0..MaxTime
  PROVE  SeatStep
  <1>1. resv \in [Reservations -> Reservation] /\ resv' \in [Reservations -> Reservation]
    BY ResvTyped DEF TypeOK, BookingTypeOK
  <1>2. Busy({})' \subseteq Reservations
    BY DEF Busy
  <1>3. ASSUME \A q \in Reservations : resv'[q] = resv[q] \/ q \notin Busy({})'
        PROVE  SeatStep
    BY <1>2, <1>3, OnlyTimePasses DEF SeatStep, NoSeatMore
  <1>4. ASSUME NEW r \in Reservations, NEW s \in Slots, NEW own,
               own \subseteq {r}, Offered(s, own), resv'[r].slot = s,
               \A q \in Reservations \ {r} : resv'[q] = resv[q] \/ q \notin Busy({})'
        PROVE  SeatStep
    <2>1. \A q \in Busy({})' \ {r} : q \in Busy({}) /\ resv'[q] = resv[q]
      BY <1>2, <1>4, OnlyTimePasses
    <2>2. \A q \in Busy({}) \ {r} : q \in Busy(own)
      BY <1>4 DEF Busy
    <2>3. OneSeatMore(r, s, own)
      BY <1>4, <2>1, <2>2 DEF OneSeatMore
    <2> QED
      BY <2>3 DEF SeatStep
  <1>5. CASE UNCHANGED resv
    BY <1>3, <1>5
  <1>6. ASSUME NEW r \in Reservations, NEW s \in Slots, NEW row \in Reservation,
               Takes(r, s, row), resv' = [resv EXCEPT ![r] = row]
        PROVE  SeatStep
    <2>1. Offered(s, {}) /\ resv'[r].slot = s
      BY <1>1, <1>6 DEF Takes, CanReserve
    <2>2. \A q \in Reservations \ {r} : resv'[q] = resv[q]
      BY <1>1, <1>6
    <2> QED
      BY <1>4, <2>1, <2>2
  <1>7. ASSUME NEW r \in Reservations, NEW s \in Slots, Move(r, s)
        PROVE  SeatStep
    <2>1. Offered(s, {r}) /\ resv'[r].slot = s
      BY <1>1, <1>7 DEF Move, Reservation
    <2>2. \A q \in Reservations \ {r} : resv'[q] = resv[q]
      BY <1>1, <1>7 DEF Move
    <2> QED
      BY <1>4, <2>1, <2>2
  <1>8. ASSUME NEW r \in Reservations, Cancel(r)
        PROVE  SeatStep
    <2>1. resv'[r].state = "cancelled"
      BY <1>1, <1>8 DEF Cancel, Reservation
    <2>2. r \notin Busy({})'
      BY <2>1 DEF Busy, HoldLasts
    <2>3. \A q \in Reservations \ {r} : resv'[q] = resv[q]
      BY <1>1, <1>8 DEF Cancel
    <2> QED
      BY <1>3, <2>2, <2>3
  <1>9. ASSUME NEW own, resv' = Released(own)
        PROVE  SeatStep
    <2>1. \A q \in Reservations : resv'[q] = resv[q] \/ resv'[q].state = "expired"
      BY <1>1, <1>9 DEF Released, Reservation
    <2>2. \A q \in Reservations : resv'[q].state = "expired" => q \notin Busy({})'
      BY DEF Busy, HoldLasts
    <2> QED
      BY <1>3, <2>1, <2>2
  <1>10. ASSUME NEW r \in Reservations, CanConfirm(r), resv' = Confirmed(r)
         PROVE  SeatStep
    <2>1. r \in Busy({}) /\ resv'[r].slot = resv[r].slot
      BY <1>1, <1>10 DEF CanConfirm, Busy, Confirmed, Reservation
    <2>2. \A q \in Reservations \ {r} : resv'[q] = resv[q]
      BY <1>1, <1>10 DEF Confirmed
    <2> QED
      BY <1>2, <2>1, <2>2, OnlyTimePasses DEF SeatStep, NoSeatMore
  <1>11. ASSUME NEW own, NEW r \in Reservations, NEW s \in Slots, NEW row \in Reservation,
                Takes(r, s, row), resv' = Swapped(own, r, row)
         PROVE  SeatStep
    <2>1. Offered(s, {}) /\ resv'[r].slot = s
      BY <1>1, <1>11 DEF Takes, CanReserve, Swapped, Released
    <2>2. \A q \in Reservations \ {r} : resv'[q] = Released(own)[q]
      BY <1>11 DEF Swapped, Released
    <2>3. \A q \in Reservations : Released(own)[q] = resv[q] \/ Released(own)[q].state = "expired"
      BY <1>1 DEF Released, Reservation
    <2>4. \A q \in Reservations : resv'[q].state = "expired" => q \notin Busy({})'
      BY DEF Busy, HoldLasts
    <2> QED
      BY <1>4, <2>1, <2>2, <2>3, <2>4
  <1> QED
    BY <1>5, <1>6, <1>7, <1>8, <1>9, <1>10, <1>11 DEF ResvStep

LEMMA ClashingIsSymmetric ==
  ASSUME NEW s, NEW t, Overlaps(s, t)
  PROVE  s # t /\ Overlaps(t, s)
  BY SlotsAssumption DEF Overlaps

LEMMA SeatedFinite ==
  ASSUME NEW s, NEW own
  PROVE  IsFiniteSet(Seated(s, own)) /\ Cardinality(Seated(s, own)) \in Nat
  <1>1. IsFiniteSet(Reservations)
    BY SeatsAssumption, FS_Interval DEF Reservations
  <1>2. Seated(s, own) \subseteq Reservations
    BY DEF Seated, Busy
  <1> QED
    BY <1>1, <1>2, FS_Subset, FS_CardinalityType

LEMMA SeatsKept ==
  ASSUME SeatsWithinCapacity, SeatStep
  PROVE  SeatsWithinCapacity'
  <1>1. Capacity \in Nat
    BY SeatsAssumption
  <1>2. ASSUME NEW t \in Slots, Seated(t, {})' \subseteq Seated(t, {})
        PROVE  Cardinality(Seated(t, {})') <= Capacity
    <2>1. Cardinality(Seated(t, {})') <= Cardinality(Seated(t, {}))
      BY <1>2, SeatedFinite, FS_Subset
    <2>2. IsFiniteSet(Seated(t, {})')
      BY <1>2, SeatedFinite, FS_Subset
    <2>3. Cardinality(Seated(t, {})') \in Nat
      BY <2>2, FS_CardinalityType
    <2>4. Cardinality(Seated(t, {})) <= Capacity /\ Cardinality(Seated(t, {})) \in Nat
      BY SeatedFinite DEF SeatsWithinCapacity
    <2> QED
      BY <1>1, <2>1, <2>3, <2>4
  <1>3. CASE NoSeatMore
    <2>1. \A t \in Slots : Seated(t, {})' \subseteq Seated(t, {})
      BY <1>3 DEF NoSeatMore, Seated
    <2> QED
      BY <1>2, <1>3, <2>1 DEF NoSeatMore, SeatsWithinCapacity
  <1>4. ASSUME NEW r \in Reservations, NEW s \in Slots, NEW own, OneSeatMore(r, s, own)
        PROVE  SeatsWithinCapacity'
    <2>1. Busy(own) \subseteq Busy({})
      BY DEF Busy
    <2>2. ASSUME NEW t \in Slots
          PROVE  Cardinality(Seated(t, {})') <= Capacity
      <3>1. CASE t # s
        <4>1. Seated(t, {})' \subseteq Seated(t, {})
          BY <1>4, <2>1, <3>1 DEF OneSeatMore, Seated
        <4> QED
          BY <1>2, <4>1
      <3>2. CASE t = s
        <4> DEFINE before == Seated(s, own)
        <4>1. Seated(t, {})' \subseteq before \cup {r}
          BY <1>4, <3>2 DEF OneSeatMore, Seated
        <4>2. IsFiniteSet(before) /\ Cardinality(before) \in Nat /\ Cardinality(before) < Capacity
          BY <1>4, SeatedFinite DEF OneSeatMore, Offered
        <4> HIDE DEF before
        <4>3. /\ IsFiniteSet(before \cup {r})
              /\ Cardinality(before \cup {r}) <= Cardinality(before) + 1
          <5>1. /\ IsFiniteSet(before \cup {r})
                /\ \/ Cardinality(before \cup {r}) = Cardinality(before)
                   \/ Cardinality(before \cup {r}) = Cardinality(before) + 1
            BY <4>2, FS_AddElement
          <5> QED
            BY <4>2, <5>1
        <4>4. /\ IsFiniteSet(Seated(t, {})')
              /\ Cardinality(Seated(t, {})') <= Cardinality(before \cup {r})
          BY <4>1, <4>3, FS_Subset
        <4>5. Cardinality(before \cup {r}) \in Nat /\ Cardinality(Seated(t, {})') \in Nat
          BY <4>3, <4>4, FS_CardinalityType
        <4> QED
          BY <1>1, <4>2, <4>3, <4>4, <4>5
      <3> QED
        BY <3>1, <3>2
    <2>3. ASSUME NEW p \in Busy({})', NEW q \in Busy({})',
                 Overlaps(resv'[p].slot, resv'[q].slot)
          PROVE  FALSE
      <3>1. Overlaps(resv'[q].slot, resv'[p].slot) /\ resv'[p].slot # resv'[q].slot
        BY <2>3, ClashingIsSymmetric
      <3>2. ASSUME NEW u \in Busy({})', u # r
            PROVE  /\ u \in Busy(own) /\ resv'[u].slot = resv[u].slot
                   /\ ~Overlaps(resv[u].slot, s)
        BY <1>4, <3>2 DEF OneSeatMore, Offered
      <3>3. CASE p # r /\ q # r
        BY <2>1, <2>3, <3>2, <3>3 DEF SeatsWithinCapacity
      <3>4. CASE p # r /\ q = r
        BY <1>4, <2>3, <3>2, <3>4 DEF OneSeatMore
      <3>5. CASE p = r /\ q # r
        BY <1>4, <3>1, <3>2, <3>5 DEF OneSeatMore
      <3>6. CASE p = r /\ q = r
        BY <3>1, <3>6
      <3> QED
        BY <3>3, <3>4, <3>5, <3>6
    <2> QED
      BY <2>2, <2>3 DEF SeatsWithinCapacity
  <1> QED
    BY <1>3, <1>4 DEF SeatStep

\* No slot has more customers than seats, and no two that overlap have one each.
THEOREM SeatsAreKept == Spec => []SeatsWithinCapacity
  <1>1. Init => SeatsWithinCapacity
    <2> SUFFICES ASSUME Init PROVE SeatsWithinCapacity
      OBVIOUS
    <2>1. Busy({}) = {}
      BY DEF Init, BookingInit, NoReservation, Busy, HoldLasts
    <2>2. \A s \in Slots : Seated(s, {}) = {}
      BY <2>1 DEF Seated
    <2>3. Cardinality({}) = 0
      BY FS_EmptySet
    <2> QED
      BY <2>1, <2>2, <2>3, SeatsAssumption DEF SeatsWithinCapacity
  <1>2. ASSUME TypeOK, [Next]_vars, SeatsWithinCapacity
        PROVE  SeatsWithinCapacity'
    BY <1>2, ClockSteps, SeatSteps, SeatsMove, SeatsKept
  <1> QED
    BY <1>1, <1>2, TypesHold, PTL DEF Spec

-----------------------------------------------------------------------------
(* The contract of the seats *)

\* A row that was ever made has a slot.
SlotsKnown ==
    \A r \in Reservations : resv[r].state # "none" => resv[r].slot \in Slots

\* The seats of a transaction change at one moment.
LEMMA OneMoment ==
  ASSUME [Next]_vars
  PROVE  now' = now \/ UNCHANGED resv
  BY NextCases
     DEF vars, bookings, TimePasses, OpenOrClose, Begin, Webhook, WebhookCut, Recover, Forget,
         RecoverWithSeat, RecoverCut, NewSeat

LEMMA SlotsKnownStep ==
  ASSUME TypeOK, SlotsKnown, ResvStep
  PROVE  SlotsKnown'
  <1>1. resv \in [Reservations -> Reservation]
    BY DEF TypeOK, BookingTypeOK
  <1> SUFFICES ASSUME NEW q \in Reservations, resv'[q].state # "none"
               PROVE  resv'[q].slot \in Slots
    BY DEF SlotsKnown
  <1>2. resv[q] \in Reservation /\ (resv[q].state # "none" => resv[q].slot \in Slots)
    BY <1>1 DEF SlotsKnown
  <1>3. CASE UNCHANGED resv
    BY <1>2, <1>3
  <1>4. ASSUME NEW r \in Reservations, NEW s \in Slots, NEW row \in Reservation,
               Takes(r, s, row), resv' = [resv EXCEPT ![r] = row]
        PROVE  resv'[q].slot \in Slots
    BY <1>1, <1>2, <1>4 DEF Takes
  <1>5. ASSUME NEW r \in Reservations, NEW s \in Slots, Move(r, s)
        PROVE  resv'[q].slot \in Slots
    BY <1>1, <1>2, <1>5 DEF Move, Reservation
  <1>6. ASSUME NEW r \in Reservations, Cancel(r)
        PROVE  resv'[q].slot \in Slots
    BY <1>1, <1>2, <1>6 DEF Cancel, Reservation
  <1>7. ASSUME NEW own
        PROVE  Released(own)[q].state # "none" => Released(own)[q].slot \in Slots
    BY <1>2 DEF Released, Reservation
  <1>8. ASSUME NEW own, resv' = Released(own)
        PROVE  resv'[q].slot \in Slots
    BY <1>7, <1>8
  <1>9. ASSUME NEW r \in Reservations, CanConfirm(r), resv' = Confirmed(r)
        PROVE  resv'[q].slot \in Slots
    BY <1>1, <1>2, <1>9 DEF Confirmed, CanConfirm, HoldLasts, Reservation
  <1>10. ASSUME NEW own, NEW r \in Reservations, NEW s \in Slots, NEW row \in Reservation,
                Takes(r, s, row), resv' = Swapped(own, r, row)
         PROVE  resv'[q].slot \in Slots
    <2>1. resv'[q] = IF q = r THEN row ELSE Released(own)[q]
      BY <1>10 DEF Swapped, Released
    <2> QED
      BY <1>7, <1>10, <2>1 DEF Takes
  <1> QED
    BY <1>3, <1>4, <1>5, <1>6, <1>8, <1>9, <1>10 DEF ResvStep

\* The contract's seats are the busy rows.
LEMMA SeatBarIs ==
  ASSUME SlotsKnown, SlotsAssumption, NEW q \in Reservations
  PROVE  /\ seatBar[q] = IF q \in Busy({}) THEN resv[q].slot ELSE NoSlot
         /\ seatBar[q] # NoSlot <=> q \in Busy({})
         /\ q \in firmBar <=> resv[q].state = "confirmed"
  BY DEF seatBar, firmBar, SlotsKnown, Busy, HoldLasts

\* An offer for r counts the seats of the others.
LEMMA OfferIsFree ==
  ASSUME TypeOK, SlotsKnown, NEW r \in Reservations, NEW s \in Slots, NEW own,
         own = {r} \/ (own = {} /\ r \notin Busy({})), Offered(s, own)
  PROVE  SeatPromise!Free(r, s)
  <1>1. Busy(own) = SeatPromise!Others(r)
    <2>1. \A q \in Reservations : q \in Busy(own) <=> q \in Busy({}) /\ q # r
      BY DEF Busy
    <2>2. \A q \in Reservations : seatBar[q] # NoSlot <=> q \in Busy({})
      BY SeatBarIs, SlotsAssumption
    <2>3. Busy(own) \subseteq Reservations
      BY DEF Busy
    <2> QED
      BY <2>1, <2>2, <2>3 DEF SeatPromise!Others
  <1>2. \A q \in Busy(own) : seatBar[q] = resv[q].slot
    BY SeatBarIs, SlotsAssumption DEF Busy
  <1>3. {q \in SeatPromise!Others(r) : seatBar[q] = s} = Seated(s, own)
    BY <1>1, <1>2 DEF Seated
  <1>4. \A q \in SeatPromise!Others(r) : <<seatBar[q], s>> \notin Clashing
    BY <1>1, <1>2 DEF Offered, Overlaps
  <1>5. SeatPromise!Cardinality(Seated(s, own)) = Cardinality(Seated(s, own))
    BY DEF SeatPromise!Cardinality, Cardinality
  <1> QED
    BY <1>3, <1>4, <1>5 DEF Offered, SeatPromise!Free

\* A row nobody changed at this moment keeps what it has.
LEMMA RowStays ==
  ASSUME now' = now, NEW q \in Reservations, resv'[q] = resv[q]
  PROVE  /\ q \in Busy({})' <=> q \in Busy({})
         /\ seatBar'[q] = seatBar[q]
         /\ q \in firmBar' <=> q \in firmBar
  BY DEF Busy, HoldLasts, seatBar, firmBar

\* Rows that stop counting, and no other change: seats kept aside lapse.
LEMMA SeatsLapse ==
  ASSUME TypeOK, SlotsKnown,
         \A q \in Reservations :
            /\ q \in Busy({})' => q \in Busy({}) /\ resv'[q].slot = resv[q].slot
            /\ resv'[q].state = "confirmed" <=> resv[q].state = "confirmed"
  PROVE  SeatPromise!Next
  <1> DEFINE gone == {q \in Reservations : q \in Busy({}) /\ q \notin Busy({})'}
  <1>1. firmBar' = firmBar
    BY DEF firmBar
  <1>2. ASSUME NEW q \in gone PROVE q \in SeatPromise!Aside
    <2>1. q \in Reservations /\ q \in Busy({}) /\ resv[q].state # "confirmed"
      BY <1>2 DEF Busy
    <2> QED
      BY <2>1, SeatBarIs, SlotsAssumption DEF SeatPromise!Aside
  <1>3. seatBar' = SeatPromise!Without(gone)
    BY DEF seatBar, SeatPromise!Without
  <1> HIDE DEF gone
  <1>4. gone \in SUBSET SeatPromise!Aside /\ SeatPromise!Lapse(gone)
    BY <1>1, <1>2, <1>3 DEF SeatPromise!Lapse
  <1> QED
    BY <1>4 DEF SeatPromise!Next

\* A new row gets what was offered; another one may be given back for it.
LEMMA SeatIsTaken ==
  ASSUME TypeOK, SlotsKnown, now' = now, NEW r \in Reservations, NEW s \in Slots,
         CanReserve(r, s), resv'[r].slot = s, resv'[r].state \in {"held", "confirmed"},
         \A q \in Reservations \ {r} :
            \/ resv'[q] = resv[q]
            \/ resv[q].state = "held" /\ resv'[q].state = "expired"
  PROVE  SeatPromise!Next
  <1> DEFINE gone == {q \in Reservations : q \in Busy({}) /\ q \notin Busy({})'}
  <1>1. resv[r].state = "none" /\ Offered(s, {}) /\ r \notin Busy({}) /\ r \notin firmBar
    BY DEF CanReserve, IsNew, Busy, HoldLasts, firmBar
  <1>2. ASSUME NEW q \in Reservations, q # r
        PROVE  /\ q \in Busy({})' => q \in Busy({}) /\ resv'[q].slot = resv[q].slot
               /\ q \in firmBar' <=> q \in firmBar
    <2>1. CASE resv'[q] = resv[q]
      BY <1>2, <2>1, RowStays
    <2>2. CASE resv[q].state = "held" /\ resv'[q].state = "expired"
      BY <2>2 DEF Busy, HoldLasts, firmBar
    <2> QED
      BY <1>2, <2>1, <2>2
  <1>3. CASE r \notin Busy({})'
    <2>1. \A q \in Reservations :
            /\ q \in Busy({})' => q \in Busy({}) /\ resv'[q].slot = resv[q].slot
            /\ resv'[q].state = "confirmed" <=> resv[q].state = "confirmed"
      BY <1>1, <1>2, <1>3 DEF Busy, firmBar
    <2> QED
      BY <2>1, SeatsLapse
  <1>4. CASE r \in Busy({})'
    <2>1. seatBar' = [SeatPromise!Without(gone) EXCEPT ![r] = s]
      BY <1>1, <1>2, <1>4 DEF seatBar, SeatPromise!Without
    <2>2. firmBar' \in {firmBar, firmBar \cup {r}}
      <3>1. firmBar' \subseteq Reservations /\ firmBar \subseteq Reservations
        BY DEF firmBar
      <3> QED
        BY <1>1, <1>2, <3>1
    <2>3. ASSUME NEW q \in gone PROVE q \in SeatPromise!Aside
      <3>1. q \in Reservations /\ q \in Busy({}) /\ q \notin Busy({})' /\ q # r
        BY <1>1, <2>3
      <3>2. resv[q].state # "confirmed"
        BY <1>2, <3>1 DEF Busy, firmBar
      <3> QED
        BY <3>1, <3>2, SeatBarIs, SlotsAssumption DEF SeatPromise!Aside
    <2>4. SeatPromise!Free(r, s) /\ seatBar[r] = NoSlot
      BY <1>1, OfferIsFree DEF seatBar
    <2> HIDE DEF gone
    <2>5. gone \in SUBSET SeatPromise!Aside /\ SeatPromise!Take(r, s, gone)
      BY <2>1, <2>2, <2>3, <2>4 DEF SeatPromise!Take
    <2> QED
      BY <2>5 DEF SeatPromise!Next
  <1> QED
    BY <1>3, <1>4

\* A step on one row that keeps or gets its seat.
LEMMA SeatBarUpdate ==
  ASSUME now' = now, NEW r \in Reservations, NEW to,
         \A q \in Reservations \ {r} : resv'[q] = resv[q],
         seatBar'[r] = to
  PROVE  seatBar' = [seatBar EXCEPT ![r] = to]
  <1>1. \A q \in Reservations \ {r} : seatBar'[q] = seatBar[q]
    BY RowStays
  <1> QED
    BY <1>1 DEF seatBar

LEMMA SeatsSimulate ==
  ASSUME TypeOK, SlotsKnown, ResvStep, now' \in 0..MaxTime, now' >= now,
         now' = now \/ UNCHANGED resv
  PROVE  SeatPromise!Next
  <1>1. resv \in [Reservations -> Reservation]
    BY DEF TypeOK, BookingTypeOK
  <1>2. CASE UNCHANGED resv
    <2>1. \A q \in Reservations : q \in Busy({})' => q \in Busy({})
      BY <1>2, OnlyTimePasses
    <2> QED
      BY <1>2, <2>1, SeatsLapse
  <1>3. ASSUME now' = now, NEW r \in Reservations, NEW s \in Slots, NEW row \in Reservation,
               Takes(r, s, row), resv' = [resv EXCEPT ![r] = row]
        PROVE  SeatPromise!Next
    <2>1. resv'[r] = row /\ \A q \in Reservations \ {r} : resv'[q] = resv[q]
      BY <1>1, <1>3
    <2> QED
      BY <1>3, <2>1, SeatIsTaken DEF Takes
  <1>4. ASSUME now' = now, NEW own, NEW r \in Reservations, NEW s \in Slots,
               NEW row \in Reservation, Takes(r, s, row), resv' = Swapped(own, r, row)
        PROVE  SeatPromise!Next
    <2>1. resv'[r] = row /\ \A q \in Reservations \ {r} : resv'[q] = Released(own)[q]
      BY <1>4 DEF Swapped, Released
    <2>2. \A q \in Reservations :
            \/ Released(own)[q] = resv[q]
            \/ resv[q].state = "held" /\ Released(own)[q].state = "expired"
      BY <1>1 DEF Released, Reservation
    <2> QED
      BY <1>4, <2>1, <2>2, SeatIsTaken DEF Takes
  <1>5. ASSUME now' = now, NEW own, resv' = Released(own)
        PROVE  SeatPromise!Next
    <2>1. \A q \in Reservations :
            \/ resv'[q] = resv[q]
            \/ resv[q].state = "held" /\ resv'[q].state = "expired"
      BY <1>1, <1>5 DEF Released, Reservation
    <2>2. ASSUME NEW q \in Reservations
          PROVE  /\ q \in Busy({})' => q \in Busy({}) /\ resv'[q].slot = resv[q].slot
                 /\ resv'[q].state = "confirmed" <=> resv[q].state = "confirmed"
      <3>1. CASE resv'[q] = resv[q]
        BY <1>5, <3>1, RowStays
      <3>2. CASE resv[q].state = "held" /\ resv'[q].state = "expired"
        BY <3>2 DEF Busy, HoldLasts
      <3> QED
        BY <2>1, <3>1, <3>2
    <2> QED
      BY <2>2, SeatsLapse
  <1>6. ASSUME now' = now, NEW r \in Reservations, CanConfirm(r), resv' = Confirmed(r)
        PROVE  SeatPromise!Next
    <2>1. /\ resv'[r].state = "confirmed" /\ resv'[r].slot = resv[r].slot
          /\ \A q \in Reservations \ {r} : resv'[q] = resv[q]
      BY <1>1, <1>6 DEF Confirmed, Reservation
    <2>2. r \in Busy({}) /\ resv[r].state = "held" /\ r \in Busy({})'
      BY <1>6, <2>1 DEF CanConfirm, Busy, HoldLasts
    <2>3. seatBar'[r] = seatBar[r]
      BY <2>1, <2>2 DEF seatBar
    <2>4. seatBar' = seatBar
      BY <1>6, <2>1, <2>3, SeatBarUpdate DEF seatBar
    <2>5. firmBar' = firmBar \cup {r}
      BY <2>1 DEF firmBar
    <2>6. r \in SeatPromise!Aside
      BY <2>2, SeatBarIs, SlotsAssumption DEF SeatPromise!Aside
    <2>7. SeatPromise!Confirm(r)
      BY <2>4, <2>5, <2>6 DEF SeatPromise!Confirm
    <2> QED
      BY <2>7 DEF SeatPromise!Next
  <1>7. ASSUME now' = now, NEW r \in Reservations, NEW s \in Slots, Move(r, s)
        PROVE  SeatPromise!Next
    <2>1. /\ resv[r].state = "confirmed" /\ Offered(s, {r})
          /\ resv'[r].state = "confirmed" /\ resv'[r].slot = s
          /\ \A q \in Reservations \ {r} : resv'[q] = resv[q]
      BY <1>1, <1>7 DEF Move, Reservation
    <2>2. seatBar'[r] = s
      BY <2>1 DEF seatBar, Busy
    <2>3. seatBar' = [seatBar EXCEPT ![r] = s]
      BY <1>7, <2>1, <2>2, SeatBarUpdate
    <2>4. firmBar' = firmBar /\ r \in firmBar
      BY <2>1 DEF firmBar
    <2>5. SeatPromise!Move(r, s)
      BY <2>1, <2>3, <2>4, OfferIsFree DEF SeatPromise!Move
    <2> QED
      BY <2>5 DEF SeatPromise!Next
  <1>8. ASSUME now' = now, NEW r \in Reservations, Cancel(r)
        PROVE  SeatPromise!Next
    <2>1. /\ resv[r].state = "confirmed" /\ resv'[r].state = "cancelled"
          /\ \A q \in Reservations \ {r} : resv'[q] = resv[q]
      BY <1>1, <1>8 DEF Cancel, Reservation
    <2>2. seatBar'[r] = NoSlot
      BY <2>1 DEF seatBar, Busy, HoldLasts
    <2>3. seatBar' = [seatBar EXCEPT ![r] = NoSlot]
      BY <1>8, <2>1, <2>2, SeatBarUpdate
    <2>4. seatBar' = SeatPromise!Without({r})
      BY <2>3 DEF seatBar, SeatPromise!Without
    <2>5. firmBar' = firmBar \ {r} /\ r \in firmBar
      BY <2>1 DEF firmBar
    <2>6. SeatPromise!Cancel(r)
      BY <2>4, <2>5 DEF SeatPromise!Cancel
    <2> QED
      BY <2>6 DEF SeatPromise!Next
  <1> QED
    BY <1>2, <1>3, <1>4, <1>5, <1>6, <1>7, <1>8 DEF ResvStep

\* The seats of a booking page, also those sold through paid forms, change as
\* the contract of the seats allows.
THEOREM SeatContractKept == Spec => KeepsSeatContract
  <1>1. Init => SlotsKnown
    BY DEF Init, BookingInit, NoReservation, SlotsKnown
  <1>2. TypeOK /\ SlotsKnown /\ [Next]_vars => SlotsKnown'
    BY SeatSteps, SlotsKnownStep
  <1>3. Init => SeatPromise!Init
    BY DEF Init, BookingInit, NoReservation, SeatPromise!Init, seatBar, firmBar, Busy, HoldLasts
  <1>4. TypeOK /\ SlotsKnown /\ [Next]_vars => [SeatPromise!Next]_(SeatPromise!vars)
    BY SeatSteps, ClockSteps, OneMoment, SeatsSimulate
  <1> QED
    BY <1>1, <1>2, <1>3, <1>4, TypesHold, PTL DEF Spec, KeepsSeatContract
-----------------------------------------------------------------------------
(* The contract of the charges *)

\* How far a customer has come whose session is in a state.
Stage(state) ==
    IF state \in {"none", "open"} THEN "offered"
    ELSE IF state = "unpaid" THEN "debited" ELSE "paid"

MoneyIsStage ==
    \A i \in Invoices :
       /\ (\A a \in Attempts : ~MayCharge(i, a)) => MoneyOf(i) = "none"
       /\ \A a \in Attempts : MayCharge(i, a) => MoneyOf(i) = Stage(session[i][a])

LEMMA MoneyIs == StripeInv => MoneyIsStage
  <1> SUFFICES ASSUME StripeInv, NEW i \in Invoices
               PROVE  /\ (\A a \in Attempts : ~MayCharge(i, a)) => MoneyOf(i) = "none"
                      /\ \A a \in Attempts :
                            MayCharge(i, a) => MoneyOf(i) = Stage(session[i][a])
    BY DEF MoneyIsStage
  <1>1. ASSUME \A a \in Attempts : ~MayCharge(i, a)
        PROVE  MoneyOf(i) = "none"
    <2>1. Ways(i) = {}
      BY <1>1 DEF Ways
    <2>2. \A states : ~WayIn(i, states)
      BY <2>1 DEF WayIn
    <2>3. ~(Cardinality(Ways(i)) > 1)
      BY <2>1, FS_EmptySet
    <2> QED
      BY <2>1, <2>2, <2>3 DEF MoneyOf
  <1>2. ASSUME NEW a \in Attempts, MayCharge(i, a)
        PROVE  MoneyOf(i) = Stage(session[i][a])
    <2>1. Ways(i) = {a}
      BY <1>2, AtMostOneWay DEF Ways, OneCharge
    <2>2. \A states : WayIn(i, states) <=> session[i][a] \in states
      BY <2>1 DEF WayIn
    <2>3. Ways(i) # {} /\ ~(Cardinality(Ways(i)) > 1)
      BY <2>1, FS_Singleton
    <2>4. session[i][a] \in {"none", "open", "unpaid", "paid"}
      BY <1>2 DEF MayCharge
    <2> QED
      BY <2>2, <2>3, <2>4 DEF MoneyOf, Stage
  <1> QED
    BY <1>1, <1>2

LEMMA MoneyStays ==
  ASSUME NEW j \in Invoices,
         \A b \in Attempts :
            /\ session'[j][b] = session[j][b]
            /\ Status(j, b)' = "none" <=> Status(j, b) = "none"
  PROVE  MoneyOf(j)' = MoneyOf(j)
  <1>1. \A b \in Attempts : MayCharge(j, b)' <=> MayCharge(j, b)
    BY DEF MayCharge
  <1>2. Ways(j)' = Ways(j)
    BY <1>1 DEF Ways
  <1>3. \A states : WayIn(j, states)' <=> WayIn(j, states)
    BY <1>2 DEF WayIn
  <1> QED
    BY <1>2, <1>3 DEF MoneyOf

LEMMA MoneyUpdate ==
  ASSUME NEW i \in Invoices, NEW stage, MoneyOf(i)' = stage,
         \A j \in Invoices : j # i => MoneyOf(j)' = MoneyOf(j)
  PROVE  moneyBar' = [moneyBar EXCEPT ![i] = stage]
  BY DEF moneyBar

\* What the server knows and what it made of it, when the provider acts.
LEMMA KnownStays ==
  ASSUME \A j \in Invoices, b \in Attempts :
            Status(j, b)' = "complete" <=> Status(j, b) = "complete"
  PROVE  knownBar' = knownBar
  BY DEF knownBar, Paid

LEMMA ReservingOffers ==
  ASSUME TypeOK, StripeInv, StripeInv', NEW i \in Invoices, NEW a \in Attempts,
         NEW d \in Nat, NEW c \in BOOLEAN, ReserveCheckout(i, a, d, c), UNCHANGED Answered
  PROVE  ChargePromise!Offer(i)
  <1>1. /\ \A j \in Invoices, b \in Attempts :
              Status(j, b)' = IF j = i /\ b = a THEN "initiated" ELSE Status(j, b)
        /\ session' = session
    BY Reserving DEF ReserveCheckout
  <1>2. ~Paid(i) /\ (\A b \in Attempts : ~Pending(i, b)) /\ Status(i, a) = "none"
    BY DEF ReserveCheckout, IsNext
  <1>3. \A b \in Attempts : ~MayCharge(i, b)
    <2> SUFFICES ASSUME NEW b \in Attempts
                 PROVE  ~MayCharge(i, b)
      OBVIOUS
    <2>1. Status(i, b) \in {"none", "failed", "expired"}
      BY <1>2 DEF Paid, Pending, TypeOK, StripeTypeOK, Status, Checkout, Statuses
    <2>2. Told(i, b)
      BY DEF StripeInv
    <2> QED
      BY <2>1, <2>2 DEF Told, MayCharge
  <1>0. MoneyIsStage /\ MoneyIsStage'
    BY MoneyIs, PTL
  <1>4. MoneyOf(i) = "none"
    BY <1>0, <1>3 DEF MoneyIsStage
  <1>5. session[i][a] = "none"
    BY <1>2 DEF StripeInv, Told
  <1>6. MoneyOf(i)' = "offered"
    <2>1. MayCharge(i, a)' /\ session'[i][a] = "none"
      BY <1>1, <1>5 DEF MayCharge
    <2> QED
      BY <1>0, <2>1 DEF MoneyIsStage, Stage
  <1>7. \A j \in Invoices : j # i => MoneyOf(j)' = MoneyOf(j)
    BY <1>1, MoneyStays
  <1>8. moneyBar' = [moneyBar EXCEPT ![i] = "offered"] /\ moneyBar[i] = "none"
    BY <1>4, <1>6, <1>7, MoneyUpdate DEF moneyBar
  <1>9. knownBar' = knownBar
    BY <1>1, <1>2, KnownStays
  <1> QED
    BY <1>8, <1>9 DEF ChargePromise!Offer, ChargePromise!Turns

\* An open session moves one way: the invoice is paid, debited or given back.
LEMMA ReportMoves ==
  ASSUME TypeOK, StripeInv, StripeInv', NEW i \in Invoices, NEW a \in Attempts,
         NEW kind \in Kinds, Reports(i, a, kind), UNCHANGED Answered,
         \/ session[i][a] = "open"
         \/ session[i][a] = "unpaid" /\ kind \in {"paid", "failed"}
  PROVE  ChargePromise!Debit(i) \/ ChargePromise!Pay(i) \/ ChargePromise!Return(i)
  <1>1. /\ \A j \in Invoices, b \in Attempts :
              session'[j][b] = IF j = i /\ b = a THEN kind ELSE session[j][b]
        /\ checkout' = checkout
    BY Reporting
  <1>2. \A j \in Invoices, b \in Attempts : Status(j, b)' = Status(j, b)
    BY <1>1 DEF Status
  <1>3. MoneyIsStage /\ MoneyIsStage' /\ OneCharge
    BY MoneyIs, AtMostOneWay, PTL
  <1>4. MayCharge(i, a)
    BY DEF MayCharge
  <1>5. moneyBar[i] = Stage(session[i][a])
    BY <1>3, <1>4 DEF MoneyIsStage, moneyBar
  <1>6. \A j \in Invoices : j # i => MoneyOf(j)' = MoneyOf(j)
    BY <1>1, <1>2, MoneyStays
  <1>7. knownBar' = knownBar
    BY <1>2, KnownStays
  <1>8. CASE kind \in {"paid", "unpaid"}
    <2>1. MayCharge(i, a)'
      BY <1>1, <1>8 DEF MayCharge
    <2>2. MoneyOf(i)' = Stage(kind)
      BY <1>1, <1>3, <2>1 DEF MoneyIsStage
    <2>3. moneyBar' = [moneyBar EXCEPT ![i] = Stage(kind)]
      BY <1>6, <2>2, MoneyUpdate
    <2>4. CASE kind = "paid"
      BY <1>5, <1>7, <2>3, <2>4 DEF Stage, ChargePromise!Pay, ChargePromise!Turns
    <2>5. CASE kind = "unpaid"
      BY <1>5, <1>7, <2>3, <2>5 DEF Stage, ChargePromise!Debit, ChargePromise!Turns
    <2> QED
      BY <1>8, <2>4, <2>5
  <1>9. CASE kind \in {"failed", "expired"}
    <2>1. ASSUME NEW b \in Attempts
          PROVE  ~MayCharge(i, b)'
      <3>1. CASE b = a
        BY <1>1, <1>9, <3>1 DEF MayCharge
      <3>2. CASE b # a
        <4>1. ~MayCharge(i, b)
          BY <1>3, <1>4, <3>2 DEF OneCharge
        <4>2. session'[i][b] = session[i][b] /\ Status(i, b)' = Status(i, b)
          BY <1>1, <1>2, <3>2
        <4> QED
          BY <4>1, <4>2 DEF MayCharge
      <3> QED
        BY <3>1, <3>2
    <2>2. MoneyOf(i)' = "none"
      BY <1>3, <2>1 DEF MoneyIsStage
    <2>3. moneyBar' = [moneyBar EXCEPT ![i] = "none"]
      BY <1>6, <2>2, MoneyUpdate
    <2> QED
      BY <1>5, <1>7, <2>3 DEF Stage, ChargePromise!Return, ChargePromise!Turns
  <1> QED
    BY <1>8, <1>9 DEF Kinds

\* A new session is the way that was offered; its answer changes nothing.
LEMMA MoneyUnmoved ==
  ASSUME TypeOK, StripeInv, StripeInv', NEW i \in Invoices, NEW a \in Attempts,
         Creates(i, a) \/ AnswerStored(i, a)
  PROVE  UNCHANGED <<moneyBar, knownBar>>
  <1>1. CASE AnswerStored(i, a)
    <2>1. /\ \A j \in Invoices, b \in Attempts :
                Status(j, b)' = IF j = i /\ b = a THEN "open" ELSE Status(j, b)
          /\ session' = session /\ Status(i, a) = "initiated"
      BY <1>1, Answering DEF AnswerStored
    <2>2. \A j \in Invoices : MoneyOf(j)' = MoneyOf(j)
      BY <2>1, MoneyStays
    <2>3. knownBar' = knownBar
      BY <2>1, KnownStays
    <2> QED
      BY <2>2, <2>3 DEF moneyBar
  <1>2. CASE Creates(i, a)
    <2>1. /\ \A j \in Invoices, b \in Attempts :
                session'[j][b] = IF j = i /\ b = a THEN "open" ELSE session[j][b]
          /\ checkout' = checkout /\ Status(i, a) # "none" /\ session[i][a] = "none"
      BY <1>2, Creating DEF Creates
    <2>2. \A j \in Invoices, b \in Attempts : Status(j, b)' = Status(j, b)
      BY <2>1 DEF Status
    <2>3. MoneyIsStage /\ MoneyIsStage'
      BY MoneyIs, PTL
    <2>4. MayCharge(i, a) /\ MayCharge(i, a)'
      BY <2>1 DEF MayCharge
    <2>5. MoneyOf(i)' = MoneyOf(i)
      BY <2>1, <2>3, <2>4 DEF MoneyIsStage, Stage
    <2>6. \A j \in Invoices : MoneyOf(j)' = MoneyOf(j)
      <3> SUFFICES ASSUME NEW j \in Invoices, j # i
                   PROVE  MoneyOf(j)' = MoneyOf(j)
        BY <2>5
      <3> QED
        BY <2>1, <2>2, MoneyStays
    <2>7. knownBar' = knownBar
      BY <2>2, KnownStays
    <2> QED
      BY <2>6, <2>7 DEF moneyBar
  <1> QED
    BY <1>1, <1>2

\* An event moves no money; what the server learns of it was paid.
LEMMA ProcessLearns ==
  ASSUME TypeOK, StripeInv, StripeInv', NEW e \in Events, Process(e)
  PROVE  /\ moneyBar' = moneyBar
         /\ knownBar' \in {knownBar, knownBar \cup {e[1]}}
         /\ Outcome(e) = "complete" =>
              knownBar' = knownBar \cup {e[1]} /\ moneyBar[e[1]] = "paid"
         /\ Outcome(e) # "complete" => knownBar' = knownBar
  <1> DEFINE i == e[1]
             a == e[2]
             after == Outcome(e)
  <1>1. e \in events /\ session' = session
    BY DEF Process
  <1>2. \A j \in Invoices, b \in Attempts :
           Status(j, b)' = IF j = i /\ b = a THEN after ELSE Status(j, b)
    BY Processing
  <1>3. /\ i \in Invoices /\ a \in Attempts
        /\ Status(i, a) # "none" /\ after # "none"
        /\ Status(i, a) = "complete" => after = "complete"
        /\ after = "complete" => session[i][a] = "paid"
    BY <1>1, OutcomeIsTold
  <1> HIDE DEF i, a, after
  <1>4. moneyBar' = moneyBar
    <2>1. \A j \in Invoices : MoneyOf(j)' = MoneyOf(j)
      BY <1>1, <1>2, <1>3, MoneyStays
    <2> QED
      BY <2>1 DEF moneyBar
  <1>5. CASE after = "complete"
    <2>1. MayCharge(i, a)
      BY <1>3, <1>5 DEF MayCharge
    <2>2. moneyBar[i] = "paid"
      BY <1>3, <1>5, <2>1, MoneyIs DEF MoneyIsStage, Stage, moneyBar
    <2>3. knownBar' = knownBar \cup {i}
      BY <1>2, <1>3, <1>5 DEF knownBar, Paid
    <2> QED
      BY <1>4, <1>5, <2>2, <2>3 DEF i, after
  <1>6. CASE after # "complete"
    <2>1. knownBar' = knownBar
      BY <1>2, <1>3, <1>6, KnownStays
    <2> QED
      BY <1>4, <1>6, <2>1 DEF after
  <1> QED
    BY <1>5, <1>6

LEMMA KnownIsPaid ==
  ASSUME StripeInv, NEW i \in knownBar
  PROVE  i \in Invoices /\ moneyBar[i] = "paid"
  <1>1. PICK a \in Attempts : Status(i, a) = "complete"
    BY DEF knownBar, Paid
  <1>2. i \in Invoices /\ session[i][a] = "paid"
    BY <1>1 DEF StripeInv, Told, knownBar
  <1> QED
    BY <1>2, MoneyIs DEF MoneyIsStage, MayCharge, Stage, moneyBar

\* A response is made of one intake, which is paid, and it stays.
LEMMA ResponsesGrow ==
  ASSUME IntakeMoves
  PROVE  \/ Answered' = Answered
         \/ \E i \in Invoices :
               /\ Answered' = Answered \cup {i} /\ i \in knownBar'
               /\ intake'[i] # intake[i]
  <1>1. CASE UNCHANGED intake
    BY <1>1 DEF Answered
  <1>2. ASSUME NEW i \in Invoices, IntakeMove(i),
               \A j \in Invoices \ {i} : intake'[j] = intake[j]
        PROVE  \/ Answered' = Answered
               \/ /\ Answered' = Answered \cup {i} /\ i \in knownBar'
                  /\ intake'[i] # intake[i]
    <2>1. intake[i].state # "completed"
      BY <1>2 DEF IntakeMove, Closed
    <2>2. intake'[i].state = "completed" => Paid(i)'
      BY <1>2 DEF IntakeMove, Paid
    <2> QED
      BY <1>2, <2>1, <2>2 DEF Answered, knownBar
  <1> QED
    BY <1>1, <1>2 DEF IntakeMoves

LEMMA Settling ==
  ASSUME StripeInv, NEW i \in Invoices, moneyBar' = moneyBar,
         \/ knownBar' = knownBar
         \/ knownBar' = knownBar \cup {i} /\ moneyBar[i] = "paid",
         \/ Answered' = Answered
         \/ Answered' = Answered \cup {i} /\ i \in knownBar'
  PROVE  [ChargePromise!Next]_(ChargePromise!vars)
  <1>1. CASE knownBar' = knownBar /\ Answered' = Answered
    BY <1>1 DEF ChargePromise!vars
  <1>2. CASE ~(knownBar' = knownBar /\ Answered' = Answered)
    <2>1. knownBar' = knownBar \cup {i} /\ moneyBar[i] = "paid"
      BY <1>2, KnownIsPaid
    <2> QED
      BY <2>1 DEF ChargePromise!Settle, ChargePromise!Next
  <1> QED
    BY <1>1, <1>2

LEMMA ChargesSimulate ==
  ASSUME TypeOK, StripeInv, StripeInv', IntakeInv, [Next]_vars
  PROVE  [ChargePromise!Next]_(ChargePromise!vars)
  <1>1. IntakeMoves
    BY IntakesMove
  <1>2. CASE UNCHANGED stripe
    <2>1. \A j \in Invoices, b \in Attempts :
             session'[j][b] = session[j][b] /\ Status(j, b)' = Status(j, b)
      BY <1>2 DEF stripe, Status
    <2>2. \A j \in Invoices : MoneyOf(j)' = MoneyOf(j)
      BY <2>1, MoneyStays
    <2>3. moneyBar' = moneyBar /\ knownBar' = knownBar
      BY <2>1, <2>2, KnownStays DEF moneyBar
    <2>4. CASE Answered' = Answered
      BY <2>3, <2>4 DEF ChargePromise!vars
    <2> QED
      BY <1>1, <2>3, <2>4, ResponsesGrow, Settling
  <1>3. ASSUME NEW i \in Invoices, NEW a \in Attempts, UNCHANGED intake,
               PayIntake(i, a) \/ PayInvoice(i, a) \/ AnswerStored(i, a) \/ Provider(i, a)
        PROVE  [ChargePromise!Next]_(ChargePromise!vars)
    <2>1. UNCHANGED Answered
      BY <1>3 DEF Answered
    <2>2. CASE PayIntake(i, a) \/ PayInvoice(i, a)
      <3>1. intake[i].expires \in Nat /\ (intake[i].seat # NoSeat) \in BOOLEAN
        BY TimeAssumption DEF TypeOK, Intake
      <3>2. Beyond \in Nat
        BY TimeAssumption, CheckoutAssumption DEF Beyond
      <3>3. ChargePromise!Offer(i)
        BY <2>1, <2>2, <3>1, <3>2, ReservingOffers DEF PayIntake, PayInvoice
      <3> QED
        BY <3>3 DEF ChargePromise!Next
    <2>3. CASE AnswerStored(i, a) \/ Creates(i, a)
      BY <2>1, <2>3, MoneyUnmoved DEF ChargePromise!vars
    <2>4. ASSUME NEW kind \in Kinds, Reports(i, a, kind),
                 \/ session[i][a] = "open"
                 \/ session[i][a] = "unpaid" /\ kind \in {"paid", "failed"}
          PROVE  [ChargePromise!Next]_(ChargePromise!vars)
      <3>1. ChargePromise!Debit(i) \/ ChargePromise!Pay(i) \/ ChargePromise!Return(i)
        BY <2>1, <2>4, ReportMoves
      <3> QED
        BY <3>1 DEF ChargePromise!Next
    <2> QED
      BY <1>3, <2>2, <2>3, <2>4, ProviderMoves DEF Kinds
  <1>4. ASSUME NEW e \in Events, Webhook(e)
        PROVE  [ChargePromise!Next]_(ChargePromise!vars)
    <2>1. Process(e) /\ Reconcile(e[1], Outcome(e)) /\ e[1] \in Invoices
      BY <1>4 DEF Webhook, Events
    <2>2. /\ moneyBar' = moneyBar
          /\ \/ knownBar' = knownBar
             \/ knownBar' = knownBar \cup {e[1]} /\ moneyBar[e[1]] = "paid"
      BY <2>1, ProcessLearns
    <2>3. \A j \in Invoices : j # e[1] => intake'[j] = intake[j]
      BY <2>1 DEF Reconcile, Becomes, TypeOK
    <2>4. \/ Answered' = Answered
          \/ Answered' = Answered \cup {e[1]} /\ e[1] \in knownBar'
      BY <1>1, <2>3, ResponsesGrow
    <2> QED
      BY <2>1, <2>2, <2>4, Settling
  <1>5. ASSUME NEW e \in Events, WebhookCut(e)
        PROVE  [ChargePromise!Next]_(ChargePromise!vars)
    <2>1. Process(e) /\ Answered' = Answered /\ e[1] \in Invoices
      BY <1>5 DEF WebhookCut, Events, Answered
    <2>2. /\ moneyBar' = moneyBar
          /\ \/ knownBar' = knownBar
             \/ knownBar' = knownBar \cup {e[1]} /\ moneyBar[e[1]] = "paid"
      BY <2>1, ProcessLearns
    <2> QED
      BY <2>1, <2>2, Settling
  <1> QED
    BY <1>2, <1>3, <1>4, <1>5, NextCases
       DEF vars, TimePasses, OpenOrClose, Begin, Recover, Forget, RecoverWithSeat,
           RecoverCut, NewSeat

\* The money of every invoice moves as ChargeContract says: one way to pay it at
\* a time, never again once it was paid, and the server follows, with its
\* responses, only behind the money; whatever is lost, late, repeated or cut
\* short (stripe_checkout_create(), stripe_process_verified(),
\* stripe_complete_paid_form(), venture_forms_payment_reconcile()).
THEOREM ChargeContractKept == Spec => KeepsChargeContract
  <1>1. Init => ChargePromise!Init
    <2> SUFFICES ASSUME Init
                 PROVE  ChargePromise!Init
      OBVIOUS
    <2>1. \A i \in Invoices, a \in Attempts : Status(i, a) = "none" /\ session[i][a] = "none"
      BY DEF Init, StripeInit, Status, NoCheckout
    <2>2. \A i \in Invoices : Ways(i) = {}
      BY <2>1 DEF Ways, MayCharge
    <2>3. \A i \in Invoices : MoneyOf(i) = "none"
      <3> SUFFICES ASSUME NEW i \in Invoices
                   PROVE  MoneyOf(i) = "none"
        OBVIOUS
      <3>1. Ways(i) = {} /\ (\A states : ~WayIn(i, states)) /\ Cardinality({}) = 0
        BY <2>2, FS_EmptySet DEF WayIn
      <3> QED
        BY <3>1 DEF MoneyOf
    <2>4. knownBar = {} /\ Answered = {}
      BY <2>1 DEF knownBar, Paid, Answered, Init, NoIntake
    <2> QED
      BY <2>3, <2>4 DEF moneyBar, ChargePromise!Init
  <1>2. TypeOK /\ StripeInv /\ StripeInv' /\ IntakeInv /\ [Next]_vars
          => [ChargePromise!Next]_(ChargePromise!vars)
    BY ChargesSimulate
  <1> QED
    BY <1>1, <1>2, TypesHold, PaymentsHold, IntakesHold, PTL DEF Spec, KeepsChargeContract
=============================================================================
