------------------------- MODULE PaidFormsRefinement -------------------------
(***************************************************************************)
(* PaidForms implements two contracts: SeatContract, for the customers of  *)
(* the booking page, and ChargeContract, for those who pay.                *)
(***************************************************************************)
EXTENDS PaidForms

\* A row has a seat while it is confirmed or its hold lasts.
seatBar == [r \in Reservations |-> IF r \in Busy({}) THEN resv[r].slot ELSE NoSlot]

firmBar == {r \in Reservations : resv[r].state = "confirmed"}

SeatPromise == INSTANCE SeatContract WITH seat <- seatBar, firm <- firmBar

\* Whatever reserves, confirms, moves, lets lapse or gives up a seat, here or
\* through a paid form: the seats change as the contract allows.
KeepsSeatContract ==
    SeatPromise!Init /\ [][SeatPromise!Next]_(SeatPromise!vars)

Ways(i) == {a \in Attempts : MayCharge(i, a)}

\* The one way to pay an invoice, and how far its customer has come.
WayIn(i, states) ==
    \E a \in Attempts : Ways(i) = {a} /\ session[i][a] \in states

MoneyOf(i) ==
    CASE Ways(i) = {} -> "none"
      [] WayIn(i, {"none", "open"}) -> "offered"
      [] WayIn(i, {"unpaid"}) -> "debited"
      [] WayIn(i, {"paid"}) -> "paid"
      [] Cardinality(Ways(i)) > 1 -> "several ways"

moneyBar == [i \in Invoices |-> MoneyOf(i)]

knownBar == {i \in Invoices : Paid(i)}

ChargePromise == INSTANCE ChargeContract
    WITH money <- moneyBar, known <- knownBar, served <- Answered

\* Whatever a customer, the provider and the owner do, with events lost,
\* repeated or late: the money moves as the contract allows, and the server
\* follows it.
KeepsChargeContract ==
    ChargePromise!Init /\ [][ChargePromise!Next]_(ChargePromise!vars)
=============================================================================
