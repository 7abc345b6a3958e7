--------------------------- MODULE ChargeContract ---------------------------
(***************************************************************************)
(* What a paid form promises about money, without sessions, attempts,      *)
(* events, deliveries or intakes: an invoice is open for payment in one    *)
(* way at a time and never again once it was paid; a debit that was taken  *)
(* ends as a payment or gives the invoice back; the server believes in a   *)
(* payment only after it was made, for good, and a response is made of     *)
(* paid intakes only and never taken back.                                 *)
(***************************************************************************)
CONSTANT Invoices

VARIABLES
    money,   \* [Invoices -> {"none", "offered", "debited", "paid"}]
    known,   \* SUBSET Invoices: the server has settled the payment
    served   \* SUBSET Invoices: the intake became a response

vars == <<money, known, served>>

Init ==
    /\ money = [i \in Invoices |-> "none"]
    /\ known = {} /\ served = {}

Turns(i, from, to) ==
    /\ money[i] \in from
    /\ money' = [money EXCEPT ![i] = to]
    /\ UNCHANGED <<known, served>>

Offer(i) == Turns(i, {"none"}, "offered")

Debit(i) == Turns(i, {"offered"}, "debited")

Pay(i) == Turns(i, {"offered", "debited"}, "paid")

Return(i) == Turns(i, {"offered", "debited"}, "none")

Settle(i) ==
    /\ money[i] = "paid"
    /\ known' = known \cup {i}
    /\ served' \in {served, served \cup {i}}
    /\ UNCHANGED money

Next ==
    \E i \in Invoices :
        Offer(i) \/ Debit(i) \/ Pay(i) \/ Return(i) \/ Settle(i)

Spec == Init /\ [][Next]_vars
=============================================================================
