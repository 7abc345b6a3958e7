--------------------------- MODULE StripeCheckout ---------------------------
(***************************************************************************)
(* Collecting an invoice through hosted Checkout sessions:                 *)
(* src/src/stripe/venture-stripe-checkout.inc, venture-stripe-events.inc   *)
(* and venture-stripe-settlement.inc.                                      *)
(*                                                                         *)
(* A checkout is reserved as a row, committed, and only then requested     *)
(* from the provider, under an idempotency key of its own: a lost answer   *)
(* leaves the row "initiated" and the same request is sent again.  The     *)
(* provider reports what happened to a session in signed events, any       *)
(* number of times and in any order, before or after its answer to the     *)
(* request.                                                                *)
(*                                                                         *)
(* Left out: amounts and currencies, other payments of the invoice,        *)
(* automatic collection, payment links, disputes, and a settlement the     *)
(* books refuse (a closed period), which leaves the event to be delivered  *)
(* again.                                                                  *)
(***************************************************************************)
EXTENDS ServerClock, FiniteSets

CONSTANTS
    Invoices,
    MaxAttempts,   \* bound: checkouts of an invoice
    Room,          \* bound: the attempts each invoice may come to
    MinSession,    \* the least a session may last: 30 minutes
    AchEnabled     \* the organization takes bank debits

Attempts == 1..MaxAttempts

ASSUME CheckoutAssumption ==
    /\ MaxAttempts \in Nat \ {0} /\ Room \subseteq Invoices \X Attempts
    /\ MinSession \in Nat \ {0}
    /\ AchEnabled \in BOOLEAN

\* 23 hours, the deadline of a session nobody gave one, lies after the modelled
\* time.
Beyond == MaxTime + MinSession

VARIABLES
    checkout,   \* [Invoices -> [Attempts -> Checkout]]: the stripe_checkout rows
    session,    \* [Invoices -> [Attempts -> SessionStates]]: at the provider
    events,     \* SUBSET Events: what the provider has reported
    handled,    \* SUBSET Events: those with a settled stripe_event row
    answered    \* SUBSET Events: deliveries that were answered with success

stripe == <<checkout, session, events, handled, answered>>

Statuses == {"none", "initiated", "open", "processing", "complete", "failed", "expired"}
SessionStates == {"none", "open", "unpaid", "paid", "failed", "expired"}
Kinds == {"unpaid", "paid", "failed", "expired"}
Events == Invoices \X Attempts \X Kinds

Checkout == [status : Statuses, ach : BOOLEAN, deadline : Nat]

NoCheckout == [status |-> "none", ach |-> FALSE, deadline |-> 0]

StripeTypeOK ==
    /\ checkout \in [Invoices -> [Attempts -> Checkout]]
    /\ session \in [Invoices -> [Attempts -> SessionStates]]
    /\ events \subseteq Events
    /\ handled \subseteq events
    /\ answered \subseteq handled

StripeInit ==
    /\ checkout = [i \in Invoices |-> [a \in Attempts |-> NoCheckout]]
    /\ session = [i \in Invoices |-> [a \in Attempts |-> "none"]]
    /\ events = {} /\ handled = {} /\ answered = {}

-----------------------------------------------------------------------------
(* Making a checkout *)

Status(i, a) == checkout[i][a].status

\* Mutant: an attempt whose answer was lost is taken for dead.
PendingAnswered(i, a) == Status(i, a) \in {"open", "processing"}

\* checkout_pending(): an attempt that may still collect the invoice.
Pending(i, a) == Status(i, a) \in {"initiated", "open", "processing"}

Paid(i) == \E a \in Attempts : Status(i, a) = "complete"

IsNewest(i, a) ==
    /\ Status(i, a) # "none"
    /\ \A b \in Attempts : b > a => Status(i, b) = "none"

IsNext(i, a) ==
    /\ Status(i, a) = "none"
    /\ \A b \in Attempts : b < a => Status(i, b) # "none"

\* The reservation; with a pending attempt the caller gets that one, or a
\* refusal, and no row changes.
ReserveCheckout(i, a, deadline, cardsOnly) ==
    /\ ~Paid(i)
    /\ \A b \in Attempts : ~Pending(i, b)
    /\ IsNext(i, a)
    /\ <<i, a>> \in Room
    /\ deadline - now >= MinSession
    /\ checkout' = [checkout EXCEPT ![i][a] =
         [status |-> "initiated", ach |-> AchEnabled /\ ~cardsOnly, deadline |-> deadline]]
    /\ UNCHANGED <<session, events, handled, answered>>

\* The provider's answer arrives and is stored.
AnswerStored(i, a) ==
    /\ session[i][a] # "none"
    /\ Status(i, a) = "initiated"
    /\ checkout' = [checkout EXCEPT ![i][a].status = "open"]
    /\ UNCHANGED <<session, events, handled, answered>>

-----------------------------------------------------------------------------
(* The provider *)

\* The request is executed: once, however often it is sent.
Creates(i, a) ==
    /\ Status(i, a) # "none" /\ session[i][a] = "none"
    /\ checkout[i][a].deadline - now >= MinSession
    /\ session' = [session EXCEPT ![i][a] = "open"]
    /\ UNCHANGED <<checkout, events, handled, answered>>

Reports(i, a, kind) ==
    /\ session' = [session EXCEPT ![i][a] = kind]
    /\ events' = events \cup {<<i, a, kind>>}
    /\ UNCHANGED <<checkout, handled, answered>>

\* A card pays at once; a bank debit is taken and succeeds or fails later.
PaysByCard(i, a) == session[i][a] = "open" /\ Reports(i, a, "paid")

PaysByBank(i, a) == session[i][a] = "open" /\ checkout[i][a].ach /\ Reports(i, a, "unpaid")

DebitEnds(i, a) ==
    session[i][a] = "unpaid" /\ \E kind \in {"paid", "failed"} : Reports(i, a, kind)

SessionEnds(i, a) ==
    /\ session[i][a] = "open" /\ now >= checkout[i][a].deadline
    /\ Reports(i, a, "expired")

Provider(i, a) ==
    \/ Creates(i, a) \/ PaysByCard(i, a) \/ PaysByBank(i, a)
    \/ DebitEnds(i, a) \/ SessionEnds(i, a)

-----------------------------------------------------------------------------
(* A verified event *)

\* Mutant: a completed session is taken for a paid one.
NewStatusCompleted(i, a, kind) ==
    CASE Status(i, a) = "complete" -> "complete"
      [] Status(i, a) # "complete" /\ kind \in {"paid", "unpaid"} -> "complete"
      [] Status(i, a) # "complete" /\ kind = "failed" -> "failed"
      [] Status(i, a) \in {"initiated", "open"} /\ kind = "expired" -> "expired"
      [] OTHER -> Status(i, a)

NewStatus(i, a, kind) ==
    CASE Status(i, a) = "complete" -> "complete"
      [] Status(i, a) # "complete" /\ kind = "paid" -> "complete"
      [] Status(i, a) # "complete" /\ kind = "failed" -> "failed"
      [] Status(i, a) \in {"initiated", "open"} /\ kind = "unpaid" -> "processing"
      [] Status(i, a) \in {"initiated", "open"} /\ kind = "expired" -> "expired"
      [] OTHER -> Status(i, a)

\* Money is not taken for an invoice that was paid otherwise or that another
\* attempt may still collect.
Settles(i, a, kind) ==
    kind = "paid" /\ Status(i, a) # "complete" =>
        ~Paid(i) /\ \A b \in Attempts \ {a} : ~Pending(i, b)

\* What a delivery leaves of the checkout: an event whose row is settled
\* changes nothing.
Outcome(e) ==
    IF e \in handled THEN Status(e[1], e[2]) ELSE NewStatus(e[1], e[2], e[3])

\* Mutant: the event is answered without its row.
ProcessUnrecorded(e) ==
    /\ e \in events
    /\ e \notin handled => Settles(e[1], e[2], e[3])
    /\ checkout' = [checkout EXCEPT ![e[1]][e[2]].status = Outcome(e)]
    /\ UNCHANGED <<session, events, handled>>

Process(e) ==
    /\ e \in events
    /\ e \notin handled => Settles(e[1], e[2], e[3])
    /\ checkout' = [checkout EXCEPT ![e[1]][e[2]].status = Outcome(e)]
    /\ handled' = handled \cup {e}
    /\ UNCHANGED <<session, events>>

-----------------------------------------------------------------------------

\* The customer may still be, or has been, charged through this attempt.
MayCharge(i, a) ==
    \/ session[i][a] \in {"open", "unpaid", "paid"}
    \/ session[i][a] = "none" /\ Status(i, a) # "none"

\* At no time can an invoice be charged through two checkouts: not after a lost
\* answer, a retry, a second way to pay it (its page, the portal), a session
\* that ended without the server knowing, nor with events late, repeated or out
\* of order (stripe_checkout_create(), stripe_process_verified()).
OneCharge ==
    \A i \in Invoices : \A a, b \in Attempts :
        MayCharge(i, a) /\ MayCharge(i, b) => a = b

=============================================================================
