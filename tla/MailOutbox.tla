----------------------------- MODULE MailOutbox -----------------------------
(***************************************************************************)
(* The durable mail outbox: src/src/mail/venture-mail-outbox.c, the timer  *)
(* that drives it (venture-mail-delivery.c) and the transport selection of *)
(* venture-organization-mailer.c.                                          *)
(*                                                                         *)
(* One server process owns the workspace (core/venture-process-lease.c)    *)
(* and a sweep runs synchronously on its main loop, so an operator's       *)
(* request never interleaves with the middle of a sweep: requests need     *)
(* pc = "idle".  What does happen in the middle of a sweep is a crash, a   *)
(* save the database refuses, the passage of time, and the SMTP relay,     *)
(* which decides on a submission whether or not anybody still waits for    *)
(* the answer.  A submission the process stopped waiting for stays on the  *)
(* wire and may be accepted at any later time.                             *)
(*                                                                         *)
(* Times are counted in ticks left: lease = 0 is the code's "no lease, or  *)
(* lease <= clock", next = 0 is "no next-attempt-at, or it is <= clock".   *)
(* A sweep fixes its clock when it starts; elapsed is how far that clock   *)
(* has fallen behind, which shortens every time computed from it.          *)
(***************************************************************************)
EXTENDS Integers, FiniteSets

CONSTANTS
    Messages,      \* row ids, in the order a sweep visits them
    NoMessage,     \* no claimed message
    Private,       \* the messages that hold a private intake copy
    Accounts,      \* SMTP connections an organization may configure, and
                   \* transports a program may put in their place
    Unbound,       \* the transports among them that name no connection
    NoAccount,     \* connection-id = 0
    MaxAttempts,   \* the max-attempts property
    Limit,         \* the sweep's batch limit
    LeaseTicks,    \* VENTURE_MAIL_LEASE_SECONDS
    MaxResends     \* bound: retries of uncertain rows, per message

ASSUME MessagesAssumption == Messages \subseteq Nat /\ NoMessage \in Nat \ Messages
ASSUME PrivateAssumption == Private \subseteq Messages
ASSUME AccountsAssumption == NoAccount \notin Accounts /\ Unbound \subseteq Accounts
ASSUME AttemptsAssumption == MaxAttempts \in Nat \ {0}
ASSUME LimitAssumption == Limit \in Nat \ {0}
ASSUME LeaseAssumption == LeaseTicks \in Nat \ {0}
ASSUME ResendsAssumption == MaxResends \in Nat

VARIABLES
    mail,      \* [Messages -> Row]: the mail_messages table
    smtp,      \* the organization's active SMTP connection or transport
    paused,    \* messages whose campaign before-claim defers
    pc,        \* where the server process is
    todo,      \* rows of the sweep's snapshot not visited yet
    count,     \* messages claimed by this sweep
    current,   \* the claimed message
    elapsed,   \* ticks since the sweep fixed its clock
    fate,      \* the relay's decision on the submission being waited for
    wire,      \* [Messages -> Nat]: submissions nobody waits for any more
    accepted,  \* [Messages -> Nat]: copies the relay accepted
    via,       \* [Messages -> SUBSET Accounts]: accounts submitted through
    tries,     \* [Messages -> Nat]: submissions since the last retry
    hot,       \* messages a submission since the last retry may have reached
    resends    \* [Messages -> Nat]: operator retries of an uncertain row

stored == <<mail, smtp, paused>>
sweep == <<pc, todo, count, current, elapsed, fate>>
history == <<wire, accepted, via, tries, hot, resends>>
vars == <<mail, smtp, paused, pc, todo, count, current, elapsed, fate,
          wire, accepted, via, tries, hot, resends>>

States == {"absent", "queued", "sending", "sent", "failed", "dead",
           "uncertain", "cancelled"}
Steps == {"down", "idle", "visiting", "claimed", "bound", "waiting"}

-----------------------------------------------------------------------------
(* Helpers *)

\* Mutant: times already past are kept.
FloorMissing(n) == n

Floor(n) == IF n > 0 THEN n ELSE 0

\* 60 << MIN(attempts - 1, 10) seconds, in ticks of 60 seconds.
Doubling == <<1, 2, 4, 8, 16, 32, 64, 128, 256, 512, 1024>>
Backoff(attempts) == Doubling[IF attempts > 10 THEN 11 ELSE attempts]

\* No time computed from a sweep's clock lies further ahead of it.
Horizon == LeaseTicks + Backoff(MaxAttempts)

Row == [state : States, attempts : 0..MaxAttempts, lease : 0..LeaseTicks,
        next : Nat, account : Accounts \cup {NoAccount}]

NewRow == [state |-> "absent", attempts |-> 0, lease |-> 0, next |-> 0,
           account |-> NoAccount]

\* Mutant: the sweep looks for queued rows only.
DueQueuedOnly(m) == mail[m].state = "queued" /\ mail[m].next = 0

Due(m) == mail[m].state \in {"queued", "failed"} /\ mail[m].next = 0

\* Mutant: the sweep's query leaves rows that are "sending" out.
ExpiredUnseen(m) == FALSE

Expired(m) == mail[m].state = "sending" /\ mail[m].lease = 0

First(m) == m \in todo /\ \A k \in todo : m <= k

-----------------------------------------------------------------------------
(* Requests: one main-loop turn each, never inside a sweep *)

\* venture_mail_outbox_enqueue: a known idempotency key returns the existing
\* row (no step), a new one stores a queued row.
Enqueue(m) ==
    /\ pc = "idle"
    /\ mail[m].state = "absent"
    /\ mail' = [mail EXCEPT ![m].state = "queued"]
    /\ UNCHANGED <<smtp, paused, sweep, history>>

\* Mutant: a cancelled message can be retried.
RetryableCancelled == {"uncertain", "failed", "dead", "cancelled"}

Retryable == {"uncertain", "failed", "dead"}

\* venture_mail_outbox_retry: the deliberate resend.  The retained account
\* binding is kept, the attempt budget starts over.
Retry(m) ==
    /\ pc = "idle"
    /\ mail[m].state \in Retryable
    /\ mail[m].state = "uncertain" => resends[m] < MaxResends
    /\ mail' = [mail EXCEPT ![m] = [@ EXCEPT !.state = "queued", !.attempts = 0,
                                             !.next = 0, !.lease = 0]]
    /\ resends' = [resends EXCEPT
          ![m] = IF mail[m].state = "uncertain" THEN @ + 1 ELSE @]
    /\ tries' = [tries EXCEPT ![m] = 0]
    /\ hot' = hot \ {m}
    /\ UNCHANGED <<smtp, paused, sweep, wire, accepted, via>>

\* venture_mail_outbox_cancel; cancelling twice succeeds without a write.
Cancel(m) ==
    /\ pc = "idle"
    /\ mail[m].state \in {"queued", "failed"}
    /\ mail' = [mail EXCEPT ![m] = [@ EXCEPT !.state = "cancelled",
                                             !.next = 0, !.lease = 0]]
    /\ UNCHANGED <<smtp, paused, sweep, history>>

\* venture_mail_outbox_forget_pending: erase a private intake copy.
Forget(m) ==
    /\ pc = "idle"
    /\ m \in Private
    /\ mail[m].state \in {"queued", "failed", "dead"}
    /\ mail' = [mail EXCEPT ![m] = [@ EXCEPT !.state = "cancelled",
                                             !.next = 0, !.lease = 0]]
    /\ UNCHANGED <<smtp, paused, sweep, history>>

\* The operator configures, replaces or removes the SMTP connection, or a
\* program puts another transport in its place.
Configure(a) ==
    /\ pc = "idle"
    /\ a # smtp
    /\ smtp' = a
    /\ UNCHANGED <<mail, paused, sweep, history>>

\* A campaign is paused or resumed (marketing's before-claim reads it).
Pause(m) ==
    /\ pc = "idle"
    /\ paused' = (paused \ {m}) \cup ({m} \ paused)
    /\ UNCHANGED <<mail, smtp, sweep, history>>

-----------------------------------------------------------------------------
(* The sweep: deliver_selected, one row at a time in id order *)

\* The snapshot: the rows the sweep's clock gives something to do.
Start(rows) ==
    /\ pc = "idle"
    /\ pc' = "visiting"
    /\ todo' = {m \in rows : Due(m) \/ Expired(m)}
    /\ count' = 0
    /\ elapsed' = 0
    /\ UNCHANGED <<current, fate, stored, history>>

\* mail_delivery_tick: an organization without a connection is passed over; a
\* transport that a program put in place is always ready.
TimerSweep == smtp # NoAccount /\ Start(Messages)

\* The automation verb and the operator's page sweep in any case.
RequestedSweep == Start(Messages)

\* venture_mail_outbox_deliver_one: the sweep of one selected row.
DeliverOne(m) == Start({m})

\* What every save the sweep fails to make does: deliver_selected returns -1.
\* What it committed earlier stays, a claimed row stays "sending".
Abort ==
    /\ pc' = "idle"
    /\ todo' = {}
    /\ current' = NoMessage
    /\ fate' = "none"
    /\ wire' = IF fate = "open" THEN [wire EXCEPT ![current] = @ + 1] ELSE wire
    /\ count' = 0
    /\ elapsed' = 0
    /\ UNCHANGED <<stored, accepted, via, tries, hot, resends>>

\* Any of the sweep's saves may be refused by the database: the claim or the
\* recovery of a row, the binding, and the outcome whatever it was.
SaveFails ==
    /\ pc \in {"visiting", "claimed", "bound", "waiting"}
    /\ pc = "visiting" => todo # {}
    /\ Abort

\* Mutant: an interrupted delivery is simply tried again.
RecoverAsQueued(m) ==
    /\ pc = "visiting"
    /\ First(m)
    /\ mail[m].state = "sending"
    /\ mail' = [mail EXCEPT ![m] = [@ EXCEPT !.state = "queued", !.lease = 0]]
    /\ todo' = todo \ {m}
    /\ UNCHANGED <<smtp, paused, pc, count, current, elapsed, fate, history>>

\* The lease of an earlier process ran out: it may have submitted.
RecoverExpired(m) ==
    /\ pc = "visiting"
    /\ First(m)
    /\ mail[m].state = "sending"
    /\ mail' = [mail EXCEPT ![m] = [@ EXCEPT !.state = "uncertain", !.lease = 0]]
    /\ todo' = todo \ {m}
    /\ UNCHANGED <<smtp, paused, pc, count, current, elapsed, fate, history>>

\* count >= limit, or before-claim defers the row: it keeps its state.
PassOver(m) ==
    /\ pc = "visiting"
    /\ First(m)
    /\ mail[m].state # "sending"
    /\ count >= Limit \/ m \in paused
    /\ todo' = todo \ {m}
    /\ UNCHANGED <<stored, pc, count, current, elapsed, fate, history>>

\* venture_mail_outbox_claim: the lease is committed before anything else.
Claim(m) ==
    /\ pc = "visiting"
    /\ First(m)
    /\ count < Limit
    /\ m \notin paused
    /\ mail[m].state \in {"queued", "failed"}
    /\ mail' = [mail EXCEPT ![m] = [@ EXCEPT !.state = "sending",
                                     !.attempts = mail[m].attempts + 1,
                                     !.lease = Floor(LeaseTicks - elapsed)]]
    /\ pc' = "claimed"
    /\ current' = m
    /\ todo' = todo \ {m}
    /\ count' = count + 1
    /\ UNCHANGED <<smtp, paused, elapsed, fate, history>>

Finished ==
    /\ pc = "visiting"
    /\ todo = {}
    /\ Abort

\* The row's last save of this visit; the sweep goes on with the next row.
Settle(row) ==
    /\ mail' = [mail EXCEPT ![current] = row]
    /\ pc' = "visiting"
    /\ current' = NoMessage
    /\ fate' = "none"
    /\ UNCHANGED <<smtp, paused, todo, count, elapsed>>

\* before-send or before-transport vetoes: cancel_claim gives the attempt back.
Veto ==
    /\ pc \in {"claimed", "bound"}
    /\ Settle([mail[current] EXCEPT !.state = "cancelled", !.lease = 0,
                                    !.next = 0, !.attempts = Floor(@ - 1)])
    /\ UNCHANGED history

\* Mutant: the retained account binding is not compared.
ReplacedIgnored(m) == FALSE

Replaced(m) == mail[m].account # NoAccount /\ mail[m].account # smtp

\* prepare refuses: no connection, a replaced one, or settings that do not
\* resolve.  Nothing was submitted, so the row is dead rather than uncertain.
PrepareRefused ==
    /\ pc = "claimed"
    /\ Settle([mail[current] EXCEPT !.state = "dead", !.lease = 0, !.next = 0])
    /\ UNCHANGED history

\* The exact account is committed before external I/O; a transport without a
\* binding leaves the row as it was.
Bind ==
    /\ pc = "claimed"
    /\ smtp # NoAccount
    /\ ~Replaced(current)
    /\ mail' = [mail EXCEPT ![current].account = IF smtp \in Unbound THEN @ ELSE smtp]
    /\ pc' = "bound"
    /\ UNCHANGED <<smtp, paused, todo, count, current, elapsed, fate, history>>

Submit ==
    /\ pc = "bound"
    /\ pc' = "waiting"
    /\ fate' = "open"
    /\ tries' = [tries EXCEPT ![current] = @ + 1]
    /\ via' = [via EXCEPT ![current] = @ \cup {smtp}]
    /\ hot' = hot \cup {current}
    /\ UNCHANGED <<stored, todo, count, current, elapsed, wire, accepted, resends>>

-----------------------------------------------------------------------------
(* The relay and the answer the sweep gets *)

RelayAccepts ==
    /\ pc = "waiting"
    /\ fate = "open"
    /\ fate' = "accepted"
    /\ accepted' = [accepted EXCEPT ![current] = @ + 1]
    /\ UNCHANGED <<stored, pc, todo, count, current, elapsed, wire, via, tries, hot, resends>>

RelayRefuses ==
    /\ pc = "waiting"
    /\ fate = "open"
    /\ fate' = "refused"
    /\ hot' = hot \ {current}
    /\ UNCHANGED <<stored, pc, todo, count, current, elapsed, wire, accepted, via, tries, resends>>

\* A submission nobody waits for is accepted after all, or lost.
LateAccept(m) ==
    /\ wire[m] > 0
    /\ wire' = [wire EXCEPT ![m] = @ - 1]
    /\ accepted' = [accepted EXCEPT ![m] = @ + 1]
    /\ UNCHANGED <<stored, sweep, via, tries, hot, resends>>

LateLoss(m) ==
    /\ wire[m] > 0
    /\ wire' = [wire EXCEPT ![m] = @ - 1]
    /\ UNCHANGED <<stored, sweep, accepted, via, tries, hot, resends>>

AnswerSent ==
    /\ pc = "waiting"
    /\ fate = "accepted"
    /\ Settle([mail[current] EXCEPT !.state = "sent", !.lease = 0, !.next = 0])
    /\ UNCHANGED history

\* Mutant: a lost reply is taken for a transient failure.
AnswerTransientOnSilence ==
    /\ pc = "waiting"
    /\ fate \in {"open", "refused"}
    /\ LET a == mail[current].attempts IN
       Settle([mail[current] EXCEPT
                 !.state = IF a >= MaxAttempts THEN "dead" ELSE "failed",
                 !.lease = 0, !.next = Floor(Backoff(a) - elapsed)])
    /\ wire' = IF fate = "open" THEN [wire EXCEPT ![current] = @ + 1] ELSE wire
    /\ UNCHANGED <<accepted, via, tries, hot, resends>>

\* Mutant: one attempt too many.
AnswerTransientOnceMore ==
    /\ pc = "waiting"
    /\ fate = "refused"
    /\ LET a == mail[current].attempts IN
       Settle([mail[current] EXCEPT
                 !.state = IF a > MaxAttempts THEN "dead" ELSE "failed",
                 !.lease = 0, !.next = Floor(Backoff(a) - elapsed)])
    /\ UNCHANGED history

\* VENTURE_ERROR_MAIL_TRANSIENT: failed with backoff, dead at the budget.
AnswerTransient ==
    /\ pc = "waiting"
    /\ fate = "refused"
    /\ LET a == mail[current].attempts IN
       Settle([mail[current] EXCEPT
                 !.state = IF a >= MaxAttempts THEN "dead" ELSE "failed",
                 !.lease = 0, !.next = Floor(Backoff(a) - elapsed)])
    /\ UNCHANGED history

AnswerPermanent ==
    /\ pc = "waiting"
    /\ fate = "refused"
    /\ Settle([mail[current] EXCEPT !.state = "dead", !.lease = 0, !.next = 0])
    /\ UNCHANGED history

\* Mutant: an unknown outcome is recorded as a failure.
AnswerUncertainAsFailed ==
    /\ pc = "waiting"
    /\ Settle([mail[current] EXCEPT !.state = "failed", !.lease = 0, !.next = 0])
    /\ wire' = IF fate = "open" THEN [wire EXCEPT ![current] = @ + 1] ELSE wire
    /\ UNCHANGED <<accepted, via, tries, hot, resends>>

\* Any other outcome: the reply was lost, before or after the relay decided.
AnswerUncertain ==
    /\ pc = "waiting"
    /\ Settle([mail[current] EXCEPT !.state = "uncertain", !.lease = 0, !.next = 0])
    /\ wire' = IF fate = "open" THEN [wire EXCEPT ![current] = @ + 1] ELSE wire
    /\ UNCHANGED <<accepted, via, tries, hot, resends>>

-----------------------------------------------------------------------------
(* The process and the clock *)

Crash ==
    /\ pc # "down"
    /\ pc' = "down"
    /\ todo' = {}
    /\ current' = NoMessage
    /\ fate' = "none"
    /\ wire' = IF fate = "open" THEN [wire EXCEPT ![current] = @ + 1] ELSE wire
    /\ count' = 0
    /\ elapsed' = 0
    /\ UNCHANGED <<stored, accepted, via, tries, hot, resends>>

Restart ==
    /\ pc = "down"
    /\ pc' = "idle"
    /\ UNCHANGED <<stored, todo, count, current, elapsed, fate, history>>

Sweeping == pc \notin {"down", "idle"}

Tick ==
    /\ mail' = [m \in Messages |->
                  [mail[m] EXCEPT !.lease = Floor(@ - 1), !.next = Floor(@ - 1)]]
    /\ elapsed' = IF Sweeping /\ elapsed < Horizon THEN elapsed + 1 ELSE elapsed
    /\ UNCHANGED <<smtp, paused, pc, todo, count, current, fate, history>>

-----------------------------------------------------------------------------
(* Specification *)

Init ==
    /\ mail = [m \in Messages |-> NewRow]
    /\ smtp = NoAccount
    /\ paused = {}
    /\ pc = "idle"
    /\ todo = {}
    /\ count = 0
    /\ current = NoMessage
    /\ elapsed = 0
    /\ fate = "none"
    /\ wire = [m \in Messages |-> 0]
    /\ accepted = [m \in Messages |-> 0]
    /\ via = [m \in Messages |-> {}]
    /\ tries = [m \in Messages |-> 0]
    /\ hot = {}
    /\ resends = [m \in Messages |-> 0]

Request ==
    \/ \E m \in Messages : Enqueue(m) \/ Retry(m) \/ Cancel(m) \/ Forget(m) \/ Pause(m)
    \/ \E a \in Accounts \cup {NoAccount} : Configure(a)

SweepStep ==
    \/ \E m \in Messages : RecoverExpired(m) \/ PassOver(m) \/ Claim(m)
    \/ Finished \/ Veto \/ PrepareRefused \/ Bind \/ Submit
    \/ AnswerSent \/ AnswerTransient \/ AnswerPermanent \/ AnswerUncertain

Next ==
    \/ Request
    \/ TimerSweep \/ RequestedSweep \/ \E m \in Messages : DeliverOne(m)
    \/ SweepStep
    \/ SaveFails
    \/ RelayAccepts \/ RelayRefuses
    \/ \E m \in Messages : LateAccept(m) \/ LateLoss(m)
    \/ Crash \/ Restart \/ Tick

Spec == Init /\ [][Next]_vars

-----------------------------------------------------------------------------
(* Safety *)

\* Every variable keeps its type: attempts stay within the budget, a lease
\* never exceeds its length, and a sweep claims at most Limit rows.
TypeOK ==
    /\ mail \in [Messages -> Row]
    /\ smtp \in Accounts \cup {NoAccount}
    /\ paused \subseteq Messages
    /\ pc \in Steps
    /\ todo \subseteq Messages
    /\ count \in 0..Limit
    /\ current \in Messages \cup {NoMessage}
    /\ elapsed \in Nat
    /\ fate \in {"none", "open", "accepted", "refused"}
    /\ wire \in [Messages -> Nat]
    /\ accepted \in [Messages -> Nat]
    /\ via \in [Messages -> SUBSET Accounts]
    /\ tries \in [Messages -> Nat]
    /\ hot \subseteq Messages
    /\ resends \in [Messages -> Nat]

Open(m) == IF current = m /\ fate = "open" THEN 1 ELSE 0

\* Copies of m the relay has accepted or may still accept.
Exposed(m) == accepted[m] + wire[m] + Open(m)

\* At most one copy of a message for the enqueue and one for each deliberate
\* retry of an uncertain row may reach the relay, whatever crashes, lost
\* replies, failed saves and automatic retries happen in between.
OneCopyPerDecision ==
    \A m \in Messages : Exposed(m) <= resends[m] + 1

\* A row that says "not delivered" tells the truth: no copy beyond the ones
\* the operator's earlier resends account for is accepted or on its way.
KnownStatesAreTrue ==
    \A m \in Messages :
        mail[m].state \in {"queued", "failed", "dead", "cancelled"} =>
            Exposed(m) <= resends[m]

\* "sent" is only written for a message the relay did accept.
SentWasAccepted ==
    \A m \in Messages : mail[m].state = "sent" => accepted[m] > 0

\* What a settled row tells the operator is true, both ways round: "sent" was
\* accepted, and "not delivered" was neither accepted nor may still be.
SettledRowsAreTrue == KnownStatesAreTrue /\ SentWasAccepted

\* Every submission of a message through an SMTP connection, retries after an
\* account replacement included, went through the same one, the one on the row.
OneAccount ==
    \A m \in Messages : via[m] \ Unbound \subseteq {mail[m].account}

\* Between two operator decisions a message is submitted at most MaxAttempts
\* times: a crash or a failed save never hands an attempt back.
AttemptBudget ==
    \A m \in Messages : tries[m] <= MaxAttempts

\* A cancelled message stays cancelled and is never submitted again, a sent
\* one stays sent.
DecidedIsFinal ==
    [][\A m \in Messages :
          mail[m].state \in {"cancelled", "sent"} =>
              mail'[m].state = mail[m].state /\ tries'[m] = tries[m]]_vars

\* Recovery never turns an interrupted delivery into an automatic resend: a
\* row leaves "sending" for a state a sweep claims from only on the relay's
\* refusal of that very submission, or before there was one.
NoAutomaticResend ==
    [][\A m \in Messages :
          mail[m].state = "sending" /\ mail'[m].state \in {"queued", "failed"} =>
              current = m /\ fate = "refused"]_vars
=============================================================================
