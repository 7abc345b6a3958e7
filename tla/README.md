# VENTURE in TLA+

TLA+ specifications of the parts of VENTURE whose correctness depends on order,
failure and retries: what a step may do, what it may never do, and what must
happen in the end. TLC checks them on small instances; the theorems, checked by
the TLA+ proof system, hold for every value of the constants.

All paths `src/...` below are paths of the repository as the `source` fields of
`PROJECT.json` give them; `src/src/` is the repository's own `src/` directory.

## 1. The system

VENTURE is an ERP and CRM in C on GLib and GObject. One server process owns a
workspace (a state directory and its database): `core/venture-process-lease.c`
takes an exclusive lock for its whole life, so a second process refuses to start.
Inside the process

- one **main loop** serves HTTP requests (REST, the web interface, MCP tools of
  an assistant) and timers (mail delivery, renewals, synchronisation) in turn;
  the handlers and sweeps modelled here run to their end without returning to
  the loop (outgoing webhooks, the assistant's own calls and the payment
  provider's are asynchronous);
- one **database connection** (SQLite or PostgreSQL) is shared by all threads
  under a recursive lock; transactions nest by counting;
- **services** (leads, referrals, posting, receipts, ...) listen to the signals
  of the database, `entity-saved`, `audit` and `transaction-finished`, and act on
  what was committed;
- an assistant's writes are **proposals** that wait in memory until a person
  approves them;
- outgoing mail is a **table** that a sweep works through.

So within one process most interleavings come from callbacks (a signal handler
that begins a transaction of its own while the signal is being emitted), from
what happens in the middle of a sweep (a crash, a refused write, the relay, the
clock), and from what lies between two turns of the loop (other users, expiry,
restarts).

### Inventory

For the parts that keep protocol state: the state, the operations, the
partners, what makes them hard, and what makes them correct. `PROJECT.json`
lists every component, including those that only render, parse or compute.

| Component | State | Operations | Interacts with | Hard because | Correct when |
|---|---|---|---|---|---|
| database transactions (`db/venture-database.c`) | lock, depth, owning thread, ORM transaction | begin, commit, rollback, save, update, delete, query | every service; signals while committing | nested levels, an inner rollback poisons the outer ones, several threads, handlers that begin transactions | lock and depth balance, all or nothing, verdicts are true, no dirty read |
| effects after a commit (`leads`, `referrals`, `ledger`, `dedupe`, `documents`, `aimessages`, `core/venture-currency.c`) | a queue, or a cache, per service in memory | queue on save, run or drop on `transaction-finished` | database signals | handlers re-enter each other's signal | an effect runs once, after its commit, and never for an abandoned write |
| mail outbox (`mail/venture-mail-outbox.c`, `-delivery.c`, `-organization-mailer.c`, `-smtp-mailer.c`) | `mail_messages` rows, lease, attempts | enqueue, sweep, claim, submit, settle, recover, retry, cancel, forget | SMTP relay; vetoes of dunning, sequences, campaigns | crash between submission and outcome, lost replies, expired lease | no second copy unless a person asks for one; states tell the truth; every due row is attempted |
| approval queue (`core/venture-confirmation-store.c`) | table of cards in memory | stage, merge, approve, reject, expire | database save, deal service, actions, other users | the record changes while the card waits; a failed save leaves the staged object altered | what is applied is what was shown, never over somebody else's change, never twice |
| receivables (`receivables/venture-settlement-service.c`, `invoice-state-machine.c`) | invoices, receipts, allocations, credits, refunds | receive, allocate, credit, refund, void | postings, documents, Stripe | partial amounts, reversals in any order | money is conserved, an invoice's state follows from its allocations |
| posting and periods (`ledger/venture-posting-service.c`, `periods/`) | journal entries, batches, period locks | post, reverse, close, reopen | receivables, payables, payroll, approvals | a period closes between drafting and posting | an entry balances, posts once, never into a closed period |
| Stripe Checkout (`stripe/venture-stripe-checkout.inc`, `-events.inc`, `-settlement.inc`) | a row per attempt to collect an invoice, received events; sessions at the provider | reserve, request, store the answer, process an event, settle | paid forms, invoices, the provider | answers are lost; events come twice, late and out of order; an invoice can be paid in several ways | an invoice is never charged through two checkouts; an old event does not undo a newer outcome |
| paid forms (`forms/venture-forms-payments.inc`, `-booking.c`) | an intake per submission: answers kept apart, invoice, held seat, place under the response limit | begin, pay, reconcile, recover, forget | Checkout, bookings, the form's owner | holds and sessions run out while money is on its way; the server dies between settlement and completion | who paid hears of it; what an intake says is true; places are not given twice |
| other Stripe events (disputes, payouts, refunds) | received events, exceptions | receive, apply, reconcile | receivables | events come twice and out of order | each event is applied once |
| business events and webhooks (`core/venture-business-events*.c`, `core/venture-webhook.c`) | event log, one delivery row per event and hook with its attempts, requests in flight in memory; a consumer's cursor | capture in the save, read a page, dispatch up to sixteen, retry, accept | every save; HTTP endpoints; consumers of the feed | ids are given out before the commit; the answer arrives on a later turn of the loop, perhaps inside a transaction; a crash in between | no cursor passes an event; nothing uncommitted leaves; a copy is sent again only when an answer was lost; every obligation is met |
| mail synchronisation (`mail/venture-mail-sync-service.c`) | per folder: cursor, UID validity, the message that failed and how often; the account's lease and version | lease, select, list, file, pass over, count a failure, stub, finish | IMAP server, the operator, other programs | folders are renumbered, a message cannot be filed, budgets, interrupted and overlapping runs | no mail falls below the mark unfiled, none is filed twice, one bad message does not stop a folder |
| billing and recurring documents (`billing/`, `recurring/`) | next date, generated documents | renew, pause, generate | receivables | retries after a crash | one document per period |
| inventory and sales orders (`goods/`) | stock layers, orders | receive, issue, restore, transfer | posting, receivables | partial shipments, returns, oversell | quantities conserved, cost layers first in first out |
| field-service jobs (`jobs/`) | job state and stamps | on the way, arrive, complete, invoiced, cancel | receivables | saves beside the actions | a job moves forward only, and is invoiced after it is done |
| booking pages (`calendar/venture-booking-service.c`, `-reservations.inc`) | reservations: held until, confirmed, cancelled; the owner's meetings | offer slots, hold, confirm, book, move, cancel, release | paid forms, calendar synchronisation | holds end by the clock alone; slots are offered long before they are taken | no slot has more customers than seats |
| dunning and sequences (`dunning/`, `sequences/`) | steps, enrolments | advance, stop, settle on mail outcome | mail outbox signals | outcome arrives late | a stopped reminder is not sent |
| process lease (`core/venture-process-lease.c`) | file lock or PostgreSQL advisory lock | acquire, release | start and stop of the server | crash, aborted transaction | one server per database |
| web, CLI, MCP, reports, feeds, rendering | none of their own, or external | - | all of the above | I/O | not a question for a model checker |

## 2. Plan

Most important first: what every other part stands on or what cannot be undone.

1. **Mail outbox** - done. `MailOutbox` (detailed), `MailContract` (what the
   outbox promises), `MailOutboxRefinement` (the mapping), proofs of all safety
   properties and of the refinement, two TLC instances.
2. **Approval queue** - done for save, delete, deal move and generic action.
   `ConfirmationStore`, one passing run, two that refute a sentence of the
   code's documentation, and proofs of every property of the passing run.
3. **Transactions and effects** - done. `DatabaseTransaction`, and
   `CommittedEffects` composed on top of it; proofs of both, `CommittedEffects`
   is shown to implement `DatabaseTransaction`, and that `TransactionContract`.
4. **Business events** - done. `BusinessEvents`: capture inside the save,
   the replay feed, dispatch, requests in flight, answers on a later turn, crash.
   Proofs of all safety properties, and that it implements `EventContract`;
   delivery in the end by TLC.
5. **Mail synchronisation** - done. `MailSync`: lease, folders, cursors,
   UIDVALIDITY, budget, failures, overlapping runs. Proofs of all safety
   properties, and that it implements `MailboxContract`; that every message is
   handled by TLC.
6. **Receivables and posting**. `InvoiceLedger` as the abstract specification
   (amounts owed and settled, conserved), `Settlement` with the operations of
   the settlement service implementing it, `PostingPeriods` for posting against
   period locks. Theorems: conservation, no over-allocation, no entry in a
   closed period.
7. **Paid forms** - done. `Bookings` and `StripeCheckout`, composed by
   `PaidForms`; proofs of all safety properties of the composition, and that it
   implements `SeatContract` and `ChargeContract`; by TLC that who was charged
   is answered.
8. The other **Stripe events** on top of 6; **renewals** and **recurring
   documents**: one document per period through crash and retry.
9. **Process lease**, and the dunning and sequence machines that answer to the
   outbox's signals.

The approval queue has no contract of its own: what it promises is refuted in two
places (see Findings), so an abstract queue that it implements would consist
mostly of their exceptions. Its step properties say what holds instead.

Every module takes its sets as CONSTANTS with named assumptions, has one action
per operation of the code and no recursive operator, so that it can be proved
about as well as run. Each run asks one question; `PROJECT.json` lists them.

## 3. The modules

### MailOutbox

One action per step of `mail/venture-mail-outbox.c`; the process, the relay, the
operator and the clock are the actors.

| Model | Code |
|---|---|
| `mail[m]` | a `mail_messages` row: state, attempts, lease-until, next-attempt-at, connection-id, and whether a private intake copy is still held |
| `pc`, `todo`, `count`, `current` | where `venture_mail_outbox_sweep()` is, the rows of its query not visited yet, how many it claimed, the claimed row |
| `elapsed` | how far the clock the sweep fixed at its start has fallen behind |
| `smtp`, `paused` | the organization's active connection, or a transport in `Unbound` put in its place; campaigns whose before-claim handler defers |
| `fate`, `wire` | the relay's decision on the submission being waited for; submissions nobody waits for any more |
| `accepted`, `via`, `tries`, `hot`, `resends` | history: copies accepted, accounts used, attempts and exposure since the last human decision |
| `Enqueue`, `Retry`, `Cancel`, `Forget`, `Configure`, `Pause` | requests |
| `TimerSweep`, `RequestedSweep`, `DeliverOne` | the timer of `venture-mail-delivery.c`, a sweep somebody asks for, one row delivered at once |
| `RecoverExpired`, `PassOver`, `Claim`, `Veto`, `PrepareRefused`, `Bind`, `Submit`, `Answer*` | the body of the sweep's loop in its order |
| `RelayAccepts`, `RelayRefuses`, `LateAccept`, `LateLoss` | the relay, before and after the process stopped waiting |
| `SaveFails`, `Crash`, `Restart`, `Tick` | a refused write, the process, the clock |

A sweep is synchronous, so a request needs `pc = "idle"`; a crash, a refused
save, the clock and the relay come at any point of it. Times are ticks left:
`lease = 0` is "no lease or lease expired", `next = 0` is "due".

A transport in `Unbound` names no connection (`venture_context_set_mailer()`,
`docs/mail.org:297`): the timer takes it as ready, and the sweep leaves the row's
connection-id as it was (`mail-outbox.c:431`). `OneAccount` is about connections:
a message may go out through such a transport first and be bound to a connection
later.

Abstracted: message text, attachments, addresses and templates; validators
(permits) and the module-disabled guard, which refuse before anything changes;
cancellables; the timeline entry written beside a sent message. The relay and
the transport library are external; the model assumes that an error the library
reports as temporary left no copy at the relay (`smtp-mailer.c:236` relies on
the same; see the hazard).

`MailContract` is what the outbox promises of one message, without rows, leases
or sweeps: a `phase`, the `copies` the relay accepted, the ones `pending` there,
and the `decisions` somebody took to send one (the enqueue, the retry of a
message in doubt). A copy is offered only under an unspent decision, and only a
refusal that is known gives a decision back. `MailOutboxRefinement` maps rows,
relay and history to these four variables.

### ConfirmationStore

`rows[r]` is a stored record with its version; `cards[c]` is a pending
confirmation: kind, asker, the staged object and the original it was read from
(each with the version it carries), the stage a deal move goes to, and its age.

| Model | Code |
|---|---|
| `Swept` | `venture_confirmation_store_sweep()`, the first thing every entry point does |
| `Stage`, `Repeats`, `Room` | `venture_confirmation_store_stage()`: the merge by action, summary and asker, and the cap |
| `StageCreate`, `StageEdit`, `StageDelete`, `StageMove`, `StageAction` | the entry points that propose; `StageMove` notes the stage on the card after staging |
| `Approve*` | `venture_confirmation_store_approve()`, one action per route and outcome, with the parts of save, update and delete in `db/venture-database.c` that touch the staged object |
| `Direct*`, `Purge` | other users' writes |
| `Reject`, `Tick`, `Restart` | rejection, expiry, loss of the in-memory table |

A save may be refused *early* (validation, a rule: the object is as it was) or
*late*, after `venture_database_save()` touched the object: an UPDATE the
database refuses, custom fields that cannot be synchronised, an event that
cannot be captured, a commit that fails. `LateRefusals` says whether an instance
has the second kind. PostgreSQL spends the id of a rolled-back insert, SQLite
gives it out again; `ApproveCreateRolledBack` covers both.

Not modelled: approvals that run a service of their own (activity completion,
lead conversion, quote discount, settings, journal posting) and access checks.

### DatabaseTransaction and CommittedEffects

`stack` is the call stack of the home thread: an *operation* (a begin that was
not ended yet), a *section* (the lock without a begin: a save around its checks,
`venture_database_lock_scope()`), an *announcement* (an emission of
`transaction-finished(TRUE)`), whose `turn` is the handler called last and whose
`busy` says whether that handler is at work, or a *notice* (an emission of
`entity-saved` after a save outside any transaction, with the service `turn` at
work in it). `depth`, `open`, `owner` are the
fields `transaction_depth`, `transaction` (not NULL) and `transaction_owner`;
`holder` and `count` the recursive lock; `work` the writes of the open
transaction and `stored` the committed ones. `since`, `told` and `doomed` are
history: what was written since the outermost begin, what its end reported, and
whether a level was rolled back.

| Model | Code (`db/venture-database.c`) |
|---|---|
| `BeginOutermost`, `BeginNested` | `venture_database_begin()` |
| `Execute` | `venture_database_execute()`: a statement, autocommitted outside a transaction; a save is this step too, its own transaction level nests and cancels |
| `ExecuteAlone`, `Noticed` | a save outside any transaction whose `entity-saved` sets a service to work at once, its own transaction committed and the lock free; the emission returns |
| `AuditLost` | a save whose audit entry is refused: the entry's own rollback abandons the transaction, the save reports success |
| `CommitInner`, `CommitPoisoned`, `CommitDone`, `CommitFails` | `venture_database_commit()` |
| `Rollback` | `venture_database_rollback()`, any level |
| `NextHandler`, `Announced` | the handlers of `transaction-finished(TRUE)` in the order they were connected |
| `EnterSection`, `LeaveSection` | the lock held without a begin |
| `Enter`, `Leave` | another thread's read under the lock; other threads may also call commit or rollback, which must do nothing |

`CommittedEffects` EXTENDS it with the services: each handler is of one of three
styles the code has.

| Style | Services |
|---|---|
| draining: one effect at a time, row read again, guarded against re-entry; also at once after a save outside any transaction | referrals, ai-messages |
| detaching: takes the whole queue, then announces | leads, posting, dedupe, payment receipts |
| reloading: an in-memory copy read again | currency registry |

| Model | Code |
|---|---|
| `Save` | a save the listener only takes note of: inside a transaction, while it drains its queue further out, or of a row the registry keeps |
| `SaveAlone`, `EndNotice` | a save outside any transaction that a draining service hears of: it queues the effect and drains its queue, `Drain` by `Drain` |
| `SaveUnaudited` | a save outside any transaction whose audit entry is refused: the row is stored, `audit` is not emitted |
| `SaveAuditLost` | the same inside a transaction, which the refusal abandons |
| `Commit*`, `Rollback*` | the ends, with what the handlers do when they are told FALSE |
| `Call*`, `PassDraining`, `Drain`, `EndAnnouncement` | the handlers told TRUE, one at a time |

The detaching services write the rows they listen for in transactions of their
own, so they queue inside a transaction only. What the end of a bare save's own
transaction announces is, in the model, a commit before the save.

Decisions: only the home thread writes (`check_thread` reports a critical error
otherwise). A begin or statement that is refused changes nothing and is no step.
The emission of FALSE is atomic: every handler in the repository returns without
writing. The ORM is external. `ran` counts to two, `MaxFrames` bounds nesting,
`unaudited` records that a refused audit entry took its transaction with it, and
`missed` the rows stored without one, so that the properties that fail only then
can say so. The settling style of the sequence observer and crashes (queues are
in memory, nothing is recovered) are not modelled.

`TransactionContract` is what callers are promised without nesting: one flat
transaction that is open or lost, what it is to store, who else is let in, and
the answer its end gives. `DatabaseTransactionRefinement` maps to it: depth zero
is "none", an inner rollback turns "open" into "lost", the draft is everything
executed since the outermost begin, whichever level did it. An inner begin or
commit, the lock and the announcements are stutters.

### BusinessEvents

The log of business events and its delivery. Several database connections write
(the server's, those of maintenance programs), consumers page through the feed,
and the server sends each event to the webhooks that match it.

| Model | Code (`core/venture-business-events*.c`) |
|---|---|
| `nextId`, `feedLock` | the id sequence, which a rollback does not wind back; the lock `capture()` takes and the end of the transaction releases |
| `open`, `written`, `committed` | per connection its transaction and the events of it; events stored |
| `cursor`, `seen` | `next_cursor` as a consumer keeps it; history |
| `rows[d]` | a delivery row of an event and a hook: delivered, attempts, ticks until next-attempt-at |
| `batch`, `sending`, `inflight` | rows of the running sweep; the row whose retry is saved and whose request is not sent; the driver's table of requests |
| `asked`, `agreed`, `orphaned`, `received`, `excused` | requests on the network and copies at the endpoints; a copy is excused when its answer was lost or could not be saved |
| `Capture`, `Commit`, `Rollback` | `venture_business_events_capture()` in the save, and the end of its transaction |
| `Read` | `venture_business_events_read()`: a page in id order |
| `Dispatch`, `PassInflight`, `Defer`, `Retain`, `Send`, `SweepRefused` | `venture_business_events_dispatch()` and `start_delivery()` |
| `Answer`, `AnswerUnrecorded`, `Refuse`, `TimeOut` | the callback `sent()` on a later turn of the main loop |
| `Accept`, `AcceptLate`, `LoseLate`, `Configure` | the endpoint; the operator |
| `Crash`, `Tick` | the server process; the clock, a tick is 60 seconds |

Starting a batch is synchronous, but the process may die between the saved retry
and the request. An answer may arrive while the server is inside a transaction:
the code then leaves the saved retry standing. Left out: which saves are
outcomes and which patterns match (the constant `Wants`), the write permit, the
signature and the payload. A hook is "on", "off" (its rows are put off by a
minute) or "broken" (no request can be formed; its retries are counted).

`EventContract` knows no connections, locks, rows or sweeps: the log grows at its
end, a consumer has a beginning of it; an obligation arises with its event, one
request at a time awaits an answer, it is settled only by a request that was
taken, and a request given up may still arrive. In `BusinessEventsRefinement` an
obligation is a row whose event is committed, and the awaited request is read off
what the network and the driver's table hold.

### MailSync

Reading a mailbox, `mail/venture-mail-sync-service.c`. Callers are programs that
may sync the account; the mail server, the operator and the clock are the others.

| Model | Code |
|---|---|
| `validity`, `box`, `used` | the mail server: UIDVALIDITY, messages by UID, the last UID given out |
| `rows[key]` | `mail_inbound` rows by folder, UIDVALIDITY and UID: with content, a further copy (`duplicate-of-id`), or a stub |
| `stored`, `lease` | cursors and lease of the `mail_accounts` row |
| `cursors[c]`, `current[c]` | a sync's own copy of all cursors; whether its version of the account row is the stored one |
| `phase`, `todo`, `upper`, `entries`, `left` | where the sync stands, folders left, the last UID its folder had given out when it was selected, listed UIDs, budget left |
| `tries` | history: how often a message failed |
| `TakeLease`, `Finish` | `take_lease()`, `finish()` |
| `Select`, `FolderRefused`, `List`, `ListEnded`, `Deferred` | `sync_folder()`; a folder may be refused at the EXAMINE or, its cursor already reset, at the LIST |
| `Unread` | `socket_list()` of `mail/venture-imap-client.c`: up to the UIDNEXT of the EXAMINE |
| `PassFiled`, `Fetch`, `File`, `FileFails` | `sync_message()` and `file_message()`: the row and the cursor in one transaction |
| `CountFailure`, `Stub` | `message_failed()` and `file_stub()` |
| `CountUnstored` | the same when neither stub nor count can be saved: the sync stops, and its own copy keeps the count for `finish()` to store |
| `Interrupted` | `error_is_transient()`: the sync stops, nothing is counted |
| `Crash`, `LeaseExpires`, `LeaseOverrun` | a program dies; its lease runs out; a suspended machine finds its lease in the past and another sync starts |
| `Deliver`, `Expunge`, `Renumber`, `Edit` | the server; the operator, who may reset the cursors |

A save of the account row is refused when somebody else saved it since
(`Conflict`). `finish()` then reads the row again and applies its outcome to it,
cursors and lease included, so it may undo the reset of an operator or release
the lease of another sync; the properties hold all the same, because every copy
of a cursor, however old, points at filed mail only. A stub that could not be
stored leaves the count at its limit or above; the model saturates it there.
Mail that arrives after a folder was selected waits for the next sync.

Left out: the first-sync date, cursors and keys from before UIDVALIDITY was kept,
aliases of a shared mailbox, servers that report no UIDVALIDITY, backoff and
deactivation of an account, and what a filed message creates besides its row
(documents, interactions, tickets), which is in the same transaction.

`MailboxContract` speaks of places (a folder, a numbering, a UID), without
programs, leases, sessions, pages or budgets: a place gets one row, which stays,
with the content unless a row elsewhere has it; it is given up only after enough
failures of its own; what is counted as read has its row, though marks may also
go back; and no mail comes to a place already read. `MailSyncRefinement` maps the
present numbering of each folder and the stored cursors to it; whatever a caller
holds privately is not seen.

### Bookings, StripeCheckout and PaidForms

A public form may take a payment and book a seat. `Bookings` and `StripeCheckout`
are the two services, each with its own state and with what others do to it;
`PaidForms` EXTENDS both and adds the intake between them. `ServerClock` is the
clock the three compare their deadlines with.

| Model | Code |
|---|---|
| `resv[r]` | a `booking_reservation` row: state, slot, and until when it is held |
| `Busy`, `Offered` | `load_busy()` and `is_free()`: confirmed rows and holds that last, but for the caller's own |
| `CanReserve`, `CanConfirm`, `Released` | reserve, confirm and release of `venture-booking-reservations.inc` |
| `Book`, `Move`, `Cancel`, `Meet` | customers of the public page and their private link; the owner's calendar |
| `checkout[i][a]` | the a-th `stripe_checkout` row of invoice i: status, bank debits allowed, deadline |
| `session[i][a]`, `events` | the provider: the session made for that row, and what was reported of it |
| `handled`, `answered` | events with a settled `stripe_event` row; deliveries answered with success |
| `ReserveCheckout`, `AnswerStored` | the two transactions of `stripe_checkout_create()`, with the request between them |
| `Process`, `Settles`, `NewStatus` | `stripe_process_verified()` and `stripe_settle_checkout()` |
| `intake[i]` | a `form_payment` row: state, seat, deadline; it has the name of its invoice |
| `Keeping`, `PlaceLeft` | `forms_payment_rows()` and `forms_payment_limits()` with `forms_is_open()` |
| `Begin`, `PayIntake`, `PayInvoice` | `forms_payment_begin()`, its checkout, and the invoice's own page |
| `Webhook`, `WebhookCut` | a delivery: settle, then bring the form up to date; or the server dies, or fails, between the two |
| `Reconcile` | `venture_forms_payment_reconcile()`, with the confirmation of the seat in `forms_write()` |
| `Recover`, `RecoverWithSeat`, `RecoverCut`, `Forget` | the owner's `reconcile_payment`, whole or stopped after its first transaction; erasure |

Each of these is one or two transactions under the database's lock, so an action
is a transaction; what can come between two of them is left to the interleaving.
A refused settlement (another attempt could still collect) would keep the event
and change nothing, so it is no step; the theorem `NoReportIsRefused` says that the
first delivery of a report never meets one. `Revived` names
the one way an intake can take a place unasked (see Findings).

Left out: amounts, other payments of the invoice, automatic collection, payment
links, disputes, settlements the books refuse; named resources, group sizes,
several pages of one owner, edits of a booked meeting outside the service; the
limits per address, contact and link, and what an accepted response sets off.
The provider is modelled by what the code relies on: one session per
idempotency key, none made less than half an hour before its deadline, a session
that ends only after it, signed events for what happened and no others.

Two contracts say what customers are promised. `SeatContract`: a seat is taken
only where there is room, a firm one is lost by its own cancellation only, one
kept aside may lapse or become firm where it was promised; a row has a seat while
it is confirmed or its hold lasts. `ChargeContract`: an invoice is offered for
payment in one way at a time, a debit becomes a payment or gives the invoice
back, money once paid stays paid, and the server settles only what was paid and
answers only what it settled. Its mapping reads the money of an invoice off the
sessions that may still charge it; "several ways" is no state of the contract.

## 4. What the runs check

| Run | Instance | Shows |
|---|---|---|
| `mail_outbox` | 1 message with a private copy, 2 accounts and an unbound transport, 2 attempts, lease 2, 2 resends | `OneCopyPerDecision`, `SettledRowsAreTrue`, `OneAccount`, `AttemptBudget`, `DecidedIsFinal`, `NoAutomaticResend`, and that the outbox implements `MailContract` |
| `mail_outbox_live` | 2 messages, batch limit 1, lease 1, 1 interruption | `InterruptedIsRecovered`, `WaitingIsAttempted` |
| `confirmations` | 2 records (1 exists), 2 labels, 2 values, 2 stages, 3 card places, cap 2, lifetime 1 | `OneCardPerChange`, `WithinLimit`, `NoLostUpdate`, `ApprovedEditIsStored`, `ExpiredIsNeverApplied` |
| `committed_effects` | 3 handlers (draining, detaching, reloading), 5 writes, 4 frames, 1 other thread | `LockAndDepthBalanced`, `NoDirtyRead`, `VerdictIsTrue`, `StoredEffectsOnce`, `FirstHandlerMissesNothing`, `RegistryMissesNothing`, and that the database implements `TransactionContract` while services use it (`KeepsTransactionContract`) |
| `business_events` | 2 connections, 1 consumer, 2 events, each wanted by a hook of its own, pages and batches of one, delays up to 1, 2 faults | `ReaderMissesNothing`, `CopiesAreAccounted`, and that log and delivery implement `EventContract` (`ImplementsContract`) |
| `business_events_live` | 1 connection, 2 events, batches of one, delays up to 2, 1 fault | `CapturedIsDelivered` |
| `mail_sync` | 2 callers, 1 folder, 2 messages of which one may fail, 2 UIDs, 2 numberings, 2 attempts, budget 2, 2 disturbances | `NothingIsSkipped`, `FiledOnce`, and that synchronisation implements `MailboxContract` (`KeepsMailboxContract`) |
| `mail_sync_live` | 1 caller, 2 folders, 1 message that may fail, 2 UIDs, 2 attempts, budget 1, 1 disturbance | `EveryMessageIsHandled` |
| `paid_forms` | 2 intakes, 2 overlapping slots of 1 seat, 2 reservations, limit 1, 2 checkouts of the first invoice, time 2, hold 1, 1 disturbance | `PlacesWithinLimit`, `PaidIsTrue`, and that bookings implement `SeatContract` (`KeepsSeatContract`) |
| `paid_forms_live` | 1 intake, 1 slot, 2 reservations, 2 checkouts, time 3, hold 2, 1 disturbance | `PaidIsAnswered`, and that the payments implement `ChargeContract` (`KeepsChargeContract`) |
| `approval_diff`, `approval_overwrite` | one existing record, every record with the same name; `LateRefusals` is FALSE for the first | a sentence of the code or docs that does not hold: see Findings |

A run that checks a contract does not check the invariants that follow from it
as well: that only committed events leave (`OnlyCommittedIsSent`), that seats stay
within capacity (`SeatsWithinCapacity`), that nothing is charged twice (`OneCharge`),
that all of a transaction is stored or nothing (`AllOrNothing`), that a message was
tried often enough before its stub (`StubsWereTried`). They are theorems of their
own (section 5).

**Bounds.** Mail rows share nothing but the sweep, so safety needs one message;
two accounts are needed to change the connection, two attempts to have a retry
and a last attempt, two resends for copies of different decisions to meet.
Liveness needs two messages and a batch of one, the least for one to starve the
other. In the approval queue two records distinguish "this record" from
"another", three places with a cap of two allow a third proposal to be refused;
a version may be raised twice, which is what a conflict after a failed save
needs. For the transactions four frames are a begin, a nested begin, an
announcement and a transaction begun inside it; two effects of one service are
needed to re-enter while draining. Two events are the least for one to commit
behind the other; a batch of one lets a row of a broken hook stand before a row
that could be sent; two faults are a crash and a lost answer, or two crashes; what is safe does not
depend on how long a delay is, so only the liveness run has a delay of more than
one tick. In a mailbox two UIDs and two numberings are the least for a message to take
another's UID; a disturbance is anything others do to a sync (a message removed,
a renumbering, an edit, a lost session, a crash, a lease overrun), and two of
them combine any two. For a paid form two intakes compete for the last place and
the last seat, two checkouts of one invoice are the least that could charge it
twice; time runs far enough for a hold and a session to end and for a payment to
arrive after that. `RunsOut` begins only what ends within the modelled time, and
the session of an invoice's own page (23 hours) ends after it. The two callers
differ in nothing, so `mail_sync` uses their symmetry; the liveness run does not.
`CHECK_DEADLOCK FALSE` is set in the three approval queue configurations
(`MCConfirmationStore`, `MCApprovalDiff`, `MCApprovalOverwrite`), where the bounds
on versions and places stop the system, and in the two of paid forms
(`MCPaidForms`, `MCPaidFormsLive`), where the modelled time and the attempts run
out; nothing in the code waits in either.

**Fairness** (the four runs named `_live`).

- Outbox. A sweep that has begun runs on, because the transport answers or times
  out (`WF SweepStep`); the process is restarted (`WF Restart`); the clock
  advances (`WF Tick`). The main loop serves its sources in turn, so a timer tick
  that is possible again and again is taken (`SF TimerSweep`). Crashes, refused
  saves and operator retries are bounded by `MaxInterruptions`: one of them that
  recurs for ever starves any queue. Both properties suppose that the
  organization keeps an SMTP connection, because the timer passes over those
  without one (`mail-delivery.c:15-23`).
- Business events. A transaction ends, because it belongs to one operation that
  returns (`WF Commit \/ Rollback`); a batch is worked through (`WF SweepStep`);
  time passes (`WF Tick`); the timer and the answers are sources of the main
  loop, which are served when they are ready again and again (`SF Dispatch`,
  `SF Answer`); the endpoint takes what it is asked (`WF Accept`). A hook that
  stays on is assumed per delivery, and faults are bounded.
- Mail synchronisation. A sync runs on, because the client has a deadline
  (`WF Step`); the lease of a dead one runs out (`WF LeaseExpires`); the sweep
  returns to the account (`SF TakeLease`, strong because another caller may hold
  the lease each time it looks). Disturbances are bounded.

- Paid forms. Time passes (`WF TimePasses`), and the provider delivers an event
  again until a delivery succeeds (`WF Webhook` of each event not answered yet),
  which is what a webhook's status code is for. Nothing is assumed of the
  customer, the owner or the answers to requests.

## 5. What is proved

`MailOutboxProofs`: for any messages, accounts, attempts, limits and lease, the
invariant `TypeOK /\ Standing /\ Budget /\ Ledger /\ SentWasAccepted /\
OneAccount`. The safety properties are not inductive on their own: that a copy
is sent at most once needs to know what each state of a row says about the
copies that may exist (`Ledger`), which for the claimed row depends on where the
sweep is (`Standing`) and on the attempts counted so far (`Budget`). From it:
`TypeCorrect`, `AtMostOneCopy`, `SettledIsTrue`, `NeverTwoAccounts`, `BudgetIsKept`, `FinalStatesHold`, `RecoveryNeverResends`.

`MailOutboxRefinementProofs`: `OutboxImplementsContract`. Under the same
invariant each action maps to a step of `MailContract` or to a stutter.

`DatabaseTransactionProofs`: for any nesting and any threads,
`TypeOK /\ LockBalanced /\ DepthBalanced /\ Standing /\ VerdictIsTrue` is
inductive. The lock and depth are related to the number of frames of each kind
on the stack; lemmas say how pushing and popping change that number. `Standing`
says where uncommitted writes may be. From it: `LockAndDepthAreBalanced`,
`NoDirtyReads`, `VerdictsAreTrue`, `AllOrNothingHolds`, and `TransactionContractKept`:
each action is a step of the flat transaction or a stutter, because whatever
nests leaves `since` and the depth's zero as they were (`UnseenStep`), and the
outermost end stores what `since` holds (`SeenEnd`).

`CommittedEffectsProofs`: `EffectsImplementTransactions` (every behaviour with
services is one of `DatabaseTransaction`, so its invariant carries over, and with
it `EffectsAllOrNothing` and `EffectsKeepTransactionContract`). On top
`NestedInOrder` (nothing begun below the call of a service, in an announcement or
a notice, is still open) and
`QInv`: an effect in a queue belongs to its service, is of a write of the open
transaction or of one being announced, and has not run. From it:
`EffectsFollowStoredRows`,
`RegistryIsComplete` (of the rows the registry was told of), and `FirstMissesNothing`, for the handler connected first
if it drains, with an invariant of its own (`FirstCalls`, `FirstQueue`).

`BusinessEventsProofs`: `Ordered` (an event that is not committed yet lies above
every committed one, because its writer holds the feed's lock) gives
`ReadersMissNothing` with a lemma that a page leaves nothing out; `Escaped` (what
a sweep holds or the network carries is of a committed event, although the
server also sees its own transaction) gives `OnlyCommittedLeaves`; `Ledger` (a
row has one request at most, and copies are counted by where their answers are)
gives `CopiesAccounted`; and `EventsTypeCorrect`. `EventsImplementContract` needs
one invariant more, `Kept`: what a consumer has is the committed part of the log
up to its cursor, and what a sweep holds has a row.

`MailSyncProofs`: `TypeOK /\ Placed /\ AllSafe /\ Paged /\ Filled` is inductive
for any number of callers, folders, messages and renumberings. The stored cursor
alone is not enough: a stale copy that some sync still holds may be written back
at its end. So `Safe` is what every copy promises, of the present numbering that
all at or below it is filed, of an older one only its count of failures; `Paged`
says that a page leaves out nothing between the mark and its end, and that a
failure about to be counted has happened. From it: `SyncTypeCorrect`,
`NoMailSkipped`, `MailFiledOnce`, `GivenUpAfterTries`, and `MailboxContractKept`.
For that a step is one of the server's, which brings mail above the stored mark
only and renumbers beyond any of its cursors (`ServerPromise`); or it files, fails or
gives up one place; or it moves marks alone, which may go anywhere that
`NothingIsSkipped` allows (`MarksPromise`). `Blank` adds that a place without a row
has nothing of one.

The proofs use the assumptions on constants that the modules declare, and
nothing else. In particular the bounds the runs need (`MaxResends`, `MaxFrames`)
are arbitrary there.

`ConfirmationStoreProofs`: for any askers, cards, records, lifetime and cap,
`TypeOK /\ Shaped` is inductive: `Shaped` keeps the content a card may stage and
what a stored row may hold. The rest is an argument about steps. `TableStep`: a
step lets the waiting cards persist as they are (or takes some away), or it adds
one card where there is room and where no waiting card stands for the same
change. That gives `ChangesWaitOnce` and `LimitIsKept`. `ApprovedBy`: a card
becomes approved only by its own approval, while it waits. That gives
`ExpiredNeverApplied`, `NoUpdateIsLost` and `EditsAreStored`; with the types
comes `StoreTypeCorrect`.

`PaidFormsProofs`: for any invoices, attempts, slots, overlaps, capacity and
limit. `StripeInv`: a report describes its session as it is since, a checkout
what its session came to, and every attempt but the newest has ended without
money; that gives `ChargedOnce`. `IntakeInv`: a checkout has an intake, an intake
that says "paid" has a complete checkout, one that gave up its place has an
attempt that ended. `IntakeMoves` says what a step may make of an intake; with
`StripeInv` it gives `PaidMeansPaid`, and `LimitIsKept`, because only an intake
whose second checkout reports a pending debit takes a place unasked
(`PlacesTaken`). `SeatStep`: a step takes no seat, or one row takes one that was
offered to it; that gives `SeatsAreKept`. `TypesHold` is the type invariant.
`NoReportIsRefused`: while an event is unhandled the books are ready for what it
reports (no other attempt was paid or may still collect), so leaving refused
settlements out of the model leaves out nothing.
`SeatContractKept` follows from `SeatStep`, with `SlotsKnown` (a row that was ever
made has a slot). `ChargeContractKept` follows from `StripeInv`: the money of an
invoice is that of the one attempt that may charge it (`MoneyIs`), moves only forward or back to
"none" when its session ends, and a checkout is settled only when its session was
paid (`KnownIsPaid`).

**Model-checked only**: liveness (the prover has no fairness), that is
`InterruptedIsRecovered`, `WaitingIsAttempted`, `CapturedIsDelivered`,
`EveryMessageIsHandled` and `PaidIsAnswered`, and the refuted sentences. Every
other property a run checks is a theorem.

## 6. Findings

Each is a run in which TLC finds the counterexample.

- `approval_diff`: a deal move and a later edit of the same deal by the same
  asker share a card; approving the edit that is shown moves the deal and drops
  the edit. `docs/architecture.org:81` says approving cannot differ from the
  diff shown.
- `approval_overwrite`: a save that fails after touching the staged object
  leaves the card with the next version (or a reused id), which matches a row
  somebody else wrote; the second approval overwrites it.
  `core/venture-confirmation-store.h:30` says never a silent overwrite.
`PROJECT.json` gives the lines and the sentences they contradict.

Met while modelling, and not checked by a run of their own:

- a refused audit entry abandons the transaction around a save that reports
  success; the effect is queued after the rollback was announced, and the next
  commit publishes it, though its row is not stored (`db/venture-database.c:876`,
  against the comment at line 249). This is why `StoredEffectsOnce` supposes, of
  the services that do not read the row again, that audit entries are written;
- outside a transaction the row of such a save stays, but `audit` is not emitted
  (`db/venture-database.c:876-884` returns first, against the comment at lines
  837-838, "The signal fires regardless"), so the currency registry does not hear
  of a currency until its next reload. `RegistryMissesNothing` excepts those rows
  (`missed`);
- while a commit is announced, the rollback of a transaction an earlier handler
  began makes later handlers drop the effects of the committed one
  (`leads/venture-lead-service.c:35`, against `docs/leads.org:283`). This is why
  `FirstHandlerMissesNothing` speaks of the first handler only;
- an intake whose session expired and whose invoice is then paid by a bank debit
  on its own page goes back to "processing" without asking for a place
  (`forms/venture-forms-payments.inc:361`; the question is asked of expired,
  failed and capacity-less intakes only, at line 365), so a form may end with
  more responses than its limit; `docs/forms.org:1162` says that it never
  overbooks. `PlacesWithinLimit` excepts those (`Revived`);
- a late or repeated "expired" event of an earlier checkout puts a
  `paid_needs_booking` or `paid_needs_capacity` intake back to "expired"
  (line 355; `docs/forms.org:1160` says that it remains); the owner's
  `reconcile_payment` repairs it;
- a recovery with a slot that stops after its first transaction leaves a paid
  intake as `pending_payment` until `reconcile_payment` is run once more
  (line 470);
- an intake whose checkout was never made keeps its place under the response
  limit until its payload is swept after thirty days
  (`forms/venture-forms.c:3242`);
- a deletion whose UPDATE fails leaves the staged object marked; approving the
  card again reports success and deletes nothing (`db/venture-database.c:2200`);
- two records with one display name share a card, and the first proposed change
  is lost (`core/venture-confirmation-store.c:477`);
- after an inner rollback the currency registry's reload is refused, because the
  transaction is still nested, and nothing reloads it again
  (`core/venture-currency.c:347`): the registry may hold a currency that was
  never stored, which is why `RegistryMissesNothing` claims one direction only;
- `finish()` of a mail sync that lost its lease writes its cursors over an
  operator's reset and releases the lease of the sync that followed
  (`mail/venture-mail-sync-service.c:1518-1524`).

## 7. Not modelled

Rendering, parsing, reports, file and device I/O and front ends keep no protocol
state. Arithmetic (tax, depreciation, money) is a candidate for operators
checked over bounded inputs. Third-party and vendored code (the ORM, the HTTP
and SMTP libraries) is modelled, where needed, by what the callers in the
repository may see of it. Components with a protocol that are still open are
items 6, 8 and 9 of the plan; `PROJECT.json` has the reason for each.
