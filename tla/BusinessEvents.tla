--------------------------- MODULE BusinessEvents ---------------------------
(***************************************************************************)
(* The log of business events and its delivery to webhooks:                *)
(* src/src/core/venture-business-events.c, -read.c and -delivery.c.        *)
(*                                                                         *)
(* A save that is a business outcome writes an event and one delivery row  *)
(* per subscribed hook in its own transaction.  Several connections may    *)
(* write (the server's and those of maintenance programs); ids come from   *)
(* one sequence that a rollback does not wind back, and a lock held to the *)
(* end of the transaction keeps a later id from committing first.          *)
(*                                                                         *)
(* The server delivers.  A timer starts the rows that are due, each after  *)
(* its retry was saved; the endpoint decides whenever it likes; the answer *)
(* comes on a later turn of the main loop, which may be one run inside a   *)
(* transaction of the server.  Starting a batch is synchronous: no request *)
(* and no answer is handled in the middle of it, but the process may die.  *)
(*                                                                         *)
(* Times are counted in ticks of 60 seconds left until next-attempt-at;    *)
(* zero and less is due, the most overdue first.                           *)
(***************************************************************************)
EXTENDS Integers, FiniteSets

CONSTANTS
    Connections,   \* database connections that write
    Server,        \* the one of the process that delivers
    Nobody,        \* no connection
    Readers,       \* consumers of the replay feed
    MaxEvents,     \* bound: events ever allocated
    Hooks,         \* webhooks with business_events set
    Wants,         \* [Hooks -> SUBSET Events]: the events a hook matches
    NoDelivery,    \* no delivery
    PageLimit,     \* events on a page of the feed
    BatchLimit,    \* deliveries a sweep starts (16)
    BackoffCap,    \* longest delay, in ticks (3600 seconds)
    MaxAttempts,   \* where the attempt counter saturates (G_MAXINT64)
    MaxOverdue,    \* bound: ticks a row is overdue
    MaxFaults      \* bound: crashes, refused saves, lost and refused answers

Events == 1..MaxEvents
\* The obligations that can arise: an event and a hook that matches it.
Deliveries == {d \in Events \X Hooks : d[1] \in Wants[d[2]]}

ASSUME ConnectionsAssumption ==
    Server \in Connections /\ Nobody \notin Connections
ASSUME EventsAssumption == MaxEvents \in Nat
ASSUME WantsAssumption == Wants \in [Hooks -> SUBSET Events]
ASSUME NoDeliveryAssumption == NoDelivery \notin Deliveries
ASSUME LimitsAssumption ==
    /\ PageLimit \in Nat \ {0}
    /\ BatchLimit \in Nat \ {0}
    /\ BackoffCap \in Nat \ {0}
    /\ MaxAttempts \in Nat
    /\ MaxOverdue \in Nat
    /\ MaxFaults \in Nat

VARIABLES
    nextId,      \* the sequence events take their ids from
    feedLock,    \* holder of the feed's lock
    open,        \* [Connections -> BOOLEAN]: a transaction is open
    written,     \* [Connections -> SUBSET Events]: events of that transaction
    committed,   \* events stored for good
    cursor,      \* [Readers -> 0..MaxEvents]: next_cursor a consumer keeps
    seen,        \* history, [Readers -> SUBSET Events]: what it was given
    hooks,       \* [Hooks -> HookStates]
    rows,        \* [Deliveries -> Row]: the delivery rows
    batch,       \* rows of the running sweep not started yet
    sending,     \* the row whose retry is saved and whose request is not sent
    inflight,    \* the driver's table of requests
    asked,       \* [Deliveries -> Nat]: requests awaited, undecided
    agreed,      \* [Deliveries -> Nat]: requests awaited, answered 2xx
    orphaned,    \* [Deliveries -> Nat]: undecided requests nobody awaits
    received,    \* history, [Deliveries -> Nat]: copies endpoints took
    excused,     \* history, [Deliveries -> Nat]: of those, the ones whose
                 \* answer was lost or could not be saved
    faults       \* history: faults so far

feed == <<nextId, feedLock, open, written, committed>>
readers == <<cursor, seen>>
sweep == <<batch, sending>>
network == <<inflight, asked, agreed, orphaned, received, excused>>
vars == <<feed, readers, hooks, rows, sweep, network, faults>>

\* "broken": active, with a destination no request can be sent to.
HookStates == {"on", "off", "broken"}

Row == [exists : BOOLEAN, delivered : BOOLEAN, attempts : 0..MaxAttempts,
        next : Int]

NoRow == [exists |-> FALSE, delivered |-> FALSE, attempts |-> 0, next |-> 0]
NewRow == [exists |-> TRUE, delivered |-> FALSE, attempts |-> 0, next |-> 0]

-----------------------------------------------------------------------------
(* The log *)

Begin(c) ==
    /\ ~open[c]
    /\ c = Server => batch = {} /\ sending = NoDelivery
    /\ open' = [open EXCEPT ![c] = TRUE]
    /\ UNCHANGED <<nextId, feedLock, written, committed, readers, hooks, rows,
                   sweep, network, faults>>

\* The event, and a row for each hook that is active and matches it.  A hook
\* that is "off" is inactive, or it is one whose deliveries are put off by a
\* later check (its format, its tenant): then it has a row.
Record(c) ==
    /\ nextId < MaxEvents
    /\ nextId' = nextId + 1
    /\ written' = [written EXCEPT ![c] = @ \cup {nextId + 1}]
    /\ \E inactive \in SUBSET {h \in Hooks : hooks[h] = "off"} :
          rows' = [d \in Deliveries |->
                     IF d[1] = nextId + 1 /\ d[2] \notin inactive
                     THEN NewRow ELSE rows[d]]

\* Mutant: only the sequence orders the events.
CaptureUnlocked(c) ==
    /\ open[c]
    /\ Record(c)
    /\ UNCHANGED <<feedLock, open, committed, readers, hooks, sweep, network,
                   faults>>

\* venture_business_events_capture, inside the save of the source record.
Capture(c) ==
    /\ open[c]
    /\ feedLock \in {c, Nobody}
    /\ feedLock' = c
    /\ Record(c)
    /\ UNCHANGED <<open, committed, readers, hooks, sweep, network, faults>>

Ended(c) ==
    /\ open[c]
    /\ open' = [open EXCEPT ![c] = FALSE]
    /\ written' = [written EXCEPT ![c] = {}]
    /\ feedLock' = IF feedLock = c THEN Nobody ELSE feedLock

Commit(c) ==
    /\ Ended(c)
    /\ committed' = committed \cup written[c]
    /\ UNCHANGED <<nextId, readers, hooks, rows, sweep, network, faults>>

Forgotten(c) ==
    [d \in Deliveries |-> IF d[1] \in written[c] THEN NoRow ELSE rows[d]]

\* A rollback, and a capture or commit that is refused: the source write, the
\* event and its rows go together.
Rollback(c) ==
    /\ Ended(c)
    /\ rows' = Forgotten(c)
    /\ UNCHANGED <<nextId, committed, readers, hooks, sweep, network, faults>>

\* venture_business_events_read: a page in id order after the cursor.
Page(r) ==
    LET after == {e \in committed : e > cursor[r]}
    IN  {e \in after : Cardinality({f \in after : f <= e}) <= PageLimit}

Read(r) ==
    /\ \E last \in Page(r) :
          /\ \A e \in Page(r) : e <= last
          /\ cursor' = [cursor EXCEPT ![r] = last]
    /\ seen' = [seen EXCEPT ![r] = @ \cup Page(r)]
    /\ UNCHANGED <<feed, hooks, rows, sweep, network, faults>>

-----------------------------------------------------------------------------
(* The sweep: venture_business_events_dispatch and start_delivery *)

Configure(h, state) ==
    /\ hooks[h] # state
    /\ hooks' = [hooks EXCEPT ![h] = state]
    /\ UNCHANGED <<feed, readers, rows, sweep, network, faults>>

\* What the server's connection sees: its own transaction included.
Visible(d) == rows[d].exists /\ d[1] \in committed \cup written[Server]

Due(d) == Visible(d) /\ ~rows[d].delivered /\ rows[d].next <= 0

\* ORDER BY next-attempt-at, id: rows of one event were inserted in the order
\* of its hooks.
Before(d, e) ==
    \/ rows[d].next < rows[e].next
    \/ rows[d].next = rows[e].next /\ d[1] < e[1]

\* A batch is cut where the order says; ties within it fall either way.
IsBatch(b) ==
    LET due == {d \in Deliveries : Due(d)}
    IN  /\ b \subseteq due
        /\ Cardinality(b) = IF Cardinality(due) < BatchLimit
                            THEN Cardinality(due) ELSE BatchLimit
        /\ \A d \in b, e \in due \ b : ~Before(e, d)

AtRest == batch = {} /\ sending = NoDelivery

\* Mutant: the sweep also runs inside a transaction.
DispatchAnytime ==
    /\ AtRest
    /\ \E d \in Deliveries : Due(d)
    /\ \E b \in SUBSET Deliveries : IsBatch(b) /\ batch' = b
    /\ UNCHANGED <<feed, readers, hooks, rows, sending, network, faults>>

Dispatch ==
    /\ AtRest
    /\ ~open[Server]
    /\ \E d \in Deliveries : Due(d)
    /\ \E b \in SUBSET Deliveries : IsBatch(b) /\ batch' = b
    /\ UNCHANGED <<feed, readers, hooks, rows, sending, network, faults>>

\* The next row of the batch.
Turn(d) ==
    /\ sending = NoDelivery
    /\ d \in batch
    /\ \A e \in batch : ~Before(e, d)

PassInflight(d) ==
    /\ Turn(d)
    /\ d \in inflight
    /\ batch' = batch \ {d}
    /\ UNCHANGED <<feed, readers, hooks, rows, sending, network, faults>>

\* Mutant: a row that cannot be sent now keeps its place.
DeferNot(d) ==
    /\ Turn(d)
    /\ d \notin inflight
    /\ hooks[d[2]] = "off"
    /\ batch' = batch \ {d}
    /\ UNCHANGED <<feed, readers, hooks, rows, sending, network, faults>>

\* defer_delivery: 60 seconds.
Defer(d) ==
    /\ Turn(d)
    /\ d \notin inflight
    /\ hooks[d[2]] = "off"
    /\ rows' = [rows EXCEPT ![d].next = 1]
    /\ batch' = batch \ {d}
    /\ UNCHANGED <<feed, readers, hooks, sending, network, faults>>

Doubling == <<1, 2, 4, 8, 16, 32, 64>>

\* 60 << MIN(attempts, 6) seconds, an hour at most.
Delay(attempts) ==
    LET ticks == Doubling[IF attempts > 6 THEN 7 ELSE attempts + 1]
    IN  IF ticks > BackoffCap THEN BackoffCap ELSE ticks

\* Mutant: the attempts are counted without end.
RetainedUncounted(d) ==
    [rows EXCEPT ![d].attempts = @ + 1,
                 ![d].next = Delay(rows[d].attempts)]

Retained(d) ==
    [rows EXCEPT ![d].attempts = IF @ < MaxAttempts THEN @ + 1 ELSE @,
                 ![d].next = Delay(rows[d].attempts)]

\* Mutant: nobody asks whether the row has a request under way.
RetainAnyway(d) ==
    /\ Turn(d)
    /\ hooks[d[2]] # "off"
    /\ rows' = Retained(d)
    /\ batch' = batch \ {d}
    /\ sending' = IF hooks[d[2]] = "on" THEN d ELSE NoDelivery
    /\ UNCHANGED <<feed, readers, hooks, network, faults>>

\* The retry is saved before any transport; a broken destination stops there.
Retain(d) ==
    /\ Turn(d)
    /\ d \notin inflight
    /\ hooks[d[2]] # "off"
    /\ rows' = Retained(d)
    /\ batch' = batch \ {d}
    /\ sending' = IF hooks[d[2]] = "on" THEN d ELSE NoDelivery
    /\ UNCHANGED <<feed, readers, hooks, network, faults>>

Send ==
    /\ sending # NoDelivery
    /\ inflight' = inflight \cup {sending}
    /\ asked' = [asked EXCEPT ![sending] = @ + 1]
    /\ sending' = NoDelivery
    /\ UNCHANGED <<feed, readers, hooks, rows, batch, agreed, orphaned,
                   received, excused, faults>>

Fault == faults < MaxFaults /\ faults' = faults + 1

\* A read or a save the database refuses: the sweep returns FALSE.
SweepRefused ==
    /\ Fault
    /\ batch # {} /\ sending = NoDelivery
    /\ batch' = {}
    /\ UNCHANGED <<feed, readers, hooks, rows, sending, network>>

-----------------------------------------------------------------------------
(* The endpoint, and the callback sent *)

Accept(d) ==
    /\ asked[d] > 0
    /\ asked' = [asked EXCEPT ![d] = @ - 1]
    /\ agreed' = [agreed EXCEPT ![d] = @ + 1]
    /\ received' = [received EXCEPT ![d] = @ + 1]
    /\ UNCHANGED <<feed, readers, hooks, rows, sweep, inflight, orphaned,
                   excused, faults>>

AcceptLate(d) ==
    /\ orphaned[d] > 0
    /\ orphaned' = [orphaned EXCEPT ![d] = @ - 1]
    /\ received' = [received EXCEPT ![d] = @ + 1]
    /\ excused' = [excused EXCEPT ![d] = @ + 1]
    /\ UNCHANGED <<feed, readers, hooks, rows, sweep, inflight, asked, agreed,
                   faults>>

LoseLate(d) ==
    /\ orphaned[d] > 0
    /\ orphaned' = [orphaned EXCEPT ![d] = @ - 1]
    /\ UNCHANGED <<feed, readers, hooks, rows, sweep, inflight, asked, agreed,
                   received, excused, faults>>

\* The main loop may run inside a transaction, not inside a sweep.
Done(d) == AtRest /\ inflight' = inflight \ {d}

\* A 2xx answer, outside any transaction, saved.
Answer(d) ==
    /\ Done(d)
    /\ agreed[d] > 0
    /\ ~open[Server]
    /\ agreed' = [agreed EXCEPT ![d] = @ - 1]
    /\ rows' = [rows EXCEPT ![d].delivered = TRUE]
    /\ UNCHANGED <<feed, readers, hooks, sweep, asked, orphaned, received,
                   excused, faults>>

\* A 2xx answer that is lost on its way, arrives inside a transaction, or
\* cannot be saved: the retry that was saved stands.
AnswerUnrecorded(d) ==
    /\ Fault
    /\ Done(d)
    /\ agreed[d] > 0
    /\ agreed' = [agreed EXCEPT ![d] = @ - 1]
    /\ excused' = [excused EXCEPT ![d] = @ + 1]
    /\ UNCHANGED <<feed, readers, hooks, rows, sweep, asked, orphaned, received>>

\* Another status, or no answer within the timeout of a request that did not
\* arrive: saved or not, the row stays pending.
Refuse(d) ==
    /\ Fault
    /\ Done(d)
    /\ asked[d] > 0
    /\ asked' = [asked EXCEPT ![d] = @ - 1]
    /\ UNCHANGED <<feed, readers, hooks, rows, sweep, agreed, orphaned,
                   received, excused>>

\* No answer within the timeout; the endpoint may still take the request.
TimeOut(d) ==
    /\ Fault
    /\ Done(d)
    /\ asked[d] > 0
    /\ asked' = [asked EXCEPT ![d] = @ - 1]
    /\ orphaned' = [orphaned EXCEPT ![d] = @ + 1]
    /\ UNCHANGED <<feed, readers, hooks, rows, sweep, agreed, received, excused>>

-----------------------------------------------------------------------------
(* The process and the clock *)

\* The server dies and is started again: its transaction is gone, and so are
\* the sweep and the table of requests.
Crash ==
    /\ Fault
    /\ open' = [open EXCEPT ![Server] = FALSE]
    /\ written' = [written EXCEPT ![Server] = {}]
    /\ feedLock' = IF feedLock = Server THEN Nobody ELSE feedLock
    /\ rows' = Forgotten(Server)
    /\ batch' = {}
    /\ sending' = NoDelivery
    /\ inflight' = {}
    /\ asked' = [d \in Deliveries |-> 0]
    /\ agreed' = [d \in Deliveries |-> 0]
    /\ orphaned' = [d \in Deliveries |-> orphaned[d] + asked[d]]
    /\ excused' = [d \in Deliveries |-> excused[d] + agreed[d]]
    /\ UNCHANGED <<nextId, committed, readers, hooks, received>>

Pending(d) == rows[d].exists /\ ~rows[d].delivered

\* A sweep takes far less than a tick.
Tick ==
    /\ AtRest
    /\ \E d \in Deliveries : Pending(d)
    /\ \A d \in Deliveries : Pending(d) => rows[d].next > -MaxOverdue
    /\ rows' = [d \in Deliveries |->
                  IF Pending(d) THEN [rows[d] EXCEPT !.next = @ - 1] ELSE rows[d]]
    /\ UNCHANGED <<feed, readers, hooks, sweep, network, faults>>

-----------------------------------------------------------------------------
Init ==
    /\ nextId = 0
    /\ feedLock = Nobody
    /\ open = [c \in Connections |-> FALSE]
    /\ written = [c \in Connections |-> {}]
    /\ committed = {}
    /\ cursor = [r \in Readers |-> 0]
    /\ seen = [r \in Readers |-> {}]
    /\ hooks \in [Hooks -> HookStates]
    /\ rows = [d \in Deliveries |-> NoRow]
    /\ batch = {}
    /\ sending = NoDelivery
    /\ inflight = {}
    /\ asked = [d \in Deliveries |-> 0]
    /\ agreed = [d \in Deliveries |-> 0]
    /\ orphaned = [d \in Deliveries |-> 0]
    /\ received = [d \in Deliveries |-> 0]
    /\ excused = [d \in Deliveries |-> 0]
    /\ faults = 0

SweepStep == Send \/ \E d \in Deliveries : PassInflight(d) \/ Defer(d) \/ Retain(d)

Next ==
    \/ \E c \in Connections : Begin(c) \/ Capture(c) \/ Commit(c) \/ Rollback(c)
    \/ \E r \in Readers : Read(r)
    \/ \E h \in Hooks, state \in HookStates : Configure(h, state)
    \/ Dispatch
    \/ SweepStep
    \/ SweepRefused
    \/ \E d \in Deliveries :
          \/ Accept(d) \/ AcceptLate(d) \/ LoseLate(d)
          \/ Answer(d) \/ AnswerUnrecorded(d) \/ Refuse(d) \/ TimeOut(d)
    \/ Crash
    \/ Tick

Spec == Init /\ [][Next]_vars

\* The timer fires every five seconds and the main loop serves its sources in
\* turn: a sweep or an answer that is possible again and again happens.  A
\* transaction belongs to one operation, which returns.  The
\* endpoint decides on what it was asked.
FairSpec ==
    /\ Spec
    /\ \A c \in Connections : WF_vars(Commit(c) \/ Rollback(c))
    /\ SF_vars(Dispatch)
    /\ WF_vars(SweepStep)
    /\ WF_vars(Tick)
    /\ \A d \in Deliveries : WF_vars(Accept(d)) /\ SF_vars(Answer(d))

-----------------------------------------------------------------------------
(* Properties *)

\* The types; a row that exists belongs to an event that was allocated.
TypeOK ==
    /\ nextId \in 0..MaxEvents
    /\ feedLock \in Connections \cup {Nobody}
    /\ open \in [Connections -> BOOLEAN]
    /\ written \in [Connections -> SUBSET Events]
    /\ committed \subseteq Events
    /\ cursor \in [Readers -> 0..MaxEvents]
    /\ seen \in [Readers -> SUBSET Events]
    /\ hooks \in [Hooks -> HookStates]
    /\ rows \in [Deliveries -> Row]
    /\ batch \subseteq Deliveries
    /\ sending \in Deliveries \cup {NoDelivery}
    /\ inflight \subseteq Deliveries
    /\ asked \in [Deliveries -> Nat]
    /\ agreed \in [Deliveries -> Nat]
    /\ orphaned \in [Deliveries -> Nat]
    /\ received \in [Deliveries -> Nat]
    /\ excused \in [Deliveries -> Nat]
    /\ faults \in 0..MaxFaults

\* A consumer that keeps its cursor is given every event: none commits behind
\* a cursor that was handed out.
ReaderMissesNothing ==
    \A r \in Readers : {e \in committed : e <= cursor[r]} \subseteq seen[r]

\* What an endpoint is asked to take, or took, is the event of a committed
\* transaction: a rolled-back outcome never leaves the server.
OnlyCommittedIsSent ==
    \A d \in Deliveries :
        asked[d] + orphaned[d] + received[d] > 0 => d[1] \in committed

\* Every copy an endpoint took is the one on record, the one whose answer is
\* on its way, or one whose answer was lost: nothing is delivered twice
\* without such a loss, and nothing is on record that was not taken.
CopiesAreAccounted ==
    \A d \in Deliveries :
        received[d] = (IF rows[d].delivered THEN 1 ELSE 0) + agreed[d] + excused[d]

\* An obligation to a hook that works is met in the end, however many rows of
\* hooks that are switched off or broken stand before it.
CapturedIsDelivered ==
    \A d \in Deliveries :
        <>[](hooks[d[2]] = "on") =>
            (rows[d].exists /\ d[1] \in committed ~> rows[d].delivered)
=============================================================================
