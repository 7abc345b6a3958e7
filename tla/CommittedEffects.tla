------------------------- MODULE CommittedEffects -------------------------
(***************************************************************************)
(* What services do once a transaction has committed, on top of            *)
(* DatabaseTransaction.  A service hears of a row while the transaction    *)
(* that wrote it is open and queues an effect in memory; its handler of    *)
(* transaction-finished runs the queue after a commit and drops it after a *)
(* rollback.  The handlers are called in the order they were connected,    *)
(* and one of them is of one of three styles:                              *)
(*                                                                         *)
(*   draining   takes one effect at a time from its queue, reads the row   *)
(*              again, and works in transactions of its own; a guard keeps *)
(*              those from touching the queue; it also drains at once when *)
(*              it hears of a save outside any transaction (referrals,     *)
(*              ai-messages);                                              *)
(*   detaching  takes the whole queue first, then announces each effect    *)
(*              (leads, posting, dedupe, payment receipts); it queues in   *)
(*              transactions of its own only;                              *)
(*   reloading  keeps a copy of stored rows in memory and reads it again,  *)
(*              also when a write is audited (the currency registry).      *)
(*                                                                         *)
(* An effect is named by the write it follows from.                        *)
(***************************************************************************)
EXTENDS DatabaseTransaction

CONSTANTS
    Style,         \* [1..Handlers -> Styles]
    Listener       \* [Writes -> 0..Handlers]: who hears of it, 0 = no one

Styles == {"draining", "detaching", "reloading"}

ASSUME StyleAssumption == Style \in [1..Handlers -> Styles]
ASSUME ListenerAssumption == Listener \in [Writes -> 0..Handlers]

VARIABLES
    pending,    \* [1..Handlers -> SUBSET Writes]: effects queued
    flushing,   \* [1..Handlers -> Nat]: the call that drains, 0 = none
    ran,        \* history, [Writes -> 0..2]: its effect ran never, once, more
    registry,   \* rows the reloading handlers hold in memory
    reload,     \* the registry changed during this transaction
    unaudited,  \* history: an audit entry took its transaction with it
    missed      \* history: stored rows the registry was not told of

effects == <<pending, flushing, ran, registry, reload, unaudited, missed>>
allVars == <<vars, effects>>

-----------------------------------------------------------------------------
Heard(w) == Listener[w] # 0
Kept == {w \in Writes : Heard(w) /\ Style[Listener[w]] = "reloading"}

\* A service hears that w was saved: entity-saved, or audit for the registry.
Queued(queues, w) ==
    [queues EXCEPT ![Listener[w]] = IF w \in Kept THEN @ ELSE @ \cup {w}]

\* Mutant: a rollback leaves the queues alone.
DroppedNone == pending

\* Mutant: a nested rollback empties the queue that is being drained.
DroppedAll == [h \in 1..Handlers |-> {}]

\* transaction-finished with FALSE: every queue is emptied, except one that
\* is being drained.
Dropped ==
    [h \in 1..Handlers |-> IF flushing[h] # 0 THEN pending[h] ELSE {}]

\* Mutant: a reload that was refused leaves an empty registry.
ReloadedOrEmpty(refused) ==
    /\ reload' = FALSE
    /\ registry' = IF reload THEN IF refused THEN {} ELSE stored' \cap Kept
                   ELSE registry

\* venture_currency_reload: reading is refused inside a poisoned transaction.
Reloaded(refused) ==
    /\ reload' = FALSE
    /\ registry' = IF reload /\ ~refused THEN stored' \cap Kept ELSE registry

-----------------------------------------------------------------------------
(* Writes *)

WriteUnheard(w) ==
    /\ ~Heard(w)
    /\ Execute(w)
    /\ UNCHANGED effects

\* The listener only takes note: a transaction is open, or it keeps no queue,
\* or a call further out is draining its queue.
Noted(w) ==
    \/ depth > 0
    \/ w \in Kept
    \/ flushing[Listener[w]] # 0

\* A save, its audit entry and its entity-saved.
Save(w) ==
    /\ Heard(w)
    /\ Noted(w)
    /\ Execute(w)
    /\ pending' = Queued(pending, w)
    /\ IF w \in Kept
       THEN /\ registry' = (stored' \cup work') \cap Kept
            /\ reload' = TRUE
       ELSE UNCHANGED <<registry, reload>>
    /\ UNCHANGED <<flushing, ran, unaudited, missed>>

\* A save outside any transaction: the listener drains its queue at once.  What
\* the end of the save's own transaction announces is a commit before it.
SaveAlone(w) ==
    /\ Heard(w)
    /\ Style[Listener[w]] = "draining"
    /\ flushing[Listener[w]] = 0
    /\ ExecuteAlone(w, Listener[w])
    /\ pending' = Queued(pending, w)
    /\ flushing' = [flushing EXCEPT ![Listener[w]] = Len(stack')]
    /\ UNCHANGED <<ran, registry, reload, unaudited, missed>>

\* A save outside any transaction whose audit entry was refused: the row is
\* stored, and the signal "audit" that tells the registry is not emitted.
SaveUnaudited(w) ==
    /\ w \in Kept
    /\ depth = 0
    /\ Execute(w)
    /\ missed' = missed \cup {w}
    /\ UNCHANGED <<pending, flushing, ran, registry, reload, unaudited>>

\* The audit entry was refused and took the transaction with it; the save
\* goes on to emit entity-saved for a row that is gone.
SaveAuditLost(w) ==
    /\ Heard(w)
    /\ AuditLost(w)
    /\ pending' = Queued(Dropped, w)
    /\ Reloaded(TRUE)
    /\ unaudited' = TRUE
    /\ UNCHANGED <<flushing, ran, missed>>

-----------------------------------------------------------------------------
(* Ends of transactions *)

CommitQuietly(t) ==
    /\ CommitInner(t) \/ CommitPoisoned(t) \/ CommitDone(t)
    /\ UNCHANGED effects

CommitRefused(t) ==
    /\ CommitFails(t)
    /\ pending' = Dropped
    /\ Reloaded(FALSE)
    /\ UNCHANGED <<flushing, ran, unaudited, missed>>

\* The rollback that abandons an open transaction tells the handlers.
RollbackOpen(t) ==
    /\ open
    /\ Rollback(t)
    /\ pending' = Dropped
    /\ Reloaded(depth' > 0)
    /\ UNCHANGED <<flushing, ran, unaudited, missed>>

RollbackAgain(t) ==
    /\ ~open
    /\ Rollback(t)
    /\ UNCHANGED effects

-----------------------------------------------------------------------------
(* The handlers of transaction-finished with TRUE *)

\* The handler called last has nothing left to do.
Drains(h) == flushing[h] = Len(stack)
AtRest == Top.turn # 0 /\ Drains(Top.turn) => pending[Top.turn] = {}

\* The handler called last returns; a draining one lowers its guard.
Returned == [h \in 1..Handlers |-> IF Drains(h) THEN 0 ELSE flushing[h]]

More(w) == IF ran[w] = 0 THEN 1 ELSE 2

Taken(h) == [pending EXCEPT ![h] = {}]

CallDetaching ==
    LET h == Top.turn + 1
    IN  /\ Inside("announcement")
        /\ AtRest
        /\ h \in 1..Handlers
        /\ Style[h] = "detaching"
        /\ NextHandler(pending[h] # {})
        /\ pending' = Taken(h)
        /\ ran' = [w \in Writes |-> IF w \in pending[h] THEN More(w) ELSE ran[w]]
        /\ flushing' = Returned
        /\ UNCHANGED <<registry, reload, unaudited, missed>>

\* A draining handler returns at once when its queue is empty or an outer
\* call is draining it already.
PassDraining ==
    LET h == Top.turn + 1
    IN  /\ Inside("announcement")
        /\ AtRest
        /\ h \in 1..Handlers
        /\ Style[h] = "draining"
        /\ flushing[h] # 0 \/ pending[h] = {}
        /\ NextHandler(FALSE)
        /\ flushing' = Returned
        /\ UNCHANGED <<pending, ran, registry, reload, unaudited, missed>>

\* One effect of the queue: its row is read again first.
Given(w) == IF w \in stored THEN [ran EXCEPT ![w] = More(w)] ELSE ran

CallDraining(w) ==
    LET h == Top.turn + 1
    IN  /\ Inside("announcement")
        /\ AtRest
        /\ h \in 1..Handlers
        /\ Style[h] = "draining"
        /\ flushing[h] = 0
        /\ w \in pending[h]
        /\ NextHandler(TRUE)
        /\ flushing' = [Returned EXCEPT ![h] = Len(stack)]
        /\ pending' = [pending EXCEPT ![h] = @ \ {w}]
        /\ ran' = Given(w)
        /\ UNCHANGED <<registry, reload, unaudited, missed>>

Drain(w) ==
    LET h == Top.turn
    IN  /\ stack # <<>>
        /\ h # 0
        /\ Drains(h)
        /\ w \in pending[h]
        /\ pending' = [pending EXCEPT ![h] = @ \ {w}]
        /\ ran' = Given(w)
        /\ UNCHANGED <<vars, flushing, registry, reload, unaudited, missed>>

CallReloading ==
    LET h == Top.turn + 1
    IN  /\ Inside("announcement")
        /\ AtRest
        /\ h \in 1..Handlers
        /\ Style[h] = "reloading"
        /\ NextHandler(FALSE)
        /\ flushing' = Returned
        /\ Reloaded(FALSE)
        /\ UNCHANGED <<pending, ran, unaudited, missed>>

EndAnnouncement ==
    /\ Inside("announcement")
    /\ AtRest
    /\ Announced
    /\ flushing' = Returned
    /\ UNCHANGED <<pending, ran, registry, reload, unaudited, missed>>

\* The flush after a save outside any transaction returns.
EndNotice ==
    /\ Noticed
    /\ AtRest
    /\ flushing' = Returned
    /\ UNCHANGED <<pending, ran, registry, reload, unaudited, missed>>

-----------------------------------------------------------------------------
EffectsInit ==
    /\ Init
    /\ pending = [h \in 1..Handlers |-> {}]
    /\ flushing = [h \in 1..Handlers |-> 0]
    /\ ran = [w \in Writes |-> 0]
    /\ registry = {}
    /\ reload = FALSE
    /\ unaudited = FALSE
    /\ missed = {}

EffectsNext ==
    \/ (BeginOutermost \/ BeginNested \/ EnterSection \/ LeaveSection)
        /\ UNCHANGED effects
    \/ \E w \in Writes : WriteUnheard(w)
    \/ \E w \in Writes : Save(w)
    \/ \E w \in Writes : SaveAlone(w)
    \/ \E w \in Writes : SaveUnaudited(w)
    \/ \E w \in Writes : SaveAuditLost(w)
    \/ \E t \in Threads : CommitQuietly(t)
    \/ \E t \in Threads : CommitRefused(t)
    \/ \E t \in Threads : RollbackOpen(t)
    \/ \E t \in Threads : RollbackAgain(t)
    \/ CallDetaching
    \/ PassDraining
    \/ \E w \in Writes : CallDraining(w)
    \/ \E w \in Writes : Drain(w)
    \/ CallReloading
    \/ EndAnnouncement
    \/ EndNotice
    \/ \E t \in Others : (Enter(t) \/ Leave(t)) /\ UNCHANGED effects

EffectsSpec == EffectsInit /\ [][EffectsNext]_allVars

-----------------------------------------------------------------------------
(* Properties *)

EffectsTypeOK ==
    /\ TypeOK
    /\ pending \in [1..Handlers -> SUBSET Writes]
    /\ flushing \in [1..Handlers -> Nat]
    /\ ran \in [Writes -> 0..2]
    /\ registry \subseteq Kept
    /\ reload \in BOOLEAN
    /\ unaudited \in BOOLEAN
    /\ missed \subseteq Kept

\* As long as every audit entry is written, an effect only runs for a row that
\* is stored.
CommittedEffectsOnly ==
    ~unaudited => \A w \in Writes : ran[w] > 0 => w \in stored

\* The same for the services that read the row again before they act on it.
DrainedEffectsOnly ==
    \A w \in Writes :
        Heard(w) /\ Style[Listener[w]] = "draining" /\ ran[w] > 0 => w \in stored

\* As long as every audit entry is written, no effect runs twice, although
\* handlers work in transactions whose end calls the handlers again.
NoEffectTwice == ~unaudited => \A w \in Writes : ran[w] <= 1

\* An effect runs once, and for a stored row: "services use this to publish
\* committed effects only" (venture-database.c, transaction-finished), which
\* holds of the services that do not read the row again only as long as every
\* audit entry is written.
StoredEffectsOnce ==
    CommittedEffectsOnly /\ DrainedEffectsOnly /\ NoEffectTwice

\* When the database is idle, the handler connected first has run the effect
\* of every stored row it heard of, whatever its own work rolled back.
FirstHandlerMissesNothing ==
    stack = <<>> => \A w \in stored : Listener[w] = 1 => ran[w] = 1

\* A stored row the registry was told of is never missing from it, whatever was
\* rolled back or refused since, so an amount in that currency can be shown.
RegistryMissesNothing == (stored \cap Kept) \ missed \subseteq registry

=============================================================================
