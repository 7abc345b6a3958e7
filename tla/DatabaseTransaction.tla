------------------------ MODULE DatabaseTransaction ------------------------
(***************************************************************************)
(* The one connection every component writes through, and the transactions *)
(* and lock around it: src/src/db/venture-database.c.                      *)
(*                                                                         *)
(* Only the thread that opened the database (Home) writes.  It runs        *)
(* nested calls: a service begins, calls another service that begins too,  *)
(* and each begin is ended by a commit or a rollback of its own; a save    *)
(* takes the lock around all of that; and a successful outermost commit    *)
(* calls the handlers of "transaction-finished" one after the other, whose *)
(* own work nests in turn.  stack is that nesting: the calls under way,    *)
(* innermost last.  Other threads read under the lock, and may call commit *)
(* or rollback without a begin, which must do nothing.                     *)
(*                                                                         *)
(* A nested begin joins the running transaction, so a rollback at any      *)
(* level abandons all of it while the levels around it are still open:     *)
(* such a transaction is Poisoned, everything is refused until they end.   *)
(***************************************************************************)
EXTENDS Integers, Sequences, FiniteSets

CONSTANTS
    Home,       \* home_thread: the thread that opened the database
    Others,     \* the other threads
    Nobody,     \* no thread
    Writes,     \* the statements that may be executed
    Handlers,   \* handlers connected to transaction-finished
    MaxFrames   \* bound: calls nested in one another

ASSUME ThreadsAssumption ==
    Home \notin Others /\ Nobody \notin Others \cup {Home}
ASSUME HandlersAssumption == Handlers \in Nat
ASSUME FramesAssumption == MaxFrames \in Nat

VARIABLES
    depth,    \* transaction_depth: begins not ended
    open,     \* transaction # NULL
    owner,    \* transaction_owner
    holder,   \* the thread that holds the recursive lock
    count,    \* how often it holds it
    stack,    \* the calls under way on Home
    stored,   \* writes committed
    work,     \* writes of the open transaction
    since,    \* history: writes executed since the outermost begin
    told,     \* history: what the last outermost commit or rollback said
    doomed    \* history: a level of that transaction was rolled back

lock == <<holder, count>>
data == <<stored, work, since, told, doomed>>
vars == <<depth, open, owner, holder, count, stack, stored, work, since, told,
          doomed>>

Threads == Others \cup {Home}
Verdicts == {"nothing", "committed", "failed"}

-----------------------------------------------------------------------------
(* The nesting of calls *)

\* turn: the handler called last, busy: whether that handler is at work.
Frames == [kind : {"operation", "section", "announcement", "notice"},
           turn : 0..Handlers, busy : BOOLEAN]

Operation    == [kind |-> "operation",    turn |-> 0, busy |-> TRUE]
Section      == [kind |-> "section",      turn |-> 0, busy |-> TRUE]
Announcement == [kind |-> "announcement", turn |-> 0, busy |-> FALSE]
Notice(h)    == [kind |-> "notice",       turn |-> h, busy |-> TRUE]

Top == stack[Len(stack)]
Outer == SubSeq(stack, 1, Len(stack) - 1)

\* Code outside transaction-finished's own loop is running.
Running == stack # <<>> => Top.busy

Inside(kind) == stack # <<>> /\ Top.kind = kind

Push(frame) ==
    /\ Running
    /\ Len(stack) < MaxFrames
    /\ stack' = Append(stack, frame)

Levels(s, kinds) == Cardinality({i \in 1..Len(s) : s[i].kind \in kinds})

-----------------------------------------------------------------------------
(* The recursive lock *)

Free(t) == holder \in {t, Nobody}

Acquire(t) ==
    /\ Free(t)
    /\ holder' = t
    /\ count' = count + 1

\* Mutant: a plain mutex, which the first unlock frees.
ReleaseAll ==
    /\ count' = 0
    /\ holder' = Nobody

Release ==
    /\ count' = count - 1
    /\ holder' = IF count = 1 THEN Nobody ELSE holder

-----------------------------------------------------------------------------
(* Begin *)

\* Mutant: nothing tells a rolled back transaction from an open one.
NeverPoisoned == FALSE

Poisoned == depth > 0 /\ ~open

\* venture_database_begin and _begin_serializable with nothing open.
BeginOutermost ==
    /\ depth = 0
    /\ Push(Operation)
    /\ Acquire(Home)
    /\ depth' = 1
    /\ open' = TRUE
    /\ owner' = Home
    /\ since' = {}
    /\ told' = "nothing"
    /\ doomed' = FALSE
    /\ UNCHANGED <<stored, work>>

\* Mutant: only the outermost begin takes the lock.
BeginNestedUnlocked ==
    /\ depth > 0
    /\ ~Poisoned
    /\ Push(Operation)
    /\ Free(Home)
    /\ depth' = depth + 1
    /\ UNCHANGED <<open, owner, lock, data>>

\* venture_database_begin inside a transaction: joins it.
BeginNested ==
    /\ depth > 0
    /\ ~Poisoned
    /\ Push(Operation)
    /\ Acquire(Home)
    /\ depth' = depth + 1
    /\ UNCHANGED <<open, owner, data>>

-----------------------------------------------------------------------------
(* Statements: venture_database_execute and _query_raw *)

Written(w) ==
    /\ Free(Home)
    /\ ~Poisoned
    /\ w \notin stored \cup work
    /\ IF open
       THEN /\ work' = work \cup {w}
            /\ UNCHANGED stored
       ELSE /\ stored' = stored \cup {w}
            /\ UNCHANGED work
    /\ since' = IF depth > 0 THEN since \cup {w} ELSE {}
    /\ told' = IF depth > 0 THEN told ELSE "nothing"
    /\ UNCHANGED <<depth, open, owner, lock, doomed>>

Execute(w) ==
    /\ Running
    /\ Written(w)
    /\ UNCHANGED stack

\* A save outside any transaction that sets handler h to work at once: its own
\* transaction has committed and the lock is free when entity-saved is emitted.
ExecuteAlone(w, h) ==
    /\ depth = 0
    /\ Push(Notice(h))
    /\ Written(w)

\* The emission of entity-saved returns.
Noticed ==
    /\ Inside("notice")
    /\ stack' = Outer
    /\ UNCHANGED <<depth, open, owner, lock, data>>

\* A save inside a transaction whose row was written and whose audit entry
\* was refused: the entry's own save begins, rolls back and thereby abandons
\* the whole transaction; the outer save reports success.
AuditLost(w) ==
    /\ Running
    /\ depth > 0
    /\ open
    /\ w \notin stored \cup work
    /\ open' = FALSE
    /\ work' = {}
    /\ since' = since \cup {w}
    /\ doomed' = TRUE
    /\ UNCHANGED <<depth, owner, lock, stack, stored, told>>

-----------------------------------------------------------------------------
(* Commit and rollback.  Home ends the innermost level it began; any other *)
(* thread may call them at any time, without a level of its own.           *)

Begun(t) == depth # 0 /\ t = owner

Ends(t) ==
    /\ Begun(t)
    /\ t = Home => Inside("operation")

Rest(t) == IF t = Home THEN Outer ELSE stack

\* Mutant: an inner commit keeps its lock level.
CommitInnerHolding(t) ==
    /\ Ends(t)
    /\ depth > 1
    /\ depth' = depth - 1
    /\ stack' = Rest(t)
    /\ UNCHANGED <<open, owner, lock, data>>

CommitInner(t) ==
    /\ Ends(t)
    /\ depth > 1
    /\ depth' = depth - 1
    /\ stack' = Rest(t)
    /\ Release
    /\ UNCHANGED <<open, owner, data>>

\* The outermost commit of a transaction an inner level rolled back.
CommitPoisoned(t) ==
    /\ Ends(t)
    /\ depth = 1
    /\ ~open
    /\ depth' = 0
    /\ owner' = Nobody
    /\ stack' = Rest(t)
    /\ told' = "failed"
    /\ Release
    /\ UNCHANGED <<open, stored, work, since, doomed>>

CommitDone(t) ==
    /\ Ends(t)
    /\ depth = 1
    /\ open
    /\ depth' = 0
    /\ open' = FALSE
    /\ owner' = Nobody
    /\ stack' = Append(Rest(t), Announcement)
    /\ stored' = stored \cup work
    /\ work' = {}
    /\ told' = "committed"
    /\ Release
    /\ UNCHANGED <<since, doomed>>

\* The engine refuses the commit.  The handlers are told FALSE; all of them
\* return without calling the database again to write.
CommitFails(t) ==
    /\ Ends(t)
    /\ depth = 1
    /\ open
    /\ depth' = 0
    /\ open' = FALSE
    /\ owner' = Nobody
    /\ stack' = Rest(t)
    /\ work' = {}
    /\ told' = "failed"
    /\ Release
    /\ UNCHANGED <<stored, since, doomed>>

\* Mutant: an inner rollback undoes nothing, as an inner commit does nothing.
RollbackOutermostOnly(t) ==
    /\ Ends(t)
    /\ depth' = depth - 1
    /\ open' = (open /\ depth > 1)
    /\ owner' = IF depth = 1 THEN Nobody ELSE owner
    /\ stack' = Rest(t)
    /\ work' = IF depth = 1 THEN {} ELSE work
    /\ told' = IF depth = 1 THEN "failed" ELSE told
    /\ doomed' = TRUE
    /\ Release
    /\ UNCHANGED <<stored, since>>

Rollback(t) ==
    /\ Ends(t)
    /\ depth' = depth - 1
    /\ open' = FALSE
    /\ owner' = IF depth = 1 THEN Nobody ELSE owner
    /\ stack' = Rest(t)
    /\ work' = {}
    /\ told' = IF depth = 1 THEN "failed" ELSE told
    /\ doomed' = TRUE
    /\ Release
    /\ UNCHANGED <<stored, since>>

-----------------------------------------------------------------------------
(* The handlers of transaction-finished, after a successful commit *)

\* Emission moves to the next handler, which is at work or returns at once.
NextHandler(works) ==
    /\ Inside("announcement")
    /\ Top.turn < Handlers
    /\ stack' = [stack EXCEPT ![Len(stack)].turn = Top.turn + 1,
                              ![Len(stack)].busy = works]
    /\ UNCHANGED <<depth, open, owner, lock, data>>

Announced ==
    /\ Inside("announcement")
    /\ Top.turn = Handlers
    /\ stack' = Outer
    /\ UNCHANGED <<depth, open, owner, lock, data>>

-----------------------------------------------------------------------------
(* The lock without a begin: a save around its checks and its transaction, *)
(* venture_database_lock_scope, and the reads of other threads             *)

EnterSection ==
    /\ Push(Section)
    /\ Acquire(Home)
    /\ UNCHANGED <<depth, open, owner, data>>

LeaveSection ==
    /\ Inside("section")
    /\ stack' = Outer
    /\ Release
    /\ UNCHANGED <<depth, open, owner, data>>

Enter(t) ==
    /\ holder = Nobody
    /\ Acquire(t)
    /\ UNCHANGED <<depth, open, owner, stack, data>>

Leave(t) ==
    /\ holder = t
    /\ Release
    /\ UNCHANGED <<depth, open, owner, stack, data>>

-----------------------------------------------------------------------------
Init ==
    /\ depth = 0
    /\ open = FALSE
    /\ owner = Nobody
    /\ holder = Nobody
    /\ count = 0
    /\ stack = <<>>
    /\ stored = {}
    /\ work = {}
    /\ since = {}
    /\ told = "nothing"
    /\ doomed = FALSE

Next ==
    \/ BeginOutermost
    \/ BeginNested
    \/ EnterSection
    \/ LeaveSection
    \/ Announced
    \/ \E works \in BOOLEAN : NextHandler(works)
    \/ \E w \in Writes : Execute(w)
    \/ \E w \in Writes, h \in 1..Handlers : ExecuteAlone(w, h)
    \/ Noticed
    \/ \E w \in Writes : AuditLost(w)
    \/ \E t \in Threads : CommitInner(t)
    \/ \E t \in Threads : CommitPoisoned(t)
    \/ \E t \in Threads : CommitDone(t)
    \/ \E t \in Threads : CommitFails(t)
    \/ \E t \in Threads : Rollback(t)
    \/ \E t \in Others : Enter(t)
    \/ \E t \in Others : Leave(t)

Spec == Init /\ [][Next]_vars

-----------------------------------------------------------------------------
(* Properties *)

TypeOK ==
    /\ depth \in Nat
    /\ open \in BOOLEAN
    /\ owner \in Threads \cup {Nobody}
    /\ holder \in Threads \cup {Nobody}
    /\ count \in Nat
    /\ stack \in Seq(Frames)
    /\ stored \subseteq Writes
    /\ work \subseteq Writes
    /\ since \subseteq Writes
    /\ told \in Verdicts
    /\ doomed \in BOOLEAN

\* The lock is held once for every call under way that took it, so it is free
\* again when the outermost pair closes, whatever mixture of commits and
\* rollbacks closed it: "either one leaks a level ... a permanent, silent
\* deadlock" (venture-database.c, transaction_depth).
LockBalanced ==
    LET held == Levels(stack, {"operation", "section"})
    IN  /\ holder = Home => count = held
        /\ holder # Home => held = 0
        /\ holder \in Others => count = 1
        /\ holder = Nobody => count = 0

\* transaction_depth counts exactly the begins under way, and the transaction
\* belongs to the thread that began it for as long as one of them is.
DepthBalanced ==
    /\ depth = Levels(stack, {"operation"})
    /\ owner = IF depth > 0 THEN Home ELSE Nobody
    /\ open => depth > 0

\* The lock and the depth close together, on every way a begin can end and
\* whoever else calls commit or rollback.
LockAndDepthBalanced == LockBalanced /\ DepthBalanced

\* A read of another thread through the shared connection never sees the
\* writes of an uncommitted transaction.
NoDirtyRead == holder \in Others => ~open /\ work = {}

\* What an outermost commit or rollback says is what happened to every write
\* executed since the outermost begin, those of nested levels included: a
\* success means all are stored and no level was rolled back, a failure that
\* none is stored.
VerdictIsTrue ==
    /\ told = "committed" => since \subseteq stored /\ ~doomed
    /\ told = "failed" => since \cap stored = {}

\* Stored data changes in two ways: one statement outside any transaction, or
\* an outermost commit that stores every write since the outermost begin.  A
\* write of an abandoned transaction never escapes into autocommit.
AllOrNothing ==
    [][stored' # stored =>
        \/ depth = 0 /\ \E w \in Writes : stored' = stored \cup {w}
        \/ depth = 1 /\ depth' = 0 /\ stored' = stored \cup since]_vars

=============================================================================
