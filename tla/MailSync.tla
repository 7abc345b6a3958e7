------------------------------ MODULE MailSync ------------------------------
(***************************************************************************)
(* Reading a mailbox: src/src/mail/venture-mail-sync-service.c.            *)
(*                                                                         *)
(* One account with a list of folders.  A sync takes the account's lease,  *)
(* selects each folder, lists the UIDs above the folder's cursor and files *)
(* each message with its cursor in one transaction.  A message that fails  *)
(* for a reason of its own stops the folder; after MaxAttempts failing     *)
(* syncs a stub takes its place.  Every save of the account row is refused *)
(* when somebody else saved it since it was read.                          *)
(*                                                                         *)
(* Callers are programs that may sync the account: the server, the command *)
(* line.  One of them may die, or be suspended past its lease while        *)
(* another one starts.  The server renumbers a folder now and then and     *)
(* says so by a new UIDVALIDITY.                                           *)
(*                                                                         *)
(* Left out: the first-sync date, cursors and keys from before UIDVALIDITY *)
(* was kept, aliases of a shared mailbox, and what a filed message creates *)
(* besides its row.                                                        *)
(***************************************************************************)
EXTENDS Integers, FiniteSets, Sequences, Functions

CONSTANTS
    Callers,       \* programs that may sync the account
    Folders,
    FolderOrder,   \* the account's list of folders
    Messages,      \* what the mailbox can hold, by Message-ID
    Nothing,       \* no message
    Unfileable,    \* messages whose filing may fail for their own reason
    MaxUid,        \* bound: UIDs a folder gives out
    MaxValidity,   \* bound: values of UIDVALIDITY
    MaxAttempts,   \* VENTURE_MAIL_SYNC_MAX_ATTEMPTS
    Budget,        \* messages a call may examine
    MaxDisturbed   \* bound: what others do to a sync: see Disturbance

Uids == 1..MaxUid
Validities == 1..MaxValidity

ASSUME FoldersAssumption ==
    FolderOrder \in Seq(Folders) /\ FolderOrder # <<>>
ASSUME MessagesAssumption ==
    Nothing \notin Messages /\ Unfileable \subseteq Messages
ASSUME MailBoundsAssumption ==
    /\ MaxUid \in Nat /\ MaxValidity \in Nat \ {0}
    /\ MaxAttempts \in Nat \ {0} /\ Budget \in Nat \ {0}
    /\ MaxDisturbed \in Nat

\* validity 0: the folder was never selected.
Cursor == [validity : 0..MaxValidity, uid : 0..MaxUid, failed : 0..MaxUid,
           attempts : 0..MaxAttempts]

NoCursor == [validity |-> 0, uid |-> 0, failed |-> 0, attempts |-> 0]

\* The UID key: a message is known by where it sits.
Keys == Folders \X Validities \X Uids

Phases == {"idle", "folder", "list", "message", "fetch", "failed", "done"}

VARIABLES
    validity,   \* [Folders -> Validities]: the server's UIDVALIDITY
    box,        \* [Folders -> [Uids -> Messages \cup {Nothing}]]
    used,       \* [Folders -> 0..MaxUid]: the last UID given out
    rows,       \* [Keys -> Row]: the mail_inbound rows
    stored,     \* [Folders -> Cursor]: the cursors of the account row
    lease,      \* the account row holds a lease that has not expired
    phase,      \* [Callers -> Phases]: where a caller's sync stands
    todo,       \* [Callers -> Seq(Folders)]: folders left, the current first
    cursors,    \* [Callers -> [Folders -> Cursor]]: the sync's own copy
    current,    \* [Callers -> BOOLEAN]: its account row is the stored one
    entries,    \* [Callers -> SUBSET Uids]: listed and not examined yet
    upper,      \* [Callers -> 0..MaxUid]: its folder's UIDNEXT - 1 when selected
    left,       \* [Callers -> 0..Budget]: its message budget
    tries,      \* history, [Keys -> 0..MaxAttempts]: failures of a message
    disturbed   \* history: disturbances so far

mailbox == <<validity, box, used>>
account == <<stored, lease>>
sync == <<phase, todo, cursors, current, entries, upper, left>>
history == <<tries, disturbed>>
vars == <<mailbox, rows, account, sync, history>>

\* "root" was filed with its content; "copy" is another place of a root;
\* "stub" says only that the message could not be filed.
Row == [kind : {"none", "root", "copy", "stub"}, message : Messages \cup {Nothing}]

NoRow == [kind |-> "none", message |-> Nothing]

-----------------------------------------------------------------------------
(* The mail server *)

\* A message removed, a folder renumbered or refused, an edit, a lost session, a
\* failed save, a crash, a lease that ran out under its holder.
Disturbance == disturbed < MaxDisturbed /\ disturbed' = disturbed + 1

Deliver(f, m) ==
    /\ used[f] < MaxUid
    /\ used' = [used EXCEPT ![f] = @ + 1]
    /\ box' = [box EXCEPT ![f][used[f] + 1] = m]
    /\ UNCHANGED <<validity, rows, account, sync, history>>

Expunge(f, u) ==
    /\ Disturbance
    /\ box[f][u] # Nothing
    /\ box' = [box EXCEPT ![f][u] = Nothing]
    /\ UNCHANGED <<validity, used, rows, account, sync, tries>>

Selected(f) ==
    \E c \in Callers : phase[c] \in {"list", "message", "fetch", "failed"}
                       /\ todo[c] # <<>> /\ Head(todo[c]) = f

Occupied(f) == {u \in Uids : box[f][u] # Nothing}

\* A folder is rebuilt while no session has it selected.
Renumber(f) ==
    /\ Disturbance
    /\ validity[f] < MaxValidity
    /\ ~Selected(f)
    /\ validity' = [validity EXCEPT ![f] = @ + 1]
    /\ LET n == Cardinality(Occupied(f))
       IN  /\ used' = [used EXCEPT ![f] = n]
           /\ \E moved \in Bijection(1..n, Occupied(f)) :
                 box' = [box EXCEPT ![f] =
                   [u \in Uids |-> IF u <= n THEN box[f][moved[u]] ELSE Nothing]]
    /\ UNCHANGED <<rows, account, sync, tries>>

-----------------------------------------------------------------------------
(* The account row and its lease *)

\* Somebody saved the account: what others hold is out of date.
SavedBy(c) == current' = [d \in Callers |-> d = c]

TakeLease(c) ==
    /\ phase[c] = "idle"
    /\ ~lease
    /\ lease' = TRUE
    /\ SavedBy(c)
    /\ phase' = [phase EXCEPT ![c] = "folder"]
    /\ todo' = [todo EXCEPT ![c] = FolderOrder]
    /\ cursors' = [cursors EXCEPT ![c] = stored]
    /\ left' = [left EXCEPT ![c] = Budget]
    /\ UNCHANGED <<mailbox, rows, stored, entries, upper, history>>

Running == {c \in Callers : phase[c] # "idle"}

\* The lease lasts a minute longer than the call's time budget: what expires
\* is the lease of a sync that died.
LeaseExpires ==
    /\ lease
    /\ Running = {}
    /\ lease' = FALSE
    /\ UNCHANGED <<mailbox, rows, stored, sync, history>>

\* A machine that was suspended finds its lease in the past.
LeaseOverrun ==
    /\ Disturbance
    /\ lease
    /\ Running # {}
    /\ lease' = FALSE
    /\ UNCHANGED <<mailbox, rows, stored, sync, tries>>

\* The operator saves the account, its cursors reset or not.
Edit(after) ==
    /\ Disturbance
    /\ after \in {stored, [f \in Folders |-> NoCursor]}
    /\ stored' = after
    /\ current' = [c \in Callers |-> FALSE]
    /\ UNCHANGED <<mailbox, rows, lease, phase, todo, cursors, entries, upper,
                   left, tries>>

\* Nothing of a sync is left when it ends.
Ends(c) ==
    /\ phase' = [phase EXCEPT ![c] = "idle"]
    /\ todo' = [todo EXCEPT ![c] = <<>>]
    /\ cursors' = [cursors EXCEPT ![c] = [f \in Folders |-> NoCursor]]
    /\ entries' = [entries EXCEPT ![c] = {}]
    /\ upper' = [upper EXCEPT ![c] = 0]
    /\ left' = [left EXCEPT ![c] = 0]

\* finish: when somebody else saved the account, the outcome is applied to
\* what they saved, cursors and lease included.
Finish(c) ==
    /\ phase[c] = "done"
    /\ stored' = cursors[c]
    /\ lease' = FALSE
    /\ current' = [d \in Callers |-> FALSE]
    /\ Ends(c)
    /\ UNCHANGED <<mailbox, rows, history>>

\* The program dies, or neither save of the outcome succeeds.
Crash(c) ==
    /\ Disturbance
    /\ phase[c] # "idle"
    /\ current' = [current EXCEPT ![c] = FALSE]
    /\ Ends(c)
    /\ UNCHANGED <<mailbox, rows, account, tries>>

\* A session, a statement or a file that fails: the sync stops.  A rollback
\* reads the account again.
Interrupted(c) ==
    /\ Disturbance
    /\ phase[c] \notin {"idle", "done"}
    /\ phase' = [phase EXCEPT ![c] = "done"]
    /\ entries' = [entries EXCEPT ![c] = {}]
    /\ \E again \in BOOLEAN : current' = [current EXCEPT ![c] = @ \/ again]
    /\ UNCHANGED <<mailbox, rows, account, todo, cursors, upper, left, tries>>

-----------------------------------------------------------------------------
(* Folders *)

Folder(c) == Head(todo[c])

Mark(c) == cursors[c][Folder(c)]

\* Mutant: a renumbered folder keeps its high-water mark.
SelectedMarkKept(cursor, reported) == [cursor EXCEPT !.validity = reported]

\* Mutant: the count of failures survives a renumbering.
SelectedMarkCounting(cursor, reported) ==
    IF cursor.validity \in {0, reported}
    THEN [cursor EXCEPT !.validity = reported]
    ELSE [cursor EXCEPT !.validity = reported, !.uid = 0]

\* Another UIDVALIDITY than the stored one starts the folder again.
SelectedMark(cursor, reported) ==
    IF cursor.validity \in {0, reported}
    THEN [cursor EXCEPT !.validity = reported]
    ELSE [NoCursor EXCEPT !.validity = reported]

Select(c) ==
    /\ phase[c] = "folder"
    /\ phase' = [phase EXCEPT ![c] = "list"]
    /\ cursors' = [cursors EXCEPT ![c][Folder(c)] =
                     SelectedMark(Mark(c), validity[Folder(c)])]
    /\ upper' = [upper EXCEPT ![c] = used[Folder(c)]]
    /\ UNCHANGED <<mailbox, rows, account, todo, current, entries, left, history>>

\* On to the folder after this one.
LeaveFolder(c) ==
    /\ todo' = [todo EXCEPT ![c] = Tail(@)]
    /\ phase' = [phase EXCEPT ![c] = IF Tail(todo[c]) = <<>> THEN "done" ELSE "folder"]
    /\ entries' = [entries EXCEPT ![c] = {}]

\* One missing or renamed folder does not stop the ones after it: the server
\* refuses to select it, or to list it once it is selected.
FolderRefused(c) ==
    /\ Disturbance
    /\ phase[c] = "folder" \/ (phase[c] = "list" /\ left[c] > 0)
    /\ LeaveFolder(c)
    /\ UNCHANGED <<mailbox, rows, account, cursors, current, upper, left, tries>>

\* The UIDs above the mark that the folder had given out when it was selected:
\* what arrives later waits for the next sync.
Unread(c) == {u \in Occupied(Folder(c)) : Mark(c).uid < u /\ u <= upper[c]}

\* The lowest of them, as many as the budget allows.
IsListing(c, listing) ==
    LET above == Unread(c)
    IN  /\ listing \subseteq above
        /\ Cardinality(listing) = IF Cardinality(above) < left[c]
                                  THEN Cardinality(above) ELSE left[c]
        /\ \A u \in listing, w \in above \ listing : u < w

List(c) ==
    /\ phase[c] = "list"
    /\ left[c] > 0
    /\ \E listing \in SUBSET Uids :
          /\ listing # {}
          /\ IsListing(c, listing)
          /\ entries' = [entries EXCEPT ![c] = listing]
    /\ phase' = [phase EXCEPT ![c] = "message"]
    /\ UNCHANGED <<mailbox, rows, account, todo, cursors, current, upper, left,
                   history>>

ListEnded(c) ==
    /\ phase[c] = "list"
    /\ left[c] > 0
    /\ Unread(c) = {}
    /\ LeaveFolder(c)
    /\ UNCHANGED <<mailbox, rows, account, cursors, current, upper, left, history>>

\* The budget is spent: the call is deferred, the cursors resume the next one.
Deferred(c) ==
    /\ phase[c] \in {"list", "message"}
    /\ left[c] = 0
    /\ phase' = [phase EXCEPT ![c] = "done"]
    /\ entries' = [entries EXCEPT ![c] = {}]
    /\ UNCHANGED <<mailbox, rows, account, todo, cursors, current, upper, left,
                   history>>

-----------------------------------------------------------------------------
(* Messages *)

\* The message in hand: the lowest of the listed ones.
InHand(c, u) == u \in entries[c] /\ \A w \in entries[c] : u <= w

Key(c, u) == <<Folder(c), Mark(c).validity, u>>

Filed(key) == rows[key].kind # "none"

\* venture_imap_client_list gives the next page when this one is through.
Proceed(c, u) ==
    /\ entries' = [entries EXCEPT ![c] = @ \ {u}]
    /\ phase' = [phase EXCEPT ![c] = IF entries[c] = {u} THEN "list" ELSE "message"]

\* Mutant: the mark names the next UID to read.
PastNext(cursor, u) == [cursor EXCEPT !.uid = u + 1, !.failed = 0, !.attempts = 0]

Past(cursor, u) == [cursor EXCEPT !.uid = u, !.failed = 0, !.attempts = 0]

\* The cursor of the current folder becomes `mark' in the sync and in the
\* account row, which must be the one the sync holds.
StoreMark(c, mark) ==
    LET marks == [cursors[c] EXCEPT ![Folder(c)] = mark]
    IN  /\ current[c]
        /\ cursors' = [cursors EXCEPT ![c] = marks]
        /\ stored' = marks
        /\ SavedBy(c)

\* The save found another version: the account is read again, the sync stops.
Conflict(c) ==
    /\ ~current[c]
    /\ current' = [current EXCEPT ![c] = TRUE]
    /\ phase' = [phase EXCEPT ![c] = "done"]
    /\ entries' = [entries EXCEPT ![c] = {}]
    /\ UNCHANGED stored

\* A message that has its row only moves the mark.
PassFiled(c, u) ==
    /\ phase[c] = "message" /\ left[c] > 0 /\ InHand(c, u)
    /\ Filed(Key(c, u))
    /\ left' = [left EXCEPT ![c] = @ - 1]
    /\ \/ /\ StoreMark(c, IF Mark(c).failed = u THEN Past(Mark(c), u)
                          ELSE [Mark(c) EXCEPT !.uid = u])
          /\ Proceed(c, u)
       \/ Conflict(c) /\ UNCHANGED cursors
    /\ UNCHANGED <<mailbox, rows, lease, todo, upper, history>>

Fetch(c, u) ==
    /\ phase[c] = "message" /\ left[c] > 0 /\ InHand(c, u)
    /\ ~Filed(Key(c, u))
    /\ left' = [left EXCEPT ![c] = @ - 1]
    /\ phase' = [phase EXCEPT ![c] = "fetch"]
    /\ UNCHANGED <<mailbox, rows, account, todo, cursors, current, entries, upper,
                   history>>

\* Mutant: only rows under a UIDVALIDITY still in force are searched.
KindUnderValidity(m) ==
    IF \E key \in Keys : key[2] = validity[key[1]]
                         /\ rows[key] = [kind |-> "root", message |-> m]
    THEN "copy" ELSE "root"

\* find_existing, in any folder and under any UIDVALIDITY; a stub is no match.
Kind(m) ==
    IF \E key \in Keys : rows[key] = [kind |-> "root", message |-> m]
    THEN "copy" ELSE "root"

\* The row and the cursor, in one transaction.
File(c, u) ==
    /\ phase[c] = "fetch" /\ InHand(c, u)
    /\ LET m == box[Folder(c)][u]
       IN  /\ m # Nothing
           /\ ~Filed(Key(c, u))
           /\ \/ /\ rows' = [rows EXCEPT ![Key(c, u)] =
                               [kind |-> Kind(m), message |-> m]]
                 /\ StoreMark(c, Past(Mark(c), u))
                 /\ Proceed(c, u)
              \/ Conflict(c) /\ UNCHANGED <<rows, cursors>>
    /\ UNCHANGED <<mailbox, lease, todo, upper, left, history>>

\* A reason of the message's own: it is gone, it does not parse, a save
\* refuses it, or somebody else filed it meanwhile.  A rollback reads the
\* account again.
FileFails(c, u) ==
    /\ phase[c] = "fetch" /\ InHand(c, u)
    /\ \/ box[Folder(c)][u] = Nothing /\ UNCHANGED current
       \/ /\ box[Folder(c)][u] \in Unfileable
          /\ \E again \in BOOLEAN : current' = [current EXCEPT ![c] = @ \/ again]
       \/ box[Folder(c)][u] # Nothing /\ Filed(Key(c, u))
          /\ current' = [current EXCEPT ![c] = TRUE]
    /\ phase' = [phase EXCEPT ![c] = "failed"]
    /\ tries' = [tries EXCEPT ![Key(c, u)] = IF @ < MaxAttempts THEN @ + 1 ELSE @]
    /\ UNCHANGED <<mailbox, rows, account, todo, cursors, entries, upper, left,
                   disturbed>>

\* message_failed: the failure is counted against this UID.  A stub that could
\* not be stored leaves the count at its limit or above: above is all one.
Counted(cursor, u) ==
    IF cursor.failed = u
    THEN [cursor EXCEPT !.attempts = IF @ < MaxAttempts THEN @ + 1 ELSE @]
    ELSE [cursor EXCEPT !.failed = u, !.attempts = 1]

\* Mutant: the third failure is only counted.
CountFailureForEver(c, u) ==
    /\ phase[c] = "failed" /\ InHand(c, u)
    /\ \/ StoreMark(c, Counted(Mark(c), u)) /\ LeaveFolder(c)
       \/ Conflict(c) /\ UNCHANGED <<cursors, todo>>
    /\ UNCHANGED <<mailbox, rows, lease, upper, left, history>>

\* The folder stops here until the next sync.
CountFailure(c, u) ==
    /\ phase[c] = "failed" /\ InHand(c, u)
    /\ Counted(Mark(c), u).attempts < MaxAttempts
    /\ \/ StoreMark(c, Counted(Mark(c), u)) /\ LeaveFolder(c)
       \/ /\ Conflict(c)
          /\ cursors' = [cursors EXCEPT ![c][Folder(c)] = Counted(Mark(c), u)]
          /\ UNCHANGED todo
    /\ UNCHANGED <<mailbox, rows, lease, upper, left, history>>

\* file_stub: after the last attempt a row that says why, and the folder
\* moves on.
Stub(c, u) ==
    /\ phase[c] = "failed" /\ InHand(c, u)
    /\ Counted(Mark(c), u).attempts >= MaxAttempts
    /\ \/ /\ ~Filed(Key(c, u))
          /\ rows' = [rows EXCEPT ![Key(c, u)] = [kind |-> "stub", message |-> Nothing]]
          /\ StoreMark(c, Past(Mark(c), u))
          /\ Proceed(c, u)
       \/ /\ Filed(Key(c, u)) \/ ~current[c]
          /\ cursors' = [cursors EXCEPT ![c][Folder(c)] = Counted(Mark(c), u)]
          /\ current' = [current EXCEPT ![c] = TRUE]
          /\ phase' = [phase EXCEPT ![c] = "done"]
          /\ entries' = [entries EXCEPT ![c] = {}]
          /\ UNCHANGED <<rows, stored>>
    /\ UNCHANGED <<mailbox, lease, todo, upper, left, history>>

\* Neither the stub nor the count can be stored, for a reason that is not
\* another writer's: the sync stops with the failure counted in its own copy.
CountUnstored(c, u) ==
    /\ Disturbance
    /\ phase[c] = "failed" /\ InHand(c, u)
    /\ cursors' = [cursors EXCEPT ![c][Folder(c)] = Counted(Mark(c), u)]
    /\ \E again \in BOOLEAN : current' = [current EXCEPT ![c] = @ \/ again]
    /\ phase' = [phase EXCEPT ![c] = "done"]
    /\ entries' = [entries EXCEPT ![c] = {}]
    /\ UNCHANGED <<mailbox, rows, account, todo, upper, left, tries>>

-----------------------------------------------------------------------------
Init ==
    /\ validity = [f \in Folders |-> 1]
    /\ box = [f \in Folders |-> [u \in Uids |-> Nothing]]
    /\ used = [f \in Folders |-> 0]
    /\ rows = [key \in Keys |-> NoRow]
    /\ stored = [f \in Folders |-> NoCursor]
    /\ lease = FALSE
    /\ phase = [c \in Callers |-> "idle"]
    /\ todo = [c \in Callers |-> <<>>]
    /\ cursors = [c \in Callers |-> [f \in Folders |-> NoCursor]]
    /\ current = [c \in Callers |-> FALSE]
    /\ entries = [c \in Callers |-> {}]
    /\ upper = [c \in Callers |-> 0]
    /\ left = [c \in Callers |-> 0]
    /\ tries = [key \in Keys |-> 0]
    /\ disturbed = 0

\* What a sync does while nothing goes wrong around it.
Step(c) ==
    \/ Select(c) \/ List(c) \/ ListEnded(c) \/ Deferred(c) \/ Finish(c)
    \/ \E u \in Uids : \/ PassFiled(c, u) \/ Fetch(c, u) \/ File(c, u)
                       \/ FileFails(c, u) \/ CountFailure(c, u) \/ Stub(c, u)

Next ==
    \/ \E f \in Folders : \/ \E m \in Messages : Deliver(f, m)
                          \/ \E u \in Uids : Expunge(f, u)
                          \/ Renumber(f)
    \/ \E after \in {stored, [f \in Folders |-> NoCursor]} : Edit(after)
    \/ \E c \in Callers : \/ TakeLease(c) \/ Step(c) \/ FolderRefused(c)
                          \/ Interrupted(c) \/ Crash(c)
                          \/ \E u \in Uids : CountUnstored(c, u)
    \/ LeaseExpires
    \/ LeaseOverrun

Spec == Init /\ [][Next]_vars

\* A sync that runs goes on, time passes, and the sweep comes back.
FairSpec ==
    /\ Spec
    /\ \A c \in Callers : WF_vars(Step(c))
    /\ WF_vars(LeaseExpires)
    /\ SF_vars(\E c \in Callers : TakeLease(c))

-----------------------------------------------------------------------------
(* Properties *)

\* The types; in particular no cursor passes the UIDs a folder gives out, and no
\* call examines more messages than its budget.
TypeOK ==
    /\ validity \in [Folders -> Validities]
    /\ box \in [Folders -> [Uids -> Messages \cup {Nothing}]]
    /\ used \in [Folders -> 0..MaxUid]
    /\ rows \in [Keys -> Row]
    /\ stored \in [Folders -> Cursor]
    /\ lease \in BOOLEAN
    /\ phase \in [Callers -> Phases]
    /\ todo \in [Callers -> Seq(Folders)]
    /\ cursors \in [Callers -> [Folders -> Cursor]]
    /\ current \in [Callers -> BOOLEAN]
    /\ entries \in [Callers -> SUBSET Uids]
    /\ upper \in [Callers -> 0..MaxUid]
    /\ left \in [Callers -> 0..Budget]
    /\ tries \in [Keys -> 0..MaxAttempts]
    /\ disturbed \in 0..MaxDisturbed

\* What lies at or below a folder's stored mark has its row, whatever crashed,
\* overlapped, was renumbered or was reset before.
NothingIsSkipped ==
    \A f \in Folders : \A u \in Occupied(f) :
        stored[f].validity = validity[f] /\ u <= stored[f].uid
            => Filed(<<f, validity[f], u>>)

\* A message is filed with its content once, however many folders hold it and
\* however often they are renumbered or read again.
FiledOnce ==
    \A key, other \in Keys :
        rows[key].kind = "root" /\ rows[other].kind = "root"
            /\ rows[key].message = rows[other].message => key = other

\* A message is given up only after it failed MaxAttempts times itself: other
\* failures, of its predecessor under the same UID included, do not count.
StubsWereTried ==
    \A key \in Keys : rows[key].kind = "stub" => tries[key] = MaxAttempts

\* Every message that stays in a folder has its row in the end, although one
\* before it cannot be filed, syncs die, and other folders come first.
EveryMessageIsHandled ==
    \A f \in Folders, v \in Validities, u \in Uids :
        (validity[f] = v /\ box[f][u] # Nothing)
            ~> (validity[f] # v \/ box[f][u] = Nothing \/ Filed(<<f, v, u>>))
=============================================================================
