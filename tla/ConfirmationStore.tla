------------------------- MODULE ConfirmationStore --------------------------
(***************************************************************************)
(* The approval queue: src/src/core/venture-confirmation-store.c, with the *)
(* parts of db/venture-database.c its approvals run through (save, update, *)
(* delete and their version check) and the deal service's move.            *)
(*                                                                         *)
(* A card holds the staged object (the record with the change applied, and *)
(* the version it was read at) and the original it was read from.  It      *)
(* lives in memory only.  Staging, approving and rejecting are each one    *)
(* turn of the main loop; other users write to the records in between, and *)
(* a save may be refused either before it touches the staged object or     *)
(* after: a statement the database refuses, an event that cannot be        *)
(* captured, a commit that fails.                                          *)
(***************************************************************************)
EXTENDS Integers, FiniteSets

CONSTANTS
    Records,      \* record ids
    NoRecord,     \* the id of a record never saved
    Existing,     \* the records that exist at the start
    Labels,       \* display names
    LabelOf,      \* [Existing -> Labels]
    Askers,       \* origins that propose changes
    Values,       \* contents of the fields an edit sets
    Stages,       \* pipeline stages, the field only a move sets
    NoMove,       \* deal_stage_id = 0
    Cards,        \* places in the table of pending confirmations
    Limit,        \* ai.confirmation_limit
    Ttl,          \* ai.confirmation_ttl, in ticks
    MaxVersion,   \* bound: versions other users and failed saves count up to
    LateRefusals  \* whether a save may fail after it touched its object

ASSUME RecordsAssumption == NoRecord \notin Records /\ Existing \subseteq Records
ASSUME LabelsAssumption == LabelOf \in [Existing -> Labels]
ASSUME StagesAssumption == NoMove \notin Stages
ASSUME ContentAssumption ==
    Labels # {} /\ Values # {} /\ Stages # {} /\ Askers # {}
ASSUME CardsAssumption == Cards \subseteq Nat /\ IsFiniteSet(Cards)
ASSUME LimitAssumption == Limit \in Nat \ {0}
ASSUME TtlAssumption == Ttl \in Nat \ {0}
ASSUME VersionAssumption == MaxVersion \in Nat \ {0}
ASSUME LateAssumption == LateRefusals \in BOOLEAN

VARIABLES
    rows,   \* [Records -> Row]: the stored records
    cards   \* [Cards -> Card]: the table of waiting cards; the place of one
            \* just decided shows how, until the table is used again

vars == <<rows, cards>>

\* A record: its fields as a diff sees them, and the row version they carry.
Content == [version : Nat, label : Labels, value : Values, stage : Stages,
            deleted : BOOLEAN]

\* "unborn" ids are still to be given out, "gone" ones were purged and are
\* never given out again (AUTOINCREMENT).
Row == [at : {"unborn", "live", "gone"}, is : Content]

Kinds == {"create", "edit", "delete", "action"}
Fates == {"free", "pending", "approved", "failed"}

Card == [fate : Fates, kind : Kinds, asker : Askers,
         record : Records \cup {NoRecord}, staged : Content, original : Content,
         moveTo : Stages \cup {NoMove}, age : 0..Ttl]

-----------------------------------------------------------------------------
(* The queue *)

Live(r) == rows[r].at = "live"

\* The bound: a record that reached MaxVersion is neither edited directly nor
\* proposed for a change any more.
Open(r) == Live(r) /\ rows[r].is.version < MaxVersion

Expired(c) == cards[c].fate = "pending" /\ cards[c].age >= Ttl

\* Mutant: a lifetime nobody looks at.
WaitsForEver(c) == cards[c].fate = "pending"

Waiting(c) == cards[c].fate = "pending" /\ cards[c].age < Ttl

FirstContent == [version |-> 1, label |-> CHOOSE l \in Labels : TRUE,
                 value |-> CHOOSE v \in Values : TRUE,
                 stage |-> CHOOSE s \in Stages : TRUE, deleted |-> FALSE]

\* What is left of a card that was removed from the table.
Removed(fate) == [fate |-> fate, kind |-> "edit", asker |-> CHOOSE a \in Askers : TRUE,
    record |-> NoRecord, staged |-> FirstContent, original |-> FirstContent,
    moveTo |-> NoMove, age |-> 0]

\* venture_confirmation_store_sweep, which every entry point runs first.
Swept == [c \in Cards |-> IF Waiting(c) THEN cards[c] ELSE Removed("free")]

Decide(c, fate) == cards' = [Swept EXCEPT ![c] = Removed(fate)]

\* venture_entity_diff is empty.
SameFields(a, b) == [a EXCEPT !.version = 0] = [b EXCEPT !.version = 0]

\* Mutant: every proposal gets a card of its own.
RepeatsNothing(c, kind, label, asker) == FALSE

\* The card a new proposal is taken to repeat: same action, same summary
\* (which spells the record by its display name) and same asker.
Repeats(c, kind, label, asker) ==
    /\ Waiting(c)
    /\ cards[c].kind = kind
    /\ cards[c].staged.label = label
    /\ cards[c].asker = asker

\* Mutant: one card too many.
RoomForOneMore == Cardinality({c \in Cards : Waiting(c)}) <= Limit

Room == Cardinality({c \in Cards : Waiting(c)}) < Limit

\* A new card takes the first free place; ids are random tokens in the code.
FirstFree(c) ==
    /\ ~Waiting(c)
    /\ \A d \in Cards : ~Waiting(d) => c <= d

\* venture_confirmation_store_stage.  A repeated proposal replaces the staged
\* and the original object of the card that waits; what stage_deal_move set
\* on that card, and its expiry, stay.
Stage(kind, record, staged, original, asker) ==
    IF \E c \in Cards : Repeats(c, kind, staged.label, asker)
    THEN \E c \in Cards :
            /\ Repeats(c, kind, staged.label, asker)
            /\ cards' = [Swept EXCEPT ![c] = [@ EXCEPT !.record = record,
                            !.staged = staged, !.original = original]]
    ELSE \E c \in Cards :
            /\ Room
            /\ FirstFree(c)
            /\ cards' = [Swept EXCEPT ![c] =
                  [fate |-> "pending", kind |-> kind, asker |-> asker,
                   record |-> record, staged |-> staged,
                   original |-> original, moveTo |-> NoMove, age |-> 0]]

StageCreate(label, value, asker) ==
    LET new == [FirstContent EXCEPT !.version = 0, !.label = label, !.value = value]
    IN  /\ Stage("create", NoRecord, new, new, asker)
        /\ UNCHANGED rows

\* An update that changes nothing is refused.
StageEdit(r, value, asker) ==
    /\ Open(r)
    /\ value # rows[r].is.value
    /\ Stage("edit", r, [rows[r].is EXCEPT !.value = value], rows[r].is, asker)
    /\ UNCHANGED rows

StageDelete(r, asker) ==
    /\ Open(r)
    /\ Stage("delete", r, rows[r].is, rows[r].is, asker)
    /\ UNCHANGED rows

\* venture_confirmation_store_stage_deal_move: an update whose stage field
\* changes, and the destination noted on whichever card stage returned.
StageMove(r, to, asker) ==
    /\ Open(r)
    /\ to # rows[r].is.stage
    /\ LET repeats == {c \in Cards : Repeats(c, "edit", rows[r].is.label, asker)}
           staged == [rows[r].is EXCEPT !.stage = to]
           moved == [fate |-> "pending", kind |-> "edit", asker |-> asker,
                     record |-> r, staged |-> staged,
                     original |-> rows[r].is, moveTo |-> to, age |-> 0]
       IN  \E c \in Cards :
             \/ /\ c \in repeats
                /\ cards' = [Swept EXCEPT ![c] = [moved EXCEPT !.age = cards[c].age]]
             \/ /\ repeats = {} /\ Room /\ FirstFree(c)
                /\ cards' = [Swept EXCEPT ![c] = moved]
    /\ UNCHANGED rows

\* venture_confirmation_store_stage_action: one attempt against one state of
\* the record, never merged with another card.  The action here sets a value.
StageAction(r, value, asker) ==
    /\ Open(r)
    /\ Room
    /\ \E c \in Cards :
          /\ FirstFree(c)
          /\ cards' = [Swept EXCEPT ![c] =
                [fate |-> "pending", kind |-> "action", asker |-> asker,
                 record |-> r,
                 staged |-> [rows[r].is EXCEPT !.value = value],
                 original |-> rows[r].is, moveTo |-> NoMove, age |-> 0]]
    /\ UNCHANGED rows

-----------------------------------------------------------------------------
(* Approval: venture_confirmation_store_approve_as, by the route it takes *)

\* venture_entity_touch.
Touched(content) == [content EXCEPT !.version = @ + 1]

\* Mutant: the WHERE clause without the version.
MatchesAnyVersion(c) == TRUE

\* venture_database_update: WHERE id = ? AND version = ?.
Matches(c) == rows[cards[c].record].is.version = cards[c].staged.version

Write(r, content) == rows' = [rows EXCEPT ![r].is = content]

IsSave(c) == Waiting(c) /\ cards[c].moveTo = NoMove /\ cards[c].kind \in {"create", "edit"}
IsDelete(c) == Waiting(c) /\ cards[c].kind = "delete"
IsMove(c) == Waiting(c) /\ cards[c].moveTo # NoMove
IsAction(c) == Waiting(c) /\ cards[c].kind = "action"

\* A refusal before the touch: a check, a validator, a missing record.  The
\* card keeps waiting with its staged object as it was.
ApproveRefused(c) ==
    /\ Waiting(c)
    /\ cards[c].kind # "action"
    /\ cards' = Swept
    /\ UNCHANGED rows

\* Saving a record never saved inserts it under the next free id.
ApproveCreate(c, r) ==
    /\ IsSave(c)
    /\ cards[c].record = NoRecord
    /\ rows[r].at = "unborn"
    /\ rows' = [rows EXCEPT ![r] = [at |-> "live", is |-> Touched(cards[c].staged)]]
    /\ Decide(c, "approved")

\* The insert itself is refused: the staged object has been touched.
ApproveCreateNotInserted(c) ==
    /\ LateRefusals
    /\ IsSave(c)
    /\ cards[c].record = NoRecord
    /\ cards[c].staged.version < MaxVersion
    /\ cards' = [Swept EXCEPT ![c].staged = Touched(@)]
    /\ UNCHANGED rows

\* The insert went through and what followed did not: the row is rolled back
\* and SQLite's row-id counter with it, but the staged object keeps the id.
ApproveCreateRolledBack(c, r) ==
    /\ LateRefusals
    /\ IsSave(c)
    /\ cards[c].record = NoRecord
    /\ rows[r].at = "unborn"
    /\ cards' = [Swept EXCEPT ![c] = [@ EXCEPT !.record = r,
                                              !.staged = Touched(cards[c].staged)]]
    /\ UNCHANGED rows

\* Nothing differs from the stored row, so nothing is written.
ApproveUnchanged(c) ==
    /\ IsSave(c)
    /\ cards[c].record \in Records
    /\ Live(cards[c].record)
    /\ SameFields(cards[c].staged, rows[cards[c].record].is)
    /\ Decide(c, "approved")
    /\ UNCHANGED rows

Differs(c) ==
    /\ cards[c].record \in Records
    /\ Live(cards[c].record)
    /\ ~SameFields(cards[c].staged, rows[cards[c].record].is)

\* Mutant: approval saves the snapshot instead of the staged object.
ApproveEditOfOriginal(c) ==
    /\ IsSave(c)
    /\ Differs(c)
    /\ Matches(c)
    /\ Write(cards[c].record, Touched(cards[c].original))
    /\ Decide(c, "approved")

ApproveEdit(c) ==
    /\ IsSave(c)
    /\ Differs(c)
    /\ Matches(c)
    /\ Write(cards[c].record, Touched(cards[c].staged))
    /\ Decide(c, "approved")

\* No row matched: VENTURE_ERROR_CONFLICT, terminal for this card.
ApproveEditConflict(c) ==
    /\ IsSave(c)
    /\ Differs(c)
    /\ ~Matches(c)
    /\ Decide(c, "failed")
    /\ UNCHANGED rows

\* Refused after the touch with another error: the card stays, and with it a
\* staged object one version ahead.
ApproveEditRolledBack(c) ==
    /\ LateRefusals
    /\ IsSave(c)
    /\ Differs(c)
    /\ cards[c].staged.version < MaxVersion
    /\ cards' = [Swept EXCEPT ![c].staged = Touched(@)]
    /\ UNCHANGED rows

\* venture_database_delete.  An object that already carries a deletion time
\* is taken to be deleted.
ApproveDeleteDone(c) ==
    /\ IsDelete(c)
    /\ cards[c].staged.deleted
    /\ Decide(c, "approved")
    /\ UNCHANGED rows

ApproveDelete(c) ==
    /\ IsDelete(c)
    /\ ~cards[c].staged.deleted
    /\ Live(cards[c].record)
    /\ Matches(c)
    /\ Write(cards[c].record, Touched([cards[c].staged EXCEPT !.deleted = TRUE]))
    /\ Decide(c, "approved")

ApproveDeleteConflict(c) ==
    /\ IsDelete(c)
    /\ ~cards[c].staged.deleted
    /\ ~(Live(cards[c].record) /\ Matches(c))
    /\ Decide(c, "failed")
    /\ UNCHANGED rows

ApproveDeleteRolledBack(c) ==
    /\ LateRefusals
    /\ IsDelete(c)
    /\ ~cards[c].staged.deleted
    /\ cards' = [Swept EXCEPT ![c].staged =
                    Touched([cards[c].staged EXCEPT !.deleted = TRUE])]
    /\ UNCHANGED rows

\* venture_deal_service_move_stage works on the original, on a copy of its
\* own: a failed move leaves the card as it was (ApproveRefused).
Movable(c) == Live(cards[c].record) /\ ~rows[cards[c].record].is.deleted

MoveMatches(c) == rows[cards[c].record].is.version = cards[c].original.version

ApproveMove(c) ==
    /\ IsMove(c)
    /\ Movable(c)
    /\ MoveMatches(c)
    /\ IF cards[c].original.stage = cards[c].moveTo
       THEN UNCHANGED rows
       ELSE Write(cards[c].record, Touched([cards[c].original EXCEPT !.stage = cards[c].moveTo]))
    /\ Decide(c, "approved")

ApproveMoveConflict(c) ==
    /\ IsMove(c)
    /\ Movable(c)
    /\ ~MoveMatches(c)
    /\ Decide(c, "failed")
    /\ UNCHANGED rows

\* A staged action is dropped whatever its outcome.
ApproveAction(c) ==
    /\ IsAction(c)
    /\ Live(cards[c].record)
    /\ Matches(c)
    /\ Write(cards[c].record, Touched(cards[c].staged))
    /\ Decide(c, "approved")

ApproveActionFails(c) ==
    /\ IsAction(c)
    /\ Decide(c, "failed")
    /\ UNCHANGED rows

Reject(c) ==
    /\ Waiting(c)
    /\ Decide(c, "free")
    /\ UNCHANGED rows

-----------------------------------------------------------------------------
(* Everybody else, the clock and the process *)

\* Another user creates, edits, deletes, restores or purges a record.
DirectCreate(r, label) ==
    /\ rows[r].at = "unborn"
    /\ rows' = [rows EXCEPT ![r] =
          [at |-> "live", is |-> [FirstContent EXCEPT !.label = label]]]
    /\ UNCHANGED cards

DirectEdit(r, value) ==
    /\ Open(r)
    /\ value # rows[r].is.value
    /\ Write(r, Touched([rows[r].is EXCEPT !.value = value]))
    /\ UNCHANGED cards

DirectDelete(r) ==
    /\ Open(r)
    /\ Write(r, Touched([rows[r].is EXCEPT !.deleted = ~@]))
    /\ UNCHANGED cards

Purge(r) ==
    /\ Live(r)
    /\ rows' = [rows EXCEPT ![r].at = "gone"]
    /\ UNCHANGED cards

Tick ==
    /\ \E c \in Cards : Waiting(c)
    /\ cards' = [c \in Cards |->
          IF Waiting(c) THEN [cards[c] EXCEPT !.age = @ + 1] ELSE cards[c]]
    /\ UNCHANGED rows

\* The queue is in memory only.
Restart ==
    /\ cards' = [c \in Cards |-> Removed("free")]
    /\ UNCHANGED rows

-----------------------------------------------------------------------------
(* Specification *)

Init ==
    /\ rows = [r \in Records |->
          IF r \in Existing
          THEN [at |-> "live", is |-> [FirstContent EXCEPT !.label = LabelOf[r]]]
          ELSE [at |-> "unborn", is |-> FirstContent]]
    /\ cards = [c \in Cards |-> Removed("free")]

Propose ==
    \E a \in Askers :
        \/ \E l \in Labels, v \in Values : StageCreate(l, v, a)
        \/ \E r \in Records :
              \/ \E v \in Values : StageEdit(r, v, a) \/ StageAction(r, v, a)
              \/ \E s \in Stages : StageMove(r, s, a)
              \/ StageDelete(r, a)

Approve(c) ==
    \/ ApproveRefused(c)
    \/ \E r \in Records : ApproveCreate(c, r) \/ ApproveCreateRolledBack(c, r)
    \/ ApproveCreateNotInserted(c)
    \/ ApproveUnchanged(c) \/ ApproveEdit(c) \/ ApproveEditConflict(c)
    \/ ApproveEditRolledBack(c)
    \/ ApproveDeleteDone(c) \/ ApproveDelete(c) \/ ApproveDeleteConflict(c)
    \/ ApproveDeleteRolledBack(c)
    \/ ApproveMove(c) \/ ApproveMoveConflict(c)
    \/ ApproveAction(c) \/ ApproveActionFails(c)

Elsewhere ==
    \E r \in Records :
        \/ \E v \in Values : DirectEdit(r, v)
        \/ \E l \in Labels : DirectCreate(r, l)
        \/ DirectDelete(r) \/ Purge(r)

Next ==
    \/ Propose
    \/ \E c \in Cards : Approve(c) \/ Reject(c)
    \/ Elsewhere \/ Tick \/ Restart

Spec == Init /\ [][Next]_vars

-----------------------------------------------------------------------------
(* Properties *)

\* The stored records and the waiting cards keep their shape; no waiting card
\* is older than the time to live.
TypeOK ==
    /\ rows \in [Records -> Row]
    /\ cards \in [Cards -> Card]

\* A proposal repeated by the same asker waits on one card: no two waiting
\* cards stand for one change, so approving every card never applies it twice.
OneCardPerChange ==
    \A c, d \in Cards :
        /\ Waiting(c) /\ Waiting(d)
        /\ cards[c].kind = cards[d].kind /\ cards[c].kind # "action"
        /\ cards[c].asker = cards[d].asker
        /\ cards[c].staged.label = cards[d].staged.label
        => c = d

\* An agent in a retry loop never piles up more than Limit waiting cards.
WithinLimit == Cardinality({c \in Cards : Waiting(c)}) <= Limit

JustDecided(c, fate) == cards[c].fate = "pending" /\ cards'[c].fate = fate

\* A card whose staged object no failed save has touched.
Pristine(c) == cards[c].staged.version = cards[c].original.version

\* Approving a card no failed save has touched never overwrites what somebody
\* else wrote to the record since it was staged.
NoLostUpdate ==
    [][\A c \in Cards :
          /\ JustDecided(c, "approved") /\ Pristine(c)
          /\ cards[c].record \in Records
          /\ rows'[cards[c].record] # rows[cards[c].record]
          => rows[cards[c].record].is.version = cards[c].original.version]_vars

\* The header of venture-confirmation-store.h says it of every card: an
\* approval never silently overwrites work done in the meantime.
NeverASilentOverwrite ==
    [][\A c \in Cards :
          /\ JustDecided(c, "approved")
          /\ cards[c].record \in Records
          /\ rows'[cards[c].record] # rows[cards[c].record]
          => rows[cards[c].record].is.version = cards[c].original.version]_vars

\* Approving an edit that no move was merged with leaves the stored record
\* with exactly the fields the card showed, or the approval says it failed.
ApprovedEditIsStored ==
    [][\A c \in Cards :
          /\ JustDecided(c, "approved")
          /\ cards[c].kind = "edit" /\ cards[c].moveTo = NoMove
          => SameFields(rows'[cards[c].record].is, cards[c].staged)]_vars

\* The documented promise, for updates of any kind: approval produces what
\* the diff showed (docs/architecture.org).
ApprovalIsWhatTheDiffShowed ==
    [][\A c \in Cards :
          JustDecided(c, "approved") /\ cards[c].kind = "edit"
          => SameFields(rows'[cards[c].record].is, cards[c].staged)]_vars

\* A card past its lifetime is never applied, whenever the queue is swept.
ExpiredIsNeverApplied ==
    [][\A c \in Cards : Expired(c) => ~JustDecided(c, "approved")]_vars
=============================================================================
