----------------------- MODULE ConfirmationStoreProofs -----------------------
(***************************************************************************)
(* The approval queue, for any records, askers, cards, cap and lifetime.   *)
(* Shaped says which cards name a stored record; Persists and Added sum up *)
(* what a step may do to the table: no step makes a card wait that did not,*)
(* except a proposal, which adds one where there is room and none repeats. *)
(***************************************************************************)
EXTENDS ConfirmationStore, FiniteSetTheorems, TLAPS

\* A card that waits for anything but a creation names a record, and only
\* updates move a deal.
Shaped ==
    \A c \in Cards : cards[c].fate = "pending" =>
        /\ cards[c].kind # "create" => cards[c].record \in Records
        /\ cards[c].kind # "edit" => cards[c].moveTo = NoMove

Invariant == TypeOK /\ Shaped

-----------------------------------------------------------------------------
(* Types *)

\* What the operators on records and cards yield.
LEMMA ContentTypes ==
    /\ FirstContent \in Content
    /\ \A x \in Content : Touched(x) \in Content
    /\ \A fate \in Fates : Removed(fate) \in Card /\ Removed(fate).fate = fate
<1>1. FirstContent \in Content
  BY ContentAssumption DEF FirstContent, Content
<1>2. ASSUME NEW x \in Content PROVE Touched(x) \in Content
  BY DEF Touched, Content
<1>3. ASSUME NEW fate \in Fates
      PROVE  Removed(fate) \in Card /\ Removed(fate).fate = fate
  BY <1>1, ContentAssumption, TtlAssumption DEF Removed, Card, Kinds
<1> QED BY <1>1, <1>2, <1>3

\* Sweeping the table keeps the waiting cards and frees the others.
LEMMA SweptTypes ==
    ASSUME TypeOK, Shaped
    PROVE  /\ Swept \in [Cards -> Card]
           /\ \A c \in Cards : Swept[c].fate = "pending" =>
                 Waiting(c) /\ Swept[c] = cards[c]
           /\ \A c \in Cards : Waiting(c) => Swept[c] = cards[c]
           /\ \A c \in Cards : Swept[c].fate \in {"pending", "free"}
<1>1. "free" \in Fates BY DEF Fates
<1>2. Removed("free") \in Card /\ Removed("free").fate = "free" BY <1>1, ContentTypes
<1> QED BY <1>2 DEF Swept, TypeOK, Waiting

\* The cards a table may hold.
Good(card) ==
    /\ card \in Card
    /\ card.fate = "pending" =>
          /\ card.kind # "create" => card.record \in Records
          /\ card.kind # "edit" => card.moveTo = NoMove

\* Putting a good card in its place keeps the types.
LEMMA PutTypes ==
    ASSUME TypeOK, Shaped, NEW c \in Cards, NEW card, Good(card),
           cards' = [Swept EXCEPT ![c] = card]
    PROVE  cards' \in [Cards -> Card] /\ Shaped'
<1>1. Swept \in [Cards -> Card] BY SweptTypes
<1>2. cards' \in [Cards -> Card] BY <1>1 DEF Good
<1>3. \A d \in Cards : cards'[d] = IF d = c THEN card ELSE Swept[d] BY <1>1
<1>4. Shaped' BY <1>3, SweptTypes DEF Shaped, Good
<1> QED BY <1>2, <1>4

LEMMA SweptShaped ==
    ASSUME TypeOK, Shaped, cards' = Swept
    PROVE  cards' \in [Cards -> Card] /\ Shaped'
BY SweptTypes DEF Shaped

LEMMA DecideTypes ==
    ASSUME TypeOK, Shaped, NEW c \in Cards, NEW fate \in Fates \ {"pending"},
           Decide(c, fate)
    PROVE  cards' \in [Cards -> Card] /\ Shaped'
<1>1. Good(Removed(fate)) BY ContentTypes DEF Good
<1> QED BY <1>1, PutTypes DEF Decide

\* A touched or replaced object leaves a good card good.
LEMMA CardTypes ==
    ASSUME TypeOK, Shaped, NEW c \in Cards, Waiting(c)
    PROVE  /\ cards[c] \in Card /\ Good(cards[c]) /\ Swept[c] = cards[c]
           /\ cards[c].staged \in Content /\ cards[c].original \in Content
           /\ cards[c].age \in 0..Ttl
           /\ cards[c].kind # "create" => cards[c].record \in Records
           /\ cards[c].kind # "edit" => cards[c].moveTo = NoMove
BY SweptTypes DEF TypeOK, Shaped, Good, Waiting, Card

LEMMA WriteTypes ==
    ASSUME TypeOK, NEW r \in Records, NEW content \in Content, Write(r, content)
    PROVE  rows' \in [Records -> Row]
BY DEF TypeOK, Write, Row

LEMMA StageTypes ==
    ASSUME TypeOK, Shaped,
           NEW kind \in Kinds, NEW record \in Records \cup {NoRecord},
           NEW staged \in Content, NEW original \in Content, NEW asker \in Askers,
           kind # "create" => record \in Records,
           Stage(kind, record, staged, original, asker)
    PROVE  cards' \in [Cards -> Card] /\ Shaped'
<1>1. CASE \E c \in Cards : Repeats(c, kind, staged.label, asker)
  <2>1. PICK c \in Cards :
          /\ Repeats(c, kind, staged.label, asker)
          /\ cards' = [Swept EXCEPT ![c] = [@ EXCEPT !.record = record,
                          !.staged = staged, !.original = original]]
    BY <1>1 DEF Stage
  <2> DEFINE card == [cards[c] EXCEPT !.record = record, !.staged = staged,
                                      !.original = original]
  <2>2. Waiting(c) /\ cards[c].kind = kind BY <2>1 DEF Repeats
  <2>3. Good(cards[c]) /\ Swept[c] = cards[c] /\ cards[c] \in Card BY <2>2, CardTypes
  <2>4. cards' = [Swept EXCEPT ![c] = card] BY <2>1, <2>3, SweptTypes
  <2>5. Good(card) BY <2>2, <2>3 DEF Good, Card
  <2> HIDE DEF card
  <2> QED BY <2>4, <2>5, PutTypes
<1>2. CASE ~\E c \in Cards : Repeats(c, kind, staged.label, asker)
  <2> DEFINE card == [fate |-> "pending", kind |-> kind, asker |-> asker,
                      record |-> record, staged |-> staged,
                      original |-> original, moveTo |-> NoMove, age |-> 0]
  <2>1. PICK c \in Cards : cards' = [Swept EXCEPT ![c] = card]
    BY <1>2 DEF Stage
  <2>2. Good(card) BY TtlAssumption DEF Good, Card, Fates
  <2> HIDE DEF card
  <2> QED BY <2>1, <2>2, PutTypes
<1> QED BY <1>1, <1>2

LEMMA ProposeTypes == TypeOK /\ Shaped /\ Propose => TypeOK' /\ Shaped'
<1> SUFFICES ASSUME TypeOK, Shaped, Propose PROVE TypeOK' /\ Shaped'
  OBVIOUS
<1>1. rows' = rows
  BY DEF Propose, StageCreate, StageEdit, StageAction, StageMove, StageDelete
<1>2. SUFFICES cards' \in [Cards -> Card] /\ Shaped'
  BY <1>1 DEF TypeOK
<1> PICK a \in Askers :
        \/ \E l \in Labels, v \in Values : StageCreate(l, v, a)
        \/ \E r \in Records :
              \/ \E v \in Values : StageEdit(r, v, a) \/ StageAction(r, v, a)
              \/ \E s \in Stages : StageMove(r, s, a)
              \/ StageDelete(r, a)
  BY DEF Propose
<1>3. \A r \in Records : rows[r].is \in Content BY DEF TypeOK, Row
<1>4. ASSUME NEW l \in Labels, NEW v \in Values, StageCreate(l, v, a)
      PROVE  cards' \in [Cards -> Card] /\ Shaped'
  <2> DEFINE new == [FirstContent EXCEPT !.version = 0, !.label = l, !.value = v]
  <2>1. new \in Content BY ContentTypes DEF Content
  <2>2. Stage("create", NoRecord, new, new, a) BY <1>4 DEF StageCreate
  <2> HIDE DEF new
  <2> QED BY <2>1, <2>2, StageTypes DEF Kinds
<1>5. ASSUME NEW r \in Records, NEW v \in Values, StageEdit(r, v, a)
      PROVE  cards' \in [Cards -> Card] /\ Shaped'
  <2>1. [rows[r].is EXCEPT !.value = v] \in Content BY <1>3 DEF Content
  <2> QED BY <1>3, <1>5, <2>1, StageTypes DEF StageEdit, Kinds
<1>6. ASSUME NEW r \in Records, StageDelete(r, a)
      PROVE  cards' \in [Cards -> Card] /\ Shaped'
  BY <1>3, <1>6, StageTypes DEF StageDelete, Kinds
<1>7. ASSUME NEW r \in Records, NEW v \in Values, StageAction(r, v, a)
      PROVE  cards' \in [Cards -> Card] /\ Shaped'
  <2> DEFINE card ==
        [fate |-> "pending", kind |-> "action", asker |-> a, record |-> r,
         staged |-> [rows[r].is EXCEPT !.value = v],
         original |-> rows[r].is, moveTo |-> NoMove, age |-> 0]
  <2>1. PICK c \in Cards : cards' = [Swept EXCEPT ![c] = card]
    BY <1>7 DEF StageAction
  <2>2. [rows[r].is EXCEPT !.value = v] \in Content BY <1>3 DEF Content
  <2>3. Good(card) BY <1>3, <2>2, TtlAssumption DEF Good, Card, Fates, Kinds
  <2> HIDE DEF card
  <2> QED BY <2>1, <2>3, PutTypes
<1>8. ASSUME NEW r \in Records, NEW s \in Stages, StageMove(r, s, a)
      PROVE  cards' \in [Cards -> Card] /\ Shaped'
  <2> DEFINE moved == [fate |-> "pending", kind |-> "edit", asker |-> a,
                       record |-> r, staged |-> [rows[r].is EXCEPT !.stage = s],
                       original |-> rows[r].is, moveTo |-> s, age |-> 0]
  <2>1. [rows[r].is EXCEPT !.stage = s] \in Content BY <1>3 DEF Content
  <2>2. Good(moved) BY <1>3, <2>1, TtlAssumption DEF Good, Card, Fates, Kinds
  <2>3. PICK c \in Cards :
          \/ /\ Repeats(c, "edit", rows[r].is.label, a)
             /\ cards' = [Swept EXCEPT ![c] = [moved EXCEPT !.age = cards[c].age]]
          \/ cards' = [Swept EXCEPT ![c] = moved]
    BY <1>8 DEF StageMove
  <2>4. ASSUME Repeats(c, "edit", rows[r].is.label, a)
        PROVE  Good([moved EXCEPT !.age = cards[c].age])
    <3>1. cards[c].age \in 0..Ttl BY <2>4, CardTypes DEF Repeats
    <3> QED BY <2>2, <3>1 DEF Good, Card
  <2> HIDE DEF moved
  <2> QED BY <2>2, <2>3, <2>4, PutTypes
<1> QED BY <1>4, <1>5, <1>6, <1>7, <1>8

LEMMA ApproveTypes ==
    ASSUME TypeOK, Shaped, NEW c \in Cards, Approve(c) \/ Reject(c)
    PROVE  TypeOK' /\ Shaped'
<1>1. Waiting(c)
  BY DEF Approve, Reject, ApproveRefused, ApproveCreate, ApproveCreateRolledBack,
         ApproveCreateNotInserted, ApproveUnchanged, ApproveEdit,
         ApproveEditConflict, ApproveEditRolledBack, ApproveDeleteDone,
         ApproveDelete, ApproveDeleteConflict, ApproveDeleteRolledBack,
         ApproveMove, ApproveMoveConflict, ApproveAction, ApproveActionFails,
         IsSave, IsDelete, IsMove, IsAction
<1> DEFINE r0 == cards[c].record
           old == cards[c].staged
<1>2. /\ cards[c] \in Card /\ Good(cards[c]) /\ Swept[c] = cards[c]
      /\ old \in Content /\ cards[c].original \in Content
      /\ cards[c].kind # "create" => r0 \in Records
      /\ cards[c].kind # "edit" => cards[c].moveTo = NoMove
  BY <1>1, CardTypes
<1>3. Touched(old) \in Content BY <1>2, ContentTypes
<1>4. ASSUME NEW x \in Content
      PROVE  Good([cards[c] EXCEPT !.staged = x])
  BY <1>2 DEF Good, Card
<1>5. "approved" \in Fates \ {"pending"} /\ "failed" \in Fates \ {"pending"}
      /\ "free" \in Fates \ {"pending"}
  BY DEF Fates
<1>6. ASSUME \/ Decide(c, "approved") \/ Decide(c, "failed") \/ Decide(c, "free")
             \/ cards' = Swept
      PROVE  cards' \in [Cards -> Card] /\ Shaped'
  BY <1>5, <1>6, DecideTypes, SweptShaped
<1>7. ASSUME NEW x \in Content, cards' = [Swept EXCEPT ![c].staged = x]
      PROVE  cards' \in [Cards -> Card] /\ Shaped'
  <2> DEFINE card == [cards[c] EXCEPT !.staged = x]
  <2>1. cards' = [Swept EXCEPT ![c] = card] BY <1>2, <1>7, SweptTypes
  <2>2. Good(card) BY <1>4
  <2> HIDE DEF card
  <2> QED BY <2>1, <2>2, PutTypes
<1>8. ASSUME rows' = rows, cards' \in [Cards -> Card] /\ Shaped'
      PROVE  TypeOK' /\ Shaped'
  BY <1>8 DEF TypeOK
<1>9. ASSUME NEW x \in Content, r0 \in Records, Write(r0, x),
             cards' \in [Cards -> Card] /\ Shaped'
      PROVE  TypeOK' /\ Shaped'
  BY <1>9, WriteTypes DEF TypeOK
<1>10. CASE Reject(c) \/ ApproveRefused(c) \/ ApproveUnchanged(c) \/ ApproveEditConflict(c)
            \/ ApproveDeleteDone(c) \/ ApproveDeleteConflict(c)
            \/ ApproveMoveConflict(c) \/ ApproveActionFails(c)
  BY <1>6, <1>8, <1>10 DEF Reject, ApproveRefused, ApproveUnchanged, ApproveEditConflict,
     ApproveDeleteDone, ApproveDeleteConflict, ApproveMoveConflict, ApproveActionFails
<1>11. ASSUME NEW r \in Records, ApproveCreate(c, r) PROVE TypeOK' /\ Shaped'
  <2>1. rows' \in [Records -> Row]
    BY <1>3, <1>11 DEF ApproveCreate, TypeOK, Row
  <2> QED BY <1>6, <1>11, <2>1 DEF ApproveCreate, TypeOK
<1>12. ASSUME NEW r \in Records, ApproveCreateRolledBack(c, r)
       PROVE  TypeOK' /\ Shaped'
  <2> DEFINE card == [cards[c] EXCEPT !.record = r, !.staged = Touched(old)]
  <2>1. cards' = [Swept EXCEPT ![c] = card]
    BY <1>2, <1>12, SweptTypes DEF ApproveCreateRolledBack
  <2>2. Good(card) BY <1>2, <1>3 DEF Good, Card
  <2> HIDE DEF card
  <2>3. cards' \in [Cards -> Card] /\ Shaped' BY <2>1, <2>2, PutTypes
  <2> QED BY <1>8, <1>12, <2>3 DEF ApproveCreateRolledBack
<1>13. CASE ApproveCreateNotInserted(c) \/ ApproveEditRolledBack(c)
  <2>1. cards' = [Swept EXCEPT ![c].staged = Touched(old)] /\ rows' = rows
    BY <1>2, <1>13, SweptTypes DEF ApproveCreateNotInserted, ApproveEditRolledBack
  <2> HIDE DEF old
  <2> QED BY <1>3, <1>7, <1>8, <2>1
<1>14. CASE ApproveDeleteRolledBack(c)
  <2> DEFINE x == Touched([old EXCEPT !.deleted = TRUE])
  <2>1. cards' = [Swept EXCEPT ![c].staged = x] /\ rows' = rows
    BY <1>14, Zenon DEF ApproveDeleteRolledBack
  <2>2. [old EXCEPT !.deleted = TRUE] \in Content BY <1>2 DEF Content
  <2>3. x \in Content BY <2>2, ContentTypes
  <2> HIDE DEF x
  <2> QED BY <1>7, <1>8, <2>1, <2>3
<1>15. CASE ApproveEdit(c) \/ ApproveAction(c)
  <2>1. r0 \in Records
    BY <1>2, <1>15 DEF ApproveEdit, ApproveAction, Differs, IsAction
  <2>2. Write(r0, Touched(old)) /\ Decide(c, "approved")
    BY <1>15 DEF ApproveEdit, ApproveAction
  <2> HIDE DEF r0, old
  <2> QED BY <1>3, <1>6, <1>9, <2>1, <2>2
<1>16. CASE ApproveDelete(c)
  <2> DEFINE x == Touched([old EXCEPT !.deleted = TRUE])
  <2>1. r0 \in Records BY <1>2, <1>16 DEF ApproveDelete, IsDelete
  <2>2. Write(r0, x) /\ Decide(c, "approved") BY <1>16, Zenon DEF ApproveDelete
  <2>3. [old EXCEPT !.deleted = TRUE] \in Content BY <1>2 DEF Content
  <2>4. x \in Content BY <2>3, ContentTypes
  <2> HIDE DEF x, r0
  <2> QED BY <1>6, <1>9, <2>1, <2>2, <2>4
<1>17. CASE ApproveMove(c)
  <2> DEFINE x == Touched([cards[c].original EXCEPT !.stage = cards[c].moveTo])
  <2>1. cards[c].moveTo \in Stages /\ r0 \in Records
    BY <1>2, <1>17 DEF ApproveMove, IsMove, Card
  <2>2. x \in Content BY <1>2, <2>1, ContentTypes DEF Content
  <2>3. (rows' = rows \/ Write(r0, x)) /\ Decide(c, "approved")
    BY <1>17 DEF ApproveMove
  <2> HIDE DEF x, r0
  <2> QED BY <1>6, <1>8, <1>9, <2>1, <2>2, <2>3
<1> QED
  BY <1>10, <1>11, <1>12, <1>13, <1>14, <1>15, <1>16, <1>17 DEF Approve

LEMMA ElsewhereTypes ==
    TypeOK /\ Shaped /\ (Elsewhere \/ Tick \/ Restart) => TypeOK' /\ Shaped'
<1> SUFFICES ASSUME TypeOK, Shaped, Elsewhere \/ Tick \/ Restart
             PROVE  TypeOK' /\ Shaped'
  OBVIOUS
<1>1. CASE Elsewhere
  <2>1. cards' = cards
    BY <1>1 DEF Elsewhere, DirectEdit, DirectCreate, DirectDelete, Purge
  <2>2. \A r \in Records : rows[r].is \in Content BY DEF TypeOK, Row
  <2>3. PICK r \in Records : \/ \E v \in Values : DirectEdit(r, v)
                             \/ \E l \in Labels : DirectCreate(r, l)
                             \/ DirectDelete(r) \/ Purge(r)
    BY <1>1 DEF Elsewhere
  <2>4. ASSUME NEW v \in Values, DirectEdit(r, v) PROVE rows' \in [Records -> Row]
    <3>1. [rows[r].is EXCEPT !.value = v] \in Content BY <2>2 DEF Content
    <3> QED BY <2>4, <3>1, ContentTypes, WriteTypes DEF DirectEdit
  <2>5. ASSUME NEW l \in Labels, DirectCreate(r, l) PROVE rows' \in [Records -> Row]
    <3>1. [FirstContent EXCEPT !.label = l] \in Content BY ContentTypes DEF Content
    <3> QED BY <2>5, <3>1 DEF DirectCreate, TypeOK, Row
  <2>6. ASSUME DirectDelete(r) PROVE rows' \in [Records -> Row]
    <3>1. [rows[r].is EXCEPT !.deleted = ~@] \in Content BY <2>2 DEF Content
    <3> QED BY <2>6, <3>1, ContentTypes, WriteTypes DEF DirectDelete
  <2>7. ASSUME Purge(r) PROVE rows' \in [Records -> Row]
    BY <2>7 DEF Purge, TypeOK, Row
  <2> QED BY <2>1, <2>3, <2>4, <2>5, <2>6, <2>7 DEF TypeOK, Shaped
<1>2. CASE Tick
  <2>1. \A c \in Cards : Waiting(c) => [cards[c] EXCEPT !.age = @ + 1] \in Card
    BY TtlAssumption DEF TypeOK, Waiting, Card
  <2> QED BY <1>2, <2>1 DEF Tick, TypeOK, Shaped, Card
<1>3. CASE Restart
  BY <1>3, ContentTypes DEF Restart, TypeOK, Shaped, Fates
<1> QED BY <1>1, <1>2, <1>3

LEMMA InvariantStep == Invariant /\ [Next]_vars => Invariant'
<1>1. ASSUME Invariant, UNCHANGED vars PROVE Invariant'
  BY <1>1 DEF Invariant, TypeOK, Shaped, vars
<1>2. ASSUME Invariant, Next PROVE Invariant'
  BY <1>2, ProposeTypes, ApproveTypes, ElsewhereTypes DEF Invariant, Next
<1> QED BY <1>1, <1>2

LEMMA InvariantInit == Init => Invariant
<1> SUFFICES ASSUME Init PROVE Invariant
  OBVIOUS
<1>1. cards \in [Cards -> Card] /\ Shaped
  BY ContentTypes DEF Init, Shaped, Fates
<1>2. rows \in [Records -> Row]
  <2>1. ASSUME NEW r \in Existing
        PROVE  [FirstContent EXCEPT !.label = LabelOf[r]] \in Content
    BY ContentTypes, LabelsAssumption DEF Content
  <2> QED BY <2>1, ContentTypes DEF Init, Row
<1> QED BY <1>1, <1>2 DEF Invariant, TypeOK

LEMMA StoreInvariant == Spec => []Invariant
BY InvariantInit, InvariantStep, PTL DEF Spec

\* Stored records and cards keep their shape, and no card waits longer than its
\* lifetime, whatever is proposed, approved, refused or rolled back.
THEOREM StoreTypeCorrect == Spec => []TypeOK
<1>1. Invariant => TypeOK BY DEF Invariant
<1> QED BY <1>1, StoreInvariant, PTL

-----------------------------------------------------------------------------
(* The table *)

\* A card that waits after the step waited before it, for the same change.
Persists(c) ==
    Waiting(c)' =>
        /\ Waiting(c)
        /\ cards'[c].kind = cards[c].kind
        /\ cards'[c].asker = cards[c].asker
        /\ cards'[c].staged.label = cards[c].staged.label

\* The step adds the card c: there is room, and no waiting card is repeated.
Added(c) ==
    /\ Room
    /\ \A d \in Cards \ {c} : Persists(d)
    /\ cards'[c].kind = "action" \/
          \A d \in Cards :
              ~Repeats(d, cards'[c].kind, cards'[c].staged.label, cards'[c].asker)

\* In a swept table with one place replaced, the other places persist.
LEMMA OthersPersist ==
    ASSUME TypeOK, Shaped, NEW c \in Cards, NEW card,
           cards' = [Swept EXCEPT ![c] = card]
    PROVE  /\ cards'[c] = card
           /\ \A d \in Cards \ {c} : Persists(d)
<1>1. \A d \in Cards : cards'[d] = IF d = c THEN card ELSE Swept[d] BY SweptTypes
<1> QED BY <1>1, SweptTypes DEF Persists, Waiting

LEMMA SweptPersists ==
    ASSUME TypeOK, Shaped, cards' = Swept PROVE \A d \in Cards : Persists(d)
BY SweptTypes DEF Persists, Waiting

\* A decided card waits no more.
LEMMA DecidedPersists ==
    ASSUME TypeOK, Shaped, NEW c \in Cards, NEW fate \in Fates \ {"pending"},
           Decide(c, fate)
    PROVE  \A d \in Cards : Persists(d)
<1>1. Removed(fate).fate # "pending" BY ContentTypes
<1> QED BY ZenonT(40), <1>1, OthersPersist DEF Decide, Persists, Waiting

\* A card that keeps its change persists when it is put back.
LEMMA PutPersists ==
    ASSUME TypeOK, Shaped, NEW c \in Cards, NEW card, Waiting(c),
           cards' = [Swept EXCEPT ![c] = card],
           card.kind = cards[c].kind, card.asker = cards[c].asker,
           card.staged.label = cards[c].staged.label
    PROVE  \A d \in Cards : Persists(d)
BY ZenonT(40), OthersPersist DEF Persists

LEMMA StageTable ==
    ASSUME TypeOK, Shaped, NEW kind, NEW record, NEW staged, NEW original, NEW asker,
           Stage(kind, record, staged, original, asker)
    PROVE  (\A c \in Cards : Persists(c)) \/ \E c \in Cards : Added(c)
<1>1. CASE \E c \in Cards : Repeats(c, kind, staged.label, asker)
  <2>1. PICK c \in Cards :
          /\ Repeats(c, kind, staged.label, asker)
          /\ cards' = [Swept EXCEPT ![c] = [@ EXCEPT !.record = record,
                          !.staged = staged, !.original = original]]
    BY <1>1 DEF Stage
  <2> DEFINE card == [cards[c] EXCEPT !.record = record, !.staged = staged,
                                      !.original = original]
  <2>2. Waiting(c) /\ cards[c].staged.label = staged.label BY <2>1 DEF Repeats
  <2>3. Swept[c] = cards[c] /\ cards[c] \in Card BY <2>2, CardTypes
  <2>4. cards' = [Swept EXCEPT ![c] = card] BY <2>1, <2>3, SweptTypes
  <2>5. card.kind = cards[c].kind /\ card.asker = cards[c].asker
        /\ card.staged.label = cards[c].staged.label
    BY <2>2, <2>3 DEF Card
  <2> HIDE DEF card
  <2> QED BY <2>2, <2>4, <2>5, PutPersists
<1>2. CASE ~\E c \in Cards : Repeats(c, kind, staged.label, asker)
  <2> DEFINE card == [fate |-> "pending", kind |-> kind, asker |-> asker,
                      record |-> record, staged |-> staged,
                      original |-> original, moveTo |-> NoMove, age |-> 0]
  <2>1. PICK c \in Cards : Room /\ cards' = [Swept EXCEPT ![c] = card]
    BY <1>2 DEF Stage
  <2>2. card.kind = kind /\ card.asker = asker /\ card.staged = staged
    OBVIOUS
  <2> HIDE DEF card
  <2>3. cards'[c] = card /\ \A d \in Cards \ {c} : Persists(d)
    BY <2>1, OthersPersist
  <2>4. Added(c) BY <1>2, <2>1, <2>2, <2>3 DEF Added
  <2> QED BY <2>4
<1> QED BY <1>1, <1>2

LEMMA ProposeTable ==
    ASSUME TypeOK, Shaped, Propose
    PROVE  (\A c \in Cards : Persists(c)) \/ \E c \in Cards : Added(c)
<1> PICK a \in Askers :
        \/ \E l \in Labels, v \in Values : StageCreate(l, v, a)
        \/ \E r \in Records :
              \/ \E v \in Values : StageEdit(r, v, a) \/ StageAction(r, v, a)
              \/ \E s \in Stages : StageMove(r, s, a)
              \/ StageDelete(r, a)
  BY DEF Propose
<1> DEFINE Goal == (\A c \in Cards : Persists(c)) \/ \E c \in Cards : Added(c)
<1>1. ASSUME NEW l \in Labels, NEW v \in Values, StageCreate(l, v, a) PROVE Goal
  BY <1>1, StageTable DEF StageCreate
<1>2. ASSUME NEW r \in Records, NEW v \in Values, StageEdit(r, v, a) PROVE Goal
  BY <1>2, StageTable DEF StageEdit
<1>3. ASSUME NEW r \in Records, StageDelete(r, a) PROVE Goal
  BY <1>3, StageTable DEF StageDelete
<1>4. ASSUME NEW r \in Records, NEW v \in Values, StageAction(r, v, a) PROVE Goal
  <2> DEFINE card ==
        [fate |-> "pending", kind |-> "action", asker |-> a, record |-> r,
         staged |-> [rows[r].is EXCEPT !.value = v],
         original |-> rows[r].is, moveTo |-> NoMove, age |-> 0]
  <2>1. PICK c \in Cards : Room /\ cards' = [Swept EXCEPT ![c] = card]
    BY <1>4 DEF StageAction
  <2>2. card.kind = "action" OBVIOUS
  <2> HIDE DEF card
  <2>3. Added(c) BY <2>1, <2>2, OthersPersist DEF Added
  <2> QED BY <2>3
<1>5. ASSUME NEW r \in Records, NEW s \in Stages, StageMove(r, s, a) PROVE Goal
  <2> DEFINE label == rows[r].is.label
             moved == [fate |-> "pending", kind |-> "edit", asker |-> a,
                       record |-> r, staged |-> [rows[r].is EXCEPT !.stage = s],
                       original |-> rows[r].is, moveTo |-> s, age |-> 0]
  <2>1. rows[r].is \in Content BY DEF TypeOK, Row
  <2>2. [rows[r].is EXCEPT !.stage = s].label = label BY <2>1 DEF Content
  <2>3. moved.kind = "edit" /\ moved.asker = a /\ moved.staged.label = label
    BY <2>2
  <2>4. ASSUME NEW age
        PROVE  LET put == [moved EXCEPT !.age = age]
               IN  put.kind = "edit" /\ put.asker = a /\ put.staged.label = label
    BY <2>2
  <2>5. PICK c \in Cards :
          \/ /\ Repeats(c, "edit", label, a)
             /\ cards' = [Swept EXCEPT ![c] = [moved EXCEPT !.age = cards[c].age]]
          \/ /\ {d \in Cards : Repeats(d, "edit", label, a)} = {}
             /\ Room
             /\ cards' = [Swept EXCEPT ![c] = moved]
    BY <1>5 DEF StageMove
  <2> HIDE DEF moved, label
  <2>6. CASE Repeats(c, "edit", label, a)
             /\ cards' = [Swept EXCEPT ![c] = [moved EXCEPT !.age = cards[c].age]]
    <3>1. /\ Waiting(c) /\ cards[c].kind = "edit" /\ cards[c].asker = a
          /\ cards[c].staged.label = label
      BY <2>6 DEF Repeats
    <3> DEFINE put == [moved EXCEPT !.age = cards[c].age]
    <3>2. put.kind = "edit" /\ put.asker = a /\ put.staged.label = label BY <2>4
    <3> HIDE DEF put
    <3>3. cards' = [Swept EXCEPT ![c] = put] BY <2>6 DEF put
    <3> QED BY <3>1, <3>2, <3>3, PutPersists
  <2>7. CASE /\ {d \in Cards : Repeats(d, "edit", label, a)} = {}
             /\ Room
             /\ cards' = [Swept EXCEPT ![c] = moved]
    <3>1. cards'[c] = moved /\ \A d \in Cards \ {c} : Persists(d)
      BY <2>7, OthersPersist
    <3>2. Added(c) BY <2>3, <2>7, <3>1 DEF Added
    <3> QED BY <3>2
  <2> QED BY <2>5, <2>6, <2>7
<1> QED BY <1>1, <1>2, <1>3, <1>4, <1>5

LEMMA ApproveTable ==
    ASSUME TypeOK, Shaped, NEW c \in Cards, Approve(c) \/ Reject(c)
    PROVE  \A d \in Cards : Persists(d)
<1>1. Waiting(c)
  BY DEF Approve, Reject, ApproveRefused, ApproveCreate, ApproveCreateRolledBack,
         ApproveCreateNotInserted, ApproveUnchanged, ApproveEdit,
         ApproveEditConflict, ApproveEditRolledBack, ApproveDeleteDone,
         ApproveDelete, ApproveDeleteConflict, ApproveDeleteRolledBack,
         ApproveMove, ApproveMoveConflict, ApproveAction, ApproveActionFails,
         IsSave, IsDelete, IsMove, IsAction
<1> DEFINE old == cards[c].staged
<1>2. cards[c] \in Card /\ Swept[c] = cards[c] /\ old \in Content BY <1>1, CardTypes
<1>3. \A x \in Content : Touched(x).label = x.label BY DEF Touched, Content
<1>4. [old EXCEPT !.deleted = TRUE] \in Content
      /\ [old EXCEPT !.deleted = TRUE].label = old.label
  BY <1>2 DEF Content
<1>5. ASSUME NEW x, x.label = old.label, cards' = [Swept EXCEPT ![c].staged = x]
      PROVE  \A d \in Cards : Persists(d)
  <2> DEFINE card == [cards[c] EXCEPT !.staged = x]
  <2>1. cards' = [Swept EXCEPT ![c] = card] BY <1>2, <1>5, SweptTypes
  <2>2. card.kind = cards[c].kind /\ card.asker = cards[c].asker /\ card.staged = x
    BY <1>2 DEF Card
  <2> HIDE DEF card
  <2> QED BY <1>1, <1>5, <2>1, <2>2, PutPersists
<1>6. CASE \/ Decide(c, "approved") \/ Decide(c, "failed") \/ Decide(c, "free")
           \/ cards' = Swept
  <2>1. {"approved", "failed", "free"} \subseteq Fates \ {"pending"} BY DEF Fates
  <2> QED BY <1>6, <2>1, DecidedPersists, SweptPersists
<1>7. CASE ApproveCreateNotInserted(c) \/ ApproveEditRolledBack(c)
  <2> DEFINE x == Touched(old)
  <2>1. cards' = [Swept EXCEPT ![c].staged = x]
    BY <1>2, <1>7, SweptTypes DEF ApproveCreateNotInserted, ApproveEditRolledBack
  <2>2. x.label = old.label BY <1>2, <1>3
  <2> HIDE DEF x
  <2> QED BY <1>5, <2>1, <2>2
<1>8. CASE ApproveDeleteRolledBack(c)
  <2> DEFINE x == Touched([old EXCEPT !.deleted = TRUE])
  <2>1. cards' = [Swept EXCEPT ![c].staged = x]
    BY <1>8, Zenon DEF ApproveDeleteRolledBack
  <2>2. x.label = old.label BY <1>3, <1>4
  <2> HIDE DEF x
  <2> QED BY <1>5, <2>1, <2>2
<1>9. ASSUME NEW r \in Records, ApproveCreateRolledBack(c, r)
      PROVE  \A d \in Cards : Persists(d)
  <2> DEFINE x == Touched(old)
             card == [cards[c] EXCEPT !.record = r, !.staged = x]
  <2>1. cards' = [Swept EXCEPT ![c] = card]
    BY <1>2, <1>9, SweptTypes DEF ApproveCreateRolledBack
  <2>2. x.label = old.label BY <1>2, <1>3
  <2> HIDE DEF x
  <2>3. card.kind = cards[c].kind /\ card.asker = cards[c].asker /\ card.staged = x
    BY <1>2 DEF Card
  <2> HIDE DEF card
  <2> QED BY <1>1, <2>1, <2>2, <2>3, PutPersists
<1>10. \/ Decide(c, "approved") \/ Decide(c, "failed") \/ Decide(c, "free")
       \/ cards' = Swept
       \/ ApproveCreateNotInserted(c) \/ ApproveEditRolledBack(c)
       \/ ApproveDeleteRolledBack(c)
       \/ \E r \in Records : ApproveCreateRolledBack(c, r)
  BY DEF Approve, Reject, ApproveRefused, ApproveCreate, ApproveUnchanged,
         ApproveEdit, ApproveEditConflict, ApproveDeleteDone, ApproveDelete,
         ApproveDeleteConflict, ApproveMove, ApproveMoveConflict, ApproveAction,
         ApproveActionFails
<1> QED BY <1>6, <1>7, <1>8, <1>9, <1>10

\* What a step may do to the table of waiting cards.
LEMMA TableStep ==
    Invariant /\ [Next]_vars =>
        (\A c \in Cards : Persists(c)) \/ \E c \in Cards : Added(c)
<1> SUFFICES ASSUME Invariant, [Next]_vars
             PROVE  (\A c \in Cards : Persists(c)) \/ \E c \in Cards : Added(c)
  OBVIOUS
<1> USE DEF Invariant
<1>1. CASE Propose BY <1>1, ProposeTable
<1>2. ASSUME NEW c \in Cards, Approve(c) \/ Reject(c)
      PROVE  \A d \in Cards : Persists(d)
  BY <1>2, ApproveTable
<1>3. CASE UNCHANGED vars \/ Elsewhere
  <2>1. cards' = cards
    BY <1>3 DEF vars, Elsewhere, DirectEdit, DirectCreate, DirectDelete, Purge
  <2> QED BY <2>1 DEF Persists, Waiting
<1>4. CASE Tick
  <2>1. ASSUME NEW c \in Cards, Waiting(c)'
        PROVE  Waiting(c) /\ cards'[c] = [cards[c] EXCEPT !.age = @ + 1]
    BY <1>4, <2>1 DEF Tick, Waiting
  <2>2. \A c \in Cards : cards[c] \in Card BY DEF TypeOK
  <2> QED BY <2>1, <2>2 DEF Persists, Card
<1>5. CASE Restart
  <2>1. Removed("free").fate = "free" BY ContentTypes DEF Fates
  <2> QED BY <1>5, <2>1 DEF Restart, Persists, Waiting
<1> QED BY <1>1, <1>2, <1>3, <1>4, <1>5 DEF Next

-----------------------------------------------------------------------------
(* One card per change, and no more than the cap *)

LEMMA OneCardStep ==
    Invariant /\ OneCardPerChange /\ [Next]_vars => OneCardPerChange'
<1> SUFFICES ASSUME Invariant, OneCardPerChange, [Next]_vars,
                    NEW c \in Cards, NEW d \in Cards,
                    Waiting(c)', Waiting(d)',
                    cards'[c].kind = cards'[d].kind, cards'[c].kind # "action",
                    cards'[c].asker = cards'[d].asker,
                    cards'[c].staged.label = cards'[d].staged.label
             PROVE  c = d
  BY DEF OneCardPerChange
<1>1. CASE \A e \in Cards : Persists(e)
  BY <1>1 DEF Persists, OneCardPerChange
<1>2. ASSUME NEW e \in Cards, Added(e), c # d PROVE FALSE
  <2>1. CASE c # e /\ d # e
    BY <1>2, <2>1 DEF Added, Persists, OneCardPerChange
  <2>2. CASE c = e
    BY <1>2, <2>2 DEF Added, Persists, Repeats
  <2>3. CASE d = e
    BY <1>2, <2>3 DEF Added, Persists, Repeats
  <2> QED BY <2>1, <2>2, <2>3
<1> QED BY <1>1, <1>2, TableStep

\* No two waiting cards stand for one change, for any askers and any order of
\* proposals, approvals that fail, expiry and restarts.
THEOREM ChangesWaitOnce == Spec => []OneCardPerChange
<1>1. Init => OneCardPerChange
  <2>1. Removed("free").fate = "free" BY ContentTypes DEF Fates
  <2> QED BY <2>1 DEF Init, OneCardPerChange, Waiting
<1> QED BY <1>1, OneCardStep, StoreInvariant, PTL DEF Spec

Waits == {c \in Cards : Waiting(c)}

LEMMA LimitStep == Invariant /\ WithinLimit /\ [Next]_vars => WithinLimit'
<1> SUFFICES ASSUME Invariant, WithinLimit, [Next]_vars
             PROVE  Cardinality(Waits') <= Limit
  BY DEF WithinLimit, Waits
<1>1. IsFiniteSet(Waits) /\ Cardinality(Waits) \in Nat /\ Cardinality(Waits) <= Limit
  BY CardsAssumption, FS_Subset, FS_CardinalityType DEF Waits, WithinLimit
<1>2. CASE \A c \in Cards : Persists(c)
  <2>1. Waits' \subseteq Waits BY <1>2 DEF Waits, Persists
  <2>2. Cardinality(Waits') <= Cardinality(Waits) /\ Cardinality(Waits') \in Nat
    BY <1>1, <2>1, FS_Subset, FS_CardinalityType
  <2> QED BY <1>1, <2>2, LimitAssumption
<1>3. ASSUME NEW c \in Cards, Added(c) PROVE Cardinality(Waits') <= Limit
  <2>1. Waits' \subseteq Waits \cup {c} BY <1>3 DEF Waits, Added, Persists
  <2>2. Cardinality(Waits) < Limit BY <1>3 DEF Added, Room, Waits
  <2>3. IsFiniteSet(Waits \cup {c})
        /\ Cardinality(Waits \cup {c}) <= Cardinality(Waits) + 1
    BY <1>1, FS_AddElement
  <2>4. /\ Cardinality(Waits') <= Cardinality(Waits \cup {c})
        /\ Cardinality(Waits') \in Nat /\ Cardinality(Waits \cup {c}) \in Nat
    BY <2>1, <2>3, FS_Subset, FS_CardinalityType
  <2> QED BY <1>1, <2>2, <2>3, <2>4, LimitAssumption
<1> QED BY <1>2, <1>3, TableStep

\* However an agent retries, no more than Limit cards wait.
THEOREM LimitIsKept == Spec => []WithinLimit
<1>1. Init => WithinLimit
  <2> SUFFICES ASSUME Init PROVE WithinLimit
    OBVIOUS
  <2>1. Removed("free").fate = "free" BY ContentTypes DEF Fates
  <2>2. {c \in Cards : Waiting(c)} = {} BY <2>1 DEF Init, Waiting
  <2> QED BY <2>2, FS_EmptySet, LimitAssumption DEF WithinLimit
<1> QED BY <1>1, LimitStep, StoreInvariant, PTL DEF Spec

-----------------------------------------------------------------------------
(* What an approval does *)

LEMMA OthersUndecided ==
    ASSUME TypeOK, Shaped, NEW e \in Cards, NEW card,
           cards' = [Swept EXCEPT ![e] = card], NEW c \in Cards,
           c # e \/ card.fate \notin {"approved", "failed"}
    PROVE  cards'[c].fate # "approved"
<1>1. cards'[c] = IF c = e THEN card ELSE Swept[c] BY SweptTypes
<1> QED BY <1>1, SweptTypes

LEMMA ProposedUndecided ==
    ASSUME TypeOK, Shaped, Propose, NEW c \in Cards, cards[c].fate = "pending"
    PROVE  cards'[c].fate # "approved"
<1> PICK a \in Askers :
        \/ \E l \in Labels, v \in Values : StageCreate(l, v, a)
        \/ \E r \in Records :
              \/ \E v \in Values : StageEdit(r, v, a) \/ StageAction(r, v, a)
              \/ \E s \in Stages : StageMove(r, s, a)
              \/ StageDelete(r, a)
  BY DEF Propose
<1>1. ASSUME NEW kind, NEW record, NEW staged, NEW original,
             Stage(kind, record, staged, original, a)
      PROVE  cards'[c].fate # "approved"
  <2>1. CASE \E e \in Cards : Repeats(e, kind, staged.label, a)
    <3>1. PICK e \in Cards :
            /\ Waiting(e)
            /\ cards' = [Swept EXCEPT ![e] = [@ EXCEPT !.record = record,
                            !.staged = staged, !.original = original]]
      BY <1>1, <2>1, Zenon DEF Stage, Repeats
    <3> QED BY <3>1, SweptTypes DEF Waiting, Card
  <2>2. CASE ~\E e \in Cards : Repeats(e, kind, staged.label, a)
    <3>1. PICK e \in Cards : cards' = [Swept EXCEPT ![e] =
                  [fate |-> "pending", kind |-> kind, asker |-> a,
                   record |-> record, staged |-> staged,
                   original |-> original, moveTo |-> NoMove, age |-> 0]]
      BY <1>1, <2>2, Zenon DEF Stage
    <3> QED BY <3>1, SweptTypes
  <2> QED BY <2>1, <2>2
<1>2. ASSUME NEW r \in Records, NEW v \in Values, StageAction(r, v, a)
      PROVE  cards'[c].fate # "approved"
  BY <1>2, SweptTypes DEF StageAction
<1>3. ASSUME NEW r \in Records, NEW s \in Stages, StageMove(r, s, a)
      PROVE  cards'[c].fate # "approved"
  BY <1>3, SweptTypes DEF StageMove
<1> QED BY <1>1, <1>2, <1>3 DEF StageCreate, StageEdit, StageDelete

\* A card is approved by its own approval, and only while it waits.
LEMMA ApprovedBy ==
    ASSUME Invariant, Next, NEW c \in Cards, JustDecided(c, "approved")
    PROVE  /\ Waiting(c)
           /\ \/ \E r \in Records : ApproveCreate(c, r)
              \/ ApproveUnchanged(c) \/ ApproveEdit(c) \/ ApproveDeleteDone(c)
              \/ ApproveDelete(c) \/ ApproveMove(c) \/ ApproveAction(c)
<1> USE DEF Invariant
<1>1. cards[c].fate = "pending" /\ cards'[c].fate = "approved"
  BY DEF JustDecided
<1>2. ~Propose BY <1>1, ProposedUndecided
<1>3. ~Elsewhere /\ ~Tick /\ ~Restart
  <2>1. ~Elsewhere
    BY <1>1 DEF Elsewhere, DirectEdit, DirectCreate, DirectDelete, Purge
  <2>2. ~Tick
    <3> SUFFICES ASSUME Tick PROVE FALSE
      OBVIOUS
    <3>1. cards[c] \in Card BY DEF TypeOK
    <3> QED BY <1>1, <3>1 DEF Tick, Card
  <2>3. ~Restart
    BY <1>1, ContentTypes DEF Restart, Fates
  <2> QED BY <2>1, <2>2, <2>3
<1>4. PICK e \in Cards : Approve(e) \/ Reject(e) BY <1>2, <1>3 DEF Next
<1>5. ~Reject(e)
  <2>1. Removed("free").fate = "free" BY ContentTypes DEF Fates
  <2> QED BY <1>1, <2>1, OthersUndecided DEF Reject, Decide
<1>6. ~ApproveRefused(e)
  BY <1>1, SweptTypes DEF ApproveRefused
<1>7. ASSUME Decide(e, "failed") PROVE FALSE
  <2>1. Removed("failed").fate = "failed" BY ContentTypes DEF Fates
  <2>2. cards'[c] = IF c = e THEN Removed("failed") ELSE Swept[c]
    BY <1>7, SweptTypes DEF Decide
  <2> QED BY <1>1, <2>1, <2>2, SweptTypes
<1>8. ASSUME NEW x, cards' = [Swept EXCEPT ![e].staged = x], Waiting(e) PROVE FALSE
  <2>1. cards'[c].fate = Swept[c].fate BY <1>8, SweptTypes DEF Card
  <2> QED BY <1>1, <2>1, SweptTypes
<1>9. ASSUME NEW r \in Records, ApproveCreateRolledBack(e, r) PROVE FALSE
  <2>1. cards'[c].fate = Swept[c].fate
    BY <1>9, SweptTypes DEF ApproveCreateRolledBack, Card
  <2> QED BY <1>1, <2>1, SweptTypes
<1>10. ~ApproveCreateNotInserted(e) /\ ~ApproveEditRolledBack(e)
  <2> SUFFICES ASSUME ApproveCreateNotInserted(e) \/ ApproveEditRolledBack(e)
               PROVE  FALSE
    OBVIOUS
  <2>1. Waiting(e) BY DEF ApproveCreateNotInserted, ApproveEditRolledBack, IsSave
  <2>2. cards' = [Swept EXCEPT ![e].staged = Touched(Swept[e].staged)]
    BY SweptTypes DEF ApproveCreateNotInserted, ApproveEditRolledBack
  <2> QED BY <1>8, <2>1, <2>2
<1>11. ~ApproveDeleteRolledBack(e)
  <2> SUFFICES ASSUME ApproveDeleteRolledBack(e) PROVE FALSE
    OBVIOUS
  <2>1. Waiting(e) BY DEF ApproveDeleteRolledBack, IsDelete
  <2>2. cards' = [Swept EXCEPT ![e].staged =
                    Touched([cards[e].staged EXCEPT !.deleted = TRUE])]
    BY Zenon DEF ApproveDeleteRolledBack
  <2> QED BY <1>8, <2>1, <2>2
<1>12. /\ ~ApproveEditConflict(e) /\ ~ApproveDeleteConflict(e)
       /\ ~ApproveMoveConflict(e) /\ ~ApproveActionFails(e)
  BY <1>7 DEF ApproveEditConflict, ApproveDeleteConflict, ApproveMoveConflict,
     ApproveActionFails
<1>13. \/ \E r \in Records : ApproveCreate(e, r)
       \/ ApproveUnchanged(e) \/ ApproveEdit(e) \/ ApproveDeleteDone(e)
       \/ ApproveDelete(e) \/ ApproveMove(e) \/ ApproveAction(e)
  BY <1>4, <1>5, <1>6, <1>9, <1>10, <1>11, <1>12 DEF Approve
<1>14. Decide(e, "approved") /\ Waiting(e)
  BY <1>13 DEF ApproveCreate, ApproveUnchanged, ApproveEdit, ApproveDeleteDone,
     ApproveDelete, ApproveMove, ApproveAction, IsSave, IsDelete, IsMove, IsAction
<1>15. c = e
  <2>1. cards'[c] = IF c = e THEN Removed("approved") ELSE Swept[c]
    BY <1>14, SweptTypes DEF Decide
  <2> QED BY <1>1, <2>1, SweptTypes
<1> QED BY <1>13, <1>14, <1>15

\* A card past its lifetime is never applied, by whichever way it is approved.
THEOREM ExpiredNeverApplied == Spec => ExpiredIsNeverApplied
<1>1. ASSUME Invariant, Next, NEW c \in Cards, Expired(c), JustDecided(c, "approved")
      PROVE  FALSE
  <2>1. Waiting(c) BY <1>1, ApprovedBy
  <2>2. cards[c].age \in 0..Ttl BY <1>1, <2>1, CardTypes DEF Invariant
  <2> QED BY <1>1, <2>1, <2>2, TtlAssumption DEF Expired, Waiting
<1>2. Invariant /\ [Next]_vars =>
        [\A c \in Cards : Expired(c) => ~JustDecided(c, "approved")]_vars
  BY <1>1
<1> QED BY <1>2, StoreInvariant, PTL DEF Spec, ExpiredIsNeverApplied

\* An approval of a card no failed save has touched writes over no version but
\* the one the card was staged from.
THEOREM NoUpdateIsLost == Spec => NoLostUpdate
<1> DEFINE Kept ==
      \A c \in Cards :
          /\ JustDecided(c, "approved") /\ Pristine(c)
          /\ cards[c].record \in Records
          /\ rows'[cards[c].record] # rows[cards[c].record]
          => rows[cards[c].record].is.version = cards[c].original.version
<1>1. ASSUME Invariant, Next PROVE Kept
  <2> SUFFICES ASSUME NEW c \in Cards, JustDecided(c, "approved"), Pristine(c),
                      cards[c].record \in Records,
                      rows'[cards[c].record] # rows[cards[c].record]
               PROVE  rows[cards[c].record].is.version = cards[c].original.version
    OBVIOUS
  <2>1. \/ \E r \in Records : ApproveCreate(c, r)
        \/ ApproveUnchanged(c) \/ ApproveEdit(c) \/ ApproveDeleteDone(c)
        \/ ApproveDelete(c) \/ ApproveMove(c) \/ ApproveAction(c)
    BY <1>1, ApprovedBy
  <2>2. ~\E r \in Records : ApproveCreate(c, r)
    BY RecordsAssumption DEF ApproveCreate
  <2>3. ~ApproveUnchanged(c) /\ ~ApproveDeleteDone(c)
    BY DEF ApproveUnchanged, ApproveDeleteDone
  <2>4. CASE ApproveEdit(c) \/ ApproveDelete(c) \/ ApproveAction(c)
    BY <2>4 DEF ApproveEdit, ApproveDelete, ApproveAction, Matches, Pristine
  <2>5. CASE ApproveMove(c) BY <2>5 DEF ApproveMove, MoveMatches
  <2> QED BY <2>1, <2>2, <2>3, <2>4, <2>5
<1>2. Invariant /\ [Next]_vars => [Kept]_vars BY <1>1
<1> QED BY <1>2, StoreInvariant, PTL DEF Spec, NoLostUpdate

\* An approved edit that no move was merged with is in the record afterwards,
\* field by field as the card showed it.
THEOREM EditsAreStored == Spec => ApprovedEditIsStored
<1> DEFINE Kept ==
      \A c \in Cards :
          /\ JustDecided(c, "approved")
          /\ cards[c].kind = "edit" /\ cards[c].moveTo = NoMove
          => SameFields(rows'[cards[c].record].is, cards[c].staged)
<1>1. ASSUME Invariant, Next PROVE Kept
  <2> SUFFICES ASSUME NEW c \in Cards, JustDecided(c, "approved"),
                      cards[c].kind = "edit", cards[c].moveTo = NoMove
               PROVE  SameFields(rows'[cards[c].record].is, cards[c].staged)
    OBVIOUS
  <2> DEFINE r0 == cards[c].record
             old == cards[c].staged
  <2>1. /\ Waiting(c)
        /\ \/ \E r \in Records : ApproveCreate(c, r)
           \/ ApproveUnchanged(c) \/ ApproveEdit(c) \/ ApproveDeleteDone(c)
           \/ ApproveDelete(c) \/ ApproveMove(c) \/ ApproveAction(c)
    BY <1>1, ApprovedBy
  <2>2. r0 \in Records /\ old \in Content
    BY <1>1, <2>1, CardTypes DEF Invariant
  <2>3. ~\E r \in Records : ApproveCreate(c, r)
    BY <2>2, RecordsAssumption DEF ApproveCreate
  <2>4. ~ApproveDeleteDone(c) /\ ~ApproveDelete(c) /\ ~ApproveMove(c)
        /\ ~ApproveAction(c)
    BY DEF ApproveDeleteDone, ApproveDelete, ApproveMove, ApproveAction,
           IsDelete, IsMove, IsAction
  <2>5. CASE ApproveUnchanged(c)
    BY <2>5 DEF ApproveUnchanged, SameFields
  <2>6. CASE ApproveEdit(c)
    <3>1. rows'[r0].is = Touched(old)
      BY <1>1, <2>2, <2>6 DEF ApproveEdit, Write, Invariant, TypeOK, Row
    <3>2. SameFields(Touched(old), old) BY <2>2 DEF SameFields, Touched, Content
    <3> QED BY <3>1, <3>2
  <2> QED BY <2>1, <2>3, <2>4, <2>5, <2>6
<1>2. Invariant /\ [Next]_vars => [Kept]_vars BY <1>1
<1> QED BY <1>2, StoreInvariant, PTL DEF Spec, ApprovedEditIsStored
=============================================================================
