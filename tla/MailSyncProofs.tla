--------------------------- MODULE MailSyncProofs ---------------------------
(***************************************************************************)
(* Mailbox synchronisation for any programs, folders, messages, budget and *)
(* limits.  Placed says where a running sync stands, Safe what every copy  *)
(* of a cursor promises, whoever holds it and however stale it is, and     *)
(* Listed that a page leaves nothing out.                                  *)
(***************************************************************************)
EXTENDS MailSyncRefinement, FiniteSetTheorems, TLAPS

\* A sync that is in a folder has one, and its cursor is of the numbering
\* that the session selected.
PlacedAt(c) ==
    /\ phase[c] \in Phases \ {"idle", "done"} => todo[c] # <<>>
    /\ phase[c] \in {"list", "message", "fetch", "failed"} =>
          Mark(c).validity = validity[Folder(c)]

Placed == \A c \in Callers : PlacedAt(c)

\* What a cursor promises.  Of an older numbering it promises only its count
\* of failures; of the present one also that all at or below it is filed.
Safe(cursor, f) ==
    /\ cursor.validity <= validity[f]
    /\ cursor.validity = 0 => cursor = NoCursor
    /\ cursor.validity = validity[f] =>
          /\ cursor.uid <= used[f]
          /\ \A u \in Occupied(f) : u <= cursor.uid => Filed(<<f, validity[f], u>>)
    /\ cursor.failed # 0 =>
          cursor.attempts <= tries[<<f, cursor.validity, cursor.failed>>]

AllSafe ==
    /\ \A f \in Folders : Safe(stored[f], f)
    /\ \A c \in Callers, f \in Folders : Safe(cursors[c][f], f)

\* Between the mark and the last listed UID, all that is there is listed.
ListedAt(c) ==
    phase[c] \in {"message", "fetch", "failed"} =>
        /\ \A w \in entries[c] : Mark(c).uid < w /\ w <= used[Folder(c)]
        /\ \A u \in Occupied(Folder(c)) :
              Mark(c).uid < u => u \in entries[c] \/ \A w \in entries[c] : w < u

\* The failure about to be counted has happened.
OwedAt(c) ==
    phase[c] = "failed" =>
        \A u \in entries[c] :
            InHand(c, u) => Counted(Mark(c), u).attempts <= tries[Key(c, u)]

Paged == \A c \in Callers : ListedAt(c) /\ OwedAt(c)

\* Nothing sits above the last UID given out.
Filled == \A f \in Folders : \A u \in Occupied(f) : u <= used[f]

-----------------------------------------------------------------------------
(* Types *)

\* The operators on a cursor yield cursors and keep its numbering.
LEMMA CursorTypes ==
  /\ NoCursor \in Cursor
  /\ \A cursor \in Cursor, u \in Uids :
        /\ Past(cursor, u) \in Cursor
        /\ Past(cursor, u).validity = cursor.validity
        /\ Counted(cursor, u) \in Cursor
        /\ Counted(cursor, u).validity = cursor.validity
        /\ [cursor EXCEPT !.uid = u] \in Cursor
        /\ [cursor EXCEPT !.uid = u].validity = cursor.validity
  /\ \A cursor \in Cursor, v \in Validities :
        SelectedMark(cursor, v) \in Cursor /\ SelectedMark(cursor, v).validity = v
  <1> USE MailBoundsAssumption
  <1>1. NoCursor \in Cursor
    BY DEF NoCursor, Cursor
  <1>2. ASSUME NEW cursor \in Cursor, NEW u \in Uids
        PROVE  /\ Past(cursor, u) \in Cursor
               /\ Past(cursor, u).validity = cursor.validity
               /\ [cursor EXCEPT !.uid = u] \in Cursor
               /\ [cursor EXCEPT !.uid = u].validity = cursor.validity
    <2>1. u \in 0..MaxUid /\ 0 \in 0..MaxUid /\ 0 \in 0..MaxAttempts
      BY DEF Uids
    <2> QED
      BY <2>1 DEF Cursor, Past
  <1>3. ASSUME NEW cursor \in Cursor, NEW u \in Uids
        PROVE  /\ Counted(cursor, u) \in Cursor
               /\ Counted(cursor, u).validity = cursor.validity
    <2>1. u \in 0..MaxUid /\ 1 \in 0..MaxAttempts
      BY DEF Uids
    <2> DEFINE n == IF cursor.attempts < MaxAttempts
                    THEN cursor.attempts + 1 ELSE cursor.attempts
    <2>2. n \in 0..MaxAttempts
      BY DEF Cursor
    <2>3. Counted(cursor, u) = IF cursor.failed = u
                               THEN [cursor EXCEPT !.attempts = n]
                               ELSE [cursor EXCEPT !.failed = u, !.attempts = 1]
      BY DEF Cursor, Counted
    <2> HIDE DEF n
    <2> QED
      BY <2>1, <2>2, <2>3 DEF Cursor
  <1>4. ASSUME NEW cursor \in Cursor, NEW v \in Validities
        PROVE  /\ SelectedMark(cursor, v) \in Cursor
               /\ SelectedMark(cursor, v).validity = v
    BY <1>1 DEF Cursor, NoCursor, Validities, SelectedMark
  <1> QED
    BY <1>1, <1>2, <1>3, <1>4

\* Where a running sync stands is a folder with a cursor.
LEMMA PlaceTypes ==
  ASSUME TypeOK, Placed, NEW c \in Callers, phase[c] \in Phases \ {"idle", "done"}
  PROVE  /\ Folder(c) \in Folders
         /\ Tail(todo[c]) \in Seq(Folders)
         /\ Mark(c) \in Cursor
         /\ phase[c] # "folder" => \A u \in Uids : Key(c, u) \in Keys
  <1>1. todo[c] \in Seq(Folders) /\ todo[c] # <<>>
    BY DEF TypeOK, Placed, PlacedAt
  <1>2. Folder(c) \in Folders /\ Tail(todo[c]) \in Seq(Folders)
    BY <1>1 DEF Folder
  <1>3. Mark(c) \in Cursor
    BY <1>2 DEF TypeOK, Mark
  <1>4. ASSUME phase[c] # "folder", NEW u \in Uids PROVE Key(c, u) \in Keys
    <2>1. Mark(c).validity = validity[Folder(c)]
      BY <1>4 DEF Placed, PlacedAt, Phases
    <2> QED
      BY <1>2, <2>1 DEF TypeOK, Key, Keys
  <1> QED
    BY <1>2, <1>3, <1>4

\* Storing a cursor keeps the types of the account.
LEMMA StoreTypes ==
  ASSUME TypeOK, NEW c \in Callers, NEW mark \in Cursor, Folder(c) \in Folders,
         StoreMark(c, mark)
  PROVE  /\ cursors' \in [Callers -> [Folders -> Cursor]]
         /\ stored' \in [Folders -> Cursor]
         /\ current' \in [Callers -> BOOLEAN]
  BY DEF TypeOK, StoreMark, SavedBy

LEMMA ConflictTypes ==
  ASSUME TypeOK, NEW c \in Callers, Conflict(c)
  PROVE  /\ current' \in [Callers -> BOOLEAN]
         /\ phase' \in [Callers -> Phases]
         /\ entries' \in [Callers -> SUBSET Uids]
         /\ stored' = stored
  BY DEF TypeOK, Conflict, Phases

LEMMA ProceedTypes ==
  ASSUME TypeOK, NEW c \in Callers, NEW u \in Uids, Proceed(c, u)
  PROVE  /\ phase' \in [Callers -> Phases]
         /\ entries' \in [Callers -> SUBSET Uids]
  BY DEF TypeOK, Proceed, Phases

LEMMA LeaveTypes ==
  ASSUME TypeOK, Placed, NEW c \in Callers, phase[c] \in Phases \ {"idle", "done"},
         LeaveFolder(c)
  PROVE  /\ phase' \in [Callers -> Phases]
         /\ todo' \in [Callers -> Seq(Folders)]
         /\ entries' \in [Callers -> SUBSET Uids]
  BY PlaceTypes DEF TypeOK, LeaveFolder, Phases

LEMMA EndTypes ==
  ASSUME TypeOK, NEW c \in Callers, Ends(c)
  PROVE  /\ phase' \in [Callers -> Phases]
         /\ todo' \in [Callers -> Seq(Folders)]
         /\ cursors' \in [Callers -> [Folders -> Cursor]]
         /\ entries' \in [Callers -> SUBSET Uids]
         /\ upper' \in [Callers -> 0..MaxUid]
         /\ left' \in [Callers -> 0..Budget]
  <1>1. 0 \in 0..Budget /\ 0 \in 0..MaxUid
    BY MailBoundsAssumption
  <1>2. <<>> \in Seq(Folders)
    OBVIOUS
  <1> QED
    BY <1>1, <1>2, CursorTypes DEF TypeOK, Ends, Phases

LEMMA DisturbedType == TypeOK /\ Disturbance => disturbed' \in 0..MaxDisturbed
  BY MailBoundsAssumption DEF TypeOK, Disturbance

\* The server: a rebuilt folder holds no more than before.
LEMMA ServerTypes ==
  ASSUME TypeOK, NEW f \in Folders,
         \/ \E m \in Messages : Deliver(f, m)
         \/ \E u \in Uids : Expunge(f, u)
         \/ Renumber(f)
  PROVE  TypeOK'
  <1> USE MailBoundsAssumption, MessagesAssumption
  <1>1. ASSUME NEW m \in Messages, Deliver(f, m) PROVE TypeOK'
    <2>1. used[f] + 1 \in Uids
      BY <1>1 DEF TypeOK, Deliver, Uids
    <2> QED
      BY <1>1, <2>1 DEF TypeOK, Deliver, Uids, account, sync, history
  <1>2. ASSUME NEW u \in Uids, Expunge(f, u) PROVE TypeOK'
    BY <1>2 DEF TypeOK, Expunge, Disturbance, account, sync
  <1>3. CASE Renumber(f)
    <2> DEFINE n == Cardinality(Occupied(f))
    <2>1. n \in 0..MaxUid
      <3>1. IsFiniteSet(1..MaxUid) /\ Cardinality(1..MaxUid) = MaxUid
        BY FS_Interval
      <3>2. Occupied(f) \in SUBSET (1..MaxUid)
        BY DEF Occupied, Uids
      <3>3. IsFiniteSet(Occupied(f)) /\ n <= MaxUid
        BY <3>1, <3>2, FS_Subset
      <3>4. n \in Nat
        BY <3>3, FS_CardinalityType
      <3> QED
        BY <3>3, <3>4
    <2>2. PICK moved \in Bijection(1..n, Occupied(f)) :
             box' = [box EXCEPT ![f] =
               [u \in Uids |-> IF u <= n THEN box[f][moved[u]] ELSE Nothing]]
      BY <1>3 DEF Renumber
    <2>3. moved \in [1..n -> Occupied(f)]
      BY <2>2 DEF Bijection, Injection
    <2>4. \A u \in Uids : u <= n => moved[u] \in Uids
      BY <2>1, <2>3 DEF Occupied, Uids
    <2>5. box' \in [Folders -> [Uids -> Messages \cup {Nothing}]]
      BY <2>2, <2>4 DEF TypeOK
    <2>6. used' \in [Folders -> 0..MaxUid] /\ validity' \in [Folders -> Validities]
      <3> HIDE DEF n
      <3>1. used' = [used EXCEPT ![f] = n]
        BY <1>3 DEF Renumber, n
      <3> QED
        BY <1>3, <2>1, <3>1 DEF TypeOK, Renumber, Validities
    <2>7. disturbed' \in 0..MaxDisturbed
      BY <1>3 DEF TypeOK, Renumber, Disturbance
    <2> QED
      BY <1>3, <2>5, <2>6, <2>7 DEF TypeOK, Renumber, account, sync
  <1> QED
    BY <1>1, <1>2, <1>3

\* Every step keeps the types.
LEMMA TypeStep == TypeOK /\ Placed /\ [Next]_vars => TypeOK'
  <1> SUFFICES ASSUME TypeOK, Placed, [Next]_vars PROVE TypeOK'
    OBVIOUS
  <1> USE MailBoundsAssumption
  <1>1. CASE UNCHANGED vars
    BY <1>1 DEF TypeOK, vars, mailbox, account, sync, history
  <1>2. ASSUME NEW c \in Callers, TakeLease(c) PROVE TypeOK'
    <2>1. current' \in [Callers -> BOOLEAN] /\ phase' \in [Callers -> Phases]
          /\ left' \in [Callers -> 0..Budget]
      BY <1>2 DEF TypeOK, TakeLease, SavedBy, Phases
    <2>2. todo' \in [Callers -> Seq(Folders)]
          /\ cursors' \in [Callers -> [Folders -> Cursor]]
      BY <1>2, FoldersAssumption DEF TypeOK, TakeLease
    <2> QED
      BY <1>2, <2>1, <2>2 DEF TypeOK, TakeLease, mailbox, history
  <1>3. CASE LeaseExpires
    BY <1>3 DEF TypeOK, LeaseExpires, mailbox, sync, history
  <1>4. CASE LeaseOverrun
    BY <1>4, DisturbedType DEF TypeOK, LeaseOverrun, mailbox, sync
  <1>5. ASSUME NEW after \in {stored, [f \in Folders |-> NoCursor]}, Edit(after)
        PROVE  TypeOK'
    <2>1. stored' \in [Folders -> Cursor]
      BY <1>5, CursorTypes DEF TypeOK, Edit
    <2> QED
      BY <1>5, <2>1 DEF TypeOK, Edit, Disturbance, mailbox
  <1>6. ASSUME NEW c \in Callers, Finish(c) PROVE TypeOK'
    <2>1. stored' \in [Folders -> Cursor] /\ current' \in [Callers -> BOOLEAN]
      BY <1>6 DEF TypeOK, Finish
    <2> QED
      BY <1>6, <2>1, EndTypes DEF TypeOK, Finish, mailbox, history
  <1>7. ASSUME NEW c \in Callers, Crash(c) PROVE TypeOK'
    <2>1. /\ phase' \in [Callers -> Phases]
          /\ todo' \in [Callers -> Seq(Folders)]
          /\ cursors' \in [Callers -> [Folders -> Cursor]]
          /\ entries' \in [Callers -> SUBSET Uids]
          /\ upper' \in [Callers -> 0..MaxUid]
          /\ left' \in [Callers -> 0..Budget]
      BY <1>7, EndTypes DEF Crash
    <2>2. current' \in [Callers -> BOOLEAN] /\ disturbed' \in 0..MaxDisturbed
      BY <1>7, DisturbedType DEF TypeOK, Crash
    <2>3. UNCHANGED <<mailbox, rows, account, tries>>
      BY <1>7 DEF Crash
    <2> QED
      BY <2>1, <2>2, <2>3 DEF TypeOK, mailbox, account
  <1>8. ASSUME NEW c \in Callers, Interrupted(c) PROVE TypeOK'
    <2>1. current' \in [Callers -> BOOLEAN] /\ phase' \in [Callers -> Phases]
      BY <1>8 DEF TypeOK, Interrupted, Phases
    <2> QED
      BY <1>8, <2>1 DEF TypeOK, Interrupted, Disturbance, mailbox, account
  <1>9. ASSUME NEW c \in Callers, Select(c) PROVE TypeOK'
    <2>1. Folder(c) \in Folders /\ Mark(c) \in Cursor
      BY <1>9, PlaceTypes DEF Select, Phases
    <2>2. validity[Folder(c)] \in Validities
      BY <2>1 DEF TypeOK
    <2>3. SelectedMark(Mark(c), validity[Folder(c)]) \in Cursor
      BY <2>1, <2>2, CursorTypes
    <2>4. cursors' \in [Callers -> [Folders -> Cursor]]
      BY <1>9, <2>1, <2>3 DEF TypeOK, Select
    <2>5. upper' \in [Callers -> 0..MaxUid]
      BY <1>9, <2>1 DEF TypeOK, Select
    <2> QED
      BY <1>9, <2>4, <2>5 DEF TypeOK, Select, Phases, mailbox, account, history
  <1>10. ASSUME NEW c \in Callers, FolderRefused(c) PROVE TypeOK'
    <2>1. phase[c] \in Phases \ {"idle", "done"}
      BY <1>10 DEF FolderRefused, Phases
    <2> QED
      BY <1>10, <2>1, LeaveTypes, DisturbedType
      DEF TypeOK, FolderRefused, mailbox, account
  <1>11. ASSUME NEW c \in Callers, List(c) PROVE TypeOK'
    BY <1>11 DEF TypeOK, List, Phases, mailbox, account, history
  <1>12. ASSUME NEW c \in Callers, ListEnded(c) PROVE TypeOK'
    <2>1. phase[c] \in Phases \ {"idle", "done"}
      BY <1>12 DEF ListEnded, Phases
    <2> QED
      BY <1>12, <2>1, LeaveTypes DEF TypeOK, ListEnded, mailbox, account, history
  <1>13. ASSUME NEW c \in Callers, Deferred(c) PROVE TypeOK'
    BY <1>13 DEF TypeOK, Deferred, Phases, mailbox, account, history
  <1>14. ASSUME NEW c \in Callers, NEW u \in Uids, PassFiled(c, u) PROVE TypeOK'
    <2>1. Folder(c) \in Folders /\ Mark(c) \in Cursor
      BY <1>14, PlaceTypes DEF PassFiled, Phases
    <2>2. Past(Mark(c), u) \in Cursor /\ [Mark(c) EXCEPT !.uid = u] \in Cursor
      BY <2>1, CursorTypes
    <2>3. left' \in [Callers -> 0..Budget]
      BY <1>14 DEF TypeOK, PassFiled
    <2>4. PICK mark \in Cursor :
             \/ StoreMark(c, mark) /\ Proceed(c, u)
             \/ Conflict(c) /\ UNCHANGED cursors
      BY <1>14, <2>2 DEF PassFiled
    <2>5. CASE StoreMark(c, mark) /\ Proceed(c, u)
      BY <1>14, <2>1, <2>3, <2>5, StoreTypes, ProceedTypes
      DEF TypeOK, PassFiled, mailbox, history
    <2>6. CASE Conflict(c) /\ UNCHANGED cursors
      BY <1>14, <2>3, <2>6, ConflictTypes DEF TypeOK, PassFiled, mailbox, history
    <2> QED
      BY <2>4, <2>5, <2>6
  <1>15. ASSUME NEW c \in Callers, NEW u \in Uids, Fetch(c, u) PROVE TypeOK'
    <2>1. left' \in [Callers -> 0..Budget]
      BY <1>15 DEF TypeOK, Fetch
    <2> QED
      BY <1>15, <2>1 DEF TypeOK, Fetch, Phases, mailbox, account, history
  <1>16. ASSUME NEW c \in Callers, NEW u \in Uids, File(c, u) PROVE TypeOK'
    <2>1. Folder(c) \in Folders /\ Mark(c) \in Cursor /\ Key(c, u) \in Keys
      BY <1>16, PlaceTypes DEF File, Phases
    <2>2. Past(Mark(c), u) \in Cursor
      BY <2>1, CursorTypes
    <2> DEFINE m == box[Folder(c)][u]
    <2>3. m \in Messages \cup {Nothing}
      BY <2>1 DEF TypeOK
    <2>4. [kind |-> Kind(m), message |-> m] \in Row
      BY <2>3 DEF Row, Kind
    <2>5. CASE /\ rows' = [rows EXCEPT ![Key(c, u)] = [kind |-> Kind(m), message |-> m]]
               /\ StoreMark(c, Past(Mark(c), u))
               /\ Proceed(c, u)
      <3> HIDE DEF m
      <3>1. rows' \in [Keys -> Row]
        BY <2>1, <2>4, <2>5 DEF TypeOK
      <3> QED
        BY <1>16, <2>1, <2>2, <2>5, <3>1, StoreTypes, ProceedTypes
        DEF TypeOK, File, mailbox, history
    <2>6. CASE Conflict(c) /\ UNCHANGED <<rows, cursors>>
      BY <1>16, <2>6, ConflictTypes DEF TypeOK, File, mailbox, history
    <2> QED
      BY <1>16, <2>5, <2>6 DEF File
  <1>17. ASSUME NEW c \in Callers, NEW u \in Uids, FileFails(c, u) PROVE TypeOK'
    <2>1. Key(c, u) \in Keys
      BY <1>17, PlaceTypes DEF FileFails, Phases
    <2>2. tries' \in [Keys -> 0..MaxAttempts]
      BY <1>17, <2>1 DEF TypeOK, FileFails
    <2>3. current' \in [Callers -> BOOLEAN]
      BY <1>17 DEF TypeOK, FileFails
    <2> QED
      BY <1>17, <2>2, <2>3 DEF TypeOK, FileFails, Phases, mailbox, account
  <1>18. ASSUME NEW c \in Callers, NEW u \in Uids, CountFailure(c, u) PROVE TypeOK'
    <2>1. Folder(c) \in Folders /\ Mark(c) \in Cursor
          /\ phase[c] \in Phases \ {"idle", "done"}
      BY <1>18, PlaceTypes DEF CountFailure, Phases
    <2>2. Counted(Mark(c), u) \in Cursor
      BY <2>1, CursorTypes
    <2>3. CASE StoreMark(c, Counted(Mark(c), u)) /\ LeaveFolder(c)
      BY <1>18, <2>1, <2>2, <2>3, StoreTypes, LeaveTypes
      DEF TypeOK, CountFailure, mailbox, history
    <2>4. CASE /\ Conflict(c)
               /\ cursors' = [cursors EXCEPT ![c][Folder(c)] = Counted(Mark(c), u)]
               /\ UNCHANGED todo
      <3>1. cursors' \in [Callers -> [Folders -> Cursor]]
        BY <2>1, <2>2, <2>4 DEF TypeOK
      <3> QED
        BY <1>18, <2>4, <3>1, ConflictTypes DEF TypeOK, CountFailure, mailbox, history
    <2> QED
      BY <1>18, <2>3, <2>4 DEF CountFailure
  <1>19. ASSUME NEW c \in Callers, NEW u \in Uids, Stub(c, u) PROVE TypeOK'
    <2>1. Folder(c) \in Folders /\ Mark(c) \in Cursor /\ Key(c, u) \in Keys
      BY <1>19, PlaceTypes DEF Stub, Phases
    <2>2. Past(Mark(c), u) \in Cursor /\ Counted(Mark(c), u) \in Cursor
      BY <2>1, CursorTypes
    <2>3. CASE /\ rows' = [rows EXCEPT ![Key(c, u)] = [kind |-> "stub", message |-> Nothing]]
               /\ StoreMark(c, Past(Mark(c), u))
               /\ Proceed(c, u)
      <3>1. rows' \in [Keys -> Row]
        BY <2>1, <2>3 DEF TypeOK, Row
      <3> QED
        BY <1>19, <2>1, <2>2, <2>3, <3>1, StoreTypes, ProceedTypes
        DEF TypeOK, Stub, mailbox, history
    <2>4. CASE /\ cursors' = [cursors EXCEPT ![c][Folder(c)] = Counted(Mark(c), u)]
               /\ current' = [current EXCEPT ![c] = TRUE]
               /\ phase' = [phase EXCEPT ![c] = "done"]
               /\ entries' = [entries EXCEPT ![c] = {}]
               /\ UNCHANGED <<rows, stored>>
      <3>1. cursors' \in [Callers -> [Folders -> Cursor]]
        BY <2>1, <2>2, <2>4 DEF TypeOK
      <3> QED
        BY <1>19, <2>4, <3>1 DEF TypeOK, Stub, Phases, mailbox, history
    <2> QED
      BY <1>19, <2>3, <2>4 DEF Stub
  <1>20. ASSUME NEW c \in Callers, NEW u \in Uids, CountUnstored(c, u) PROVE TypeOK'
    <2>1. Folder(c) \in Folders /\ Mark(c) \in Cursor
      BY <1>20, PlaceTypes DEF CountUnstored, Phases
    <2>2. Counted(Mark(c), u) \in Cursor
      BY <2>1, CursorTypes
    <2>3. cursors' \in [Callers -> [Folders -> Cursor]]
      BY <1>20, <2>1, <2>2 DEF TypeOK, CountUnstored
    <2>4. current' \in [Callers -> BOOLEAN] /\ phase' \in [Callers -> Phases]
      BY <1>20 DEF TypeOK, CountUnstored, Phases
    <2> QED
      BY <1>20, <2>3, <2>4, DisturbedType DEF TypeOK, CountUnstored, mailbox, account
  <1> QED
    BY <1>1, <1>2, <1>3, <1>4, <1>5, <1>6, <1>7, <1>8, <1>9, <1>10, <1>11, <1>12,
       <1>13, <1>14, <1>15, <1>16, <1>17, <1>18, <1>19, <1>20, ServerTypes
    DEF Next, Step

-----------------------------------------------------------------------------
(* What every step but a renumbering leaves true *)

\* Folders only gain messages above their last UID, rows and failures stay.
Quiet ==
    /\ validity' = validity
    /\ \A f \in Folders :
          /\ used[f] <= used'[f]
          /\ \A u \in Occupied(f)' : u \in Occupied(f) \/ used[f] < u
    /\ \A key \in Keys : Filed(key) => Filed(key)'
    /\ \A key \in Keys : tries[key] <= tries'[key]

Still(d) ==
    /\ phase'[d] = phase[d] /\ todo'[d] = todo[d]
    /\ cursors'[d] = cursors[d] /\ entries'[d] = entries[d]

\* A cursor that is safe stays so.
LEMMA SafeKept ==
  ASSUME TypeOK, TypeOK', Quiet, NEW cursor \in Cursor, NEW f \in Folders,
         Safe(cursor, f)
  PROVE  Safe(cursor, f)'
  <1>1. cursor.validity <= validity'[f] /\ (cursor.validity = 0 => cursor = NoCursor)
    BY DEF Quiet, Safe
  <1>2. ASSUME cursor.validity = validity[f]
        PROVE  /\ cursor.uid <= used'[f]
               /\ \A u \in Occupied(f)' :
                     u <= cursor.uid => Filed(<<f, validity[f], u>>)'
    <2>1. cursor.uid <= used[f] /\ used[f] <= used'[f]
      BY <1>2 DEF Quiet, Safe
    <2>2. used[f] \in Int /\ used'[f] \in Int /\ cursor.uid \in Int
          /\ validity[f] \in Validities
      BY DEF TypeOK, Cursor
    <2>3. ASSUME NEW u \in Occupied(f)', u <= cursor.uid
          PROVE  Filed(<<f, validity[f], u>>)'
      <3>1. u \in Uids
        BY DEF Occupied
      <3>2. u \in Occupied(f)
        BY <2>1, <2>2, <2>3, <3>1 DEF Quiet, Uids
      <3>3. Filed(<<f, validity[f], u>>)
        BY <1>2, <2>3, <3>2 DEF Safe
      <3>4. <<f, validity[f], u>> \in Keys
        BY <2>2, <3>1 DEF Keys
      <3>5. PICK key \in Keys : key = <<f, validity[f], u>>
        BY <3>4
      <3>6. Filed(key)'
        BY <3>3, <3>5 DEF Quiet
      <3> QED
        BY <3>5, <3>6 DEF Filed, Quiet
    <2> QED
      BY <2>1, <2>2, <2>3 DEF Quiet
  <1>3. ASSUME cursor.failed # 0
        PROVE  cursor.attempts <= tries'[<<f, cursor.validity, cursor.failed>>]
    <2>1. cursor.validity # 0
      BY <1>3 DEF Safe, NoCursor
    <2> DEFINE key == <<f, cursor.validity, cursor.failed>>
    <2>2. key \in Keys
      BY <1>3, <2>1, MailBoundsAssumption DEF Cursor, Keys, Validities, Uids
    <2>3. tries[key] \in Int /\ tries'[key] \in Int /\ cursor.attempts \in Int
      BY <2>2 DEF TypeOK, Cursor
    <2>4. cursor.attempts <= tries[key]
      BY <1>3 DEF Safe
    <2>5. tries[key] <= tries'[key]
      BY <2>2 DEF Quiet
    <2> QED
      BY <2>3, <2>4, <2>5
  <1> QED
    BY <1>1, <1>2, <1>3 DEF Safe, Quiet

\* The cursor of a folder never read is safe.
LEMMA NoCursorSafe ==
  ASSUME TypeOK, NEW f \in Folders
  PROVE  Safe(NoCursor, f)
  <1>1. validity[f] \in Validities
    BY DEF TypeOK
  <1> QED
    BY <1>1 DEF Safe, NoCursor, Validities

\* What a caller does changes nothing for another one.
LEMMA OthersKept ==
  ASSUME TypeOK, TypeOK', Placed, Paged, Quiet, NEW d \in Callers, Still(d)
  PROVE  PlacedAt(d)' /\ ListedAt(d)' /\ OwedAt(d)'
  <1>1. PlacedAt(d)'
    BY DEF Placed, PlacedAt, Quiet, Still, Mark, Folder
  <1>2. ASSUME phase[d] \in {"message", "fetch", "failed"}
        PROVE  /\ Folder(d)' = Folder(d) /\ Folder(d) \in Folders
               /\ Mark(d)' = Mark(d) /\ Mark(d) \in Cursor
               /\ \A u \in Uids : Key(d, u)' = Key(d, u) /\ Key(d, u) \in Keys
    <2>1. phase[d] \in Phases \ {"idle", "done"} /\ phase[d] # "folder"
      BY <1>2 DEF Phases
    <2> QED
      BY <2>1, PlaceTypes DEF Still, Mark, Folder, Key
  <1>3. ASSUME phase[d] \in {"message", "fetch", "failed"}
        PROVE  ListedAt(d)'
    <2>1. ListedAt(d)
      BY DEF Paged
    <2>2. PICK f \in Folders : f = Folder(d)
      BY <1>2, <1>3
    <2>3. entries[d] \subseteq Uids /\ used[f] \in Int /\ used'[f] \in Int
      BY DEF TypeOK
    <2>4. ASSUME NEW u \in Occupied(f)', Mark(d).uid < u
          PROVE  u \in entries[d] \/ \A w \in entries[d] : w < u
      <3>1. u \in Uids
        BY DEF Occupied
      <3>2. CASE u \in Occupied(f)
        BY <1>3, <2>1, <2>2, <2>4, <3>2 DEF ListedAt
      <3>3. CASE used[f] < u
        <4>1. \A w \in entries[d] : w <= used[f]
          BY <1>3, <2>1, <2>2 DEF ListedAt
        <4> QED
          BY <2>3, <3>1, <3>3, <4>1 DEF Uids
      <3> QED
        BY <3>2, <3>3 DEF Quiet
    <2>5. \A w \in entries[d] : Mark(d).uid < w /\ w <= used'[f]
      <3>1. \A w \in entries[d] : Mark(d).uid < w /\ w <= used[f] /\ w \in Int
        BY <1>3, <2>1, <2>2, <2>3 DEF ListedAt, Uids
      <3> QED
        BY <2>3, <3>1 DEF Quiet
    <2>6. Folder(d)' = f /\ Mark(d)' = Mark(d) /\ entries'[d] = entries[d]
      BY <1>2, <1>3, <2>2 DEF Still
    <2>7. Occupied(Folder(d))' = Occupied(f)'
      BY <2>6 DEF Occupied
    <2> QED
      BY <2>4, <2>5, <2>6, <2>7 DEF ListedAt
  <1>4. ASSUME phase[d] = "failed" PROVE OwedAt(d)'
    <2>1. ASSUME NEW u \in entries'[d], InHand(d, u)'
          PROVE  Counted(Mark(d), u).attempts <= tries'[Key(d, u)]
      <3>1. u \in entries[d] /\ InHand(d, u) /\ u \in Uids
        BY <2>1 DEF Still, InHand, TypeOK
      <3>2. Counted(Mark(d), u).attempts <= tries[Key(d, u)]
        BY <1>4, <3>1 DEF Paged, OwedAt
      <3>3. Mark(d) \in Cursor /\ Key(d, u) \in Keys
        BY <1>2, <1>4, <3>1
      <3>4. Counted(Mark(d), u).attempts \in Int
        <4>1. Counted(Mark(d), u) \in Cursor
          BY <3>1, <3>3, CursorTypes
        <4> QED
          BY <4>1 DEF Cursor
      <3>5. tries[Key(d, u)] \in Int /\ tries'[Key(d, u)] \in Int
            /\ tries[Key(d, u)] <= tries'[Key(d, u)]
        BY <3>3 DEF TypeOK, Quiet
      <3> QED
        BY <3>2, <3>4, <3>5
    <2>2. \A u \in entries'[d] : /\ Counted(Mark(d), u)' = Counted(Mark(d), u)
                                  /\ Key(d, u)' = Key(d, u)
      BY <1>2, <1>4 DEF TypeOK, Still, Counted, Key
    <2> QED
      BY <2>1, <2>2 DEF OwedAt
  <1> QED
    BY <1>1, <1>3, <1>4 DEF ListedAt, OwedAt, Still

-----------------------------------------------------------------------------
(* What a step of one caller must show *)

Invariant == TypeOK /\ Placed /\ AllSafe /\ Paged /\ Filled

Strong == Placed /\ AllSafe /\ Paged /\ Filled

\* The mailbox as it was, and no row or failure forgotten.
LEMMA SameQuiet ==
  ASSUME TypeOK, TypeOK', UNCHANGED mailbox,
         \A key \in Keys : Filed(key) => Filed(key)',
         \A key \in Keys : tries[key] <= tries'[key]
  PROVE  Quiet
  <1>1. \A f \in Folders : used[f] \in Int
    BY DEF TypeOK
  <1> QED
    BY <1>1 DEF Quiet, mailbox, Occupied

LEMMA UnchangedQuiet ==
  TypeOK /\ TypeOK' /\ UNCHANGED <<mailbox, rows, tries>> => Quiet
  <1> SUFFICES ASSUME TypeOK, TypeOK', UNCHANGED <<mailbox, rows, tries>> PROVE Quiet
    OBVIOUS
  <1>1. \A key \in Keys : tries[key] \in Int
    BY DEF TypeOK
  <1>2. \A key \in Keys : tries[key] <= tries'[key]
    BY <1>1
  <1>3. \A key \in Keys : Filed(key) => Filed(key)'
    BY DEF Filed
  <1> QED
    BY <1>2, <1>3, SameQuiet

\* Cursors that are handed on, reset, or kept stay safe; so does everything
\* when one safe cursor is new.
LEMMA SafeSpread ==
  ASSUME TypeOK, TypeOK', AllSafe, Quiet, NEW c \in Callers,
         NEW f \in Folders, NEW mark \in Cursor, Safe(mark, f)',
         \A g \in Folders : \/ stored'[g] \in {stored[g], NoCursor, cursors[c][g]}
                            \/ g = f /\ stored'[g] = mark,
         \A g \in Folders : \/ cursors'[c][g] \in {stored[g], NoCursor, cursors[c][g]}
                            \/ g = f /\ cursors'[c][g] = mark,
         \A d \in Callers \ {c} : cursors'[d] = cursors[d]
  PROVE  AllSafe'
  <1>1. NoCursor \in Cursor
    BY CursorTypes
  <1>2. ASSUME NEW g \in Folders
        PROVE  /\ Safe(stored[g], g)' /\ Safe(cursors[c][g], g)'
    <2>1. PICK old \in Cursor : old = stored[g]
      BY DEF TypeOK
    <2>2. PICK held \in Cursor : held = cursors[c][g]
      BY DEF TypeOK
    <2>3. PICK none \in Cursor : none = NoCursor
      BY <1>1
    <2>4. Safe(old, g) /\ Safe(held, g) /\ Safe(none, g)
      BY <2>1, <2>2, <2>3, NoCursorSafe DEF AllSafe
    <2>5. Safe(old, g)' /\ Safe(held, g)' /\ Safe(none, g)'
      BY <2>4, SafeKept
    <2>6. PICK after \in Cursor : after = stored'[g]
      BY DEF TypeOK
    <2>7. PICK copy \in Cursor : copy = cursors'[c][g]
      BY DEF TypeOK
    <2>8. Safe(after, g)' /\ Safe(copy, g)'
      BY <2>1, <2>2, <2>3, <2>5, <2>6, <2>7
    <2> QED
      BY <2>6, <2>7, <2>8 DEF Safe
  <1>3. ASSUME NEW d \in Callers \ {c}, NEW g \in Folders
        PROVE  Safe(cursors[d][g], g)'
    <2>1. PICK held \in Cursor : held = cursors[d][g]
      BY DEF TypeOK
    <2>2. Safe(held, g)'
      BY <2>1, SafeKept DEF AllSafe
    <2>3. cursors'[d][g] = held
      BY <2>1
    <2> QED
      BY <2>2, <2>3 DEF Safe
  <1> QED
    BY <1>2, <1>3 DEF AllSafe

\* The case without a new cursor.
LEMMA SafeHanded ==
  ASSUME TypeOK, TypeOK', AllSafe, Quiet, NEW c \in Callers,
         \A g \in Folders : stored'[g] \in {stored[g], NoCursor, cursors[c][g]},
         \A g \in Folders : cursors'[c][g] \in {stored[g], NoCursor, cursors[c][g]},
         \A d \in Callers \ {c} : cursors'[d] = cursors[d]
  PROVE  AllSafe'
  <1>1. PICK f \in Folders : TRUE
    BY FoldersAssumption
  <1>2. PICK none \in Cursor : none = NoCursor
    BY CursorTypes
  <1>3. Safe(none, f)'
    BY <1>2, NoCursorSafe, SafeKept
  <1> QED
    BY <1>3, SafeSpread

LEMMA CallerStep ==
  ASSUME Invariant, TypeOK', Quiet, UNCHANGED mailbox, NEW c \in Callers,
         \A d \in Callers \ {c} : Still(d),
         AllSafe', PlacedAt(c)', ListedAt(c)', OwedAt(c)'
  PROVE  Strong'
  <1>1. \A d \in Callers \ {c} : PlacedAt(d)' /\ ListedAt(d)' /\ OwedAt(d)'
    BY OthersKept DEF Invariant
  <1>2. Filled'
    BY DEF Invariant, Filled, Occupied, mailbox
  <1> QED
    BY <1>1, <1>2 DEF Strong, Placed, Paged

\* Outside a folder, or before its messages, little is to be shown.
LEMMA Outside ==
  ASSUME NEW c \in Callers, TypeOK',
         \/ phase'[c] \in {"idle", "done"}
         \/ phase'[c] = "folder" /\ todo'[c] # <<>>
  PROVE  PlacedAt(c)' /\ ListedAt(c)' /\ OwedAt(c)'
  BY DEF PlacedAt, ListedAt, OwedAt

\* What the step knows of the folder it is in.
LEMMA Here ==
  ASSUME Invariant, NEW c \in Callers, phase[c] \in Phases \ {"idle", "done"}
  PROVE  /\ Folder(c) \in Folders /\ Mark(c) \in Cursor
         /\ Safe(Mark(c), Folder(c))
         /\ phase[c] # "folder" =>
               /\ Mark(c).validity = validity[Folder(c)]
               /\ \A u \in Uids : Key(c, u) \in Keys
  <1>1. Folder(c) \in Folders /\ Mark(c) \in Cursor
        /\ (phase[c] # "folder" => \A u \in Uids : Key(c, u) \in Keys)
    BY PlaceTypes DEF Invariant
  <1>2. Safe(Mark(c), Folder(c))
    BY <1>1 DEF Invariant, AllSafe, Mark
  <1>3. phase[c] # "folder" => Mark(c).validity = validity[Folder(c)]
    BY DEF Invariant, Placed, PlacedAt, Phases
  <1> QED
    BY <1>1, <1>2, <1>3

\* Moving the mark to the message in hand, once that has its row.
LEMMA PassedSafe ==
  ASSUME Invariant, TypeOK', Quiet, UNCHANGED mailbox, NEW c \in Callers, NEW u \in Uids,
         phase[c] \in {"message", "fetch", "failed"}, InHand(c, u),
         NEW f \in Folders, f = Folder(c),
         NEW key \in Keys, key = Key(c, u), Filed(key)',
         NEW mark \in Cursor, mark.uid = u, mark.validity = Mark(c).validity,
         \/ mark.failed = 0
         \/ mark.failed = Mark(c).failed /\ mark.attempts = Mark(c).attempts
  PROVE  Safe(mark, f)'
  <1>1. phase[c] \in Phases \ {"idle", "done"} /\ phase[c] # "folder"
    BY DEF Phases
  <1>2. PICK held \in Cursor : held = Mark(c)
    BY <1>1, Here
  <1>3. Safe(held, f) /\ held.validity = validity[f]
    BY <1>1, <1>2, Here
  <1>4. Safe(held, f)'
    BY <1>3, SafeKept DEF Invariant
  <1>5. validity' = validity /\ used' = used /\ box' = box
    BY DEF mailbox
  <1>6. validity[f] \in Validities
    BY DEF Invariant, TypeOK
  <1>7. u \in entries[c] /\ (\A w \in entries[c] : u <= w) /\ ListedAt(c)
        /\ entries[c] \subseteq Uids
    BY DEF InHand, Invariant, Paged, TypeOK
  <1>8. u <= used[f]
    BY <1>7 DEF ListedAt
  <1>9. ASSUME NEW w \in Occupied(f), w <= u
        PROVE  Filed(<<f, validity[f], w>>)'
    <2>1. w \in Uids /\ w \in Int /\ u \in Int /\ held.uid \in Int
      BY DEF Occupied, Uids, Cursor
    <2>2. CASE w <= held.uid
      <3>1. w \in Occupied(f)'
        BY <1>5 DEF Occupied
      <3> QED
        BY <1>3, <1>4, <1>5, <2>2, <3>1 DEF Safe
    <2>3. CASE held.uid < w
      <3>1. w \in entries[c] \/ \A x \in entries[c] : x < w
        BY <1>2, <1>7, <2>3 DEF ListedAt
      <3>2. w = u
        BY <1>7, <1>9, <2>1, <3>1
      <3>3. key = <<f, validity[f], w>>
        BY <1>2, <1>3, <3>2 DEF Key
      <3> QED
        BY <1>5, <3>3 DEF Filed
    <2> QED
      BY <2>1, <2>2, <2>3
  <1>10. mark.failed # 0 =>
           mark.attempts <= tries'[<<f, mark.validity, mark.failed>>]
    BY <1>2, <1>4 DEF Safe
  <1>11. mark.validity = validity[f] /\ mark.validity # 0 /\ mark.validity <= validity[f]
    BY <1>2, <1>3, <1>6 DEF Validities
  <1> QED
    BY <1>5, <1>8, <1>9, <1>10, <1>11 DEF Safe, Occupied

\* The page goes on with the next message, or ends.
LEMMA ProceedPaged ==
  ASSUME Invariant, TypeOK', Quiet, UNCHANGED <<mailbox, todo>>,
         NEW c \in Callers, NEW u \in Uids,
         phase[c] \in {"message", "fetch", "failed"}, InHand(c, u), Proceed(c, u),
         NEW mark \in Cursor, mark.uid = u, mark.validity = Mark(c).validity,
         StoreMark(c, mark)
  PROVE  PlacedAt(c)' /\ ListedAt(c)' /\ OwedAt(c)'
  <1>1. phase[c] \in Phases \ {"idle", "done"} /\ phase[c] # "folder"
    BY DEF Phases
  <1>2. Folder(c) \in Folders /\ Folder(c)' = Folder(c) /\ todo[c] # <<>>
        /\ Mark(c).validity = validity[Folder(c)]
    BY <1>1, Here DEF Folder, Invariant, Placed, PlacedAt
  <1>3. Mark(c)' = mark
    BY <1>2 DEF Mark, StoreMark, Invariant, TypeOK
  <1>4. entries'[c] = entries[c] \ {u} /\ phase'[c] \in {"list", "message"}
    BY DEF Proceed, Invariant, TypeOK
  <1>5. PlacedAt(c)'
    BY <1>2, <1>3 DEF PlacedAt, mailbox
  <1>6. u \in entries[c] /\ (\A w \in entries[c] : u <= w) /\ ListedAt(c)
        /\ entries[c] \subseteq Uids /\ Mark(c) \in Cursor
    BY <1>1, Here DEF InHand, Invariant, Paged, TypeOK
  <1>7. \A w \in entries'[c] : mark.uid < w /\ w <= used[Folder(c)]
    BY <1>4, <1>6 DEF ListedAt, Uids
  <1>8. ASSUME NEW w \in Occupied(Folder(c)), mark.uid < w
        PROVE  w \in entries'[c] \/ \A x \in entries'[c] : x < w
    <2>1. Mark(c).uid < u /\ u < w /\ w \in Uids /\ Mark(c).uid \in Int
      BY <1>6, <1>8 DEF ListedAt, Occupied, Cursor
    <2>2. Mark(c).uid < w
      BY <2>1 DEF Uids
    <2>3. w # u
      BY <2>1 DEF Uids
    <2> QED
      BY <1>4, <1>6, <2>2, <2>3 DEF ListedAt
  <1>9. ListedAt(c)'
    <2>1. Occupied(Folder(c))' = Occupied(Folder(c)) /\ used' = used
      BY <1>2 DEF Occupied, mailbox
    <2> QED
      BY <1>2, <1>3, <1>7, <1>8, <2>1 DEF ListedAt
  <1> QED
    BY <1>4, <1>5, <1>9 DEF OwedAt

\* A folder selected again, renumbered or not.
LEMMA SelectedSafe ==
  ASSUME TypeOK, NEW cursor \in Cursor, NEW f \in Folders, Safe(cursor, f)
  PROVE  Safe(SelectedMark(cursor, validity[f]), f)
  <1>1. validity[f] \in Validities /\ used[f] \in 0..MaxUid
    BY DEF TypeOK
  <1>2. \A u \in Occupied(f) : ~(u <= 0)
    BY DEF Occupied, Uids
  <1>3. CASE cursor.validity = validity[f]
    <2>1. SelectedMark(cursor, validity[f]) = cursor
      BY <1>3 DEF SelectedMark, Cursor
    <2> QED
      BY <2>1
  <1>4. CASE cursor.validity # validity[f]
    <2> DEFINE after == SelectedMark(cursor, validity[f])
    <2>1. after.uid = 0 /\ after.failed = 0 /\ after.validity = validity[f]
      <3>1. CASE cursor.validity = 0
        <4>1. cursor = NoCursor
          BY <3>1 DEF Safe
        <4> QED
          BY <3>1, <4>1 DEF SelectedMark, NoCursor
      <3>2. CASE cursor.validity # 0
        BY <1>4, <3>2 DEF SelectedMark, NoCursor
      <3> QED
        BY <3>1, <3>2
    <2> HIDE DEF after
    <2> QED
      BY <1>1, <1>2, <2>1 DEF Safe, Validities, after
  <1> QED
    BY <1>3, <1>4

-----------------------------------------------------------------------------
(* Every step *)

\* The server, the clock and the operator.
LEMMA WorldStep ==
  ASSUME Invariant, TypeOK', Quiet, Filled', \A d \in Callers : Still(d),
         \A g \in Folders : stored'[g] \in {stored[g], NoCursor}
  PROVE  Strong'
  <1>1. \A d \in Callers : PlacedAt(d)' /\ ListedAt(d)' /\ OwedAt(d)'
    BY OthersKept DEF Invariant
  <1>2. ASSUME NEW g \in Folders PROVE Safe(stored[g], g)'
    <2>1. PICK after \in Cursor : after = stored'[g]
      BY DEF TypeOK
    <2>2. Safe(after, g)
      BY <2>1, NoCursorSafe DEF Invariant, AllSafe
    <2>3. Safe(after, g)'
      BY <2>2, SafeKept DEF Invariant
    <2> QED
      BY <2>1, <2>3 DEF Safe
  <1>3. ASSUME NEW d \in Callers, NEW g \in Folders PROVE Safe(cursors[d][g], g)'
    <2>1. PICK held \in Cursor : held = cursors[d][g]
      BY DEF Invariant, TypeOK
    <2>2. Safe(held, g)'
      BY <2>1, SafeKept DEF Invariant, AllSafe
    <2>3. cursors'[d][g] = held
      BY <2>1 DEF Still
    <2> QED
      BY <2>2, <2>3 DEF Safe
  <1> QED
    BY <1>1, <1>2, <1>3 DEF Strong, Placed, Paged, AllSafe

\* A rebuilt folder: no cursor is of the new numbering.
LEMMA RenumberStep ==
  ASSUME Invariant, TypeOK', NEW f \in Folders, Renumber(f)
  PROVE  Strong'
  <1>1. /\ validity' = [validity EXCEPT ![f] = @ + 1]
        /\ UNCHANGED <<rows, account, sync, tries>>
        /\ \A g \in Folders \ {f} : used'[g] = used[g] /\ box'[g] = box[g]
    BY DEF Renumber, Invariant, TypeOK
  <1>2. \A g \in Folders : validity[g] \in Validities
    BY DEF Invariant, TypeOK
  <1>3. ASSUME NEW cursor \in Cursor, NEW g \in Folders, Safe(cursor, g)
        PROVE  Safe(cursor, g)'
    <2>1. CASE g = f
      <3>1. validity'[g] = validity[g] + 1 /\ cursor.validity <= validity[g]
            /\ cursor.validity \in Int
        BY <1>1, <1>3, <2>1 DEF Safe, Invariant, TypeOK, Cursor
      <3>2. cursor.validity <= validity'[g] /\ cursor.validity # validity'[g]
        BY <1>2, <3>1 DEF Validities
      <3> QED
        BY <1>1, <1>3, <3>2 DEF Safe
    <2>2. CASE g # f
      <3>1. validity'[g] = validity[g] /\ used'[g] = used[g] /\ box'[g] = box[g]
        BY <1>1, <2>2 DEF Invariant, TypeOK
      <3> QED
        BY <1>1, <1>3, <3>1 DEF Safe, Occupied, Filed
    <2> QED
      BY <2>1, <2>2
  <1>4. AllSafe'
    <2>1. ASSUME NEW g \in Folders PROVE Safe(stored[g], g)'
      <3>1. PICK old \in Cursor : old = stored[g]
        BY DEF Invariant, TypeOK
      <3>2. Safe(old, g)' /\ stored'[g] = old
        BY <1>1, <1>3, <3>1 DEF Invariant, AllSafe, account
      <3> QED
        BY <3>2 DEF Safe
    <2>2. ASSUME NEW d \in Callers, NEW g \in Folders PROVE Safe(cursors[d][g], g)'
      <3>1. PICK held \in Cursor : held = cursors[d][g]
        BY DEF Invariant, TypeOK
      <3>2. Safe(held, g)' /\ cursors'[d][g] = held
        BY <1>1, <1>3, <3>1 DEF Invariant, AllSafe, sync
      <3> QED
        BY <3>2 DEF Safe
    <2> QED
      BY <2>1, <2>2 DEF AllSafe
  <1>5. ASSUME NEW d \in Callers PROVE PlacedAt(d)' /\ ListedAt(d)' /\ OwedAt(d)'
    <2>1. PlacedAt(d) /\ ListedAt(d) /\ OwedAt(d)
      BY DEF Invariant, Placed, Paged
    <2>2. CASE phase[d] \in {"list", "message", "fetch", "failed"}
      <3>1. phase[d] \in Phases \ {"idle", "done"} /\ todo[d] # <<>>
        BY <2>1, <2>2 DEF PlacedAt, Phases
      <3>2. Folder(d) \in Folders \ {f}
        BY <2>2, <3>1, Here DEF Renumber, Selected, Folder
      <3>3. PICK g \in Folders \ {f} : g = Folder(d)
        BY <3>2
      <3>4. /\ validity'[g] = validity[g] /\ used'[g] = used[g]
            /\ Folder(d)' = g /\ Mark(d)' = Mark(d)
        BY <1>1, <3>3 DEF Invariant, TypeOK, Folder, Mark, sync
      <3>5. Occupied(Folder(d))' = Occupied(g)
        BY <1>1, <3>3, <3>4 DEF Occupied
      <3>6. PlacedAt(d)'
        BY <1>1, <2>1, <3>3, <3>4 DEF PlacedAt, sync
      <3>7. ListedAt(d)'
        BY <1>1, <2>1, <3>3, <3>4, <3>5 DEF ListedAt, sync
      <3>8. OwedAt(d)'
        BY <1>1, <2>1, <3>3, <3>4 DEF OwedAt, InHand, Counted, Key, sync
      <3> QED
        BY <3>6, <3>7, <3>8
    <2>3. CASE phase[d] \notin {"list", "message", "fetch", "failed"}
      BY <1>1, <2>1, <2>3 DEF PlacedAt, ListedAt, OwedAt, sync
    <2> QED
      BY <2>2, <2>3
  <1>6. Filled'
    <2> DEFINE n == Cardinality(Occupied(f))
    <2>1. PICK moved \in Bijection(1..n, Occupied(f)) :
             box' = [box EXCEPT ![f] =
               [u \in Uids |-> IF u <= n THEN box[f][moved[u]] ELSE Nothing]]
      BY DEF Renumber
    <2>2. used'[f] = n
      BY DEF Renumber, Invariant, TypeOK
    <2>3. \A u \in Occupied(f)' : u <= n
      BY <2>1 DEF Occupied, Invariant, TypeOK
    <2>4. \A g \in Folders \ {f} : \A u \in Occupied(g)' : u <= used'[g]
      BY <1>1 DEF Invariant, Filled, Occupied
    <2> QED
      BY <2>2, <2>3, <2>4 DEF Filled
  <1> QED
    BY <1>4, <1>5, <1>6 DEF Strong, Placed, Paged

LEMMA ServerStep ==
  ASSUME Invariant, TypeOK', NEW f \in Folders,
         \/ \E m \in Messages : Deliver(f, m)
         \/ \E u \in Uids : Expunge(f, u)
         \/ Renumber(f)
  PROVE  Strong'
  <1>1. ASSUME NEW m \in Messages, Deliver(f, m) PROVE Strong'
    <2>1. used[f] \in 0..MaxUid
      BY DEF Invariant, TypeOK
    <2>2. ASSUME NEW g \in Folders, NEW u \in Occupied(g)'
          PROVE  u \in Occupied(g) \/ (g = f /\ u = used[f] + 1)
      <3>1. box' = [box EXCEPT ![f] = [box[f] EXCEPT ![used[f] + 1] = m]]
        BY <1>1 DEF Deliver
      <3>2. u \in Uids /\ box'[g][u] # Nothing
        BY <2>2 DEF Occupied
      <3>3. box \in [Folders -> [Uids -> Messages \cup {Nothing}]]
        BY DEF Invariant, TypeOK
      <3>4. g # f => box'[g] = box[g]
        BY <3>1, <3>3
      <3>5. g = f => box'[g] = [box[f] EXCEPT ![used[f] + 1] = m]
        BY <3>1, <3>3
      <3>6. g = f /\ u # used[f] + 1 => box'[g][u] = box[g][u]
        BY <3>2, <3>3, <3>5
      <3>7. box[g][u] # Nothing \/ (g = f /\ u = used[f] + 1)
        BY <3>2, <3>4, <3>6
      <3> QED
        BY <3>2, <3>7 DEF Occupied
    <2>3. \A g \in Folders : used[g] \in Int
          /\ used'[g] = IF g = f THEN used[g] + 1 ELSE used[g]
      BY <1>1 DEF Deliver, Invariant, TypeOK
    <2>4. Quiet
      <3>1. \A key \in Keys : tries[key] \in Int /\ tries'[key] = tries[key]
        BY <1>1 DEF Deliver, history, Invariant, TypeOK
      <3>2. \A key \in Keys : Filed(key) => Filed(key)'
        BY <1>1 DEF Deliver, Filed
      <3>3. validity' = validity
        BY <1>1 DEF Deliver
      <3>4. \A g \in Folders :
              /\ used[g] <= used'[g]
              /\ \A u \in Occupied(g)' : u \in Occupied(g) \/ used[g] < u
        BY <2>2, <2>3
      <3> QED
        BY <3>1, <3>2, <3>3, <3>4 DEF Quiet
    <2>5. Filled'
      <3>1. ASSUME NEW g \in Folders, NEW u \in Occupied(g)' PROVE u <= used'[g]
        <4>1. u \in Uids
          BY DEF Occupied
        <4> QED
          BY <2>2, <2>3, <3>1, <4>1 DEF Invariant, Filled, Uids
      <3> QED
        BY <3>1 DEF Filled
    <2> QED
      BY <1>1, <2>4, <2>5, WorldStep DEF Deliver, account, sync, Still
  <1>2. ASSUME NEW u \in Uids, Expunge(f, u) PROVE Strong'
    <2>1. \A g \in Folders : \A w \in Occupied(g)' : w \in Occupied(g)
      BY <1>2 DEF Expunge, Occupied, Invariant, TypeOK
    <2>2. Quiet
      <3>1. \A key \in Keys : tries[key] \in Int /\ tries'[key] = tries[key]
        BY <1>2 DEF Expunge, Invariant, TypeOK
      <3>2. \A g \in Folders : used[g] \in Int /\ used'[g] = used[g]
        BY <1>2 DEF Expunge, Invariant, TypeOK
      <3> QED
        BY <1>2, <2>1, <3>1, <3>2 DEF Expunge, Quiet, Filed
    <2>3. Filled'
      BY <1>2, <2>1 DEF Expunge, Invariant, Filled
    <2> QED
      BY <1>2, <2>2, <2>3, WorldStep DEF Expunge, account, sync, Still
  <1> QED
    BY <1>1, <1>2, RenumberStep

\* What a sync does short of a message: leases, folders, listings, faults.
LEMMA CourseStep ==
  ASSUME Invariant, TypeOK', NEW c \in Callers,
         \/ TakeLease(c) \/ Finish(c) \/ Crash(c) \/ Interrupted(c)
         \/ Select(c) \/ FolderRefused(c) \/ List(c) \/ ListEnded(c) \/ Deferred(c)
  PROVE  Strong'
  <1>1. UNCHANGED <<mailbox, rows, tries>>
    BY DEF TakeLease, Finish, Crash, Interrupted, Select, FolderRefused, List,
           ListEnded, Deferred, history
  <1>2. Quiet
    BY <1>1, UnchangedQuiet DEF Invariant
  <1>3. \A d \in Callers \ {c} : Still(d)
    BY ZenonT(40) DEF TakeLease, Finish, Crash, Interrupted, Select, FolderRefused, List, ListEnded,
           Deferred, Ends, LeaveFolder, Still, Invariant, TypeOK
  <1>4. ASSUME \A g \in Folders : stored'[g] \in {stored[g], NoCursor, cursors[c][g]},
               \A g \in Folders : cursors'[c][g] \in {stored[g], NoCursor, cursors[c][g]}
        PROVE  AllSafe'
    BY <1>2, <1>3, <1>4, SafeHanded DEF Invariant, Still
  <1>5. CASE TakeLease(c)
    <2>1. cursors'[c] = stored /\ stored' = stored /\ phase'[c] = "folder"
          /\ todo'[c] = FolderOrder
      BY <1>5 DEF TakeLease, Invariant, TypeOK
    <2>2. todo'[c] # <<>>
      BY <2>1, FoldersAssumption
    <2> QED
      BY <1>1, <1>2, <1>3, <1>4, <2>1, <2>2, Outside, CallerStep
  <1>6. CASE Finish(c) \/ Crash(c)
    <2>1. cursors'[c] = [f \in Folders |-> NoCursor] /\ phase'[c] = "idle"
          /\ stored' \in {stored, cursors[c]}
      BY <1>6 DEF Finish, Crash, Ends, account, Invariant, TypeOK
    <2> QED
      BY <1>1, <1>2, <1>3, <1>4, <2>1, Outside, CallerStep
  <1>7. CASE Interrupted(c) \/ Deferred(c)
    <2>1. cursors' = cursors /\ stored' = stored /\ phase'[c] = "done"
      BY <1>7 DEF Interrupted, Deferred, account, Invariant, TypeOK
    <2> QED
      BY <1>1, <1>2, <1>3, <1>4, <2>1, Outside, CallerStep
  <1>8. CASE FolderRefused(c) \/ ListEnded(c)
    <2>1. cursors' = cursors /\ stored' = stored
      BY <1>8 DEF FolderRefused, ListEnded, account
    <2>2. \/ phase'[c] = "done"
          \/ phase'[c] = "folder" /\ todo'[c] # <<>>
      BY <1>8 DEF FolderRefused, ListEnded, LeaveFolder, Invariant, TypeOK
    <2> QED
      BY <1>1, <1>2, <1>3, <1>4, <2>1, <2>2, Outside, CallerStep
  <1>9. CASE Select(c)
    <2>1. phase[c] \in Phases \ {"idle", "done"}
      BY <1>9 DEF Select, Phases
    <2>2. PICK f \in Folders : f = Folder(c)
      BY <2>1, Here
    <2>3. PICK held \in Cursor : held = Mark(c)
      BY <2>1, Here
    <2>4. Safe(held, f)
      BY <2>1, <2>2, <2>3, Here
    <2>5. PICK v \in Validities : v = validity[f]
      BY DEF Invariant, TypeOK
    <2>6. PICK mark \in Cursor : mark = SelectedMark(held, v) /\ mark.validity = v
      BY CursorTypes
    <2>7. Safe(mark, f)
      BY <2>4, <2>5, <2>6, SelectedSafe DEF Invariant
    <2>8. Safe(mark, f)'
      BY <1>2, <2>7, SafeKept DEF Invariant
    <2>9. /\ cursors' = [cursors EXCEPT ![c] = [cursors[c] EXCEPT ![f] = mark]]
          /\ stored' = stored /\ todo' = todo /\ phase'[c] = "list"
      BY <1>9, <2>2, <2>3, <2>5, <2>6 DEF Select, account, Invariant, TypeOK
    <2>10. cursors'[c] = [cursors[c] EXCEPT ![f] = mark]
           /\ cursors[c] \in [Folders -> Cursor]
      BY <2>9 DEF Invariant, TypeOK
    <2>11. cursors'[c][f] = mark
           /\ \A g \in Folders : g # f => cursors'[c][g] = cursors[c][g]
      BY <2>10
    <2>12. AllSafe'
      BY <1>2, <1>3, <2>8, <2>9, <2>11, SafeSpread DEF Invariant, Still
    <2>13. PlacedAt(c)'
      <3>1. todo[c] # <<>>
        BY <2>1 DEF Invariant, Placed, PlacedAt
      <3>2. Folder(c)' = f /\ Mark(c)' = mark
        BY <2>2, <2>9, <2>11 DEF Folder, Mark
      <3> QED
        BY <1>1, <2>5, <2>6, <2>9, <3>1, <3>2 DEF PlacedAt, mailbox
    <2>14. ListedAt(c)' /\ OwedAt(c)'
      BY <2>9 DEF ListedAt, OwedAt
    <2> QED
      BY <1>1, <1>2, <1>3, <2>12, <2>13, <2>14, CallerStep
  <1>10. CASE List(c)
    <2>1. phase[c] \in Phases \ {"idle", "done"} /\ phase[c] # "folder"
      BY <1>10 DEF List, Phases
    <2>2. PICK f \in Folders : f = Folder(c)
      BY <2>1, Here
    <2>3. /\ UNCHANGED <<todo, cursors, stored>> /\ phase'[c] = "message"
          /\ IsListing(c, entries'[c])
      BY <1>10 DEF List, account, Invariant, TypeOK
    <2>4. Folder(c)' = f /\ Mark(c)' = Mark(c)
      BY <2>2, <2>3 DEF Folder, Mark
    <2>5. PlacedAt(c)'
      <3>1. todo[c] # <<>> /\ Mark(c).validity = validity[f]
        BY <2>1, <2>2, Here DEF Invariant, Placed, PlacedAt
      <3> QED
        BY <1>1, <2>3, <2>4, <3>1 DEF PlacedAt, mailbox
    <2>6. ListedAt(c)'
      <3>1. \A w \in entries'[c] : w \in Occupied(f) /\ Mark(c).uid < w
        BY <2>2, <2>3 DEF IsListing, Unread
      <3>2. \A w \in entries'[c] : Mark(c).uid < w /\ w <= used[f]
        BY <3>1 DEF Invariant, Filled
      <3>3. ASSUME NEW u \in Occupied(f), Mark(c).uid < u
            PROVE  u \in entries'[c] \/ \A w \in entries'[c] : w < u
        <4>1. u \in Int /\ upper[c] \in Int /\ entries'[c] \subseteq Uids
          BY DEF Occupied, Uids, Invariant, TypeOK
        <4>2. CASE u <= upper[c]
          BY <2>2, <2>3, <3>3, <4>2 DEF IsListing, Unread
        <4>3. CASE upper[c] < u
          <5>1. \A w \in entries'[c] : w <= upper[c]
            BY <2>3 DEF IsListing, Unread
          <5> QED
            BY <4>1, <4>3, <5>1 DEF Uids
        <4> QED
          BY <4>1, <4>2, <4>3
      <3>4. Occupied(Folder(c))' = Occupied(f) /\ used' = used
        BY <1>1, <2>4 DEF Occupied, mailbox
      <3> QED
        BY <2>4, <3>2, <3>3, <3>4 DEF ListedAt
    <2>7. OwedAt(c)'
      BY <2>3 DEF OwedAt
    <2>8. AllSafe'
      BY <1>4, <2>3
    <2> QED
      BY <1>1, <1>2, <1>3, <2>5, <2>6, <2>7, <2>8, CallerStep
  <1> QED
    BY <1>5, <1>6, <1>7, <1>8, <1>9, <1>10

\* A save that found another version moves nothing but the sync itself.
LEMMA ConflictStep ==
  ASSUME Invariant, TypeOK', NEW c \in Callers, Conflict(c),
         UNCHANGED <<mailbox, rows, tries, todo, cursors>>
  PROVE  Strong'
  <1>1. Quiet
    BY UnchangedQuiet DEF Invariant
  <1>2. phase'[c] = "done" /\ stored' = stored
        /\ \A d \in Callers \ {c} : Still(d)
    BY DEF Conflict, Still, Invariant, TypeOK
  <1>3. AllSafe'
    BY <1>1, <1>2, SafeHanded DEF Invariant, Still
  <1> QED
    BY <1>1, <1>2, <1>3, Outside, CallerStep

\* A failure is counted for the message it happened to.
LEMMA CountedSafe ==
  ASSUME Invariant, TypeOK', Quiet, NEW c \in Callers, NEW u \in Uids,
         phase[c] = "failed", InHand(c, u), NEW f \in Folders, f = Folder(c),
         NEW mark \in Cursor, mark = Counted(Mark(c), u)
  PROVE  Safe(mark, f)'
  <1>1. phase[c] \in Phases \ {"idle", "done"} /\ phase[c] # "folder"
    BY DEF Phases
  <1>2. PICK held \in Cursor : held = Mark(c)
    BY <1>1, Here
  <1>3. Safe(held, f) /\ held.validity = validity[f] /\ validity[f] \in Validities
    BY <1>1, <1>2, Here DEF Invariant, TypeOK
  <1>4. mark.uid = held.uid /\ mark.validity = held.validity /\ mark.failed = u
    BY <1>2 DEF Counted, Cursor
  <1>5. mark.attempts <= tries[<<f, held.validity, u>>]
    BY <1>2 DEF Invariant, Paged, OwedAt, InHand, Key
  <1>6. Safe(mark, f)
    <2>1. held.validity # 0
      BY <1>3 DEF Validities
    <2> QED
      BY <1>3, <1>4, <1>5, <2>1 DEF Safe
  <1> QED
    BY <1>6, SafeKept DEF Invariant

\* A step that moves the mark past the message in hand.
LEMMA PastStep ==
  ASSUME Invariant, TypeOK', Quiet, UNCHANGED <<mailbox, todo>>,
         NEW c \in Callers, NEW u \in Uids,
         phase[c] \in {"message", "fetch", "failed"}, InHand(c, u),
         Filed(Key(c, u))',
         NEW mark \in Cursor, mark.uid = u, mark.validity = Mark(c).validity,
         \/ mark.failed = 0
         \/ mark.failed = Mark(c).failed /\ mark.attempts = Mark(c).attempts,
         StoreMark(c, mark), Proceed(c, u)
  PROVE  Strong'
  <1>1. phase[c] \in Phases \ {"idle", "done"} /\ phase[c] # "folder"
    BY DEF Phases
  <1>2. PICK f \in Folders : f = Folder(c)
    BY <1>1, Here
  <1>3. PICK key \in Keys : key = Key(c, u)
    BY <1>1, Here
  <1>4. rows'[key].kind # "none"
    <2>1. Key(c, u)' = key
      <3>1. Mark(c)' = mark /\ Folder(c)' = f
        BY <1>2 DEF Mark, Folder, StoreMark, Invariant, TypeOK
      <3> QED
        BY <1>2, <1>3, <3>1 DEF Key
    <2> QED
      BY <2>1 DEF Filed
  <1>5. Safe(mark, f)'
    BY <1>2, <1>3, <1>4, PassedSafe DEF Filed
  <1>6. PlacedAt(c)' /\ ListedAt(c)' /\ OwedAt(c)'
    BY ProceedPaged
  <1>7. \A d \in Callers \ {c} : Still(d)
    BY DEF StoreMark, Proceed, Still, Invariant, TypeOK
  <1>8. /\ stored' = [cursors[c] EXCEPT ![f] = mark]
        /\ cursors'[c] = [cursors[c] EXCEPT ![f] = mark]
        /\ cursors[c] \in [Folders -> Cursor]
    BY <1>2 DEF StoreMark, Invariant, TypeOK
  <1>9. \A g \in Folders : stored'[g] = IF g = f THEN mark ELSE cursors[c][g]
    BY <1>8
  <1>10. \A g \in Folders : cursors'[c][g] = IF g = f THEN mark ELSE cursors[c][g]
    BY <1>8
  <1>11. AllSafe'
    BY <1>5, <1>7, <1>9, <1>10, SafeSpread DEF Invariant, Still
  <1> QED
    BY <1>6, <1>7, <1>11, CallerStep

LEMMA MessageStep ==
  ASSUME Invariant, TypeOK', NEW c \in Callers, NEW u \in Uids,
         \/ PassFiled(c, u) \/ Fetch(c, u) \/ File(c, u) \/ FileFails(c, u)
         \/ CountFailure(c, u) \/ Stub(c, u) \/ CountUnstored(c, u)
  PROVE  Strong'
  <1>1. phase[c] \in {"message", "fetch", "failed"} /\ InHand(c, u)
        /\ UNCHANGED mailbox
    BY DEF PassFiled, Fetch, File, FileFails, CountFailure, Stub, CountUnstored
  <1>2. phase[c] \in Phases \ {"idle", "done"} /\ phase[c] # "folder"
    BY <1>1 DEF Phases
  <1>3. Mark(c) \in Cursor /\ Key(c, u) \in Keys /\ Folder(c) \in Folders
    BY <1>2, Here
  <1>4. PICK key \in Keys : key = Key(c, u)
    BY <1>3
  <1>5. PICK f \in Folders : f = Folder(c)
    BY <1>3
  <1>6. ASSUME UNCHANGED <<rows, tries>> PROVE Quiet
    BY <1>1, <1>6, UnchangedQuiet DEF Invariant
  <1>7. PICK past \in Cursor : past = Past(Mark(c), u) /\ past.validity = Mark(c).validity
    BY <1>3, CursorTypes
  <1>8. past.uid = u /\ past.failed = 0
    BY <1>3, <1>7 DEF Past, Cursor
  <1>9. PICK counted \in Cursor : /\ counted = Counted(Mark(c), u)
                                  /\ counted.validity = Mark(c).validity
    BY <1>3, CursorTypes
  <1>10. CASE PassFiled(c, u)
    <2>1. UNCHANGED <<rows, tries, todo, mailbox>> /\ Filed(Key(c, u))
      BY <1>10 DEF PassFiled, history
    <2>2. Quiet
      BY <1>6, <2>1
    <2>3. CASE Conflict(c) /\ UNCHANGED cursors
      BY <2>1, <2>3, ConflictStep
    <2>4. PICK moved \in Cursor : /\ moved = [Mark(c) EXCEPT !.uid = u]
                                  /\ moved.validity = Mark(c).validity
      BY <1>3, CursorTypes
    <2>5. moved.uid = u /\ moved.failed = Mark(c).failed
          /\ moved.attempts = Mark(c).attempts
      BY <1>3, <2>4 DEF Cursor
    <2>6. CASE /\ StoreMark(c, IF Mark(c).failed = u THEN Past(Mark(c), u)
                                ELSE [Mark(c) EXCEPT !.uid = u])
               /\ Proceed(c, u)
      <3>1. Filed(Key(c, u))'
        <4>1. Mark(c)'.validity = Mark(c).validity /\ Folder(c)' = Folder(c)
          BY <1>3, <1>7, <2>1, <2>4, <2>6
          DEF StoreMark, Mark, Folder, Invariant, TypeOK
        <4>2. Key(c, u)' = Key(c, u)
          BY <4>1 DEF Key
        <4> QED
          BY <2>1, <4>2 DEF Filed
      <3>2. CASE Mark(c).failed = u
        BY <1>1, <1>7, <1>8, <2>1, <2>2, <2>6, <3>1, <3>2, PastStep
      <3>3. CASE Mark(c).failed # u
        BY <1>1, <2>1, <2>2, <2>4, <2>5, <2>6, <3>1, <3>3, PastStep
      <3> QED
        BY <3>2, <3>3
    <2> QED
      BY <1>10, <2>3, <2>6 DEF PassFiled
  <1>11. CASE Fetch(c, u)
    <2>1. /\ UNCHANGED <<mailbox, rows, tries, todo, cursors, stored, entries>>
          /\ phase'[c] = "fetch" /\ phase[c] = "message"
      BY <1>11 DEF Fetch, account, history, Invariant, TypeOK
    <2>2. Quiet
      BY <1>6, <2>1
    <2>3. \A d \in Callers \ {c} : Still(d)
      BY <1>11, <2>1 DEF Fetch, Still, Invariant, TypeOK
    <2>4. AllSafe'
      BY <2>1, <2>2, SafeHanded DEF Invariant
    <2>5. PlacedAt(c)' /\ ListedAt(c)' /\ OwedAt(c)'
      <3>1. PlacedAt(c) /\ ListedAt(c) /\ Folder(c)' = Folder(c) /\ Mark(c)' = Mark(c)
        BY <2>1 DEF Invariant, Placed, Paged, Folder, Mark
      <3>2. Occupied(Folder(c))' = Occupied(Folder(c))
        BY <1>1, <3>1 DEF Occupied, mailbox
      <3> QED
        BY <1>1, <1>2, <2>1, <3>1, <3>2
        DEF PlacedAt, ListedAt, OwedAt, mailbox
    <2> QED
      BY <1>1, <2>2, <2>3, <2>4, <2>5, CallerStep
  <1>12. ASSUME NEW row \in Row, row.kind # "none", ~Filed(Key(c, u)),
                rows' = [rows EXCEPT ![Key(c, u)] = row],
                StoreMark(c, Past(Mark(c), u)), Proceed(c, u),
                UNCHANGED <<tries, todo>>
         PROVE  Strong'
    <2>1. \A k \in Keys : Filed(k) => Filed(k)'
      BY <1>3, <1>12 DEF Filed, Invariant, TypeOK
    <2>2. \A k \in Keys : tries[k] <= tries'[k]
      <3>1. \A k \in Keys : tries[k] \in Int
        BY DEF Invariant, TypeOK
      <3> QED
        BY <1>12, <3>1
    <2>3. Quiet
      BY <1>1, <2>1, <2>2, SameQuiet DEF Invariant
    <2>4. Filed(Key(c, u))'
      <3>1. Mark(c)' = past /\ Folder(c)' = f
        BY <1>3, <1>5, <1>7, <1>12 DEF StoreMark, Mark, Folder, Invariant, TypeOK
      <3>2. Key(c, u)' = key
        BY <1>4, <1>5, <1>7, <3>1 DEF Key
      <3>3. rows'[key] = row
        BY <1>4, <1>12 DEF Invariant, TypeOK
      <3> QED
        BY <1>12, <3>2, <3>3 DEF Filed
    <2> QED
      BY <1>1, <1>7, <1>8, <1>12, <2>3, <2>4, PastStep
  <1>13. CASE File(c, u)
    <2>1. UNCHANGED <<tries, todo, mailbox>> /\ ~Filed(Key(c, u))
      BY <1>13 DEF File, history
    <2>2. CASE Conflict(c) /\ UNCHANGED <<rows, cursors>>
      BY <2>1, <2>2, ConflictStep
    <2> DEFINE m == box[Folder(c)][u]
    <2>3. m \in Messages \cup {Nothing}
      BY <1>3 DEF Invariant, TypeOK
    <2>7. [kind |-> Kind(m), message |-> m] \in Row
      BY <2>3 DEF Row, Kind
    <2>4. PICK row \in Row : row = [kind |-> Kind(m), message |-> m]
      BY <2>7
    <2>5. row.kind # "none"
      BY <2>4 DEF Kind
    <2>6. CASE /\ rows' = [rows EXCEPT ![Key(c, u)] = [kind |-> Kind(m), message |-> m]]
               /\ StoreMark(c, Past(Mark(c), u))
               /\ Proceed(c, u)
      BY <1>12, <2>1, <2>4, <2>5, <2>6
    <2> QED
      BY <1>13, <2>2, <2>6 DEF File
  <1>14. CASE FileFails(c, u)
    <2>1. /\ UNCHANGED <<mailbox, rows, stored, cursors, todo, entries>>
          /\ tries' = [tries EXCEPT ![Key(c, u)] =
                          IF tries[Key(c, u)] < MaxAttempts
                          THEN tries[Key(c, u)] + 1 ELSE tries[Key(c, u)]]
          /\ phase'[c] = "failed"
      BY <1>14 DEF FileFails, account, Invariant, TypeOK
    <2>2. \A k \in Keys : tries[k] \in 0..MaxAttempts
      BY DEF Invariant, TypeOK
    <2>3. \A k \in Keys : tries[k] <= tries'[k]
      BY <1>3, <2>1, <2>2 DEF Invariant, TypeOK
    <2>4. Quiet
      BY <2>1, <2>3, SameQuiet DEF Filed, Invariant
    <2>5. \A d \in Callers \ {c} : Still(d)
      BY <1>14, <2>1 DEF FileFails, Still, Invariant, TypeOK
    <2>6. AllSafe'
      BY <2>1, <2>4, SafeHanded DEF Invariant
    <2>7. /\ PlacedAt(c) /\ ListedAt(c) /\ Folder(c)' = Folder(c) /\ Mark(c)' = Mark(c)
          /\ Key(c, u)' = key
      BY <1>4, <2>1 DEF Invariant, Placed, Paged, Folder, Mark, Key
    <2>8. PlacedAt(c)' /\ ListedAt(c)'
      <3>1. Occupied(Folder(c))' = Occupied(Folder(c))
        BY <1>1, <2>7 DEF Occupied, mailbox
      <3> QED
        BY <1>1, <1>2, <2>1, <2>7, <3>1 DEF PlacedAt, ListedAt, mailbox
    <2>9. counted.attempts <= tries'[key]
      <3>1. PICK held \in Cursor : held = Mark(c)
        BY <1>3
      <3>2. Safe(held, f) /\ held.attempts \in 0..MaxAttempts
        BY <1>2, <1>5, <3>1, Here DEF Cursor
      <3>3. tries'[key] = IF tries[key] < MaxAttempts THEN tries[key] + 1 ELSE tries[key]
        BY <1>4, <2>1 DEF Invariant, TypeOK
      <3>4. tries[key] \in 0..MaxAttempts
        BY <2>2
      <3>5. key = <<f, held.validity, u>> /\ u # 0
        BY <1>4, <1>5, <3>1 DEF Key, Uids
      <3>6. CASE held.failed = u
        <4>1. held.attempts <= tries[key]
          BY <3>2, <3>5, <3>6 DEF Safe
        <4>2. counted.attempts = IF held.attempts < MaxAttempts
                                 THEN held.attempts + 1 ELSE held.attempts
          BY <1>9, <3>1, <3>6 DEF Counted, Cursor
        <4> QED
          BY <3>2, <3>3, <3>4, <4>1, <4>2, MailBoundsAssumption
      <3>7. CASE held.failed # u
        <4>1. counted.attempts = 1
          BY <1>9, <3>1, <3>7 DEF Counted, Cursor
        <4> QED
          BY <3>3, <3>4, <4>1, MailBoundsAssumption
      <3> QED
        BY <3>6, <3>7
    <2>10. OwedAt(c)'
      <3>1. \A w \in entries'[c] : InHand(c, w)' => w = u
        BY <1>1, <2>1 DEF InHand, Invariant, TypeOK, Uids
      <3>2. Counted(Mark(c), u)' = counted
        BY <1>9, <2>7 DEF Counted
      <3> QED
        BY <2>7, <2>9, <3>1, <3>2 DEF OwedAt
    <2> QED
      BY <1>1, <2>4, <2>5, <2>6, <2>8, <2>10, CallerStep
  <1>15. ASSUME phase[c] = "failed", UNCHANGED <<rows, tries>>,
                \/ stored' = stored
                \/ stored' = [cursors[c] EXCEPT ![Folder(c)] = Counted(Mark(c), u)],
                cursors' = [cursors EXCEPT ![c] =
                   [cursors[c] EXCEPT ![Folder(c)] = Counted(Mark(c), u)]]
         PROVE  AllSafe'
    <2>1. Quiet
      BY <1>6, <1>15
    <2>2. Safe(counted, f)'
      BY <1>1, <1>5, <1>9, <1>15, <2>1, CountedSafe
    <2>3. cursors[c] \in [Folders -> Cursor] /\ cursors \in [Callers -> [Folders -> Cursor]]
      BY DEF Invariant, TypeOK
    <2>4. \A d \in Callers \ {c} : cursors'[d] = cursors[d]
      BY <1>15, <2>3
    <2>5. cursors'[c] = [cursors[c] EXCEPT ![f] = counted]
      BY <1>5, <1>9, <1>15, <2>3
    <2>6. \A g \in Folders : cursors'[c][g] = IF g = f THEN counted ELSE cursors[c][g]
      BY <2>3, <2>5
    <2>7. \/ stored' = stored
          \/ \A g \in Folders : stored'[g] = IF g = f THEN counted ELSE cursors[c][g]
      BY <1>5, <1>9, <1>15, <2>3
    <2> QED
      BY <2>1, <2>2, <2>4, <2>6, <2>7, SafeSpread DEF Invariant
  <1>16. CASE CountFailure(c, u)
    <2>1. UNCHANGED <<rows, tries, mailbox>> /\ phase[c] = "failed"
      BY <1>16 DEF CountFailure, history
    <2>2. Quiet
      BY <1>6, <2>1
    <2>3. CASE StoreMark(c, Counted(Mark(c), u)) /\ LeaveFolder(c)
      <3>1. AllSafe'
        BY <1>15, <2>1, <2>3 DEF StoreMark
      <3>2. \/ phase'[c] = "done"
            \/ phase'[c] = "folder" /\ todo'[c] # <<>>
        BY <2>3 DEF LeaveFolder, Invariant, TypeOK
      <3>3. \A d \in Callers \ {c} : Still(d)
        BY <2>3 DEF StoreMark, LeaveFolder, Still, Invariant, TypeOK
      <3> QED
        BY <1>1, <2>2, <3>1, <3>2, <3>3, Outside, CallerStep
    <2>4. CASE /\ Conflict(c)
               /\ cursors' = [cursors EXCEPT ![c][Folder(c)] = Counted(Mark(c), u)]
               /\ UNCHANGED todo
      <3>1. AllSafe'
        BY <1>15, <2>1, <2>4 DEF Conflict
      <3>2. phase'[c] = "done" /\ \A d \in Callers \ {c} : Still(d)
        BY <2>4 DEF Conflict, Still, Invariant, TypeOK
      <3> QED
        BY <1>1, <2>2, <3>1, <3>2, Outside, CallerStep
    <2> QED
      BY <1>16, <2>3, <2>4 DEF CountFailure
  <1>17. CASE Stub(c, u)
    <2>1. UNCHANGED <<tries, mailbox, todo>> /\ phase[c] = "failed"
      BY <1>17 DEF Stub, history
    <2>2. CASE /\ ~Filed(Key(c, u))
               /\ rows' = [rows EXCEPT ![Key(c, u)] = [kind |-> "stub", message |-> Nothing]]
               /\ StoreMark(c, Past(Mark(c), u))
               /\ Proceed(c, u)
      <3>1. PICK row \in Row : row = [kind |-> "stub", message |-> Nothing]
        BY DEF Row
      <3> QED
        BY <1>12, <2>1, <2>2, <3>1
    <2>3. CASE /\ cursors' = [cursors EXCEPT ![c][Folder(c)] = Counted(Mark(c), u)]
               /\ phase' = [phase EXCEPT ![c] = "done"]
               /\ entries' = [entries EXCEPT ![c] = {}]
               /\ UNCHANGED <<rows, stored>>
      <3>1. AllSafe'
        BY <1>15, <2>1, <2>3
      <3>2. phase'[c] = "done" /\ \A d \in Callers \ {c} : Still(d)
        BY <2>1, <2>3 DEF Still, Invariant, TypeOK
      <3>3. Quiet
        BY <1>6, <2>1, <2>3
      <3> QED
        BY <1>1, <3>1, <3>2, <3>3, Outside, CallerStep
    <2> QED
      BY <1>17, <2>2, <2>3 DEF Stub
  <1>18. CASE CountUnstored(c, u)
    <2>1. /\ UNCHANGED <<rows, stored, tries, mailbox, todo>> /\ phase[c] = "failed"
          /\ cursors' = [cursors EXCEPT ![c][Folder(c)] = Counted(Mark(c), u)]
          /\ phase' = [phase EXCEPT ![c] = "done"]
          /\ entries' = [entries EXCEPT ![c] = {}]
      BY <1>18 DEF CountUnstored, account
    <2>2. AllSafe'
      BY <1>15, <2>1
    <2>3. phase'[c] = "done" /\ \A d \in Callers \ {c} : Still(d)
      BY <2>1 DEF Still, Invariant, TypeOK
    <2>4. Quiet
      BY <1>6, <2>1
    <2> QED
      BY <1>1, <2>2, <2>3, <2>4, Outside, CallerStep
  <1> QED
    BY <1>10, <1>11, <1>13, <1>14, <1>16, <1>17, <1>18

LEMMA InvariantStep == Invariant /\ [Next]_vars => Invariant'
  <1> SUFFICES ASSUME Invariant, [Next]_vars PROVE Invariant'
    OBVIOUS
  <1>1. TypeOK'
    BY TypeStep DEF Invariant
  <1>2. CASE UNCHANGED vars
    BY <1>2 DEF Invariant, TypeOK, Placed, PlacedAt, AllSafe, Safe, Paged, ListedAt,
                OwedAt, Filled, Occupied, Filed, Mark, Folder, Key, InHand, Counted,
                vars, mailbox, account, sync, history
  <1>3. ASSUME NEW f \in Folders,
               \/ \E m \in Messages : Deliver(f, m)
               \/ \E u \in Uids : Expunge(f, u)
               \/ Renumber(f)
        PROVE  Strong'
    BY <1>1, <1>3, ServerStep
  <1>4. ASSUME NEW after \in {stored, [f \in Folders |-> NoCursor]},
               Edit(after) \/ LeaseExpires \/ LeaseOverrun
        PROVE  Strong'
    <2>1. UNCHANGED <<mailbox, rows, tries>>
          /\ \A g \in Folders : stored'[g] \in {stored[g], NoCursor}
      BY <1>4 DEF Edit, LeaseExpires, LeaseOverrun, history
    <2>2. \A d \in Callers : Still(d)
      BY <1>4 DEF Edit, LeaseExpires, LeaseOverrun, sync, Still
    <2>3. Quiet
      BY <1>1, <2>1, UnchangedQuiet DEF Invariant
    <2>4. Filled'
      BY <2>1 DEF Invariant, Filled, Occupied, mailbox
    <2> QED
      BY <1>1, <2>1, <2>2, <2>3, <2>4, WorldStep
  <1>5. ASSUME NEW c \in Callers,
               \/ TakeLease(c) \/ Step(c) \/ FolderRefused(c)
               \/ Interrupted(c) \/ Crash(c)
               \/ \E u \in Uids : CountUnstored(c, u)
        PROVE  Strong'
    BY <1>1, <1>5, CourseStep, MessageStep DEF Step
  <1>6. Strong' => Invariant'
    BY <1>1 DEF Strong, Invariant
  <1> QED
    BY <1>2, <1>3, <1>4, <1>5, <1>6 DEF Next

LEMMA InvariantInit == Init => Invariant
  <1> SUFFICES ASSUME Init PROVE Invariant
    OBVIOUS
  <1> USE MailBoundsAssumption DEF Init
  <1>1. TypeOK
    <2>1. /\ validity \in [Folders -> Validities] /\ used \in [Folders -> 0..MaxUid]
          /\ left \in [Callers -> 0..Budget] /\ upper \in [Callers -> 0..MaxUid]
          /\ tries \in [Keys -> 0..MaxAttempts]
          /\ disturbed \in 0..MaxDisturbed
      BY DEF Validities
    <2>2. rows \in [Keys -> Row]
      BY DEF NoRow, Row
    <2>3. stored \in [Folders -> Cursor] /\ cursors \in [Callers -> [Folders -> Cursor]]
      BY CursorTypes
    <2>4. todo \in [Callers -> Seq(Folders)]
      OBVIOUS
    <2> QED
      BY <2>1, <2>2, <2>3, <2>4 DEF TypeOK, Phases
  <1>2. Placed /\ Paged
    BY DEF Placed, PlacedAt, Paged, ListedAt, OwedAt, Phases
  <1>3. AllSafe
    <2>1. \A f \in Folders : Safe(NoCursor, f)
      BY <1>1, NoCursorSafe
    <2> QED
      BY <2>1 DEF AllSafe
  <1>4. Filled
    BY DEF Filled, Occupied
  <1> QED
    BY <1>1, <1>2, <1>3, <1>4 DEF Invariant

LEMMA SyncInvariant == Spec => []Invariant
  BY InvariantInit, InvariantStep, PTL DEF Spec

-----------------------------------------------------------------------------
(* The results *)

\* The types; no cursor passes the UIDs of its folder, no call its budget.
THEOREM SyncTypeCorrect == Spec => []TypeOK
  <1>1. Invariant => TypeOK
    BY DEF Invariant
  <1> QED
    BY <1>1, SyncInvariant, PTL

\* Nothing at or below a stored mark is without its row, whatever crashed,
\* overlapped, was renumbered or reset.
THEOREM NoMailSkipped == Spec => []NothingIsSkipped
  <1>1. Invariant => NothingIsSkipped
    BY DEF Invariant, AllSafe, Safe, NothingIsSkipped
  <1> QED
    BY <1>1, SyncInvariant, PTL

\* Only three kinds of step touch the rows or the failures.
LEMMA RowsStep ==
  [Next]_vars =>
    \/ UNCHANGED <<rows, tries>>
    \/ \E c \in Callers, u \in Uids : File(c, u) \/ FileFails(c, u) \/ Stub(c, u)
  <1> SUFFICES ASSUME [Next]_vars,
                      ~ \E c \in Callers, u \in Uids :
                           File(c, u) \/ FileFails(c, u) \/ Stub(c, u)
               PROVE  UNCHANGED <<rows, tries>>
    OBVIOUS
  <1>1. CASE UNCHANGED vars
    BY <1>1 DEF vars, history
  <1>2. ASSUME NEW f \in Folders,
               \/ \E m \in Messages : Deliver(f, m)
               \/ \E u \in Uids : Expunge(f, u)
               \/ Renumber(f)
        PROVE  UNCHANGED <<rows, tries>>
    BY <1>2 DEF Deliver, Expunge, Renumber, history
  <1>3. ASSUME NEW after \in {stored, [f \in Folders |-> NoCursor]},
               Edit(after) \/ LeaseExpires \/ LeaseOverrun
        PROVE  UNCHANGED <<rows, tries>>
    BY <1>3 DEF Edit, LeaseExpires, LeaseOverrun, history
  <1>4. ASSUME NEW c \in Callers,
               \/ TakeLease(c) \/ Finish(c) \/ Crash(c) \/ Interrupted(c) \/ Select(c)
               \/ FolderRefused(c) \/ List(c) \/ ListEnded(c) \/ Deferred(c)
        PROVE  UNCHANGED <<rows, tries>>
    BY <1>4 DEF TakeLease, Finish, Crash, Interrupted, Select, FolderRefused, List,
                ListEnded, Deferred, history
  <1>5. ASSUME NEW c \in Callers, NEW u \in Uids,
               \/ PassFiled(c, u) \/ Fetch(c, u)
               \/ CountFailure(c, u) \/ CountUnstored(c, u)
        PROVE  UNCHANGED <<rows, tries>>
    BY <1>5 DEF PassFiled, Fetch, CountFailure, CountUnstored, history
  <1> QED
    BY <1>1, <1>2, <1>3, <1>4, <1>5 DEF Next, Step

\* A message that is filed under two places has its content under one.
LEMMA OnceStep == Invariant /\ FiledOnce /\ [Next]_vars => FiledOnce'
  <1> SUFFICES ASSUME Invariant, FiledOnce, [Next]_vars PROVE FiledOnce'
    OBVIOUS
  <1>1. CASE UNCHANGED rows
    BY <1>1 DEF FiledOnce
  <1>2. ASSUME NEW c \in Callers, NEW u \in Uids, File(c, u) \/ Stub(c, u)
        PROVE  FiledOnce'
    <2>1. PICK key \in Keys : key = Key(c, u)
      <3>1. phase[c] \in Phases \ {"idle", "done"} /\ phase[c] # "folder"
        BY <1>2 DEF File, Stub, Phases
      <3> QED
        BY <3>1, Here
    <2>2. rows \in [Keys -> Row]
      BY DEF Invariant, TypeOK
    <2>3. CASE File(c, u)
      <3> DEFINE m == box[Folder(c)][u]
      <3>1. CASE rows' = [rows EXCEPT ![key] = [kind |-> Kind(m), message |-> m]]
        <4>1. \A k \in Keys : rows'[k] = IF k = key THEN [kind |-> Kind(m), message |-> m]
                                         ELSE rows[k]
          BY <2>2, <3>1
        <4>2. Kind(m) = "root" =>
                \A k \in Keys : rows[k] # [kind |-> "root", message |-> m]
          BY DEF Kind
        <4>3. \A k \in Keys : rows[k].kind = "root" /\ rows[k].message = m =>
                rows[k] = [kind |-> "root", message |-> m]
          BY <2>2 DEF Row
        <4> HIDE DEF m
        <4> QED
          BY <4>1, <4>2, <4>3 DEF FiledOnce
      <3>2. CASE UNCHANGED rows
        BY <3>2 DEF FiledOnce
      <3> QED
        BY <2>1, <2>3, <3>1, <3>2 DEF File
    <2>4. CASE Stub(c, u)
      <3>1. \/ UNCHANGED rows
            \/ rows' = [rows EXCEPT ![key] = [kind |-> "stub", message |-> Nothing]]
        BY <2>1, <2>4 DEF Stub
      <3>2. \A k \in Keys : rows'[k] = rows[k] \/ rows'[k].kind = "stub"
        BY <2>2, <3>1
      <3> QED
        BY <3>2 DEF FiledOnce
    <2> QED
      BY <1>2, <2>3, <2>4
  <1>3. \/ UNCHANGED rows
        \/ \E c \in Callers, u \in Uids : File(c, u) \/ Stub(c, u)
    BY RowsStep DEF FileFails
  <1> QED
    BY <1>1, <1>2, <1>3

\* However many folders hold a message, and however often they are renumbered
\* or read again, it is filed with its content once.
THEOREM MailFiledOnce == Spec => []FiledOnce
  <1>1. Init => FiledOnce
    BY DEF Init, FiledOnce, NoRow
  <1> QED
    BY <1>1, SyncInvariant, OnceStep, PTL DEF Spec

LEMMA TriedStep == Invariant /\ StubsWereTried /\ [Next]_vars => StubsWereTried'
  <1> SUFFICES ASSUME Invariant, StubsWereTried, [Next]_vars PROVE StubsWereTried'
    OBVIOUS
  <1>1. CASE UNCHANGED <<rows, tries>>
    BY <1>1 DEF StubsWereTried
  <1>2. ASSUME NEW c \in Callers, NEW u \in Uids,
               File(c, u) \/ FileFails(c, u) \/ Stub(c, u)
        PROVE  StubsWereTried'
    <2>1. phase[c] \in Phases \ {"idle", "done"} /\ phase[c] # "folder"
      BY <1>2 DEF File, FileFails, Stub, Phases
    <2>2. PICK key \in Keys : key = Key(c, u)
      BY <2>1, Here
    <2>3. /\ rows \in [Keys -> Row] /\ tries \in [Keys -> 0..MaxAttempts]
          /\ tries' \in [Keys -> 0..MaxAttempts]
      BY TypeStep DEF Invariant, TypeOK
    <2>4. CASE File(c, u)
      <3> DEFINE m == box[Folder(c)][u]
      <3>1. \/ UNCHANGED rows
            \/ rows' = [rows EXCEPT ![key] = [kind |-> Kind(m), message |-> m]]
        BY <2>2, <2>4 DEF File
      <3>2. Kind(m) # "stub"
        BY DEF Kind
      <3>3. \A k \in Keys : rows'[k] = rows[k] \/ rows'[k].kind # "stub"
        <4> HIDE DEF m
        <4> QED
          BY <2>3, <3>1, <3>2
      <3> QED
        BY <2>4, <3>3 DEF File, history, StubsWereTried
    <2>5. CASE FileFails(c, u)
      <3>1. \A k \in Keys : tries[k] = MaxAttempts => tries'[k] = MaxAttempts
        BY <2>2, <2>3, <2>5 DEF FileFails
      <3> QED
        BY <2>5, <3>1 DEF FileFails, StubsWereTried
    <2>6. CASE Stub(c, u)
      <3>1. Counted(Mark(c), u).attempts <= tries[key]
            /\ Counted(Mark(c), u).attempts >= MaxAttempts
        BY <2>2, <2>6 DEF Stub, Invariant, Paged, OwedAt, InHand
      <3>2. Counted(Mark(c), u).attempts \in Int
        <4>1. Counted(Mark(c), u) \in Cursor
          BY <2>1, Here, CursorTypes
        <4> QED
          BY <4>1 DEF Cursor
      <3>3. tries[key] = MaxAttempts
        BY <2>3, <3>1, <3>2, MailBoundsAssumption
      <3>4. \/ UNCHANGED rows
            \/ rows' = [rows EXCEPT ![key] = [kind |-> "stub", message |-> Nothing]]
        BY <2>2, <2>6 DEF Stub
      <3>5. \A k \in Keys : k = key \/ rows'[k] = rows[k]
        BY <2>3, <3>4
      <3> QED
        BY <2>6, <3>3, <3>5 DEF Stub, history, StubsWereTried
    <2> QED
      BY <1>2, <2>4, <2>5, <2>6
  <1> QED
    BY <1>1, <1>2, RowsStep

\* A message is given up only after MaxAttempts failures of its own.
THEOREM GivenUpAfterTries == Spec => []StubsWereTried
  <1>1. Init => StubsWereTried
    BY DEF Init, StubsWereTried, NoRow
  <1> QED
    BY <1>1, SyncInvariant, TriedStep, PTL DEF Spec

-----------------------------------------------------------------------------
(* The mailbox contract *)

\* A place without a row has nothing of one.
Blank == \A key \in Keys : Filed(key) \/ rows[key] = NoRow

LEMMA BlankStep == Invariant /\ Blank /\ [Next]_vars => Blank'
  <1> SUFFICES ASSUME Invariant, Blank, [Next]_vars PROVE Blank'
    OBVIOUS
  <1>1. CASE UNCHANGED rows
    BY <1>1 DEF Blank, Filed
  <1>2. ASSUME NEW c \in Callers, NEW u \in Uids, File(c, u) \/ Stub(c, u),
               rows' # rows
        PROVE  Blank'
    <2>1. PICK kind \in {"root", "copy", "stub"}, m \in Messages \cup {Nothing} :
             rows' = [rows EXCEPT ![Key(c, u)] = [kind |-> kind, message |-> m]]
      <3>1. phase[c] \in Phases \ {"idle", "done"}
        BY <1>2 DEF File, Stub, Phases
      <3>2. Folder(c) \in Folders
        BY <3>1, Here
      <3>3. box[Folder(c)][u] \in Messages \cup {Nothing}
        BY <3>2 DEF Invariant, TypeOK
      <3>4. Kind(box[Folder(c)][u]) \in {"root", "copy"}
        BY DEF Kind
      <3> QED
        BY <1>2, <3>3, <3>4 DEF File, Stub
    <2>2. \A key \in Keys : rows'[key] \in {rows[key], [kind |-> kind, message |-> m]}
      BY <2>1 DEF Invariant, TypeOK
    <2> QED
      BY <2>2 DEF Blank, Filed
  <1> QED
    BY <1>1, <1>2, RowsStep DEF FileFails

\* New mail comes above every mark, and a new numbering is of no mark.
LEMMA ServerPromise ==
  ASSUME Invariant, NEW f \in Folders,
         \/ \E m \in Messages : Deliver(f, m)
         \/ \E u \in Uids : Expunge(f, u)
         \/ Renumber(f)
  PROVE  Promise!Elsewhere
  <1>1. UNCHANGED <<rows, tries, stored>>
    BY DEF Deliver, Expunge, Renumber, account, history
  <1>2. readBar' = readBar
    BY <1>1 DEF readBar
  <1>3. ASSUME NEW key \in readBar PROVE mailBar'[key] \in {mailBar[key], Nothing}
    <2>1. key \in Keys
      BY DEF readBar
    <2>2. PICK g \in Folders, v \in Validities, u \in Uids :
             /\ key = <<g, v, u>>
             /\ mailBar[key] = IF v = validity[g] THEN box[g][u] ELSE Nothing
             /\ mailBar'[key] = IF v = validity'[g] THEN box'[g][u] ELSE Nothing
      BY <2>1 DEF Keys, mailBar
    <2>3. v = stored[g].validity /\ u <= stored[g].uid
      BY <2>2 DEF readBar
    <2>4. v <= validity[g] /\ (v = validity[g] => stored[g].uid <= used[g])
      BY <2>3 DEF Invariant, AllSafe, Safe
    <2>5. /\ validity \in [Folders -> Validities] /\ used \in [Folders -> 0..MaxUid]
          /\ box \in [Folders -> [Uids -> Messages \cup {Nothing}]]
          /\ stored[g].uid \in 0..MaxUid
      BY DEF Invariant, TypeOK, Cursor
    <2>6. CASE \E m \in Messages : Deliver(f, m)
      <3>1. PICK m \in Messages : Deliver(f, m)
        BY <2>6
      <3>2. validity' = validity /\ box' = [box EXCEPT ![f][used[f] + 1] = m]
        BY <3>1 DEF Deliver
      <3>3. v = validity[g] => u # used[g] + 1
        BY <2>3, <2>4, <2>5 DEF Uids
      <3>4. v = validity[g] => box'[g][u] = box[g][u]
        BY <2>5, <3>2, <3>3
      <3> QED
        BY <2>2, <3>2, <3>4
    <2>7. CASE \E w \in Uids : Expunge(f, w)
      <3>1. PICK w \in Uids : Expunge(f, w)
        BY <2>7
      <3>2. validity' = validity /\ box' = [box EXCEPT ![f][w] = Nothing]
        BY <3>1 DEF Expunge
      <3>3. box'[g][u] \in {box[g][u], Nothing}
        BY <2>5, <3>2
      <3> QED
        BY <2>2, <3>2, <3>3
    <2>8. CASE Renumber(f)
      <3>1. validity' = [validity EXCEPT ![f] = @ + 1]
        BY <2>8 DEF Renumber
      <3>2. CASE g = f
        <4>1. v # validity'[g]
          BY <2>4, <2>5, <3>1, <3>2 DEF Validities
        <4> QED
          BY <2>2, <4>1
      <3>3. CASE g # f
        <4>1. validity'[g] = validity[g] /\ box'[g] = box[g]
          BY <2>5, <2>8, <3>1, <3>3 DEF Renumber
        <4> QED
          BY <2>2, <4>1
      <3> QED
        BY <3>2, <3>3
    <2> QED
      BY <2>6, <2>7, <2>8
  <1> QED
    BY <1>1, <1>2, <1>3 DEF Promise!Elsewhere

\* However the stored marks move, nothing unfiled lies below one.
LEMMA MarksPromise ==
  ASSUME Invariant, TypeOK', NothingIsSkipped', UNCHANGED mailbox, UNCHANGED tries
  PROVE  Promise!Marks
  <1>1. readBar' \subseteq Keys
    BY DEF readBar
  <1>2. mailBar' = mailBar
    BY DEF mailBar, mailbox
  <1>3. ASSUME NEW key \in readBar', mailBar[key] # Nothing
        PROVE  rows'[key] # Promise!Empty
    <2>1. PICK g \in Folders, v \in Validities, u \in Uids : key = <<g, v, u>>
      BY <1>1 DEF Keys
    <2>2. key \in Keys
      BY <1>1
    <2>3. v = validity[g] /\ box[g][u] # Nothing
      BY <1>3, <2>1, <2>2 DEF mailBar
    <2>4. v = stored'[g].validity /\ u <= stored'[g].uid
      BY <2>1 DEF readBar
    <2>5. rows'[key].kind # "none"
      BY <2>1, <2>3, <2>4 DEF NothingIsSkipped, Occupied, Filed, mailbox
    <2> QED
      BY <2>5 DEF Promise!Empty
  <1> QED
    BY <1>1, <1>2, <1>3 DEF Promise!Marks

\* Only the server touches the folders.
LEMMA MailboxStep ==
  [Next]_vars =>
    \/ UNCHANGED mailbox
    \/ \E f \in Folders : \/ \E m \in Messages : Deliver(f, m)
                          \/ \E u \in Uids : Expunge(f, u)
                          \/ Renumber(f)
  <1>1. UNCHANGED vars => UNCHANGED mailbox
    BY DEF vars
  <1>2. \A after : Edit(after) => UNCHANGED mailbox
    BY DEF Edit
  <1>3. LeaseExpires \/ LeaseOverrun => UNCHANGED mailbox
    BY DEF LeaseExpires, LeaseOverrun
  <1>4. ASSUME NEW c \in Callers,
               \/ TakeLease(c) \/ Finish(c) \/ Crash(c) \/ Interrupted(c) \/ Select(c)
               \/ FolderRefused(c) \/ List(c) \/ ListEnded(c) \/ Deferred(c)
        PROVE  UNCHANGED mailbox
    BY <1>4 DEF TakeLease, Finish, Crash, Interrupted, Select, FolderRefused, List,
                ListEnded, Deferred
  <1>5. ASSUME NEW c \in Callers, NEW u \in Uids,
               \/ PassFiled(c, u) \/ Fetch(c, u) \/ File(c, u)
               \/ FileFails(c, u) \/ CountFailure(c, u) \/ Stub(c, u)
               \/ CountUnstored(c, u)
        PROVE  UNCHANGED mailbox
    BY <1>5 DEF PassFiled, Fetch, File, FileFails, CountFailure, Stub, CountUnstored
  <1> QED
    BY <1>1, <1>2, <1>3, <1>4, <1>5 DEF Next, Step

\* A message fails under its own place.
LEMMA FailPromise ==
  ASSUME Invariant, NEW c \in Callers, NEW u \in Uids, FileFails(c, u)
  PROVE  \E key \in Keys : Promise!Fail(key)
  <1>1. PICK key \in Keys : key = Key(c, u)
    <2>1. phase[c] \in Phases \ {"idle", "done"} /\ phase[c] # "folder"
      BY DEF FileFails, Phases
    <2> QED
      BY <2>1, Here
  <1>2. mailBar' = mailBar /\ readBar' = readBar
    BY DEF FileFails, mailbox, account, mailBar, readBar
  <1> QED
    BY <1>1, <1>2 DEF FileFails, Promise!Fail

\* A message gets its row at its place, the content unless it is filed already.
LEMMA FilePromise ==
  ASSUME Invariant, Blank, TypeOK', NothingIsSkipped',
         NEW c \in Callers, NEW u \in Uids, File(c, u), rows' # rows
  PROVE  \E key \in Keys : \E m \in Messages : Promise!File(key, m)
  <1>1. /\ phase[c] \in Phases \ {"idle", "done"} /\ phase[c] # "folder"
        /\ UNCHANGED mailbox /\ UNCHANGED tries
    BY DEF File, Phases, history
  <1>2. PICK f \in Folders, key \in Keys :
           f = Folder(c) /\ key = <<f, validity[f], u>> /\ key = Key(c, u)
    BY <1>1, Here DEF Key
  <1>3. PICK m \in Messages : m = box[f][u] /\ m # Nothing
    BY <1>2 DEF File, Invariant, TypeOK
  <1>4. mailBar[key] = m
    BY <1>2, <1>3 DEF mailBar
  <1>5. rows[key] = Promise!Empty
    BY <1>2 DEF File, Blank, Promise!Empty, NoRow
  <1>6. rows' = [rows EXCEPT ![key] = [kind |-> Kind(m), message |-> m]]
    BY <1>2, <1>3 DEF File
  <1>7. Promise!Marks
    BY <1>1, MarksPromise
  <1>8. CASE \E q \in Keys : rows[q] = [kind |-> "root", message |-> m]
    <2>1. Kind(m) = "copy"
      BY <1>8 DEF Kind
    <2> QED
      BY <1>3, <1>4, <1>5, <1>6, <1>7, <1>8, <2>1
      DEF Promise!File, Promise!Gets, Promise!Given
  <1>9. CASE ~ \E q \in Keys : rows[q] = [kind |-> "root", message |-> m]
    <2>1. Kind(m) = "root"
      BY <1>9 DEF Kind
    <2> QED
      BY <1>3, <1>4, <1>5, <1>6, <1>7, <1>9, <2>1
      DEF Promise!File, Promise!Gets, Promise!Given
  <1> QED
    BY <1>8, <1>9

\* What is given up has failed often enough under its own place.
LEMMA StubPromise ==
  ASSUME Invariant, Blank, TypeOK', NothingIsSkipped',
         NEW c \in Callers, NEW u \in Uids, Stub(c, u), rows' # rows
  PROVE  \E key \in Keys : Promise!GiveUp(key)
  <1>1. /\ phase[c] \in Phases \ {"idle", "done"} /\ phase[c] # "folder"
        /\ UNCHANGED mailbox /\ UNCHANGED tries
    BY DEF Stub, Phases, history
  <1>2. PICK key \in Keys : key = Key(c, u)
    BY <1>1, Here
  <1>3. /\ ~Filed(key)
        /\ rows' = [rows EXCEPT ![key] = [kind |-> "stub", message |-> Nothing]]
    BY <1>2 DEF Stub
  <1>4. tries[key] = MaxAttempts
    <2>1. Counted(Mark(c), u).attempts <= tries[key]
          /\ Counted(Mark(c), u).attempts >= MaxAttempts
      BY <1>2 DEF Stub, Invariant, Paged, OwedAt, InHand
    <2>2. Counted(Mark(c), u) \in Cursor
      BY <1>1, Here, CursorTypes
    <2>3. Counted(Mark(c), u).attempts \in Int
      BY <2>2 DEF Cursor
    <2>4. tries[key] \in 0..MaxAttempts
      BY DEF Invariant, TypeOK
    <2> QED
      BY <2>1, <2>3, <2>4, MailBoundsAssumption
  <1>5. Promise!Marks
    BY <1>1, MarksPromise
  <1>6. rows[key] = Promise!Empty
    BY <1>3 DEF Blank, Promise!Empty, NoRow
  <1> QED
    BY <1>3, <1>4, <1>5, <1>6 DEF Promise!GiveUp, Promise!Gets, Promise!Given

LEMMA PromiseStep ==
  ASSUME Invariant, Blank, TypeOK', NothingIsSkipped', [Next]_vars
  PROVE  Promise!Next
  <1>1. CASE \E f \in Folders : \/ \E m \in Messages : Deliver(f, m)
                                \/ \E u \in Uids : Expunge(f, u)
                                \/ Renumber(f)
    BY <1>1, ServerPromise DEF Promise!Next
  <1>2. ASSUME NEW c \in Callers, NEW u \in Uids, FileFails(c, u)
        PROVE  Promise!Next
    BY <1>2, FailPromise DEF Promise!Next
  <1>3. ASSUME NEW c \in Callers, NEW u \in Uids, rows' # rows,
               File(c, u) \/ Stub(c, u)
        PROVE  Promise!Next
    BY <1>3, FilePromise, StubPromise DEF Promise!Next
  <1>4. CASE UNCHANGED mailbox /\ UNCHANGED rows /\ UNCHANGED tries
    BY <1>4, MarksPromise DEF Promise!Next, Promise!Mark
  <1>5. \A c \in Callers, u \in Uids : File(c, u) \/ Stub(c, u) => UNCHANGED tries
    BY DEF File, Stub, history
  <1> QED
    BY <1>1, <1>2, <1>3, <1>4, <1>5, MailboxStep, RowsStep

\* Whatever programs overlap, die or save over each other, and however the
\* folders change, every place of the mailbox is treated as the contract says.
THEOREM MailboxContractKept == Spec => KeepsMailboxContract
  <1>1. Init => Blank
    BY DEF Init, Blank
  <1>2. Init => Promise!Init
    <2> SUFFICES ASSUME Init PROVE Promise!Init
      OBVIOUS
    <2>1. mailBar = [key \in Keys |-> Nothing]
      BY DEF Init, mailBar, Keys
    <2>2. readBar = {}
      BY DEF Init, readBar, Keys, Uids, NoCursor
    <2> QED
      BY <2>1, <2>2 DEF Init, Promise!Init, Promise!Empty, NoRow
  <1>3. Invariant => TypeOK /\ NothingIsSkipped
    BY DEF Invariant, AllSafe, Safe, NothingIsSkipped
  <1>4. Invariant /\ Blank /\ TypeOK' /\ NothingIsSkipped' /\ [Next]_vars
          => Promise!Next
    BY PromiseStep
  <1> QED
    BY <1>1, <1>2, <1>3, <1>4, SyncInvariant, BlankStep, PTL
    DEF Spec, KeepsMailboxContract
=============================================================================
