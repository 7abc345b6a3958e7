--------------------- MODULE DatabaseTransactionProofs ---------------------
(***************************************************************************)
(* The lock, the depth and the outcome of transactions, for any number of  *)
(* threads, writes and handlers and any nesting of calls.  IInv adds to    *)
(* the invariants of DatabaseTransaction what an open and an abandoned     *)
(* transaction have written so far (Standing).                             *)
(***************************************************************************)
EXTENDS DatabaseTransactionRefinement, FiniteSetTheorems, SequenceTheorems, TLAPS

Locking == {"operation", "section"}
Beginning == {"operation"}

\* An open transaction holds everything written since the outermost begin and
\* nothing of it is stored; an abandoned one holds nothing, and nothing of
\* what was written is stored either.  No verdict is given before the end.
Standing ==
    /\ ~open => work = {}
    /\ open => since = work /\ ~doomed
    /\ depth > 0 => since \cap stored = {} /\ told = "nothing"

IInv == TypeOK /\ LockBalanced /\ DepthBalanced /\ Standing /\ VerdictIsTrue

-----------------------------------------------------------------------------
(* The nesting of calls *)

\* The places of a nesting that hold a frame of the given kinds.
Places(s, kinds) == {i \in 1..Len(s) : s[i].kind \in kinds}

\* A nesting has finitely many frames of any kinds.
LEMMA PlacesFinite ==
  ASSUME NEW s \in Seq(Frames), NEW kinds
  PROVE  /\ IsFiniteSet(Places(s, kinds))
         /\ Levels(s, kinds) = Cardinality(Places(s, kinds))
         /\ Levels(s, kinds) \in Nat
  <1>1. IsFiniteSet(1..Len(s))
    BY FS_Interval
  <1>2. IsFiniteSet(Places(s, kinds))
    BY <1>1, FS_Subset DEF Places
  <1> QED
    BY <1>2, FS_CardinalityType DEF Levels, Places

\* The empty nesting has no level of any kind.
LEMMA LevelsEmpty == \A kinds : Levels(<<>>, kinds) = 0
  <1> TAKE kinds
  <1>1. {i \in 1..Len(<<>>) : <<>>[i].kind \in kinds} = {}
    OBVIOUS
  <1> QED
    BY <1>1, FS_EmptySet DEF Levels

\* A call pushed on the nesting adds one level of its kind.
LEMMA LevelsPush ==
  ASSUME NEW s \in Seq(Frames), NEW f \in Frames, NEW kinds
  PROVE  /\ Append(s, f) \in Seq(Frames)
         /\ Levels(Append(s, f), kinds) =
              Levels(s, kinds) + (IF f.kind \in kinds THEN 1 ELSE 0)
  <1> DEFINE n == Len(s) + 1
  <1>1. /\ Append(s, f) \in Seq(Frames)
        /\ Len(Append(s, f)) = n
        /\ \A i \in 1..Len(s) : Append(s, f)[i] = s[i]
        /\ Append(s, f)[n] = f
    BY AppendProperties
  <1>2. n \notin Places(s, kinds)
    BY DEF Places
  <1>3. Places(Append(s, f), kinds) =
          Places(s, kinds) \cup (IF f.kind \in kinds THEN {n} ELSE {})
    <2>1. \A i : i \in 1..n <=> i \in 1..Len(s) \/ i = n
      OBVIOUS
    <2> QED
      BY <1>1, <2>1 DEF Places
  <1>4. CASE f.kind \in kinds
    <2>1. IsFiniteSet(Places(s, kinds))
      BY PlacesFinite
    <2>2. Cardinality(Places(s, kinds) \cup {n}) = Cardinality(Places(s, kinds)) + 1
      BY <1>2, <2>1, FS_AddElement
    <2>3. Places(Append(s, f), kinds) = Places(s, kinds) \cup {n}
      BY <1>3, <1>4
    <2> HIDE DEF n
    <2> QED
      BY <1>1, <1>4, <2>2, <2>3, PlacesFinite
  <1>5. CASE f.kind \notin kinds
    <2>1. Places(Append(s, f), kinds) = Places(s, kinds)
      BY <1>3, <1>5
    <2>2. Levels(Append(s, f), kinds) = Levels(s, kinds) /\ Levels(s, kinds) \in Nat
      BY <1>1, <2>1, PlacesFinite
    <2> QED
      BY <1>1, <1>5, <2>2
  <1> QED
    BY <1>4, <1>5

\* The innermost call that returns takes its own level away.
LEMMA LevelsPop ==
  ASSUME NEW s \in Seq(Frames), s # <<>>, NEW kinds
  PROVE  LET r == SubSeq(s, 1, Len(s) - 1)
             k == s[Len(s)].kind
         IN  /\ r \in Seq(Frames)
             /\ Levels(s, kinds) = Levels(r, kinds) + (IF k \in kinds THEN 1 ELSE 0)
  <1> DEFINE n == Len(s)
             r == SubSeq(s, 1, n - 1)
  <1>1. n \in Nat /\ n > 0 /\ s[n] \in Frames
    OBVIOUS
  <1>2. /\ r \in Seq(Frames)
        /\ Len(r) = n - 1
        /\ \A i \in 1..(n - 1) : r[i] = s[i]
    OBVIOUS
  <1>3. Places(r, kinds) = Places(s, kinds) \ {n}
    <2>1. \A i : i \in 1..(n - 1) <=> i \in 1..n /\ i # n
      BY <1>1
    <2> QED
      BY <1>2, <2>1 DEF Places
  <1>4. n \in Places(s, kinds) <=> s[n].kind \in kinds
    BY <1>1 DEF Places
  <1>5. CASE s[n].kind \in kinds
    <2>1. IsFiniteSet(Places(s, kinds)) /\ Levels(s, kinds) \in Nat
      BY PlacesFinite
    <2>2. Cardinality(Places(r, kinds)) = Cardinality(Places(s, kinds)) - 1
      BY <1>3, <1>4, <1>5, <2>1, FS_RemoveElement
    <2>3. /\ Levels(s, kinds) = Cardinality(Places(s, kinds))
          /\ Levels(r, kinds) = Cardinality(Places(r, kinds))
      BY <1>2, PlacesFinite
    <2>4. Levels(s, kinds) = Levels(r, kinds) + 1
      BY <2>1, <2>2, <2>3
    <2> QED
      BY <1>2, <1>5, <2>4
  <1>6. CASE s[n].kind \notin kinds
    <2>1. Places(r, kinds) = Places(s, kinds)
      BY <1>3, <1>4, <1>6
    <2>2. Levels(s, kinds) = Levels(r, kinds) /\ Levels(r, kinds) \in Nat
      BY <1>2, <2>1, PlacesFinite
    <2> QED
      BY <1>2, <1>6, <2>2
  <1> QED
    BY <1>5, <1>6

\* A frame whose handler changes is a frame of the same kind.
LEMMA FrameTurn ==
  ASSUME NEW f \in Frames, NEW h \in 0..Handlers, NEW b \in BOOLEAN
  PROVE  LET g == [f EXCEPT !.turn = h, !.busy = b]
         IN  g \in Frames /\ g.kind = f.kind
  BY DEF Frames

\* Moving on to the next handler changes no level.
LEMMA LevelsTurn ==
  ASSUME NEW s \in Seq(Frames), s # <<>>, NEW kinds,
         NEW h \in 0..Handlers, NEW b \in BOOLEAN
  PROVE  LET r == [s EXCEPT ![Len(s)].turn = h, ![Len(s)].busy = b]
         IN  /\ r \in Seq(Frames)
             /\ Levels(r, kinds) = Levels(s, kinds)
  <1> DEFINE n == Len(s)
             r == [s EXCEPT ![n].turn = h, ![n].busy = b]
  <1>1. n \in Nat /\ n > 0 /\ n \in DOMAIN s /\ DOMAIN s = 1..n
    OBVIOUS
  <1>2. /\ r \in [1..n -> Frames]
        /\ \A i \in 1..n : r[i].kind = s[i].kind
    <2> DEFINE g == [s[n] EXCEPT !.turn = h, !.busy = b]
    <2>1. g \in Frames /\ g.kind = s[n].kind
      <3>1. s[n] \in Frames
        BY <1>1
      <3> QED
        BY <3>1, FrameTurn
    <2>2. r = [s EXCEPT ![n] = g]
      BY <1>1
    <2>3. s \in [1..n -> Frames]
      BY <1>1
    <2> HIDE DEF g, r
    <2> QED
      BY <1>1, <2>1, <2>2, <2>3
  <1>4. r \in Seq(Frames) /\ Len(r) = n
    <2> HIDE DEF r, n
    <2> QED
      BY <1>1, <1>2
  <1>5. \A i \in 1..n : r[i].kind = s[i].kind
    BY <1>2
  <1>6. Places(r, kinds) = Places(s, kinds)
    BY <1>4, <1>5 DEF Places
  <1> QED
    BY <1>4, <1>6, PlacesFinite

-----------------------------------------------------------------------------
(* The lock and the depth *)

\* Both balances, over the kinds of frames they count.
Balance == TypeOK /\ LockBalanced /\ DepthBalanced

\* Taking the lock for a new call keeps the lock balanced.
LEMMA PushBalanced ==
  ASSUME Balance, NEW f \in Frames, f.kind \in Locking, Push(f), Acquire(Home)
  PROVE  /\ LockBalanced'
         /\ stack' \in Seq(Frames)
         /\ count' \in Nat /\ holder' = Home
         /\ Levels(stack', Beginning) =
              Levels(stack, Beginning) + (IF f.kind = "operation" THEN 1 ELSE 0)
  <1>1. stack \in Seq(Frames) /\ count \in Nat /\ stack' = Append(stack, f)
    BY DEF Balance, TypeOK, Push
  <1>2. /\ stack' \in Seq(Frames)
        /\ Levels(stack', Locking) = Levels(stack, Locking) + 1
        /\ Levels(stack', Beginning) =
              Levels(stack, Beginning) + (IF f.kind = "operation" THEN 1 ELSE 0)
    BY <1>1, LevelsPush DEF Beginning
  <1>3. count = Levels(stack, Locking) /\ count' = count + 1 /\ holder' = Home
    BY ThreadsAssumption DEF Balance, LockBalanced, Acquire, Free, Locking
  <1> QED
    BY <1>1, <1>2, <1>3, ThreadsAssumption DEF LockBalanced, Locking

\* Only Home ends a level, its innermost call is the begin of that level, and
\* it holds the lock for it.
LEMMA EndsOwnLevel ==
  ASSUME Balance, NEW t \in Threads, Ends(t)
  PROVE  /\ t = Home /\ holder = Home /\ depth > 0
         /\ Rest(t) = Outer /\ Outer \in Seq(Frames)
         /\ count = Levels(Outer, Locking) + 1
         /\ depth = Levels(Outer, Beginning) + 1
         /\ Levels(Outer, Locking) \in Nat
         /\ Levels(Outer, Beginning) \in Nat
  <1>1. stack \in Seq(Frames) /\ depth \in Nat
    BY DEF Balance, TypeOK
  <1>2. t = Home /\ depth > 0
    BY <1>1 DEF Balance, DepthBalanced, Ends, Begun
  <1>3. stack # <<>> /\ stack[Len(stack)].kind = "operation"
    BY <1>2 DEF Ends, Inside, Top
  <1>4. /\ Outer \in Seq(Frames)
        /\ Levels(stack, Locking) = Levels(Outer, Locking) + 1
        /\ Levels(stack, Beginning) = Levels(Outer, Beginning) + 1
    BY <1>1, <1>3, LevelsPop DEF Outer, Locking, Beginning
  <1>5. Levels(Outer, Locking) \in Nat /\ Levels(Outer, Beginning) \in Nat
    BY <1>4, PlacesFinite
  <1>6. holder = Home
    BY <1>4, <1>5 DEF Balance, LockBalanced, Locking
  <1> QED
    BY <1>2, <1>4, <1>5, <1>6
    DEF Balance, LockBalanced, DepthBalanced, Locking, Beginning, Rest

\* Giving back the level of a call that returned keeps the lock balanced.
LEMMA ReleaseBalanced ==
  ASSUME holder = Home, Levels(stack', Locking) \in Nat,
         count = Levels(stack', Locking) + 1, Release
  PROVE  LockBalanced' /\ count' \in Nat /\ holder' \in {Home, Nobody}
  BY ThreadsAssumption DEF Release, LockBalanced, Locking

\* After an outermost commit the handlers are called, which takes no level.
LEMMA AnnouncementTakesNone ==
  ASSUME NEW s \in Seq(Frames)
  PROVE  /\ Append(s, Announcement) \in Seq(Frames)
         /\ Levels(Append(s, Announcement), Locking) = Levels(s, Locking)
         /\ Levels(Append(s, Announcement), Beginning) = Levels(s, Beginning)
  <1>1. Announcement \in Frames /\ Announcement.kind = "announcement"
    BY HandlersAssumption DEF Announcement, Frames
  <1>2. Levels(s, Locking) \in Nat /\ Levels(s, Beginning) \in Nat
    BY PlacesFinite
  <1> QED
    BY <1>1, <1>2, LevelsPush DEF Locking, Beginning

\* What every commit and rollback does to the lock and the depth.
LEMMA EndBalanced ==
  ASSUME Balance, NEW t \in Threads, Ends(t), Release, depth' = depth - 1,
         stack' = Rest(t) \/ stack' = Append(Rest(t), Announcement)
  PROVE  /\ LockBalanced'
         /\ depth' = Levels(stack', Beginning)
         /\ stack' \in Seq(Frames) /\ depth' \in Nat /\ count' \in Nat
         /\ holder' \in Threads \cup {Nobody}
  <1>1. /\ holder = Home /\ depth > 0
        /\ Rest(t) = Outer /\ Outer \in Seq(Frames)
        /\ count = Levels(Outer, Locking) + 1
        /\ depth = Levels(Outer, Beginning) + 1
        /\ Levels(Outer, Locking) \in Nat
        /\ Levels(Outer, Beginning) \in Nat
    BY EndsOwnLevel
  <1>2. /\ stack' \in Seq(Frames)
        /\ Levels(stack', Locking) = Levels(Outer, Locking)
        /\ Levels(stack', Beginning) = Levels(Outer, Beginning)
    BY <1>1, AnnouncementTakesNone
  <1>3. LockBalanced' /\ count' \in Nat /\ holder' \in {Home, Nobody}
    BY <1>1, <1>2, ReleaseBalanced
  <1> QED
    BY <1>1, <1>2, <1>3 DEF Threads

\* A step that leaves the lock and the levels alone keeps both balances.
LEMMA LevelsKept ==
  ASSUME Balance, UNCHANGED <<depth, open, owner, holder, count>>,
         \A kinds : Levels(stack', kinds) = Levels(stack, kinds)
  PROVE  LockBalanced' /\ DepthBalanced'
  <1> USE DEF Balance
  <1>1. LockBalanced'
    BY DEF LockBalanced
  <1>2. DepthBalanced'
    BY DEF DepthBalanced
  <1> QED
    BY <1>1, <1>2

-----------------------------------------------------------------------------
(* IInv is inductive *)

\* Nothing is begun, nothing written and nothing said.
LEMMA InitInvariant == Init => IInv
  <1> SUFFICES ASSUME Init PROVE IInv
    OBVIOUS
  <1> USE DEF Init
  <1>1. TypeOK
    <2>1. stack \in Seq(Frames)
      OBVIOUS
    <2> QED
      BY <2>1 DEF TypeOK, Verdicts
  <1>2. LockBalanced
    BY LevelsEmpty, ThreadsAssumption DEF LockBalanced
  <1>3. DepthBalanced
    BY LevelsEmpty DEF DepthBalanced
  <1>4. Standing /\ VerdictIsTrue
    BY DEF Standing, VerdictIsTrue
  <1> QED
    BY <1>1, <1>2, <1>3, <1>4 DEF IInv

\* Both begins and the lock of a save take one level and write nothing.
LEMMA BeginInvariant ==
  ASSUME IInv, BeginOutermost \/ BeginNested \/ EnterSection
  PROVE  IInv'
  <1> Balance
    BY DEF IInv, Balance
  <1>1. Operation \in Frames /\ Operation.kind = "operation"
    BY HandlersAssumption DEF Operation, Frames
  <1>2. Section \in Frames /\ Section.kind = "section"
    BY HandlersAssumption DEF Section, Frames
  <1>3. CASE BeginOutermost
    <2>1. /\ LockBalanced' /\ stack' \in Seq(Frames)
          /\ count' \in Nat /\ holder' = Home
          /\ Levels(stack', Beginning) = Levels(stack, Beginning) + 1
      BY <1>1, <1>3, PushBalanced DEF BeginOutermost, Locking
    <2>2. depth = 0 /\ depth = Levels(stack, Beginning)
      BY <1>3 DEF BeginOutermost, Balance, DepthBalanced, Beginning
    <2>3. DepthBalanced'
      BY <1>3, <2>1, <2>2 DEF BeginOutermost, DepthBalanced, Beginning
    <2>4. TypeOK'
      BY <1>3, <2>1 DEF BeginOutermost, IInv, TypeOK, Threads, Verdicts
    <2>5. Standing' /\ VerdictIsTrue'
      BY <1>3, <2>2
      DEF BeginOutermost, IInv, DepthBalanced, Standing, VerdictIsTrue
    <2> QED
      BY <2>1, <2>3, <2>4, <2>5 DEF IInv
  <1>4. CASE BeginNested
    <2>1. /\ LockBalanced' /\ stack' \in Seq(Frames)
          /\ count' \in Nat /\ holder' = Home
          /\ Levels(stack', Beginning) = Levels(stack, Beginning) + 1
      BY <1>1, <1>4, PushBalanced DEF BeginNested, Locking
    <2>2. depth \in Nat /\ depth > 0 /\ depth = Levels(stack, Beginning)
      BY <1>4 DEF BeginNested, Balance, TypeOK, DepthBalanced, Beginning
    <2>3. DepthBalanced'
      BY <1>4, <2>1, <2>2 DEF BeginNested, IInv, DepthBalanced, Beginning
    <2>4. TypeOK'
      BY <1>4, <2>1, <2>2 DEF BeginNested, IInv, TypeOK, Threads, data
    <2>5. Standing' /\ VerdictIsTrue'
      BY <1>4, <2>2 DEF BeginNested, IInv, Standing, VerdictIsTrue, data
    <2> QED
      BY <2>1, <2>3, <2>4, <2>5 DEF IInv
  <1>5. CASE EnterSection
    <2>1. /\ LockBalanced' /\ stack' \in Seq(Frames)
          /\ count' \in Nat /\ holder' = Home
          /\ Levels(stack', Beginning) = Levels(stack, Beginning) + 0
      BY <1>2, <1>5, PushBalanced DEF EnterSection, Locking
    <2>2. depth \in Nat /\ depth = Levels(stack, Beginning)
      BY DEF Balance, TypeOK, DepthBalanced, Beginning
    <2>3. DepthBalanced'
      BY <1>5, <2>1, <2>2 DEF EnterSection, IInv, DepthBalanced, Beginning
    <2>4. TypeOK'
      BY <1>5, <2>1 DEF EnterSection, IInv, TypeOK, Threads, data
    <2>5. Standing' /\ VerdictIsTrue'
      BY <1>5 DEF EnterSection, IInv, Standing, VerdictIsTrue, data
    <2> QED
      BY <2>1, <2>3, <2>4, <2>5 DEF IInv
  <1> QED
    BY <1>3, <1>4, <1>5

\* A commit or rollback, whatever it decides about the writes, gives back one
\* level of the depth and of the lock.
LEMMA EndInvariant ==
  ASSUME IInv, NEW t \in Threads,
         \/ CommitInner(t) \/ CommitPoisoned(t) \/ CommitDone(t)
         \/ CommitFails(t) \/ Rollback(t)
  PROVE  IInv'
  <1> Balance
    BY DEF IInv, Balance
  <1>1. Ends(t) /\ Release /\ depth' = depth - 1
        /\ (stack' = Rest(t) \/ stack' = Append(Rest(t), Announcement))
    BY DEF CommitInner, CommitPoisoned, CommitDone, CommitFails, Rollback
  <1>2. /\ LockBalanced'
        /\ depth' = Levels(stack', Beginning)
        /\ stack' \in Seq(Frames) /\ depth' \in Nat /\ count' \in Nat
        /\ holder' \in Threads \cup {Nobody}
    BY <1>1, EndBalanced
  <1>3. depth \in Nat /\ depth > 0 /\ owner = Home
    BY <1>1 DEF Balance, TypeOK, DepthBalanced, Ends, Begun
  <1>4. owner' = IF depth' > 0 THEN Home ELSE Nobody
    BY <1>2, <1>3
    DEF CommitInner, CommitPoisoned, CommitDone, CommitFails, Rollback
  <1>5. open' => depth' > 0
    <2>1. CASE CommitInner(t)
      BY <1>3, <2>1 DEF CommitInner
    <2>2. CASE CommitPoisoned(t)
      BY <2>2 DEF CommitPoisoned
    <2>3. CASE CommitDone(t) \/ CommitFails(t) \/ Rollback(t)
      BY <2>3 DEF CommitDone, CommitFails, Rollback
    <2> QED
      BY <2>1, <2>2, <2>3
  <1>6. DepthBalanced'
    BY <1>2, <1>4, <1>5 DEF DepthBalanced, Beginning
  <1>7. TypeOK'
    <2>1. owner' \in Threads \cup {Nobody}
      BY <1>4 DEF Threads
    <2>2. /\ open' \in BOOLEAN /\ doomed' \in BOOLEAN /\ told' \in Verdicts
          /\ stored' \subseteq Writes /\ work' \subseteq Writes
          /\ since' \subseteq Writes
      BY DEF IInv, TypeOK, Verdicts, data,
             CommitInner, CommitPoisoned, CommitDone, CommitFails, Rollback
    <2> QED
      BY <1>2, <2>1, <2>2 DEF TypeOK
  <1>8. Standing' /\ VerdictIsTrue'
    <2> USE <1>3 DEF IInv, Standing, VerdictIsTrue
    <2>1. CASE CommitInner(t)
      BY <2>1 DEF CommitInner, data
    <2>2. CASE CommitPoisoned(t)
      BY <2>2 DEF CommitPoisoned
    <2>3. CASE CommitDone(t)
      BY <2>3 DEF CommitDone
    <2>4. CASE CommitFails(t)
      BY <2>4 DEF CommitFails
    <2>5. CASE Rollback(t)
      BY <2>5 DEF Rollback
    <2> QED
      BY <2>1, <2>2, <2>3, <2>4, <2>5
  <1> QED
    BY <1>2, <1>6, <1>7, <1>8 DEF IInv

\* Statements write to the open transaction, or at once outside any.
LEMMA WrittenInvariant ==
  ASSUME IInv, NEW w \in Writes, Written(w), stack' \in Seq(Frames),
         Levels(stack', Locking) = Levels(stack, Locking),
         Levels(stack', Beginning) = Levels(stack, Beginning)
  PROVE  IInv'
  <1> USE DEF Written, lock
  <1>1. TypeOK'
    BY DEF IInv, TypeOK, Verdicts
  <1>2. LockBalanced' /\ DepthBalanced'
    BY DEF IInv, LockBalanced, DepthBalanced, Locking, Beginning
  <1>3. Standing' /\ VerdictIsTrue'
    BY DEF IInv, TypeOK, DepthBalanced, Standing, VerdictIsTrue, Poisoned
  <1> QED
    BY <1>1, <1>2, <1>3 DEF IInv

\* Setting a listener to work takes no level.
LEMMA NoticeTakesNone ==
  ASSUME NEW s \in Seq(Frames), NEW h \in 1..Handlers
  PROVE  /\ Notice(h) \in Frames
         /\ Append(s, Notice(h)) \in Seq(Frames)
         /\ Levels(Append(s, Notice(h)), Locking) = Levels(s, Locking)
         /\ Levels(Append(s, Notice(h)), Beginning) = Levels(s, Beginning)
  <1>1. Notice(h) \in Frames /\ Notice(h).kind = "notice"
    BY HandlersAssumption DEF Notice, Frames
  <1>2. Levels(s, Locking) \in Nat /\ Levels(s, Beginning) \in Nat
    BY PlacesFinite
  <1> QED
    BY <1>1, <1>2, LevelsPush DEF Locking, Beginning

\* A statement by itself, one that sets a listener to work, and one whose audit
\* entry takes the transaction with it.
LEMMA StatementInvariant ==
  ASSUME IInv, NEW w \in Writes,
         \/ Execute(w) \/ AuditLost(w)
         \/ \E h \in 1..Handlers : ExecuteAlone(w, h)
  PROVE  IInv'
  <1> stack \in Seq(Frames)
    BY DEF IInv, TypeOK
  <1>1. CASE Execute(w)
    BY <1>1, WrittenInvariant DEF Execute
  <1>2. CASE \E h \in 1..Handlers : ExecuteAlone(w, h)
    <2> PICK h \in 1..Handlers : ExecuteAlone(w, h)
      BY <1>2
    <2>1. Written(w) /\ stack' = Append(stack, Notice(h))
      BY DEF ExecuteAlone, Push
    <2> QED
      BY <2>1, NoticeTakesNone, WrittenInvariant
  <1>3. CASE AuditLost(w)
    <2> USE DEF AuditLost, lock
    <2>1. TypeOK'
      BY <1>3 DEF IInv, TypeOK
    <2>2. LockBalanced' /\ DepthBalanced'
      BY <1>3 DEF IInv, LockBalanced, DepthBalanced
    <2>3. Standing' /\ VerdictIsTrue'
      BY <1>3 DEF IInv, Standing, VerdictIsTrue
    <2> QED
      BY <2>1, <2>2, <2>3 DEF IInv
  <1> QED
    BY <1>1, <1>2, <1>3

\* The end of a section, of the handlers' calls, and the other threads.
LEMMA OtherInvariant ==
  ASSUME IInv,
         \/ LeaveSection \/ Announced \/ Noticed
         \/ \E works \in BOOLEAN : NextHandler(works)
         \/ \E t \in Others : Enter(t) \/ Leave(t)
  PROVE  IInv'
  <1> Balance
    BY DEF IInv, Balance
  <1>1. stack \in Seq(Frames) /\ count \in Nat /\ depth \in Nat
    BY DEF IInv, TypeOK
  <1>2. Standing' /\ VerdictIsTrue'
    BY DEF IInv, Standing, VerdictIsTrue, data, LeaveSection, Announced,
           Noticed, NextHandler, Enter, Leave
  <1>3. CASE LeaveSection
    <2>1. stack # <<>> /\ stack[Len(stack)].kind = "section" /\ stack' = Outer
      BY <1>3 DEF LeaveSection, Inside, Top
    <2>2. /\ Outer \in Seq(Frames)
          /\ Levels(stack, Locking) = Levels(Outer, Locking) + 1
          /\ Levels(stack, Beginning) = Levels(Outer, Beginning) + 0
      BY <1>1, <2>1, LevelsPop DEF Outer, Locking, Beginning
    <2>3. Levels(Outer, Locking) \in Nat /\ Levels(Outer, Beginning) \in Nat
      BY <2>2, PlacesFinite
    <2>4. holder = Home /\ count = Levels(Outer, Locking) + 1
      BY <2>2, <2>3 DEF Balance, LockBalanced, Locking
    <2>5. LockBalanced' /\ count' \in Nat /\ holder' \in {Home, Nobody}
      BY <1>3, <2>1, <2>3, <2>4, ReleaseBalanced DEF LeaveSection
    <2>6. DepthBalanced'
      BY <1>3, <2>1, <2>2, <2>3 DEF LeaveSection, IInv, DepthBalanced, Beginning
    <2>7. TypeOK'
      BY <1>3, <2>1, <2>2, <2>5 DEF LeaveSection, IInv, TypeOK, Threads, data
    <2> QED
      BY <1>2, <2>5, <2>6, <2>7 DEF IInv
  <1>4. CASE Announced \/ Noticed
    <2>1. /\ stack # <<>> /\ stack[Len(stack)].kind \in {"announcement", "notice"}
          /\ stack' = Outer
      BY <1>4 DEF Announced, Noticed, Inside, Top
    <2>2. /\ Outer \in Seq(Frames)
          /\ Levels(stack, Locking) = Levels(Outer, Locking) + 0
          /\ Levels(stack, Beginning) = Levels(Outer, Beginning) + 0
      BY <1>1, <2>1, LevelsPop DEF Outer, Locking, Beginning
    <2>3. Levels(Outer, Locking) \in Nat /\ Levels(Outer, Beginning) \in Nat
      BY <2>2, PlacesFinite
    <2>4. LockBalanced'
      BY <1>4, <2>1, <2>2, <2>3 DEF Announced, Noticed, IInv, LockBalanced, Locking, lock
    <2>5. DepthBalanced'
      BY <1>4, <2>1, <2>2, <2>3 DEF Announced, Noticed, IInv, DepthBalanced, Beginning
    <2>6. TypeOK'
      BY <1>4, <2>1, <2>2 DEF Announced, Noticed, IInv, TypeOK, data, lock
    <2> QED
      BY <1>2, <2>4, <2>5, <2>6 DEF IInv
  <1>5. ASSUME NEW works \in BOOLEAN, NextHandler(works)
        PROVE  IInv'
    <2>1. /\ stack # <<>> /\ Top \in Frames /\ Top.turn < Handlers
          /\ stack' = [stack EXCEPT ![Len(stack)].turn = Top.turn + 1,
                                    ![Len(stack)].busy = works]
      BY <1>1, <1>5 DEF NextHandler, Inside, Top
    <2>2. Top.turn + 1 \in 0..Handlers
      BY <2>1, HandlersAssumption DEF Frames
    <2>3. /\ stack' \in Seq(Frames)
          /\ Levels(stack', Locking) = Levels(stack, Locking)
          /\ Levels(stack', Beginning) = Levels(stack, Beginning)
      BY <1>1, <2>1, <2>2, LevelsTurn
    <2>4. LockBalanced'
      BY <1>5, <2>3 DEF NextHandler, IInv, LockBalanced, Locking, lock
    <2>5. DepthBalanced'
      BY <1>5, <2>3 DEF NextHandler, IInv, DepthBalanced, Beginning
    <2>6. TypeOK'
      BY <1>5, <2>3 DEF NextHandler, IInv, TypeOK, data, lock
    <2> QED
      BY <1>2, <2>4, <2>5, <2>6 DEF IInv
  <1>6. ASSUME NEW t \in Others, Enter(t) \/ Leave(t)
        PROVE  IInv'
    <2>1. t # Home /\ t # Nobody /\ t \in Threads
      BY ThreadsAssumption DEF Threads
    <2>2. LockBalanced'
      BY <1>1, <1>6, <2>1, ThreadsAssumption
      DEF Enter, Leave, Acquire, Release, IInv, LockBalanced
    <2>3. DepthBalanced'
      BY <1>6 DEF Enter, Leave, IInv, DepthBalanced
    <2>4. count' \in Nat /\ holder' \in Threads \cup {Nobody}
      BY <1>1, <1>6, <2>1, ThreadsAssumption
      DEF Enter, Leave, Acquire, Release, IInv, LockBalanced
    <2>5. TypeOK'
      BY <1>6, <2>4 DEF Enter, Leave, IInv, TypeOK, data
    <2> QED
      BY <1>2, <2>2, <2>3, <2>5 DEF IInv
  <1> QED
    BY <1>3, <1>4, <1>5, <1>6

\* A step that changes nothing keeps everything.
LEMMA StutterInvariant == IInv /\ UNCHANGED vars => IInv'
  <1> SUFFICES ASSUME IInv, UNCHANGED vars PROVE IInv'
    OBVIOUS
  <1> USE DEF vars
  <1>1. TypeOK'
    BY DEF IInv, TypeOK
  <1>2. LockBalanced' /\ DepthBalanced'
    BY DEF IInv, LockBalanced, DepthBalanced
  <1>3. Standing' /\ VerdictIsTrue'
    BY DEF IInv, Standing, VerdictIsTrue
  <1> QED
    BY <1>1, <1>2, <1>3 DEF IInv

\* Every step keeps the invariant.
LEMMA StepInvariant == IInv /\ [Next]_vars => IInv'
  <1> SUFFICES ASSUME IInv, [Next]_vars PROVE IInv'
    OBVIOUS
  <1>1. CASE Next
    BY <1>1, BeginInvariant, EndInvariant, StatementInvariant, OtherInvariant
    DEF Next
  <1>2. CASE UNCHANGED vars
    BY <1>2, StutterInvariant
  <1> QED
    BY <1>1, <1>2

\* venture-database.c, transactions and lock: the inductive invariant holds in
\* every reachable state.
THEOREM InvariantHolds == Spec => []IInv
  BY InitInvariant, StepInvariant, PTL DEF Spec

\* Every variable keeps its type.
THEOREM TypeCorrect == Spec => []TypeOK
  <1>1. IInv => TypeOK
    BY DEF IInv
  <1> QED
    BY <1>1, InvariantHolds, PTL

\* The lock is held exactly once per call under way that took it: it is free
\* whenever no call is under way.
THEOREM LockIsBalanced == Spec => []LockBalanced
  <1>1. IInv => LockBalanced
    BY DEF IInv
  <1> QED
    BY <1>1, InvariantHolds, PTL

\* transaction_depth and transaction_owner describe the begins under way.
THEOREM DepthIsBalanced == Spec => []DepthBalanced
  <1>1. IInv => DepthBalanced
    BY DEF IInv
  <1> QED
    BY <1>1, InvariantHolds, PTL

\* Both together, as the code must keep them.
THEOREM LockAndDepthAreBalanced == Spec => []LockAndDepthBalanced
  BY LockIsBalanced, DepthIsBalanced, PTL DEF LockAndDepthBalanced

\* While Home does not hold the lock no begin is under way: the levels that
\* begins took are among the levels of the lock.
LEMMA NoneBegun ==
  ASSUME IInv, holder # Home
  PROVE  depth = 0
  <1>1. stack \in Seq(Frames)
    BY DEF IInv, TypeOK
  <1>2. Cardinality(Places(stack, Locking)) = 0
    BY <1>1, PlacesFinite DEF IInv, LockBalanced, Locking
  <1>3. Places(stack, Locking) = {}
    BY <1>1, <1>2, PlacesFinite, FS_EmptySet
  <1>4. Places(stack, Beginning) = {}
    BY <1>3 DEF Places, Locking, Beginning
  <1>5. Cardinality(Places(stack, Beginning)) = 0
    BY <1>4, FS_EmptySet
  <1> QED
    BY <1>1, <1>5, PlacesFinite DEF IInv, DepthBalanced, Beginning

LEMMA NoDirtyReadFromInvariant == IInv => NoDirtyRead
  <1> SUFFICES ASSUME IInv, holder \in Others PROVE ~open /\ work = {}
    BY DEF NoDirtyRead
  <1>1. depth = 0
    BY NoneBegun, ThreadsAssumption
  <1> QED
    BY <1>1 DEF IInv, DepthBalanced, Standing

\* Other threads never read uncommitted writes.
THEOREM NoDirtyReads == Spec => []NoDirtyRead
  BY NoDirtyReadFromInvariant, InvariantHolds, PTL

\* The answer of the outermost commit or rollback is true of every write of
\* the transaction.
THEOREM VerdictsAreTrue == Spec => []VerdictIsTrue
  <1>1. IInv => VerdictIsTrue
    BY DEF IInv
  <1> QED
    BY <1>1, InvariantHolds, PTL

\* From the invariant, a step stores one write outside any transaction or all
\* writes of the transaction it ends.
LEMMA StepStoresAll ==
  ASSUME IInv, [Next]_vars, stored' # stored
  PROVE  \/ depth = 0 /\ \E w \in Writes : stored' = stored \cup {w}
         \/ depth = 1 /\ depth' = 0 /\ stored' = stored \cup since
  <1>1. CASE \E w \in Writes : Written(w)
    <2> PICK w \in Writes : Written(w)
      BY <1>1
    <2>1. depth \in Nat /\ ~open /\ stored' = stored \cup {w}
      BY DEF Written, IInv, TypeOK
    <2>2. depth = 0
      BY <2>1 DEF Written, Poisoned
    <2> QED
      BY <2>1, <2>2
  <1>2. CASE \E t \in Threads : CommitDone(t)
    BY <1>2 DEF CommitDone, IInv, Standing
  <1> QED
    BY <1>1, <1>2
    DEF Next, vars, data, BeginOutermost, BeginNested, EnterSection, LeaveSection,
        Execute, ExecuteAlone, Announced, Noticed, NextHandler, AuditLost, CommitInner, CommitPoisoned,
        CommitFails, Rollback, Enter, Leave

\* All or nothing of a transaction is stored, and nothing but at its end.
THEOREM AllOrNothingHolds == Spec => AllOrNothing
  <1>1. IInv /\ [Next]_vars =>
          [stored' # stored =>
            \/ depth = 0 /\ \E w \in Writes : stored' = stored \cup {w}
            \/ depth = 1 /\ depth' = 0 /\ stored' = stored \cup since]_vars
    BY StepStoresAll
  <1> QED
    BY <1>1, InvariantHolds, PTL DEF Spec, AllOrNothing

-----------------------------------------------------------------------------
(* The contract: one flat transaction *)

\* Steps that its callers do not see.
LEMMA UnseenStep ==
  ASSUME IInv, \/ BeginNested \/ EnterSection \/ LeaveSection
               \/ Announced \/ Noticed
               \/ \E works \in BOOLEAN : NextHandler(works)
               \/ \E t \in Threads : CommitInner(t)
  PROVE  UNCHANGED Flat!vars
  <1> USE DEF Flat!vars, data, stateBar, draftBar, readerBar
  <1>1. CASE BeginNested
    BY <1>1, ThreadsAssumption DEF BeginNested, Acquire, Free, IInv, TypeOK, Poisoned
  <1>2. CASE EnterSection
    BY <1>2, ThreadsAssumption DEF EnterSection, Acquire, Free
  <1>3. CASE LeaveSection
    <2>1. holder = Home
      <3>1. stack \in Seq(Frames) /\ stack # <<>> /\ stack[Len(stack)].kind = "section"
        BY <1>3 DEF LeaveSection, Inside, Top, IInv, TypeOK
      <3>2. Levels(stack, Locking) = Levels(Outer, Locking) + 1 /\ Levels(Outer, Locking) \in Nat
        BY <3>1, LevelsPop, PlacesFinite DEF Outer, Locking
      <3> QED
        BY <3>2 DEF IInv, LockBalanced, Locking
    <2> QED
      BY <1>3, <2>1, ThreadsAssumption DEF LeaveSection, Release
  <1>4. CASE Announced \/ Noticed \/ \E works \in BOOLEAN : NextHandler(works)
    BY <1>4 DEF Announced, Noticed, NextHandler, lock
  <1>5. ASSUME NEW t \in Threads, CommitInner(t)
        PROVE  UNCHANGED Flat!vars
    <2>1. holder = Home /\ depth \in Nat
      BY <1>5, EndsOwnLevel DEF CommitInner, IInv, Balance, TypeOK
    <2> QED
      BY <1>5, <2>1, ThreadsAssumption DEF CommitInner, Release
  <1> QED
    BY <1>1, <1>2, <1>3, <1>4, <1>5

\* What a commit or a rollback is to the callers of the transaction.
LEMMA SeenEnd ==
  ASSUME IInv, NEW t \in Threads,
         CommitPoisoned(t) \/ CommitDone(t) \/ CommitFails(t) \/ Rollback(t)
  PROVE  [Flat!Next]_(Flat!vars)
  <1>1. holder = Home /\ depth \in Nat /\ depth > 0
    BY EndsOwnLevel
       DEF CommitPoisoned, CommitDone, CommitFails, Rollback, IInv, Balance, TypeOK
  <1>2. readerBar = Nobody /\ readerBar' = Nobody
    BY <1>1, ThreadsAssumption
       DEF readerBar, CommitPoisoned, CommitDone, CommitFails, Rollback, Release
  <1>3. CASE CommitDone(t)
    <2>1. Flat!Commit
      BY <1>1, <1>2, <1>3
         DEF CommitDone, Flat!Commit, stateBar, draftBar, IInv, Standing
    <2> QED
      BY <2>1 DEF Flat!Next
  <1>4. CASE \/ CommitPoisoned(t) \/ CommitFails(t) \/ (Rollback(t) /\ depth = 1)
    <2>1. Flat!Fail
      BY <1>1, <1>2, <1>4
         DEF CommitPoisoned, CommitFails, Rollback, Flat!Fail, stateBar, draftBar
    <2> QED
      BY <2>1 DEF Flat!Next
  <1>5. CASE Rollback(t) /\ depth # 1 /\ open
    <2>1. Flat!Lose
      BY <1>1, <1>2, <1>5 DEF Rollback, Flat!Lose, stateBar, draftBar
    <2> QED
      BY <2>1 DEF Flat!Next
  <1>6. CASE Rollback(t) /\ depth # 1 /\ ~open
    BY <1>1, <1>2, <1>6 DEF Rollback, Flat!vars, stateBar, draftBar
  <1> QED
    BY <1>3, <1>4, <1>5, <1>6

LEMMA FlatStep ==
  ASSUME IInv, [Next]_vars
  PROVE  [Flat!Next]_(Flat!vars)
  <1>1. CASE UNCHANGED vars
    BY <1>1 DEF vars, Flat!vars, stateBar, draftBar, readerBar
  <1>2. CASE BeginOutermost
    <2>1. Flat!Start
      BY <1>2, ThreadsAssumption
         DEF BeginOutermost, Acquire, Free, Flat!Start, stateBar, draftBar, readerBar,
             IInv, DepthBalanced
    <2> QED
      BY <2>1 DEF Flat!Next
  <1>3. ASSUME NEW w \in Writes, Written(w)
        PROVE  [Flat!Next]_(Flat!vars)
    <2>1. /\ readerBar = Nobody /\ readerBar' = readerBar
          /\ stateBar' = stateBar /\ depth \in Nat
      BY <1>3, ThreadsAssumption DEF Written, Free, readerBar, stateBar, lock, IInv, TypeOK
    <2>2. CASE depth = 0
      <3>1. ~open
        BY <2>2 DEF IInv, DepthBalanced
      <3>2. Flat!WriteAlone(w)
        BY <1>3, <2>1, <2>2, <3>1 DEF Written, Flat!WriteAlone, stateBar, draftBar
      <3> QED
        BY <3>2 DEF Flat!Next
    <2>3. CASE depth > 0
      <3>1. Flat!Write(w)
        BY <1>3, <2>1, <2>3 DEF Written, Poisoned, Flat!Write, stateBar, draftBar
      <3> QED
        BY <3>1 DEF Flat!Next
    <2> QED
      BY <2>1, <2>2, <2>3
  <1>4. ASSUME NEW w \in Writes, AuditLost(w)
        PROVE  [Flat!Next]_(Flat!vars)
    <2>1. Flat!Lose
      BY <1>4 DEF AuditLost, Flat!Lose, stateBar, draftBar, readerBar, lock, IInv, TypeOK
    <2> QED
      BY <2>1 DEF Flat!Next
  <1>5. ASSUME NEW t \in Others, Enter(t)
        PROVE  [Flat!Next]_(Flat!vars)
    <2>1. depth = 0 /\ holder = Nobody
      BY <1>5, NoneBegun, ThreadsAssumption DEF Enter
    <2>2. Flat!Enter(t)
      BY <1>5, <2>1, ThreadsAssumption
         DEF Enter, Acquire, Flat!Enter, stateBar, draftBar, readerBar, data
    <2> QED
      BY <2>2 DEF Flat!Next
  <1>6. ASSUME NEW t \in Others, Leave(t)
        PROVE  [Flat!Next]_(Flat!vars)
    <2>1. count = 1
      BY <1>6 DEF Leave, IInv, LockBalanced
    <2>2. Flat!Leave
      BY <1>6, <2>1, ThreadsAssumption
         DEF Leave, Release, Flat!Leave, stateBar, draftBar, readerBar, data
    <2> QED
      BY <2>2 DEF Flat!Next
  <1> QED
    BY <1>1, <1>2, <1>3, <1>4, <1>5, <1>6, UnseenStep, SeenEnd
    DEF Next, Execute, ExecuteAlone

\* However calls nest, whichever level rolls back and whatever other threads and
\* handlers do, callers see one flat transaction (venture_database_begin(),
\* venture_database_commit(), venture_database_rollback()).
THEOREM TransactionContractKept == Spec => KeepsTransactionContract
  <1>1. Init => Flat!Init
    BY ThreadsAssumption DEF Init, Flat!Init, stateBar, draftBar, readerBar
  <1>2. IInv /\ [Next]_vars => [Flat!Next]_(Flat!vars)
    BY FlatStep
  <1> QED
    BY <1>1, <1>2, InvariantHolds, PTL DEF Spec, KeepsTransactionContract

=============================================================================
