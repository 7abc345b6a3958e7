----------------------- MODULE CommittedEffectsProofs -----------------------
(***************************************************************************)
(* Effects after a commit, for any handlers in any order and any nesting.  *)
(* The services only add queues to DatabaseTransaction, so its theorems    *)
(* carry over; the invariant of the queues needs one fact about the calls: *)
(* no transaction is open below the call of a handler (NestedInOrder), so  *)
(* a handler that is called finds the data at rest.                        *)
(***************************************************************************)
EXTENDS CommittedEffects, DatabaseTransactionProofs

Calling == {"announcement", "notice"}

\* No begin is open below the call of a handler: it starts after the outermost
\* one, or after a save outside any.
NestedInOrder ==
    \A i \in 1..Len(stack) : stack[i].kind \in Calling =>
        \A j \in 1..i : stack[j].kind # "operation"

QueueTypes ==
    /\ pending \in [1..Handlers -> SUBSET Writes]
    /\ flushing \in [1..Handlers -> Nat]
    /\ ran \in [Writes -> 0..2]
    /\ registry \subseteq Kept
    /\ reload \in BOOLEAN
    /\ unaudited \in BOOLEAN
    /\ missed \subseteq Kept

\* A service queues only what it hears of, and only a draining one drains.
OwnQueues ==
    \A h \in 1..Handlers :
        /\ \A w \in pending[h] : Listener[w] = h
        /\ Style[h] = "reloading" => pending[h] = {}
        /\ flushing[h] # 0 => Style[h] = "draining"

\* A detached queue holds effects of rows that are stored or in the open
\* transaction, and no queue an effect that has run.
QueuedIsDue ==
    ~unaudited =>
        \A h \in 1..Handlers :
            /\ Style[h] = "detaching" => pending[h] \subseteq stored \cup work
            /\ \A w \in pending[h] : ran[w] = 0

\* The registry holds the rows of the open transaction as well.
Registered == ((stored \cup work) \cap Kept) \ missed \subseteq registry

QInv ==
    /\ QueueTypes /\ OwnQueues /\ QueuedIsDue /\ Registered
    /\ CommittedEffectsOnly /\ DrainedEffectsOnly /\ NoEffectTwice

EffectsIInv == IInv /\ NestedInOrder /\ QInv

-----------------------------------------------------------------------------
(* The transactions underneath *)

\* Every step of the services is a step of DatabaseTransaction or changes
\* nothing of it.
LEMMA EffectsStep == EffectsNext => Next \/ UNCHANGED vars
  <1> SUFFICES ASSUME EffectsNext PROVE Next \/ UNCHANGED vars
    OBVIOUS
  <1>1. CASE CallDetaching
    <2>1. (pending[Top.turn + 1] # {}) \in BOOLEAN
      OBVIOUS
    <2> QED
      BY <1>1, <2>1 DEF CallDetaching, Next
  <1>2. CASE PassDraining \/ CallReloading \/ \E w \in Writes : CallDraining(w)
    BY <1>2 DEF PassDraining, CallReloading, CallDraining, Next
  <1>3. CASE EndAnnouncement \/ EndNotice \/ \E w \in Writes : Drain(w)
    BY <1>3 DEF EndAnnouncement, EndNotice, Drain, Next
  <1>4. CASE \E w \in Writes : \/ WriteUnheard(w) \/ Save(w) \/ SaveUnaudited(w)
                               \/ SaveAuditLost(w) \/ SaveAlone(w)
    <2>1. \A w \in Writes : Heard(w) => Listener[w] \in 1..Handlers
      BY HandlersAssumption, ListenerAssumption DEF Heard
    <2> QED
      BY <1>4, <2>1
      DEF WriteUnheard, Save, SaveUnaudited, SaveAuditLost, SaveAlone, Next
  <1>5. CASE \E t \in Threads : \/ CommitQuietly(t) \/ CommitRefused(t)
                                \/ RollbackOpen(t) \/ RollbackAgain(t)
    BY <1>5 DEF CommitQuietly, CommitRefused, RollbackOpen, RollbackAgain, Next
  <1> QED
    BY <1>1, <1>2, <1>3, <1>4, <1>5 DEF EffectsNext, Next

\* The calls around the innermost one.
LEMMA OuterFrames ==
  ASSUME NEW s \in Seq(Frames), s # <<>>
  PROVE  LET r == SubSeq(s, 1, Len(s) - 1)
         IN  Len(r) = Len(s) - 1 /\ \A i \in 1..Len(r) : r[i] = s[i]
  <1> DEFINE n == Len(s)
             r == SubSeq(s, 1, n - 1)
  <1>1. /\ r \in Seq(Frames)
        /\ Len(r) = n - 1
        /\ \A i \in 1..(n - 1) : r[i] = s[i]
    OBVIOUS
  <1> QED
    BY <1>1

\* A call that returns leaves the calls around it as they were.
LEMMA OuterNested ==
  ASSUME stack \in Seq(Frames), stack # <<>>, NestedInOrder, stack' = Outer
  PROVE  NestedInOrder'
  <1>1. /\ Len(stack') = Len(stack) - 1
        /\ \A i \in 1..Len(stack') : stack'[i] = stack[i]
    BY OuterFrames DEF Outer
  <1>2. \A i \in 1..Len(stack') : i \in 1..Len(stack) /\ \A j \in 1..i : j \in 1..Len(stack')
    BY <1>1
  <1> QED
    BY <1>1, <1>2 DEF NestedInOrder

\* A call that calls no handler may begin anywhere.
LEMMA PushNested ==
  ASSUME stack \in Seq(Frames), NEW f \in Frames, f.kind \notin Calling,
         NestedInOrder, stack' = Append(stack, f)
  PROVE  NestedInOrder'
  <1>1. /\ Len(stack') = Len(stack) + 1
        /\ \A i \in 1..Len(stack) : stack'[i] = stack[i]
        /\ stack'[Len(stack) + 1] = f
    BY AppendProperties
  <1>2. \A i \in 1..Len(stack') : i # Len(stack) + 1 =>
            i \in 1..Len(stack) /\ \A j \in 1..i : j \in 1..Len(stack)
    BY <1>1
  <1> QED
    BY <1>1, <1>2 DEF NestedInOrder

\* Every step keeps the order of calls.
LEMMA StepNested ==
  ASSUME IInv, IInv', NestedInOrder, Next \/ UNCHANGED vars
  PROVE  NestedInOrder'
  <1>1. stack \in Seq(Frames) /\ stack' \in Seq(Frames)
    BY DEF IInv, TypeOK
  <1>2. /\ Operation \in Frames /\ Operation.kind \notin Calling
        /\ Section \in Frames /\ Section.kind \notin Calling
    BY HandlersAssumption DEF Operation, Section, Frames, Calling
  <1>3. CASE BeginOutermost \/ BeginNested \/ EnterSection
    BY <1>1, <1>2, <1>3, PushNested DEF BeginOutermost, BeginNested, EnterSection, Push
  <1>4. CASE LeaveSection \/ Announced \/ Noticed
    BY <1>1, <1>4, OuterNested DEF LeaveSection, Announced, Noticed, Inside
  <1>5. CASE \E works \in BOOLEAN : NextHandler(works)
    <2> PICK works \in BOOLEAN : NextHandler(works)
      BY <1>5
    <2>1. /\ Len(stack') = Len(stack)
          /\ \A i \in 1..Len(stack) : stack'[i].kind = stack[i].kind
      <3> DEFINE n == Len(stack)
                 f == [stack[n] EXCEPT !.turn = Top.turn + 1, !.busy = works]
      <3>1. n \in 1..Len(stack) /\ stack[n] \in Frames /\ stack[n].turn < Handlers
        BY <1>1 DEF NextHandler, Inside, Top
      <3>2. stack' = [stack EXCEPT ![n] = f]
        BY <3>1 DEF NextHandler
      <3>3. f.kind = stack[n].kind
        BY <3>1 DEF Frames
      <3> HIDE DEF f
      <3> QED
        BY <1>1, <3>1, <3>2, <3>3
    <2>2. \A i \in 1..Len(stack) : \A j \in 1..i : j \in 1..Len(stack)
      BY <1>1
    <2> QED
      BY <2>1, <2>2 DEF NestedInOrder
  <1>6. CASE \E t \in Threads : \/ CommitInner(t) \/ CommitPoisoned(t)
                                \/ CommitFails(t) \/ Rollback(t)
    <2> PICK t \in Threads : CommitInner(t) \/ CommitPoisoned(t)
                                \/ CommitFails(t) \/ Rollback(t)
      BY <1>6
    <2>1. Ends(t) /\ stack' = Rest(t)
      BY DEF CommitInner, CommitPoisoned, CommitFails, Rollback
    <2>2. Balance
      BY DEF IInv, Balance
    <2>3. t = Home /\ stack # <<>>
      BY <2>1, <2>2, EndsOwnLevel DEF Ends, Inside
    <2> QED
      BY <1>1, <2>1, <2>3, OuterNested DEF Rest
  <1>7. CASE \/ \E t \in Threads : CommitDone(t)
             \/ \E w \in Writes, h \in 1..Handlers : ExecuteAlone(w, h)
    <2>1. Levels(stack', Beginning) = 0
      BY <1>7 DEF CommitDone, ExecuteAlone, Written, IInv, DepthBalanced, Beginning
    <2>2. \A i \in 1..Len(stack') : stack'[i].kind # "operation"
      <3>1. Cardinality(Places(stack', Beginning)) = 0
        BY <1>1, <2>1, PlacesFinite
      <3>2. Places(stack', Beginning) = {}
        BY <1>1, <3>1, PlacesFinite, FS_EmptySet
      <3> QED
        BY <3>2 DEF Places, Beginning
    <2>3. \A i \in 1..Len(stack') : \A j \in 1..i : j \in 1..Len(stack')
      BY <1>1
    <2> QED
      BY <2>2, <2>3 DEF NestedInOrder
  <1>8. CASE stack' = stack
    BY <1>8 DEF NestedInOrder
  <1> QED
    BY <1>3, <1>4, <1>5, <1>6, <1>7, <1>8
    DEF Next, vars, Execute, AuditLost, Enter, Leave

\* A handler of transaction-finished is called with no transaction open, so
\* nothing is written that is not stored.
LEMMA CalledAtRest ==
  ASSUME IInv, NestedInOrder, stack # <<>>, Top.kind \in Calling
  PROVE  depth = 0 /\ ~open /\ work = {}
  <1>1. stack \in Seq(Frames) /\ Len(stack) \in 1..Len(stack)
    BY EmptySeq, LenProperties DEF IInv, TypeOK
  <1>2. \A j \in 1..Len(stack) : stack[j].kind # "operation"
    BY <1>1 DEF NestedInOrder, Top
  <1>3. Places(stack, Beginning) = {}
    BY <1>2 DEF Places, Beginning
  <1>4. Levels(stack, Beginning) = 0
    BY <1>1, <1>3, PlacesFinite, FS_EmptySet
  <1> QED
    BY <1>4 DEF IInv, DepthBalanced, Standing, Beginning

-----------------------------------------------------------------------------
(* The queues *)

\* Nothing is queued and nothing has run.
LEMMA InitQueues == EffectsInit => QInv
  <1> SUFFICES ASSUME EffectsInit PROVE QInv
    OBVIOUS
  <1> USE DEF EffectsInit, Init
  <1>1. QueueTypes
    <2>1. /\ [h \in 1..Handlers |-> {}] \in [1..Handlers -> SUBSET Writes]
          /\ [h \in 1..Handlers |-> 0] \in [1..Handlers -> Nat]
          /\ [w \in Writes |-> 0] \in [Writes -> 0..2]
      OBVIOUS
    <2> QED
      BY <2>1 DEF QueueTypes
  <1>2. OwnQueues /\ QueuedIsDue /\ Registered
    BY DEF OwnQueues, QueuedIsDue, Registered
  <1>3. CommittedEffectsOnly /\ DrainedEffectsOnly /\ NoEffectTwice
    BY DEF CommittedEffectsOnly, DrainedEffectsOnly, NoEffectTwice
  <1> QED
    BY <1>1, <1>2, <1>3 DEF QInv

\* A step that leaves the queues alone keeps their invariant if no stored or
\* open row is lost and none the registry holds is new.
LEMMA QueuesUntouched ==
  ASSUME QInv, UNCHANGED effects, stored \subseteq stored',
         stored \cup work \subseteq stored' \cup work',
         (stored' \cup work') \cap Kept \subseteq stored \cup work
  PROVE  QInv'
  <1> USE DEF QInv, effects
  <1>1. QueueTypes'
    BY DEF QueueTypes
  <1>2. OwnQueues'
    BY DEF OwnQueues
  <1>3. QueuedIsDue'
    BY DEF QueuedIsDue
  <1>4. Registered'
    BY DEF Registered
  <1>5. CommittedEffectsOnly' /\ DrainedEffectsOnly' /\ NoEffectTwice'
    BY DEF CommittedEffectsOnly, DrainedEffectsOnly, NoEffectTwice
  <1> QED
    BY <1>1, <1>2, <1>3, <1>4, <1>5

\* What a statement does to the rows.
LEMMA WrittenRows ==
  ASSUME NEW w \in Writes, Written(w)
  PROVE  /\ w \notin stored /\ w \notin work /\ stored \subseteq stored'
         /\ stored' \cup work' = stored \cup work \cup {w}
         /\ depth > 0 => open /\ stored' = stored /\ work' = work \cup {w}
         /\ ~open => stored' = stored \cup {w} /\ work' = work
  BY DEF Written, Poisoned

\* A write nobody hears of.
LEMMA WriteUnheardQueues ==
  ASSUME QInv, NEW w \in Writes, WriteUnheard(w)
  PROVE  QInv'
  <1>1. UNCHANGED effects /\ w \notin Kept
    BY DEF WriteUnheard, Kept
  <1>2. /\ stored \subseteq stored'
        /\ stored \cup work \subseteq stored' \cup work'
        /\ (stored' \cup work') \cap Kept \subseteq stored \cup work
    BY <1>1, WrittenRows DEF WriteUnheard, Execute
  <1> QED
    BY <1>1, <1>2, QueuesUntouched

\* What queueing one effect does to the queues.
LEMMA QueuedProperties ==
  ASSUME NEW q \in [1..Handlers -> SUBSET Writes], NEW w \in Writes, Heard(w)
  PROVE  /\ Listener[w] \in 1..Handlers
         /\ Queued(q, w) \in [1..Handlers -> SUBSET Writes]
         /\ \A h \in 1..Handlers :
              /\ q[h] \subseteq Queued(q, w)[h]
              /\ \A v \in Queued(q, w)[h] :
                    v \in q[h] \/ (v = w /\ h = Listener[w] /\ w \notin Kept)
  <1>1. Listener[w] \in 1..Handlers
    BY HandlersAssumption, ListenerAssumption DEF Heard
  <1>2. DOMAIN q = 1..Handlers
    OBVIOUS
  <1>3. \A h \in 1..Handlers : Queued(q, w)[h] =
          IF h = Listener[w] /\ w \notin Kept THEN q[h] \cup {w} ELSE q[h]
    BY <1>1, <1>2 DEF Queued
  <1>4. Queued(q, w) \in [1..Handlers -> SUBSET Writes]
    BY <1>1, <1>2 DEF Queued
  <1>5. \A h \in 1..Handlers :
          /\ q[h] \subseteq Queued(q, w)[h]
          /\ \A v \in Queued(q, w)[h] :
                v \in q[h] \/ (v = w /\ h = Listener[w] /\ w \notin Kept)
    BY <1>3
  <1> QED
    BY <1>1, <1>4, <1>5

\* A save queues an effect that has not run.
LEMMA HeardQueues ==
  ASSUME QInv, NEW w \in Writes, Heard(w), w \notin stored, stored \subseteq stored',
         stored' \cup work' = stored \cup work \cup {w},
         pending' = Queued(pending, w), UNCHANGED <<ran, unaudited, missed>>,
         registry' \subseteq Kept, reload' \in BOOLEAN, Registered',
         flushing' \in [1..Handlers -> Nat],
         \A h \in 1..Handlers : flushing'[h] # 0 => Style[h] = "draining"
  PROVE  QInv'
  <1>1. /\ pending' \in [1..Handlers -> SUBSET Writes]
        /\ \A h \in 1..Handlers : \A v \in pending'[h] :
              v \in pending[h] \/ (v = w /\ h = Listener[w] /\ w \notin Kept)
    BY QueuedProperties DEF QInv, QueueTypes
  <1>2. ~unaudited => ran[w] = 0
    <2>1. ran[w] \in 0..2
      BY DEF QInv, QueueTypes
    <2> QED
      BY <2>1 DEF QInv, CommittedEffectsOnly
  <1>3. QueueTypes'
    BY <1>1 DEF QInv, QueueTypes
  <1>4. OwnQueues'
    <2>1. \A h \in 1..Handlers : Style[h] = "reloading" => pending'[h] = {}
      BY <1>1 DEF QInv, OwnQueues, Kept
    <2> QED
      BY <1>1, <2>1 DEF QInv, OwnQueues
  <1>5. QueuedIsDue'
    BY <1>1, <1>2 DEF QInv, QueuedIsDue
  <1>6. CommittedEffectsOnly' /\ DrainedEffectsOnly' /\ NoEffectTwice'
    BY DEF QInv, CommittedEffectsOnly, DrainedEffectsOnly, NoEffectTwice
  <1> QED
    BY <1>3, <1>4, <1>5, <1>6 DEF QInv

\* A save the listener takes note of, and one that sets it to work.
LEMMA SaveQueues ==
  ASSUME IInv, QInv, NEW w \in Writes, Save(w) \/ SaveAlone(w)
  PROVE  QInv'
  <1> USE DEF QInv
  <1>1. /\ Heard(w) /\ pending' = Queued(pending, w) /\ Written(w)
        /\ UNCHANGED <<ran, unaudited, missed>>
    BY DEF Save, SaveAlone, Execute, ExecuteAlone
  <1>2. /\ w \notin stored /\ stored \subseteq stored'
        /\ stored' \cup work' = stored \cup work \cup {w}
    BY <1>1, WrittenRows
  <1>3. CASE Save(w)
    <2>1. registry' \subseteq Kept /\ reload' \in BOOLEAN /\ Registered'
      BY <1>2, <1>3 DEF Save, QueueTypes, Registered
    <2>2. /\ flushing' \in [1..Handlers -> Nat]
          /\ \A h \in 1..Handlers : flushing'[h] # 0 => Style[h] = "draining"
      BY <1>3 DEF Save, QueueTypes, OwnQueues
    <2> QED
      BY <1>1, <1>2, <2>1, <2>2, HeardQueues
  <1>4. CASE SaveAlone(w)
    <2>1. /\ UNCHANGED <<registry, reload>> /\ Style[Listener[w]] = "draining"
          /\ flushing' = [flushing EXCEPT ![Listener[w]] = Len(stack')]
      BY <1>4 DEF SaveAlone
    <2>2. w \notin Kept
      BY <2>1 DEF Kept
    <2>3. registry' \subseteq Kept /\ reload' \in BOOLEAN /\ Registered'
      BY <1>1, <1>2, <2>1, <2>2 DEF QueueTypes, Registered
    <2>4. Len(stack') \in Nat /\ Listener[w] \in 1..Handlers
      <3>1. Notice(Listener[w]) \in Frames /\ Listener[w] \in 1..Handlers
        BY <1>1, HandlersAssumption, ListenerAssumption, NoticeTakesNone
        DEF Heard, Notice, Frames
      <3>2. stack \in Seq(Frames) /\ stack' = Append(stack, Notice(Listener[w]))
        BY <1>4 DEF SaveAlone, ExecuteAlone, Push, IInv, TypeOK
      <3> QED
        BY <3>1, <3>2, AppendProperties, LenProperties
    <2>5. /\ flushing' \in [1..Handlers -> Nat]
          /\ \A h \in 1..Handlers : flushing'[h] # 0 => Style[h] = "draining"
      BY <2>1, <2>4 DEF QueueTypes, OwnQueues
    <2> QED
      BY <1>1, <1>2, <2>1, <2>3, <2>5, HeardQueues
  <1> QED
    BY <1>3, <1>4

\* A save outside any transaction that the registry is not told of.
LEMMA SaveUnauditedQueues ==
  ASSUME QInv, NEW w \in Writes, SaveUnaudited(w)
  PROVE  QInv'
  <1> USE DEF QInv
  <1>1. /\ w \in Kept /\ missed' = missed \cup {w} /\ stored \subseteq stored'
        /\ stored' \cup work' = stored \cup work \cup {w}
        /\ UNCHANGED <<pending, flushing, ran, registry, reload, unaudited>>
    BY WrittenRows DEF SaveUnaudited, Execute
  <1>2. QueueTypes'
    BY <1>1 DEF QueueTypes
  <1>3. OwnQueues'
    BY <1>1 DEF OwnQueues
  <1>4. QueuedIsDue'
    BY <1>1 DEF QueuedIsDue
  <1>5. Registered'
    BY <1>1 DEF Registered
  <1>6. CommittedEffectsOnly' /\ DrainedEffectsOnly' /\ NoEffectTwice'
    BY <1>1 DEF CommittedEffectsOnly, DrainedEffectsOnly, NoEffectTwice
  <1> QED
    BY <1>2, <1>3, <1>4, <1>5, <1>6

\* Emptying the queues that are not being drained.
LEMMA DroppedProperties ==
  ASSUME QueueTypes
  PROVE  /\ Dropped \in [1..Handlers -> SUBSET Writes]
         /\ \A h \in 1..Handlers :
              /\ Dropped[h] \subseteq pending[h]
              /\ flushing[h] = 0 => Dropped[h] = {}
  BY DEF QueueTypes, Dropped

\* A save whose audit entry was refused: what it queues is the one effect
\* nothing is promised of.
LEMMA SaveAuditLostQueues ==
  ASSUME QInv, NEW w \in Writes, SaveAuditLost(w)
  PROVE  QInv'
  <1>1. /\ stored' = stored /\ work' = {} /\ unaudited' = TRUE
        /\ pending' = Queued(Dropped, w) /\ Heard(w)
        /\ UNCHANGED <<flushing, ran, missed, registry>> /\ reload' = FALSE
    BY DEF SaveAuditLost, AuditLost, Reloaded
  <1>2. /\ Dropped \in [1..Handlers -> SUBSET Writes]
        /\ \A h \in 1..Handlers : Dropped[h] \subseteq pending[h]
    BY DroppedProperties DEF QInv
  <1>3. /\ pending' \in [1..Handlers -> SUBSET Writes]
        /\ \A h \in 1..Handlers : \A v \in pending'[h] :
              v \in pending[h] \/ (v = w /\ h = Listener[w] /\ w \notin Kept)
    BY <1>1, <1>2, QueuedProperties
  <1>4. QueueTypes'
    BY <1>1, <1>3 DEF QInv, QueueTypes
  <1>5. OwnQueues'
    <2>1. \A h \in 1..Handlers : Style[h] = "reloading" => pending'[h] = {}
      BY <1>1, <1>3 DEF QInv, OwnQueues, Kept
    <2> QED
      BY <1>1, <1>3, <2>1 DEF QInv, OwnQueues
  <1>6. QueuedIsDue' /\ Registered'
    BY <1>1 DEF QInv, QueuedIsDue, Registered
  <1>7. CommittedEffectsOnly' /\ DrainedEffectsOnly' /\ NoEffectTwice'
    BY <1>1 DEF QInv, CommittedEffectsOnly, DrainedEffectsOnly, NoEffectTwice
  <1> QED
    BY <1>4, <1>5, <1>6, <1>7 DEF QInv

\* An end of a transaction that tells the handlers FALSE.
LEMMA DropQueues ==
  ASSUME QInv, NEW refused \in BOOLEAN, stored' = stored, work' = {},
         pending' = Dropped, Reloaded(refused), UNCHANGED <<flushing, ran, unaudited, missed>>
  PROVE  QInv'
  <1>1. /\ pending' \in [1..Handlers -> SUBSET Writes]
        /\ \A h \in 1..Handlers :
              /\ pending'[h] \subseteq pending[h]
              /\ flushing[h] = 0 => pending'[h] = {}
    BY DroppedProperties DEF QInv
  <1>2. /\ reload' = FALSE
        /\ registry' = registry \/ registry' = stored' \cap Kept
    BY DEF Reloaded
  <1>3. QueueTypes'
    BY <1>1, <1>2 DEF QInv, QueueTypes
  <1>4. OwnQueues'
    BY <1>1 DEF QInv, OwnQueues
  <1>5. QueuedIsDue'
    BY <1>1, Zenon DEF QInv, QueuedIsDue, OwnQueues
  <1>6. Registered'
    BY <1>2 DEF QInv, Registered
  <1>7. CommittedEffectsOnly' /\ DrainedEffectsOnly' /\ NoEffectTwice'
    BY DEF QInv, CommittedEffectsOnly, DrainedEffectsOnly, NoEffectTwice
  <1> QED
    BY <1>3, <1>4, <1>5, <1>6, <1>7 DEF QInv

\* Ends that tell the handlers nothing or tell them TRUE, and the calls around
\* them: no row is lost and none appears.
LEMMA CommitQuietlyQueues ==
  ASSUME IInv, QInv, NEW t \in Threads, CommitQuietly(t) \/ RollbackAgain(t)
  PROVE  QInv'
  <1>1. UNCHANGED effects
    BY DEF CommitQuietly, RollbackAgain
  <1>2. /\ stored \subseteq stored'
        /\ stored \cup work = stored' \cup work'
    <2>1. CASE CommitInner(t) \/ CommitPoisoned(t)
      BY <2>1 DEF CommitInner, CommitPoisoned, data
    <2>2. CASE CommitDone(t)
      BY <2>2 DEF CommitDone
    <2>3. CASE RollbackAgain(t)
      BY <2>3 DEF RollbackAgain, Rollback, IInv, Standing
    <2> QED
      BY <2>1, <2>2, <2>3 DEF CommitQuietly
  <1> QED
    BY <1>1, <1>2, QueuesUntouched

\* Begins, sections and other threads do not touch data or queues.
LEMMA QuietQueues ==
  ASSUME QInv, UNCHANGED effects, UNCHANGED <<stored, work>>
  PROVE  QInv'
  BY QueuesUntouched

\* Guards that are lowered stay within their type and their style.
LEMMA ReturnedProperties ==
  ASSUME QueueTypes
  PROVE  /\ Returned \in [1..Handlers -> Nat]
         /\ \A h \in 1..Handlers : Returned[h] # 0 => flushing[h] # 0
  BY DEF QueueTypes, Returned

\* A handler that returns and one that passes over its queue leave all queues.
LEMMA ReturnQueues ==
  ASSUME QInv, flushing' = Returned,
         UNCHANGED <<pending, ran, registry, reload, unaudited, missed, stored, work>>
  PROVE  QInv'
  <1>1. /\ flushing' \in [1..Handlers -> Nat]
        /\ \A h \in 1..Handlers : flushing'[h] # 0 => flushing[h] # 0
    BY ReturnedProperties DEF QInv
  <1>2. QueueTypes' /\ OwnQueues'
    BY <1>1 DEF QInv, QueueTypes, OwnQueues
  <1>3. QueuedIsDue' /\ Registered'
    BY DEF QInv, QueuedIsDue, Registered
  <1>4. CommittedEffectsOnly' /\ DrainedEffectsOnly' /\ NoEffectTwice'
    BY DEF QInv, CommittedEffectsOnly, DrainedEffectsOnly, NoEffectTwice
  <1> QED
    BY <1>2, <1>3, <1>4 DEF QInv

\* The registry read again between transactions.
LEMMA CallReloadingQueues ==
  ASSUME IInv, NestedInOrder, QInv, CallReloading
  PROVE  QInv'
  <1>1. /\ stored' = stored /\ work' = {} /\ work = {}
        /\ flushing' = Returned /\ UNCHANGED <<pending, ran, unaudited, missed>>
    BY CalledAtRest DEF CallReloading, NextHandler, data, Inside, Calling
  <1>2. /\ reload' = FALSE
        /\ registry' = registry \/ registry' = stored' \cap Kept
    BY DEF CallReloading, Reloaded
  <1>3. /\ flushing' \in [1..Handlers -> Nat]
        /\ \A h \in 1..Handlers : flushing'[h] # 0 => flushing[h] # 0
    BY <1>1, ReturnedProperties DEF QInv
  <1>4. QueueTypes' /\ OwnQueues'
    BY <1>1, <1>2, <1>3 DEF QInv, QueueTypes, OwnQueues
  <1>5. QueuedIsDue' /\ Registered'
    BY <1>1, <1>2 DEF QInv, QueuedIsDue, Registered
  <1>6. CommittedEffectsOnly' /\ DrainedEffectsOnly' /\ NoEffectTwice'
    BY <1>1 DEF QInv, CommittedEffectsOnly, DrainedEffectsOnly, NoEffectTwice
  <1> QED
    BY <1>4, <1>5, <1>6 DEF QInv

\* A detaching handler announces what it took: stored rows, each for the first
\* time.
LEMMA CallDetachingQueues ==
  ASSUME IInv, NestedInOrder, QInv, CallDetaching
  PROVE  QInv'
  <1> DEFINE h == Top.turn + 1
  <1>1. /\ stored' = stored /\ work' = {} /\ work = {}
        /\ flushing' = Returned /\ UNCHANGED <<registry, reload, unaudited, missed>>
        /\ h \in 1..Handlers /\ Style[h] = "detaching"
    BY CalledAtRest DEF CallDetaching, NextHandler, data, Inside, Calling
  <1>2. /\ pending' = [pending EXCEPT ![h] = {}]
        /\ ran' = [w \in Writes |-> IF w \in pending[h] THEN More(w) ELSE ran[w]]
    BY DEF CallDetaching, Taken
  <1> HIDE DEF h
  <1> USE DEF QInv
  <1>3. /\ pending' \in [1..Handlers -> SUBSET Writes]
        /\ \A k \in 1..Handlers : pending'[k] \subseteq pending[k]
        /\ pending'[h] = {} /\ \A k \in 1..Handlers : k # h => pending'[k] = pending[k]
    BY <1>1, <1>2 DEF QueueTypes
  <1>4. \A w \in Writes : ran[w] \in 0..2 /\ More(w) \in 1..2
    BY DEF QueueTypes, More
  <1>5. /\ ran' \in [Writes -> 0..2]
        /\ \A w \in Writes : ran'[w] = IF w \in pending[h] THEN More(w) ELSE ran[w]
    BY <1>2, <1>4 DEF QueueTypes
  <1>6. /\ flushing' \in [1..Handlers -> Nat]
        /\ \A k \in 1..Handlers : flushing'[k] # 0 => flushing[k] # 0
    BY <1>1, ReturnedProperties
  <1>7. QueueTypes'
    BY <1>1, <1>3, <1>5, <1>6 DEF QueueTypes
  <1>8. OwnQueues'
    BY <1>3, <1>6 DEF OwnQueues
  <1>9. \A w \in pending[h] : Listener[w] = h /\ w \in Writes
    BY <1>1 DEF OwnQueues, QueueTypes
  <1>10. \A k \in 1..Handlers : \A w \in pending'[k] : w \in Writes /\ w \notin pending[h]
    BY <1>3, <1>9 DEF OwnQueues, QueueTypes
  <1>11. QueuedIsDue' /\ Registered'
    <2>1. QueuedIsDue'
      <3> SUFFICES ASSUME ~unaudited, NEW k \in 1..Handlers
                   PROVE  /\ Style[k] = "detaching" => pending'[k] \subseteq stored \cup work
                          /\ \A w \in pending'[k] : ran'[w] = 0
        BY <1>1 DEF QueuedIsDue
      <3>1. /\ Style[k] = "detaching" => pending[k] \subseteq stored \cup work
            /\ \A w \in pending[k] : ran[w] = 0
        BY DEF QueuedIsDue
      <3> QED
        BY <1>3, <1>5, <1>10, <3>1
    <2>2. Registered'
      BY <1>1 DEF Registered
    <2> QED
      BY <2>1, <2>2
  <1>12. ~unaudited => \A w \in pending[h] : w \in stored /\ More(w) = 1
    BY <1>1 DEF QueuedIsDue, More
  <1>13. CommittedEffectsOnly'
    BY <1>1, <1>5, <1>12 DEF CommittedEffectsOnly
  <1>14. DrainedEffectsOnly'
    BY <1>1, <1>5, <1>9 DEF DrainedEffectsOnly
  <1>15. NoEffectTwice'
    BY <1>1, <1>5, <1>12 DEF NoEffectTwice
  <1> QED
    BY <1>7, <1>8, <1>11, <1>13, <1>14, <1>15

\* A draining handler runs one effect whose row it found stored.
LEMMA DrainQueues ==
  ASSUME QInv, NEW h \in 1..Handlers, NEW w \in pending[h], Style[h] = "draining",
         UNCHANGED <<stored, work, registry, reload, unaudited, missed>>,
         pending' = [pending EXCEPT ![h] = @ \ {w}], ran' = Given(w),
         flushing' \in [1..Handlers -> Nat],
         \A k \in 1..Handlers : flushing'[k] # 0 => Style[k] = "draining"
  PROVE  QInv'
  <1> USE DEF QInv
  <1>1. w \in Writes /\ Listener[w] = h
    BY DEF QueueTypes, OwnQueues
  <1>2. /\ pending' \in [1..Handlers -> SUBSET Writes]
        /\ \A k \in 1..Handlers : pending'[k] \subseteq pending[k]
        /\ \A k \in 1..Handlers : w \notin pending'[k]
    <2>1. \A k \in 1..Handlers :
            pending'[k] = IF k = h THEN pending[h] \ {w} ELSE pending[k]
      BY DEF QueueTypes
    <2>2. \A k \in 1..Handlers : k # h => w \notin pending[k]
      BY <1>1 DEF OwnQueues
    <2>3. pending' \in [1..Handlers -> SUBSET Writes]
      BY DEF QueueTypes
    <2> QED
      BY <2>1, <2>2, <2>3
  <1>3. ran[w] \in 0..2 /\ More(w) \in 1..2
    BY <1>1 DEF QueueTypes, More
  <1>4. /\ ran' \in [Writes -> 0..2]
        /\ \A v \in Writes : ran'[v] =
              IF v = w /\ w \in stored THEN More(w) ELSE ran[v]
    BY <1>1, <1>3 DEF QueueTypes, Given
  <1>5. QueueTypes' /\ OwnQueues'
    BY <1>2, <1>4 DEF QueueTypes, OwnQueues
  <1>6. QueuedIsDue'
    <2> SUFFICES ASSUME ~unaudited, NEW k \in 1..Handlers
                 PROVE  /\ Style[k] = "detaching" => pending'[k] \subseteq stored \cup work
                        /\ \A v \in pending'[k] : ran'[v] = 0
      BY DEF QueuedIsDue
    <2>1. /\ Style[k] = "detaching" => pending[k] \subseteq stored \cup work
          /\ \A v \in pending[k] : ran[v] = 0
      BY DEF QueuedIsDue
    <2>2. \A v \in pending'[k] : v # w /\ v \in pending[k] /\ v \in Writes
      BY <1>2
    <2> QED
      BY <1>2, <1>4, <2>1, <2>2
  <1>7. Registered'
    BY DEF Registered
  <1>8. ~unaudited => ran[w] = 0 /\ More(w) = 1
    BY DEF QueuedIsDue, More
  <1>9. CommittedEffectsOnly' /\ DrainedEffectsOnly'
    BY <1>4 DEF CommittedEffectsOnly, DrainedEffectsOnly
  <1>10. NoEffectTwice'
    BY <1>4, <1>8 DEF NoEffectTwice
  <1> QED
    BY <1>5, <1>6, <1>7, <1>9, <1>10

\* Both ways a draining handler comes to its next effect.
LEMMA DrainingQueues ==
  ASSUME IInv, QInv, NEW w \in Writes, CallDraining(w) \/ Drain(w)
  PROVE  QInv'
  <1>1. stack # <<>> /\ stack \in Seq(Frames) /\ Len(stack) \in Nat \ {0}
    <2>1. stack # <<>> /\ stack \in Seq(Frames)
      BY DEF IInv, TypeOK, CallDraining, Drain, Inside
    <2> QED
      BY <2>1, EmptySeq, LenProperties
  <1>2. CASE CallDraining(w)
    <2> DEFINE h == Top.turn + 1
    <2>1. /\ h \in 1..Handlers /\ Style[h] = "draining" /\ w \in pending[h]
          /\ flushing' = [Returned EXCEPT ![h] = Len(stack)]
          /\ pending' = [pending EXCEPT ![h] = @ \ {w}] /\ ran' = Given(w)
          /\ UNCHANGED <<stored, work, registry, reload, unaudited, missed>>
      BY <1>2 DEF CallDraining, NextHandler, data
    <2> HIDE DEF h
    <2>2. /\ Returned \in [1..Handlers -> Nat]
          /\ \A k \in 1..Handlers : Returned[k] # 0 => Style[k] = "draining"
      BY ReturnedProperties DEF QInv, OwnQueues
    <2>3. /\ flushing' \in [1..Handlers -> Nat]
          /\ \A k \in 1..Handlers : flushing'[k] # 0 => Style[k] = "draining"
      BY <1>1, <2>1, <2>2
    <2> QED
      BY <2>1, <2>3, DrainQueues
  <1>3. CASE Drain(w)
    <2> DEFINE h == Top.turn
    <2>1. Top \in Frames
      BY <1>1 DEF Top
    <2>2. h \in 1..Handlers
      BY <1>3, <2>1, HandlersAssumption DEF Drain, Frames
    <2>3. /\ flushing[h] # 0 /\ w \in pending[h]
          /\ pending' = [pending EXCEPT ![h] = @ \ {w}] /\ ran' = Given(w)
          /\ UNCHANGED <<stored, work, flushing, registry, reload, unaudited, missed>>
      BY <1>1, <1>3 DEF Drain, Drains, vars
    <2> HIDE DEF h
    <2>4. /\ Style[h] = "draining" /\ flushing \in [1..Handlers -> Nat]
          /\ \A k \in 1..Handlers : flushing[k] # 0 => Style[k] = "draining"
      BY <2>2, <2>3 DEF QInv, OwnQueues, QueueTypes
    <2> QED
      BY <2>2, <2>3, <2>4, DrainQueues
  <1> QED
    BY <1>2, <1>3

-----------------------------------------------------------------------------
(* EffectsIInv is inductive *)

\* Every step keeps the queues' invariant.
LEMMA StepQueues ==
  ASSUME IInv, NestedInOrder, QInv, EffectsNext
  PROVE  QInv'
  <1>1. CASE (\/ BeginOutermost \/ BeginNested \/ EnterSection \/ LeaveSection
              \/ \E t \in Others : Enter(t) \/ Leave(t)) /\ UNCHANGED effects
    <2>1. UNCHANGED <<stored, work>>
      BY <1>1 DEF BeginOutermost, BeginNested, EnterSection, LeaveSection, Enter,
                  Leave, data
    <2> QED
      BY <1>1, <2>1, QuietQueues
  <1>2. CASE \E w \in Writes : \/ WriteUnheard(w) \/ Save(w) \/ SaveAlone(w)
                               \/ SaveUnaudited(w) \/ SaveAuditLost(w)
    BY <1>2, WriteUnheardQueues, SaveQueues, SaveUnauditedQueues, SaveAuditLostQueues
  <1>3. CASE \E t \in Threads : CommitQuietly(t) \/ RollbackAgain(t)
    BY <1>3, CommitQuietlyQueues
  <1>4. CASE \E t \in Threads : CommitRefused(t)
    <2>1. /\ stored' = stored /\ work' = {} /\ pending' = Dropped
          /\ Reloaded(FALSE) /\ UNCHANGED <<flushing, ran, unaudited, missed>>
      BY <1>4 DEF CommitRefused, CommitFails
    <2> QED
      BY <2>1, DropQueues
  <1>5. CASE \E t \in Threads : RollbackOpen(t)
    <2>1. /\ stored' = stored /\ work' = {} /\ pending' = Dropped
          /\ Reloaded(depth' > 0) /\ UNCHANGED <<flushing, ran, unaudited, missed>>
      BY <1>5 DEF RollbackOpen, Rollback
    <2>2. (depth' > 0) \in BOOLEAN
      OBVIOUS
    <2> QED
      BY <2>1, <2>2, DropQueues
  <1>6. CASE CallDetaching
    BY <1>6, CallDetachingQueues
  <1>7. CASE \E w \in Writes : CallDraining(w) \/ Drain(w)
    BY <1>7, DrainingQueues
  <1>8. CASE CallReloading
    BY <1>8, CallReloadingQueues
  <1>9. CASE PassDraining \/ EndAnnouncement \/ EndNotice
    BY <1>9, ReturnQueues
    DEF PassDraining, EndAnnouncement, EndNotice, NextHandler, Announced, Noticed, data
  <1> QED
    BY <1>1, <1>2, <1>3, <1>4, <1>5, <1>6, <1>7, <1>8, <1>9 DEF EffectsNext

\* Every step keeps the whole invariant.
LEMMA EffectsStepInvariant == EffectsIInv /\ [EffectsNext]_allVars => EffectsIInv'
  <1> SUFFICES ASSUME EffectsIInv, [EffectsNext]_allVars PROVE EffectsIInv'
    OBVIOUS
  <1>1. IInv /\ NestedInOrder /\ QInv
    BY DEF EffectsIInv
  <1>2. CASE EffectsNext
    <2>1. Next \/ UNCHANGED vars
      BY <1>2, EffectsStep
    <2>2. IInv'
      BY <1>1, <2>1, StepInvariant
    <2> QED
      BY <1>1, <1>2, <2>1, <2>2, StepNested, StepQueues DEF EffectsIInv
  <1>3. CASE UNCHANGED allVars
    <2>1. UNCHANGED vars /\ UNCHANGED effects
      BY <1>3 DEF allVars
    <2>2. IInv'
      BY <1>1, <2>1, StepInvariant
    <2>3. UNCHANGED <<stored, work>>
      BY <2>1 DEF vars
    <2> QED
      BY <1>1, <2>1, <2>2, <2>3, StepNested, QuietQueues DEF EffectsIInv
  <1> QED
    BY <1>2, <1>3

\* The nesting is empty at the start.
LEMMA EffectsInitInvariant == EffectsInit => EffectsIInv
  <1> SUFFICES ASSUME EffectsInit PROVE EffectsIInv
    OBVIOUS
  <1>1. Init /\ stack = <<>>
    BY DEF EffectsInit, Init
  <1>2. NestedInOrder
    BY <1>1 DEF NestedInOrder
  <1> QED
    BY <1>1, <1>2, InitInvariant, InitQueues DEF EffectsIInv

\* The inductive invariant of transactions, calls and queues holds in every
\* reachable state.
THEOREM EffectsInvariantHolds == EffectsSpec => []EffectsIInv
  BY EffectsInitInvariant, EffectsStepInvariant, PTL DEF EffectsSpec

\* The services implement DatabaseTransaction: with them, the lock, the depth
\* and the outcome of transactions are what they are without them.
THEOREM EffectsImplementTransactions == EffectsSpec => Spec
  <1>1. EffectsInit => Init
    BY DEF EffectsInit
  <1>2. [EffectsNext]_allVars => [Next]_vars
    BY EffectsStep DEF allVars
  <1> QED
    BY <1>1, <1>2, PTL DEF EffectsSpec, Spec

\* So stored data changes by one statement outside any transaction or by the
\* commit of everything since the outermost begin, whatever handlers do.
THEOREM EffectsAllOrNothing == EffectsSpec => AllOrNothing
  BY EffectsImplementTransactions, AllOrNothingHolds

\* And callers still see one flat transaction, while handlers begin, commit and
\* roll back transactions of their own.
THEOREM EffectsKeepTransactionContract == EffectsSpec => KeepsTransactionContract
  BY EffectsImplementTransactions, TransactionContractKept

\* Every variable keeps its type.
THEOREM EffectsTypeCorrect == EffectsSpec => []EffectsTypeOK
  <1>1. EffectsIInv => EffectsTypeOK
    BY DEF EffectsIInv, IInv, QInv, QueueTypes, EffectsTypeOK
  <1> QED
    BY <1>1, EffectsInvariantHolds, PTL

\* As long as every audit entry is written, an effect runs only for a row that
\* is stored.
THEOREM OnlyCommittedEffects == EffectsSpec => []CommittedEffectsOnly
  <1>1. EffectsIInv => CommittedEffectsOnly
    BY DEF EffectsIInv, QInv
  <1> QED
    BY <1>1, EffectsInvariantHolds, PTL

\* A service that reads the row again acts on stored rows only, even when an
\* audit entry was refused.
THEOREM OnlyStoredAreDrained == EffectsSpec => []DrainedEffectsOnly
  <1>1. EffectsIInv => DrainedEffectsOnly
    BY DEF EffectsIInv, QInv
  <1> QED
    BY <1>1, EffectsInvariantHolds, PTL

\* As long as every audit entry is written, no effect runs twice, however the
\* handlers' own transactions call the handlers again.
THEOREM EffectsRunOnce == EffectsSpec => []NoEffectTwice
  <1>1. EffectsIInv => NoEffectTwice
    BY DEF EffectsIInv, QInv
  <1> QED
    BY <1>1, EffectsInvariantHolds, PTL

\* An effect runs once, and for a stored row.
THEOREM EffectsFollowStoredRows == EffectsSpec => []StoredEffectsOnce
  BY OnlyCommittedEffects, OnlyStoredAreDrained, EffectsRunOnce, PTL
  DEF StoredEffectsOnce

\* A stored row the registry was told of is never missing from it.
THEOREM RegistryIsComplete == EffectsSpec => []RegistryMissesNothing
  <1>1. EffectsIInv => RegistryMissesNothing
    BY DEF EffectsIInv, QInv, Registered, RegistryMissesNothing
  <1> QED
    BY <1>1, EffectsInvariantHolds, PTL

-----------------------------------------------------------------------------
(* The handler connected first *)

\* The referral rewards are connected first and drain their queue.
FirstDrains == 1 \in 1..Handlers /\ Style[1] = "draining"

\* The handlers are about to be called.
NotCalledYet == Inside("announcement") /\ Top.turn = 0

\* No code runs in an announcement before its first handler is called, and the
\* call that drains the first queue is under way as long as its guard is up.
FirstCalls ==
    /\ \A i \in 1..Len(stack) :
          stack[i].kind = "announcement" /\ stack[i].turn = 0 => ~stack[i].busy
    /\ flushing[1] # 0 =>
          /\ flushing[1] \in 1..Len(stack)
          /\ stack[flushing[1]].kind \in Calling
          /\ stack[flushing[1]].turn = 1

\* What the first handler heard of is queued while it is open, and once it is
\* stored its effect has run or is queued and about to be drained.
FirstQueue ==
    /\ \A w \in pending[1] : ran[w] = 0
    /\ \A w \in work : Listener[w] = 1 => w \in pending[1]
    /\ \A w \in stored : Listener[w] = 1 =>
          \/ ran[w] = 1
          \/ w \in pending[1] /\ (flushing[1] # 0 \/ NotCalledYet)

FirstInv == EffectsIInv /\ FirstCalls /\ FirstQueue

\* A step that keeps every call of handlers in its place and calls none.
QuietMove ==
    /\ \A i \in 1..Len(stack) : stack[i].kind \in Calling =>
          i \in 1..Len(stack') /\ stack'[i] = stack[i]
    /\ \A i \in 1..Len(stack') :
          \/ i \in 1..Len(stack) /\ stack'[i] = stack[i]
          \/ stack'[i] \in {Operation, Section, Announcement}

\* Such a step keeps the calls of the first handler.
LEMMA QuietCalls ==
  ASSUME FirstCalls, QuietMove, flushing'[1] = flushing[1]
  PROVE  FirstCalls'
  BY DEF FirstCalls, QuietMove, Operation, Section, Announcement

\* A call that begins or returns, other than a handler's, is such a step.
LEMMA NestingIsQuiet ==
  ASSUME stack \in Seq(Frames),
         \/ stack' = Append(stack, Operation) \/ stack' = Append(stack, Section)
         \/ /\ stack # <<>> /\ Top.kind \notin Calling
            /\ stack' = Outer \/ stack' = Append(Outer, Announcement)
  PROVE  QuietMove
  <1>1. Operation \in Frames /\ Section \in Frames /\ Announcement \in Frames
    BY HandlersAssumption DEF Operation, Section, Announcement, Frames
  <1>2. ASSUME NEW f \in {Operation, Section}, stack' = Append(stack, f)
        PROVE  QuietMove
    <2>1. /\ Len(stack') = Len(stack) + 1 /\ Len(stack) \in Nat
          /\ \A i \in 1..Len(stack) : stack'[i] = stack[i]
          /\ stack'[Len(stack) + 1] = f
      BY <1>1, <1>2, AppendProperties, LenProperties
    <2> QED
      BY <2>1 DEF QuietMove
  <1>3. ASSUME stack # <<>>, Top.kind \notin Calling
        PROVE  /\ Outer \in Seq(Frames) /\ Len(Outer) = Len(stack) - 1
               /\ Len(stack) \in Nat \ {0}
               /\ \A i \in 1..Len(Outer) : Outer[i] = stack[i]
    <2>1. Outer \in Seq(Frames)
      BY <1>3, LevelsPop DEF Outer
    <2> QED
      BY <1>3, <2>1, OuterFrames, EmptySeq, LenProperties DEF Outer
  <1>4. CASE /\ stack # <<>> /\ Top.kind \notin Calling
             /\ stack' = Outer
    BY <1>3, <1>4 DEF QuietMove, Top
  <1>5. CASE /\ stack # <<>> /\ Top.kind \notin Calling
             /\ stack' = Append(Outer, Announcement)
    <2> DEFINE r == Outer
    <2>1. /\ Len(stack') = Len(stack)
          /\ \A i \in 1..Len(r) : stack'[i] = r[i]
          /\ stack'[Len(stack)] = Announcement
      BY <1>1, <1>3, <1>5, AppendProperties
    <2>2. \A i \in 1..Len(stack) : i = Len(stack) \/ i \in 1..Len(r)
      BY <1>3, <1>5
    <2> QED
      BY <1>3, <1>5, <2>1, <2>2 DEF QuietMove, Top
  <1> QED
    BY <1>2, <1>4, <1>5

\* While code runs, the handlers of the innermost announcement are being called.
LEMMA RunningIsCalled ==
  ASSUME IInv, FirstCalls, Running \/ Inside("operation") \/ Inside("section")
  PROVE  ~NotCalledYet
  <1>1. stack # <<>> => Len(stack) \in 1..Len(stack)
    BY EmptySeq, LenProperties DEF IInv, TypeOK
  <1> QED
    BY <1>1 DEF FirstCalls, NotCalledYet, Inside, Running, Top

\* A step that queues nothing, runs no effect and touches no row the first
\* handler hears of.
LEMMA FirstUndisturbed ==
  ASSUME FirstCalls, FirstQueue, UNCHANGED <<pending, flushing, ran>>, QuietMove,
         stack' = stack \/ ~NotCalledYet,
         \A w \in stored' : w \in stored \/ Listener[w] # 1,
         \A w \in work' : w \in work \/ Listener[w] # 1
  PROVE  FirstCalls' /\ FirstQueue'
  <1>1. FirstCalls'
    BY QuietCalls
  <1>2. NotCalledYet => NotCalledYet'
    BY DEF NotCalledYet, Inside, Top
  <1> QED
    BY <1>1, <1>2 DEF FirstQueue

\* Calls, statements and ends that tell the handlers nothing.
LEMMA FirstQuietSteps ==
  ASSUME FirstDrains, FirstInv,
         \/ (BeginOutermost \/ BeginNested \/ EnterSection \/ LeaveSection)
              /\ UNCHANGED effects
         \/ \E w \in Writes : WriteUnheard(w) \/ SaveUnaudited(w)
         \/ \E t \in Threads : \/ (CommitInner(t) \/ CommitPoisoned(t)) /\ UNCHANGED effects
                               \/ RollbackAgain(t)
         \/ \E t \in Others : (Enter(t) \/ Leave(t)) /\ UNCHANGED effects
  PROVE  FirstCalls' /\ FirstQueue'
  <1>1. IInv /\ FirstCalls /\ FirstQueue /\ stack \in Seq(Frames)
    BY DEF FirstInv, EffectsIInv, IInv, TypeOK
  <1>2. CASE (BeginOutermost \/ BeginNested \/ EnterSection) /\ UNCHANGED effects
    <2>1. /\ Running /\ UNCHANGED <<stored, work>>
          /\ stack' = Append(stack, Operation) \/ stack' = Append(stack, Section)
      BY <1>2 DEF BeginOutermost, BeginNested, EnterSection, Push, data
    <2> QED
      BY <1>1, <1>2, <2>1, NestingIsQuiet, RunningIsCalled, FirstUndisturbed DEF effects
  <1>3. CASE LeaveSection /\ UNCHANGED effects
    <2>1. /\ Inside("section") /\ UNCHANGED <<stored, work>> /\ stack' = Outer
          /\ stack # <<>> /\ Top.kind \notin Calling
      BY <1>3 DEF LeaveSection, data, Inside, Calling
    <2> QED
      BY <1>1, <1>3, <2>1, NestingIsQuiet, RunningIsCalled, FirstUndisturbed DEF effects
  <1>4. CASE \E w \in Writes : WriteUnheard(w) \/ SaveUnaudited(w)
    <2> PICK w \in Writes : WriteUnheard(w) \/ SaveUnaudited(w)
      BY <1>4
    <2>1. Listener[w] # 1
      BY DEF WriteUnheard, SaveUnaudited, Kept, Heard, FirstDrains
    <2>2. /\ stack' = stack /\ UNCHANGED <<pending, flushing, ran>>
          /\ stored' \subseteq stored \cup {w} /\ work' \subseteq work \cup {w}
      BY DEF WriteUnheard, SaveUnaudited, Execute, Written, effects
    <2>3. QuietMove
      BY <2>2 DEF QuietMove
    <2> QED
      BY <1>1, <2>1, <2>2, <2>3, FirstUndisturbed
  <1>5. CASE \E t \in Threads : \/ (CommitInner(t) \/ CommitPoisoned(t)) /\ UNCHANGED effects
                                \/ RollbackAgain(t)
    <2> PICK t \in Threads : \/ (CommitInner(t) \/ CommitPoisoned(t)) /\ UNCHANGED effects
                             \/ RollbackAgain(t)
      BY <1>5
    <2>1. /\ Ends(t) /\ stack' = Rest(t) /\ stored' = stored /\ UNCHANGED effects
          /\ work' \subseteq work
      BY DEF CommitInner, CommitPoisoned, RollbackAgain, Rollback, data
    <2>2. t = Home
      BY <1>1, <2>1, EndsOwnLevel DEF IInv, Balance
    <2>3. /\ Inside("operation") /\ stack' = Outer
          /\ stack # <<>> /\ Top.kind \notin Calling
      BY <2>1, <2>2 DEF Ends, Rest, Inside, Calling
    <2> QED
      BY <1>1, <2>1, <2>3, NestingIsQuiet, RunningIsCalled, FirstUndisturbed DEF effects
  <1>6. CASE \E t \in Others : (Enter(t) \/ Leave(t)) /\ UNCHANGED effects
    <2>1. UNCHANGED <<stack, stored, work>>
      BY <1>6 DEF Enter, Leave, data
    <2>2. QuietMove
      BY <2>1 DEF QuietMove
    <2> QED
      BY <1>1, <1>6, <2>1, <2>2, FirstUndisturbed DEF effects
  <1> QED
    BY <1>2, <1>3, <1>4, <1>5, <1>6

\* A commit leaves what it stores queued, and the first handler is called next.
LEMMA FirstCommitted ==
  ASSUME FirstInv, NEW t \in Threads, CommitDone(t), UNCHANGED effects
  PROVE  FirstCalls' /\ FirstQueue'
  <1>1. IInv /\ FirstCalls /\ FirstQueue /\ stack \in Seq(Frames)
    BY DEF FirstInv, EffectsIInv, IInv, TypeOK
  <1>2. t = Home
    BY <1>1, EndsOwnLevel DEF IInv, Balance, CommitDone
  <1>3. /\ Inside("operation") /\ stack' = Append(Outer, Announcement)
        /\ stack # <<>> /\ Top.kind \notin Calling
    BY <1>2 DEF CommitDone, Ends, Rest, Inside, Calling
  <1>4. FirstCalls'
    BY <1>1, <1>3, NestingIsQuiet, QuietCalls DEF effects
  <1>5. NotCalledYet'
    <2> DEFINE r == Outer
    <2>1. r \in Seq(Frames) /\ Announcement \in Frames
      <3>1. r \in Seq(Frames)
        BY <1>1, <1>3, LevelsPop DEF Outer
      <3> QED
        BY <3>1, HandlersAssumption DEF Announcement, Frames
    <2> HIDE DEF r
    <2>2. /\ Append(r, Announcement) # <<>>
          /\ Append(r, Announcement)[Len(Append(r, Announcement))] = Announcement
      BY <2>1, AppendProperties
    <2>3. stack' # <<>> /\ stack'[Len(stack')] = Announcement
      BY <1>3, <2>2 DEF r
    <2> QED
      BY <2>3 DEF NotCalledYet, Inside, Top, Announcement
  <1>6. stored' = stored \cup work /\ work' = {} /\ UNCHANGED <<pending, flushing, ran>>
    BY DEF CommitDone, effects
  <1> QED
    BY <1>1, <1>4, <1>5, <1>6 DEF FirstQueue

\* What a save queues for the first handler has not run.
LEMMA FirstQueued ==
  ASSUME FirstDrains, FirstInv, NEW w \in Writes, Heard(w), w \notin stored,
         pending' = Queued(pending, w)
  PROVE  /\ pending[1] \subseteq pending'[1]
         /\ \A v \in pending'[1] : v \in pending[1] \/ (v = w /\ Listener[w] = 1)
         /\ Listener[w] = 1 => ran[w] = 0 /\ w \in pending'[1]
  <1>1. /\ DrainedEffectsOnly /\ ran[w] \in 0..2
        /\ pending \in [1..Handlers -> SUBSET Writes]
    BY DEF FirstInv, EffectsIInv, QInv, QueueTypes
  <1>2. \A h \in 1..Handlers :
          /\ pending[h] \subseteq Queued(pending, w)[h]
          /\ \A v \in Queued(pending, w)[h] :
                v \in pending[h] \/ (v = w /\ h = Listener[w] /\ w \notin Kept)
    BY <1>1, QueuedProperties
  <1>3. /\ pending[1] \subseteq pending'[1]
        /\ \A v \in pending'[1] : v \in pending[1] \/ (v = w /\ Listener[w] = 1)
    BY <1>2, Zenon DEF FirstDrains
  <1>4. Listener[w] = 1 => w \notin Kept /\ ran[w] = 0
    BY <1>1 DEF FirstDrains, Kept, DrainedEffectsOnly
  <1>5. Listener[w] = 1 => w \in pending'[1]
    BY <1>1, <1>4 DEF Queued, FirstDrains
  <1> QED
    BY <1>3, <1>4, <1>5

\* A save is queued for the handler that listens: its row is not stored yet, or
\* the handler is draining its queue.
LEMMA FirstSaved ==
  ASSUME FirstDrains, FirstInv, NEW w \in Writes, Save(w)
  PROVE  FirstCalls' /\ FirstQueue'
  <1>1. IInv /\ FirstCalls /\ FirstQueue
    BY DEF FirstInv, EffectsIInv
  <1>2. /\ Running /\ stack' = stack /\ Heard(w) /\ Noted(w) /\ Written(w)
        /\ UNCHANGED <<flushing, ran>> /\ pending' = Queued(pending, w)
    BY DEF Save, Execute
  <1>3. FirstCalls' /\ ~NotCalledYet
    <2>1. QuietMove
      BY <1>2 DEF QuietMove
    <2> QED
      BY <1>1, <1>2, <2>1, QuietCalls, RunningIsCalled
  <1>4. /\ w \notin stored /\ stored' \subseteq stored \cup {w}
        /\ work' \subseteq work \cup {w} /\ (depth > 0 => stored' = stored)
    BY <1>2, WrittenRows DEF Written
  <1>5. /\ pending[1] \subseteq pending'[1]
        /\ \A v \in pending'[1] : v \in pending[1] \/ (v = w /\ Listener[w] = 1)
        /\ Listener[w] = 1 => ran[w] = 0 /\ w \in pending'[1]
    BY <1>2, <1>4, FirstQueued
  <1>6. Listener[w] = 1 => stored' = stored \/ flushing[1] # 0
    BY <1>2, <1>4 DEF Noted, Kept, FirstDrains
  <1>7. \A v \in stored' : Listener[v] = 1 =>
          ran[v] = 1 \/ (v \in pending'[1] /\ flushing[1] # 0)
    BY <1>1, <1>3, <1>4, <1>5, <1>6 DEF FirstQueue
  <1>8. \A v \in work' : Listener[v] = 1 => v \in pending'[1]
    BY <1>1, <1>4, <1>5 DEF FirstQueue
  <1> QED
    BY <1>1, <1>2, <1>3, <1>5, <1>7, <1>8 DEF FirstQueue

\* After a save outside any transaction the listener is at work on its queue.
LEMMA FirstSavedAlone ==
  ASSUME FirstDrains, FirstInv, NEW w \in Writes, SaveAlone(w)
  PROVE  FirstCalls' /\ FirstQueue'
  <1> DEFINE h == Listener[w]
  <1>1. /\ IInv /\ FirstCalls /\ FirstQueue /\ stack \in Seq(Frames)
        /\ flushing \in [1..Handlers -> Nat]
    BY DEF FirstInv, EffectsIInv, IInv, TypeOK, QInv, QueueTypes
  <1>2. /\ Running /\ Heard(w) /\ Written(w) /\ depth = 0 /\ flushing[h] = 0
        /\ stack' = Append(stack, Notice(h)) /\ ran' = ran
        /\ pending' = Queued(pending, w)
        /\ flushing' = [flushing EXCEPT ![h] = Len(stack')]
    BY DEF SaveAlone, ExecuteAlone, Push
  <1>3. h \in 1..Handlers
    BY <1>2, HandlersAssumption, ListenerAssumption DEF Heard
  <1>4. /\ Len(stack') = Len(stack) + 1 /\ Len(stack) \in Nat
        /\ \A i \in 1..Len(stack) : stack'[i] = stack[i]
        /\ stack'[Len(stack) + 1].kind = "notice" /\ stack'[Len(stack) + 1].turn = h
    <2>1. Notice(h) \in Frames /\ Notice(h).kind = "notice" /\ Notice(h).turn = h
      BY <1>3, HandlersAssumption DEF Notice, Frames
    <2> QED
      BY <1>1, <1>2, <2>1, AppendProperties, LenProperties
  <1>5. ~NotCalledYet
    BY <1>1, <1>2, RunningIsCalled
  <1>6. /\ h = 1 => flushing'[1] = Len(stack) + 1
        /\ h # 1 => flushing'[1] = flushing[1]
    BY <1>1, <1>2, <1>3, <1>4 DEF FirstDrains
  <1>7. /\ w \notin stored /\ stored' = stored \cup {w} /\ work' = work
    BY <1>1, <1>2, WrittenRows DEF IInv, DepthBalanced
  <1>8. /\ pending[1] \subseteq pending'[1]
        /\ \A v \in pending'[1] : v \in pending[1] \/ (v = w /\ h = 1)
        /\ h = 1 => ran[w] = 0 /\ w \in pending'[1]
    BY <1>2, <1>7, FirstQueued
  <1> HIDE DEF h
  <1>9. FirstCalls'
    BY <1>1, <1>4, <1>6 DEF FirstCalls, Calling
  <1>10. \A v \in stored' : Listener[v] = 1 =>
           ran[v] = 1 \/ (v \in pending'[1] /\ flushing'[1] # 0)
    <2>1. \A v \in stored : Listener[v] = 1 =>
            ran[v] = 1 \/ (v \in pending[1] /\ flushing[1] # 0)
      BY <1>1, <1>5 DEF FirstQueue
    <2> QED
      BY <1>2, <1>4, <1>6, <1>7, <1>8, <2>1 DEF h
  <1> QED
    BY <1>1, <1>2, <1>7, <1>8, <1>9, <1>10 DEF FirstQueue

\* A rollback empties the first queue unless it is being drained, and then no
\* stored row waits in it.
LEMMA FirstDropped ==
  ASSUME FirstInv, QuietMove, ~NotCalledYet, UNCHANGED <<flushing, ran>>,
         stored' = stored, work' = {}, 1 \in 1..Handlers,
         Dropped[1] \subseteq pending'[1],
         \A w \in pending'[1] : w \in pending[1] \/ ran[w] = 0
  PROVE  FirstCalls' /\ FirstQueue'
  <1>1. FirstCalls /\ FirstQueue
    BY DEF FirstInv
  <1>2. FirstCalls'
    BY <1>1, QuietCalls
  <1>3. flushing[1] # 0 => pending[1] \subseteq pending'[1]
    BY DEF Dropped
  <1> QED
    BY <1>1, <1>2, <1>3 DEF FirstQueue

\* All steps that tell the handlers of a rollback.
LEMMA FirstRolledBack ==
  ASSUME FirstDrains, FirstInv,
         \/ \E w \in Writes : SaveAuditLost(w)
         \/ \E t \in Threads : CommitRefused(t) \/ RollbackOpen(t)
  PROVE  FirstCalls' /\ FirstQueue'
  <1>1. /\ IInv /\ FirstCalls /\ DrainedEffectsOnly /\ QueueTypes
        /\ stack \in Seq(Frames) /\ 1 \in 1..Handlers
    BY DEF FirstInv, EffectsIInv, QInv, IInv, TypeOK, FirstDrains
  <1>2. CASE \E w \in Writes : SaveAuditLost(w)
    <2> PICK w \in Writes : SaveAuditLost(w)
      BY <1>2
    <2>1. /\ Running /\ stack' = stack /\ UNCHANGED <<flushing, ran>> /\ Heard(w)
          /\ w \notin stored /\ stored' = stored /\ work' = {}
          /\ pending' = Queued(Dropped, w)
      BY DEF SaveAuditLost, AuditLost
    <2>2. QuietMove /\ ~NotCalledYet
      <3>1. QuietMove
        BY <2>1 DEF QuietMove
      <3> QED
        BY <1>1, <2>1, <3>1, RunningIsCalled
    <2>3. /\ Dropped \in [1..Handlers -> SUBSET Writes]
          /\ Dropped[1] \subseteq pending[1]
      BY <1>1, DroppedProperties
    <2>4. /\ Dropped[1] \subseteq pending'[1]
          /\ \A v \in pending'[1] : v \in Dropped[1] \/ (v = w /\ Listener[w] = 1)
      <3>1. \A h \in 1..Handlers :
              /\ Dropped[h] \subseteq Queued(Dropped, w)[h]
              /\ \A v \in Queued(Dropped, w)[h] :
                    v \in Dropped[h] \/ (v = w /\ h = Listener[w] /\ w \notin Kept)
        BY <2>1, <2>3, QueuedProperties
      <3> QED
        BY <1>1, <2>1, <3>1, Zenon
    <2>5. Listener[w] = 1 => ran[w] = 0
      BY <1>1, <2>1 DEF FirstDrains, DrainedEffectsOnly, QueueTypes
    <2> QED
      BY <1>1, <2>1, <2>2, <2>3, <2>4, <2>5, FirstDropped
  <1>3. CASE \E t \in Threads : CommitRefused(t) \/ RollbackOpen(t)
    <2> PICK t \in Threads : CommitRefused(t) \/ RollbackOpen(t)
      BY <1>3
    <2>1. /\ Ends(t) /\ stack' = Rest(t) /\ UNCHANGED <<flushing, ran>>
          /\ stored' = stored /\ work' = {} /\ pending' = Dropped
      BY DEF CommitRefused, CommitFails, RollbackOpen, Rollback
    <2>2. t = Home
      BY <1>1, <2>1, EndsOwnLevel DEF IInv, Balance
    <2>3. /\ Inside("operation") /\ stack' = Outer
          /\ stack # <<>> /\ Top.kind \notin Calling
      BY <2>1, <2>2 DEF Ends, Rest, Inside, Calling
    <2>4. QuietMove /\ ~NotCalledYet
      BY <1>1, <2>3, NestingIsQuiet, RunningIsCalled
    <2>5. pending'[1] \subseteq pending[1] /\ pending'[1] = Dropped[1]
      BY <1>1, <2>1, DroppedProperties
    <2> QED
      BY <1>1, <2>1, <2>4, <2>5, FirstDropped
  <1> QED
    BY <1>2, <1>3

-----------------------------------------------------------------------------
(* Calling the handlers *)

\* Emission goes on to a handler after the first, or ends: a first handler that
\* returns has emptied its queue.
LEMMA FirstPassed ==
  ASSUME FirstInv, 1 \in 1..Handlers, stack # <<>>, AtRest,
         ~NotCalledYet, flushing'[1] = Returned[1], pending'[1] = pending[1],
         \A w \in Writes : Listener[w] = 1 => ran'[w] = ran[w],
         UNCHANGED <<stored, work>>,
         1..(Len(stack) - 1) \subseteq 1..Len(stack'),
         \A i \in 1..Len(stack') :
            /\ i \in 1..Len(stack)
            /\ IF i = Len(stack) THEN stack'[i].turn # 0 ELSE stack'[i] = stack[i]
  PROVE  FirstCalls' /\ FirstQueue'
  <1>1. /\ FirstCalls /\ FirstQueue
        /\ stored \subseteq Writes /\ pending[1] \subseteq Writes
        /\ \A w \in pending[1] : Listener[w] = 1
        /\ Len(stack) \in Nat
    BY LenProperties DEF FirstInv, EffectsIInv, IInv, TypeOK, QInv, QueueTypes,
       OwnQueues
  <1>2. flushing'[1] = IF flushing[1] = Len(stack) THEN 0 ELSE flushing[1]
    BY DEF Returned, Drains
  <1>3. flushing[1] # 0 /\ flushing[1] = Len(stack) => pending[1] = {}
    <2>1. flushing[1] # 0 /\ flushing[1] = Len(stack) => Top.turn = 1
      BY <1>1 DEF FirstCalls, Top
    <2> QED
      BY <2>1 DEF AtRest, Drains
  <1>4. FirstCalls'
    <2>1. \A i \in 1..Len(stack') :
            stack'[i].kind = "announcement" /\ stack'[i].turn = 0 => ~stack'[i].busy
      BY <1>1 DEF FirstCalls
    <2>2. flushing'[1] # 0 =>
            /\ flushing'[1] \in 1..Len(stack')
            /\ stack'[flushing'[1]].kind \in Calling
            /\ stack'[flushing'[1]].turn = 1
      <3> SUFFICES ASSUME flushing'[1] # 0
                   PROVE  /\ flushing'[1] \in 1..Len(stack')
                          /\ stack'[flushing'[1]].kind \in Calling
                          /\ stack'[flushing'[1]].turn = 1
        OBVIOUS
      <3>1. flushing'[1] = flushing[1] /\ flushing[1] # 0 /\ flushing[1] # Len(stack)
        BY <1>2
      <3>2. /\ flushing[1] \in 1..(Len(stack) - 1)
            /\ stack[flushing[1]].kind \in Calling
            /\ stack[flushing[1]].turn = 1
        BY <1>1, <3>1 DEF FirstCalls
      <3>3. flushing[1] \in 1..Len(stack') /\ stack'[flushing[1]] = stack[flushing[1]]
        BY <3>1, <3>2
      <3> QED
        BY <3>1, <3>2, <3>3
    <2> QED
      BY <2>1, <2>2 DEF FirstCalls
  <1>5. \A w \in stored : Listener[w] = 1 =>
          ran[w] = 1 \/ (w \in pending[1] /\ flushing[1] # 0)
    BY <1>1 DEF FirstQueue
  <1> QED
    BY <1>1, <1>2, <1>3, <1>4, <1>5 DEF FirstQueue

\* What a call of the next handler does to the calls under way.
LEMMA NextHandlerCalls ==
  ASSUME IInv, NEW works \in BOOLEAN, NextHandler(works)
  PROVE  /\ Len(stack) \in Nat \ {0} /\ Len(stack') = Len(stack)
         /\ \A i \in 1..Len(stack) : i # Len(stack) => stack'[i] = stack[i]
         /\ stack'[Len(stack)].kind = "announcement"
         /\ stack'[Len(stack)].turn = Top.turn + 1
         /\ Top.turn \in Nat /\ UNCHANGED <<stored, work>>
  <1> DEFINE n == Len(stack)
             f == [stack[n] EXCEPT !.turn = Top.turn + 1, !.busy = works]
  <1>1. n \in 1..n /\ stack \in Seq(Frames) /\ stack[n] \in Frames /\ n \in Nat \ {0}
    <2>1. stack # <<>> /\ stack \in Seq(Frames)
      BY DEF IInv, TypeOK, NextHandler, Inside
    <2> QED
      BY <2>1, EmptySeq, LenProperties
  <1>2. stack' = [stack EXCEPT ![n] = f]
    BY <1>1 DEF NextHandler
  <1>3. f.kind = "announcement" /\ f.turn = Top.turn + 1 /\ Top.turn \in Nat
    BY <1>1, HandlersAssumption DEF Frames, NextHandler, Inside, Top
  <1> HIDE DEF f
  <1>4. /\ Len(stack') = n /\ stack'[n] = f
        /\ \A i \in 1..n : i # n => stack'[i] = stack[i]
    BY <1>1, <1>2
  <1> QED
    BY <1>1, <1>3, <1>4 DEF NextHandler, data

\* The first handler is called: it drains its queue, or passes over a queue
\* that is empty or being drained further out.
LEMMA FirstCalled ==
  ASSUME FirstDrains, FirstInv, Top.turn = 0,
         PassDraining \/ \E w \in Writes : CallDraining(w)
  PROVE  FirstCalls' /\ FirstQueue'
  <1>1. /\ IInv /\ NestedInOrder /\ FirstCalls /\ FirstQueue /\ QueueTypes
        /\ 1 \in 1..Handlers /\ stored \subseteq Writes
    BY DEF FirstInv, EffectsIInv, QInv, FirstDrains, IInv, TypeOK
  <1>2. /\ Len(stack) \in Nat \ {0} /\ Len(stack') = Len(stack)
        /\ \A i \in 1..Len(stack) : i # Len(stack) => stack'[i] = stack[i]
        /\ stack'[Len(stack)].kind = "announcement" /\ stack'[Len(stack)].turn = 1
        /\ UNCHANGED <<stored, work>> /\ work = {}
    <2>1. Inside("announcement") /\ \E works \in BOOLEAN : NextHandler(works)
      BY DEF PassDraining, CallDraining
    <2>2. work = {}
      BY <1>1, <2>1, CalledAtRest DEF Inside, Calling
    <2> QED
      BY <1>1, <2>1, <2>2, NextHandlerCalls
  <1>3. flushing[1] # Len(stack)
    BY <1>1, <1>2 DEF FirstCalls, Top
  <1>4. Returned[1] = flushing[1]
    BY <1>1, <1>3 DEF Returned, Drains
  <1>5. \A i \in 1..Len(stack') :
          stack'[i].kind = "announcement" /\ stack'[i].turn = 0 => ~stack'[i].busy
    BY <1>1, <1>2 DEF FirstCalls
  <1>6. CASE PassDraining
    <2>1. /\ flushing[1] # 0 \/ pending[1] = {}
          /\ flushing'[1] = flushing[1] /\ UNCHANGED <<pending, ran>>
      BY <1>4, <1>6 DEF PassDraining
    <2>2. FirstCalls'
      BY <1>1, <1>2, <1>3, <1>5, <2>1 DEF FirstCalls
    <2> QED
      BY <1>1, <1>2, <2>1, <2>2 DEF FirstQueue
  <1>7. CASE \E w \in Writes : CallDraining(w)
    <2> PICK w \in Writes : CallDraining(w)
      BY <1>7
    <2>1. /\ w \in pending[1] /\ flushing' = [Returned EXCEPT ![1] = Len(stack)]
          /\ pending' = [pending EXCEPT ![1] = @ \ {w}] /\ ran' = Given(w)
      BY DEF CallDraining
    <2>2. flushing'[1] = Len(stack)
      BY <1>1, <2>1, ReturnedProperties
    <2>3. /\ pending'[1] = pending[1] \ {w} /\ pending[1] \subseteq Writes
          /\ \A v \in Writes : ran'[v] = IF v = w /\ w \in stored THEN More(w) ELSE ran[v]
          /\ More(w) = 1
      BY <1>1, <2>1 DEF QueueTypes, Given, More, FirstQueue
    <2>4. FirstCalls'
      BY <1>2, <1>5, <2>2 DEF FirstCalls, Calling
    <2> QED
      BY <1>1, <1>2, <2>2, <2>3, <2>4 DEF FirstQueue
  <1> QED
    BY <1>6, <1>7

\* All the other calls of handlers, and the end of an announcement.
LEMMA OthersCalled ==
  ASSUME FirstDrains, FirstInv,
         \/ CallDetaching \/ CallReloading \/ EndAnnouncement \/ EndNotice
         \/ Top.turn # 0 /\ (PassDraining \/ \E w \in Writes : CallDraining(w))
  PROVE  FirstCalls' /\ FirstQueue'
  <1>1. /\ IInv /\ NestedInOrder /\ QueueTypes /\ OwnQueues
        /\ 1 \in 1..Handlers /\ Style[1] = "draining"
    BY DEF FirstInv, EffectsIInv, QInv, FirstDrains
  <1>2. stack # <<>> /\ AtRest
    BY DEF CallDetaching, CallReloading, EndAnnouncement, EndNotice, PassDraining,
           CallDraining, Noticed, Inside
  <1>3. Top.turn \in Nat
    <2>1. Top \in Frames
      BY <1>1, <1>2, EmptySeq, LenProperties DEF IInv, TypeOK, Top
    <2> QED
      BY <2>1, HandlersAssumption DEF Frames
  <1>4. CASE EndAnnouncement \/ EndNotice
    <2>1. /\ ~NotCalledYet /\ stack' = Outer /\ stack # <<>> /\ stack \in Seq(Frames)
          /\ UNCHANGED <<stored, work, pending, ran>> /\ flushing' = Returned
      BY <1>1, <1>4, HandlersAssumption
      DEF EndAnnouncement, EndNotice, Announced, Noticed, NotCalledYet, Inside, data,
          IInv, TypeOK
    <2>2. /\ Len(stack') = Len(stack) - 1 /\ Len(stack) \in Nat \ {0}
          /\ \A i \in 1..Len(stack') : stack'[i] = stack[i]
      BY <2>1, OuterFrames, EmptySeq, LenProperties DEF Outer
    <2> QED
      BY <1>1, <1>2, <2>1, <2>2, FirstPassed
  <1>5. CASE \/ CallDetaching \/ CallReloading
             \/ Top.turn # 0 /\ (PassDraining \/ \E w \in Writes : CallDraining(w))
    <2> DEFINE h == Top.turn + 1
    <2>1. ~NotCalledYet /\ h # 1 /\ h \in Nat
      <3>1. CallDetaching \/ CallReloading => Style[h] # "draining"
        BY DEF CallDetaching, CallReloading
      <3>2. CallDetaching \/ CallReloading => h # 1
        BY <1>1, <3>1
      <3> HIDE DEF h
      <3>3. CallDetaching \/ CallReloading => Top.turn # 0
        BY <1>3, <3>2 DEF h
      <3>4. Top.turn # 0
        BY <1>5, <3>3
      <3> QED
        BY <1>3, <3>4 DEF h, NotCalledYet
    <2>2. /\ Len(stack) \in Nat \ {0} /\ Len(stack') = Len(stack)
          /\ \A i \in 1..Len(stack) : i # Len(stack) => stack'[i] = stack[i]
          /\ stack'[Len(stack)].turn = Top.turn + 1
          /\ UNCHANGED <<stored, work>>
      <3>1. \E works \in BOOLEAN : NextHandler(works)
        BY <1>5 DEF CallDetaching, CallReloading, PassDraining, CallDraining
      <3> QED
        BY <1>1, <3>1, NextHandlerCalls
    <2>3. /\ flushing'[1] = Returned[1] /\ pending'[1] = pending[1]
          /\ \A w \in Writes : Listener[w] = 1 => ran'[w] = ran[w]
      <3>1. CASE CallReloading \/ PassDraining
        BY <3>1 DEF CallReloading, PassDraining
      <3>2. CASE CallDetaching
        <4>1. /\ h \in 1..Handlers /\ flushing' = Returned
              /\ pending' = [pending EXCEPT ![h] = {}]
              /\ ran' = [w \in Writes |-> IF w \in pending[h] THEN More(w) ELSE ran[w]]
          BY <3>2 DEF CallDetaching, Taken
        <4>2. \A w \in pending[h] : Listener[w] # 1
          BY <1>1, <2>1, <4>1 DEF OwnQueues
        <4> QED
          BY <1>1, <2>1, <4>1, <4>2 DEF QueueTypes
      <3>3. CASE \E w \in Writes : CallDraining(w)
        <4> PICK w \in Writes : CallDraining(w)
          BY <3>3
        <4>1. /\ h \in 1..Handlers /\ w \in pending[h] /\ ran' = Given(w)
              /\ flushing' = [Returned EXCEPT ![h] = Len(stack)]
              /\ pending' = [pending EXCEPT ![h] = @ \ {w}]
          BY DEF CallDraining
        <4>2. Listener[w] # 1
          BY <1>1, <2>1, <4>1 DEF OwnQueues
        <4>3. \A v \in Writes : Listener[v] = 1 => ran'[v] = ran[v]
          BY <1>1, <4>1, <4>2 DEF Given, QueueTypes
        <4>4. flushing'[1] = Returned[1] /\ pending'[1] = pending[1]
          BY <1>1, <2>1, <4>1, ReturnedProperties DEF QueueTypes
        <4> QED
          BY <4>3, <4>4
      <3> QED
        BY <1>5, <3>1, <3>2, <3>3
    <2>4. \A i \in 1..Len(stack') : i \in 1..Len(stack) /\
            IF i = Len(stack) THEN stack'[i].turn # 0 ELSE stack'[i] = stack[i]
      BY <1>3, <2>2
    <2>5. 1..(Len(stack) - 1) \subseteq 1..Len(stack')
      BY <2>2
    <2> QED
      BY <1>1, <1>2, <2>1, <2>2, <2>3, <2>4, <2>5, FirstPassed
  <1> QED
    BY <1>4, <1>5

\* The call that drains takes one more effect.
LEMMA FirstDrained ==
  ASSUME FirstDrains, FirstInv, NEW w \in Writes, Drain(w)
  PROVE  FirstCalls' /\ FirstQueue'
  <1>1. /\ IInv /\ NestedInOrder /\ FirstCalls /\ FirstQueue /\ QueueTypes /\ OwnQueues
        /\ 1 \in 1..Handlers /\ stored \subseteq Writes
    BY DEF FirstInv, EffectsIInv, QInv, FirstDrains, IInv, TypeOK
  <1> DEFINE h == Top.turn
  <1>2. /\ h # 0 /\ flushing[h] = Len(stack) /\ w \in pending[h]
        /\ pending' = [pending EXCEPT ![h] = @ \ {w}] /\ ran' = Given(w)
        /\ UNCHANGED <<stack, stored, work, flushing>> /\ stack # <<>>
    BY DEF Drain, Drains, vars
  <1>3. h \in 1..Handlers /\ Len(stack) \in Nat \ {0}
    <2>1. Top \in Frames /\ Len(stack) \in Nat \ {0}
      BY <1>1, <1>2, EmptySeq, LenProperties DEF IInv, TypeOK, Top
    <2> QED
      BY <1>1, <1>2, <2>1, HandlersAssumption DEF Frames
  <1>4. FirstCalls'
    BY <1>1, <1>2 DEF FirstCalls
  <1>5. \A v \in Writes : ran'[v] = IF v = w /\ w \in stored THEN More(w) ELSE ran[v]
    BY <1>1, <1>2 DEF QueueTypes, Given
  <1>6. CASE h = 1
    <2>1. /\ pending'[1] = pending[1] \ {w} /\ pending[1] \subseteq Writes
          /\ flushing[1] # 0
      BY <1>1, <1>2, <1>3, <1>6 DEF QueueTypes
    <2>2. More(w) = 1
      BY <1>1, <1>2, <1>6 DEF FirstQueue, More
    <2>3. work = {}
      <3>1. Top.kind \in Calling
        BY <1>1, <1>2, <1>3, <1>6 DEF FirstCalls, Top
      <3> QED
        BY <1>1, <1>2, <3>1, CalledAtRest
    <2> HIDE DEF h
    <2> QED
      BY <1>1, <1>2, <1>3, <1>4, <1>5, <2>1, <2>2, <2>3 DEF FirstQueue
  <1>7. CASE h # 1
    <2>1. pending'[1] = pending[1] /\ pending[1] \subseteq Writes
      BY <1>1, <1>2, <1>3, <1>7 DEF QueueTypes
    <2>2. Listener[w] # 1 /\ \A v \in pending[1] : Listener[v] = 1
      BY <1>1, <1>2, <1>3, <1>7 DEF OwnQueues
    <2>3. NotCalledYet' = NotCalledYet
      BY <1>2 DEF NotCalledYet, Inside, Top
    <2> HIDE DEF h
    <2> QED
      BY <1>1, <1>2, <1>3, <1>4, <1>5, <2>1, <2>2, <2>3 DEF FirstQueue
  <1> QED
    BY <1>6, <1>7

\* Every step keeps the invariant of the first handler.
LEMMA FirstStep ==
  ASSUME FirstDrains, FirstInv, [EffectsNext]_allVars
  PROVE  FirstInv'
  <1>1. EffectsIInv'
    BY EffectsStepInvariant DEF FirstInv
  <1>2. CASE EffectsNext
    <2> SUFFICES FirstCalls' /\ FirstQueue'
      BY <1>1 DEF FirstInv
    <2>1. CASE CallDetaching \/ CallReloading \/ EndAnnouncement \/ EndNotice
      BY <2>1, OthersCalled
    <2>2. CASE PassDraining \/ \E w \in Writes : CallDraining(w)
      BY <2>2, OthersCalled, FirstCalled
    <2>3. CASE \E w \in Writes : Save(w) \/ SaveAlone(w) \/ Drain(w)
      BY <2>3, FirstSaved, FirstSavedAlone, FirstDrained
    <2>4. CASE \E t \in Threads : CommitDone(t) /\ UNCHANGED effects
      BY <2>4, FirstCommitted
    <2>5. CASE \/ \E w \in Writes : SaveAuditLost(w)
               \/ \E t \in Threads : CommitRefused(t) \/ RollbackOpen(t)
      BY <2>5, FirstRolledBack
    <2>6. CASE \/ (BeginOutermost \/ BeginNested \/ EnterSection \/ LeaveSection)
                    /\ UNCHANGED effects
               \/ \E w \in Writes : WriteUnheard(w) \/ SaveUnaudited(w)
               \/ \E t \in Threads :
                    \/ (CommitInner(t) \/ CommitPoisoned(t)) /\ UNCHANGED effects
                    \/ RollbackAgain(t)
               \/ \E t \in Others : (Enter(t) \/ Leave(t)) /\ UNCHANGED effects
      BY <2>6, FirstQuietSteps
    <2> QED
      BY <1>2, <2>1, <2>2, <2>3, <2>4, <2>5, <2>6 DEF EffectsNext, CommitQuietly
  <1>3. CASE UNCHANGED allVars
    <2>1. UNCHANGED <<stack, stored, work, pending, flushing, ran>>
      BY <1>3 DEF allVars, vars, effects
    <2>2. FirstCalls'
      BY <2>1 DEF FirstInv, FirstCalls
    <2>3. FirstQueue'
      BY <2>1 DEF FirstInv, FirstQueue, NotCalledYet, Inside, Top
    <2> QED
      BY <1>1, <2>2, <2>3 DEF FirstInv
  <1> QED
    BY <1>2, <1>3

\* When the database is idle, the handler connected first, if it drains its
\* queue, has run the effect of every stored row it heard of exactly once,
\* whatever was rolled back or refused meanwhile, its own work included.
THEOREM FirstMissesNothing ==
  ASSUME FirstDrains
  PROVE  EffectsSpec => []FirstHandlerMissesNothing
  <1>1. EffectsInit => FirstInv
    <2> SUFFICES ASSUME EffectsInit PROVE FirstInv
      OBVIOUS
    <2>1. EffectsIInv
      BY EffectsInitInvariant
    <2>2. /\ stack = <<>> /\ stored = {} /\ work = {} /\ flushing[1] = 0
          /\ pending[1] = {}
      BY DEF EffectsInit, Init, FirstDrains
    <2> QED
      BY <2>1, <2>2 DEF FirstInv, FirstCalls, FirstQueue
  <1>2. FirstInv /\ [EffectsNext]_allVars => FirstInv'
    BY FirstStep
  <1>3. FirstInv => FirstHandlerMissesNothing
    <2> SUFFICES ASSUME FirstInv, stack = <<>>, NEW w \in stored, Listener[w] = 1
                 PROVE  ran[w] = 1
      BY DEF FirstHandlerMissesNothing
    <2>1. flushing[1] = 0
      BY DEF FirstInv, FirstCalls
    <2> QED
      BY <2>1 DEF FirstInv, FirstQueue, NotCalledYet, Inside
  <1> QED
    BY <1>1, <1>2, <1>3, PTL DEF EffectsSpec

=============================================================================
