------------------------ MODULE BusinessEventsProofs ------------------------
(***************************************************************************)
(* The log of events and its delivery, for any connections, consumers,     *)
(* hooks, batch and page sizes and any number of faults.  Three            *)
(* strengthenings carry the proofs: Ordered places every event that is not *)
(* yet committed above every committed one, Escaped says that only rows of *)
(* committed events are on their way out, and Ledger counts the copies.    *)
(***************************************************************************)
EXTENDS BusinessEventsRefinement, FiniteSetTheorems, TLAPS

\* Events are written under the lock, in an open transaction, and above all
\* that is committed.
Ordered ==
    /\ \A e \in committed : e <= nextId
    /\ \A c \in Connections :
          written[c] # {} => feedLock = c /\ open[c]
    /\ \A c \in Connections : \A e \in written[c] :
          e <= nextId /\ \A f \in committed : f < e
    /\ \A r \in Readers : cursor[r] = 0 \/ cursor[r] \in committed

\* Rows a sweep holds belong to committed events, and so does what was sent.
Escaped ==
    /\ \A d \in batch : d[1] \in committed
    /\ sending # NoDelivery => sending[1] \in committed
    /\ OnlyCommittedIsSent

\* A row has one request at most, and none once it is delivered.
Balance(d) ==
    /\ asked[d] + agreed[d] <= 1
    /\ asked[d] + agreed[d] = 1 => d \in inflight
    /\ rows[d].delivered =>
          asked[d] = 0 /\ agreed[d] = 0 /\ d \notin batch /\ sending # d
    /\ ~rows[d].delivered => received[d] = agreed[d] + excused[d]
    /\ rows[d].delivered => received[d] = 1 + agreed[d] + excused[d]

Ledger ==
    /\ \A d \in Deliveries : Balance(d)
    /\ sending # NoDelivery => sending \notin inflight

-----------------------------------------------------------------------------
(* Types *)

\* A delivery is of an event.
LEMMA DeliveryOfEvent == \A d \in Deliveries : d[1] \in Events /\ d[2] \in Hooks
  BY DEF Deliveries

LEMMA RowTypes ==
  /\ NoRow \in Row
  /\ NewRow \in Row
  /\ NoRow.delivered = FALSE /\ NewRow.delivered = FALSE
  <1>1. 0 \in 0..MaxAttempts
    BY LimitsAssumption
  <1> QED
    BY <1>1 DEF NoRow, NewRow, Row

\* A delay is a number of ticks.
LEMMA DelayType == \A n \in Nat : Delay(n) \in Int
  <1> TAKE n \in Nat
  <1> DEFINE i == IF n > 6 THEN 7 ELSE n + 1
  <1>1. i \in 1..7
    OBVIOUS
  <1>2. Doubling[i] \in Int
    BY <1>1 DEF Doubling
  <1> QED
    BY <1>2, LimitsAssumption DEF Delay

\* What recording an attempt does to the rows.
LEMMA RetainedType ==
  ASSUME rows \in [Deliveries -> Row], NEW d \in Deliveries
  PROVE  /\ Retained(d) \in [Deliveries -> Row]
         /\ \A e \in Deliveries : Retained(d)[e].delivered = rows[e].delivered
  <1>1. rows[d] \in Row
    OBVIOUS
  <1>2. rows[d].attempts \in 0..MaxAttempts /\ Delay(rows[d].attempts) \in Int
    BY <1>1, DelayType, LimitsAssumption DEF Row
  <1> DEFINE n == IF rows[d].attempts < MaxAttempts
                   THEN rows[d].attempts + 1 ELSE rows[d].attempts
  <1>3. n \in 0..MaxAttempts
    BY <1>2, LimitsAssumption
  <1>4. Retained(d) = [rows EXCEPT ![d].attempts = n,
                                   ![d].next = Delay(rows[d].attempts)]
    BY <1>1, <1>2 DEF Retained
  <1> HIDE DEF n
  <1> QED
    BY ZenonT(40), <1>1, <1>2, <1>3, <1>4 DEF Row

\* Every step keeps the types.
LEMMA TypeStep == TypeOK /\ [Next]_vars => TypeOK'
  <1> SUFFICES ASSUME TypeOK, [Next]_vars PROVE TypeOK'
    OBVIOUS
  <1> USE ConnectionsAssumption, EventsAssumption, LimitsAssumption
  <1>1. CASE UNCHANGED vars
    BY <1>1 DEF TypeOK, vars, feed, readers, sweep, network
  <1>2. ASSUME NEW c \in Connections, Begin(c) PROVE TypeOK'
    BY <1>2 DEF TypeOK, Begin, readers, sweep, network
  <1>3. ASSUME NEW c \in Connections, Capture(c) PROVE TypeOK'
    <2>1. nextId' \in 0..MaxEvents /\ nextId + 1 \in Events
      BY <1>3 DEF TypeOK, Capture, Record, Events
    <2>2. written' \in [Connections -> SUBSET Events]
      BY <1>3, <2>1 DEF TypeOK, Capture, Record
    <2>3. rows' \in [Deliveries -> Row]
      BY <1>3, RowTypes DEF TypeOK, Capture, Record
    <2> QED
      BY <1>3, <2>1, <2>2, <2>3 DEF TypeOK, Capture, readers, sweep, network
  <1>4. ASSUME NEW c \in Connections, Commit(c) PROVE TypeOK'
    BY <1>4 DEF TypeOK, Commit, Ended, readers, sweep, network
  <1>5. ASSUME NEW c \in Connections, Rollback(c) PROVE TypeOK'
    BY <1>5, RowTypes DEF TypeOK, Rollback, Ended, Forgotten, readers, sweep, network
  <1>6. ASSUME NEW r \in Readers, Read(r) PROVE TypeOK'
    <2>2. Page(r) \subseteq Events
      BY DEF TypeOK, Page
    <2>3. Events \subseteq 0..MaxEvents
      BY DEF Events
    <2>1. Page(r) \subseteq Events /\ Events \subseteq 0..MaxEvents
      BY <2>2, <2>3
    <2> QED
      BY <1>6, <2>1 DEF TypeOK, Read, feed, sweep, network
  <1>7. ASSUME NEW h \in Hooks, NEW state \in HookStates, Configure(h, state)
        PROVE TypeOK'
    BY <1>7 DEF TypeOK, Configure, feed, readers, sweep, network
  <1>8. CASE Dispatch
    <2>1. batch' \subseteq Deliveries
      BY <1>8 DEF Dispatch
    <2> QED
      BY <1>8, <2>1 DEF TypeOK, Dispatch, feed, readers, network
  <1>9. CASE Send
    BY <1>9 DEF TypeOK, Send, feed, readers
  <1>10. ASSUME NEW d \in Deliveries, PassInflight(d) PROVE TypeOK'
    BY <1>10 DEF TypeOK, PassInflight, feed, readers, network
  <1>11. ASSUME NEW d \in Deliveries, Defer(d) PROVE TypeOK'
    <2>1. rows' \in [Deliveries -> Row]
      BY <1>11 DEF TypeOK, Defer, Row
    <2> QED
      BY <1>11, <2>1 DEF TypeOK, Defer, feed, readers, network
  <1>12. ASSUME NEW d \in Deliveries, Retain(d) PROVE TypeOK'
    <2>1. rows' \in [Deliveries -> Row]
      BY <1>12, RetainedType DEF TypeOK, Retain
    <2> QED
      BY <1>12, <2>1 DEF TypeOK, Retain, feed, readers, network
  <1>13. CASE SweepRefused
    BY <1>13 DEF TypeOK, SweepRefused, Fault, feed, readers, network
  <1>14. ASSUME NEW d \in Deliveries, Accept(d) \/ AcceptLate(d) \/ LoseLate(d)
         PROVE TypeOK'
    BY <1>14 DEF TypeOK, Accept, AcceptLate, LoseLate, feed, readers, sweep
  <1>15. ASSUME NEW d \in Deliveries, Answer(d) PROVE TypeOK'
    <2>1. rows' \in [Deliveries -> Row]
      BY <1>15 DEF TypeOK, Answer, Row
    <2> QED
      BY <1>15, <2>1 DEF TypeOK, Answer, Done, feed, readers, sweep
  <1>16. ASSUME NEW d \in Deliveries, AnswerUnrecorded(d) \/ Refuse(d) \/ TimeOut(d)
         PROVE TypeOK'
    BY <1>16 DEF TypeOK, AnswerUnrecorded, Refuse, TimeOut, Done, Fault, feed,
                 readers, sweep
  <1>17. CASE Crash
    BY <1>17, RowTypes DEF TypeOK, Crash, Fault, Forgotten, readers
  <1>18. CASE Tick
    <2>1. rows' \in [Deliveries -> Row]
      BY <1>18 DEF TypeOK, Tick, Row
    <2> QED
      BY <1>18, <2>1 DEF TypeOK, Tick, feed, readers, sweep, network
  <1> QED
    BY <1>1, <1>2, <1>3, <1>4, <1>5, <1>6, <1>7, <1>8, <1>9, <1>10, <1>11, <1>12,
       <1>13, <1>14, <1>15, <1>16, <1>17, <1>18 DEF Next, SweepStep

\* The types, for every value of the constants.
THEOREM EventsTypeCorrect == Spec => []TypeOK
  <1>1. Init => TypeOK
    BY ConnectionsAssumption, EventsAssumption, LimitsAssumption, RowTypes
    DEF Init, TypeOK
  <1> QED
    BY <1>1, TypeStep, PTL DEF Spec

-----------------------------------------------------------------------------
(* The order of the log *)

\* Events of a transaction that ends are above all that was committed before,
\* and no other transaction has any.
LEMMA OrderedStep == TypeOK /\ Ordered /\ [Next]_vars => Ordered'
  <1> SUFFICES ASSUME TypeOK, Ordered, [Next]_vars PROVE Ordered'
    OBVIOUS
  <1> USE ConnectionsAssumption, EventsAssumption DEF Events
  <1>1. CASE UNCHANGED <<feed, readers>>
    BY <1>1 DEF Ordered, feed, readers
  <1>2. ASSUME NEW c \in Connections, Begin(c) PROVE Ordered'
    BY <1>2 DEF TypeOK, Ordered, Begin, readers
  <1>3. ASSUME NEW c \in Connections, Capture(c) PROVE Ordered'
    <2>1. /\ nextId' = nextId + 1
          /\ written' = [written EXCEPT ![c] = @ \cup {nextId + 1}]
          /\ feedLock \in {c, Nobody} /\ feedLock' = c /\ open[c]
          /\ UNCHANGED <<open, committed, cursor, seen>>
      BY <1>3 DEF Capture, Record, readers
    <2>2. \A d \in Connections : d # c => written[d] = {}
      BY <2>1 DEF Ordered
    <2>3. nextId \in Int /\ committed \subseteq Int
          /\ \A d \in Connections : written[d] \subseteq Int
      BY DEF TypeOK
    <2>4. \A f \in committed : f < nextId + 1
      BY <2>3 DEF Ordered
    <2> QED
      BY <2>1, <2>2, <2>3, <2>4 DEF TypeOK, Ordered
  <1>4. ASSUME NEW c \in Connections, Commit(c) PROVE Ordered'
    <2>1. /\ committed' = committed \cup written[c]
          /\ written' = [written EXCEPT ![c] = {}]
          /\ open' = [open EXCEPT ![c] = FALSE]
          /\ feedLock' = IF feedLock = c THEN Nobody ELSE feedLock
          /\ UNCHANGED <<nextId, cursor, seen>>
      BY <1>4 DEF Commit, Ended, readers
    <2>2. CASE written[c] = {}
      BY <2>1, <2>2 DEF TypeOK, Ordered
    <2>3. CASE written[c] # {}
      <3>1. \A d \in Connections : written'[d] = {}
        BY <2>1, <2>3 DEF TypeOK, Ordered
      <3> QED
        BY <2>1, <3>1 DEF TypeOK, Ordered
    <2> QED
      BY <2>2, <2>3
  <1>5. ASSUME NEW c \in Connections, Rollback(c) PROVE Ordered'
    BY <1>5 DEF TypeOK, Ordered, Rollback, Ended, readers
  <1>6. ASSUME NEW r \in Readers, Read(r) PROVE Ordered'
    <2>1. Page(r) \subseteq committed
      BY DEF Page
    <2> QED
      BY <1>6, <2>1 DEF TypeOK, Ordered, Read, feed
  <1>7. CASE Crash
    BY <1>7 DEF TypeOK, Ordered, Crash, readers
  <1>8. CASE UNCHANGED vars
    BY <1>1, <1>8 DEF vars
  <1>9. ASSUME NEW h \in Hooks, NEW state \in HookStates, Configure(h, state)
        PROVE Ordered'
    BY <1>1, <1>9 DEF Configure
  <1>10. CASE Dispatch \/ Send \/ SweepRefused \/ Tick
    BY <1>1, <1>10 DEF Dispatch, Send, SweepRefused, Tick
  <1>11. ASSUME NEW d \in Deliveries, PassInflight(d) \/ Defer(d) \/ Retain(d)
         PROVE Ordered'
    BY <1>1, <1>11 DEF PassInflight, Defer, Retain
  <1>12. ASSUME NEW d \in Deliveries, Accept(d) \/ AcceptLate(d) \/ LoseLate(d)
         PROVE Ordered'
    BY <1>1, <1>12 DEF Accept, AcceptLate, LoseLate
  <1>13. ASSUME NEW d \in Deliveries,
                Answer(d) \/ AnswerUnrecorded(d) \/ Refuse(d) \/ TimeOut(d)
         PROVE Ordered'
    BY <1>1, <1>13 DEF Answer, AnswerUnrecorded, Refuse, TimeOut
  <1> QED
    BY <1>2, <1>3, <1>4, <1>5, <1>6, <1>7, <1>8, <1>9, <1>10, <1>11, <1>12, <1>13
    DEF Next, SweepStep

\* A page leaves no committed event between the cursor it started from and
\* the one it hands out.
LEMMA PageIsComplete ==
  ASSUME TypeOK, NEW r \in Readers, NEW last \in Page(r),
         NEW e \in committed, e <= last
  PROVE  e <= cursor[r] \/ e \in Page(r)
  <1> SUFFICES ASSUME e > cursor[r] PROVE e \in Page(r)
    BY EventsAssumption DEF TypeOK, Events
  <1> DEFINE after == {f \in committed : f > cursor[r]}
             low == {f \in after : f <= e}
             all == {f \in after : f <= last}
  <1>1. committed \subseteq 1..MaxEvents /\ last \in committed
    BY DEF TypeOK, Events, Page
  <1>2. IsFiniteSet(1..MaxEvents)
    BY EventsAssumption, FS_Interval
  <1>3. all \subseteq 1..MaxEvents /\ low \subseteq all
    <2>1. all \subseteq committed
      OBVIOUS
    <2>2. \A f \in low : f \in after /\ f <= last
      BY <1>1, EventsAssumption
    <2> QED
      BY <1>1, <2>1, <2>2
  <1>4. IsFiniteSet(all)
    BY <1>2, <1>3, FS_Subset
  <1>5. Cardinality(low) <= Cardinality(all)
    BY <1>3, <1>4, FS_Subset
  <1>6. Cardinality(all) <= PageLimit
    BY DEF Page
  <1>7. Cardinality(low) \in Nat /\ Cardinality(all) \in Nat
    BY <1>3, <1>4, FS_Subset, FS_CardinalityType
  <1>8. Cardinality(low) <= PageLimit
    BY <1>5, <1>6, <1>7, LimitsAssumption
  <1> QED
    BY <1>8 DEF Page

\* What commits is above every cursor, and a page skips nothing.
LEMMA ReaderStep ==
  TypeOK /\ Ordered /\ ReaderMissesNothing /\ [Next]_vars => ReaderMissesNothing'
  <1> SUFFICES ASSUME TypeOK, Ordered, ReaderMissesNothing, [Next]_vars
               PROVE  ReaderMissesNothing'
    OBVIOUS
  <1>1. CASE UNCHANGED <<committed, cursor, seen>>
    BY <1>1 DEF ReaderMissesNothing
  <1>2. ASSUME NEW c \in Connections, Commit(c) PROVE ReaderMissesNothing'
    <2>1. \A r \in Readers, e \in written[c] : ~(e <= cursor[r])
      BY EventsAssumption DEF TypeOK, Ordered, Events
    <2> QED
      BY <1>2, <2>1 DEF ReaderMissesNothing, Commit, readers
  <1>3. ASSUME NEW r \in Readers, Read(r) PROVE ReaderMissesNothing'
    <2>1. PICK last \in Page(r) : cursor' = [cursor EXCEPT ![r] = last]
      BY <1>3 DEF Read
    <2>2. seen' = [seen EXCEPT ![r] = @ \cup Page(r)] /\ committed' = committed
      BY <1>3 DEF Read, feed
    <2>3. \A e \in committed : e <= last => e <= cursor[r] \/ e \in Page(r)
      BY PageIsComplete
    <2>4. cursor \in [Readers -> 0..MaxEvents] /\ seen \in [Readers -> SUBSET Events]
      BY DEF TypeOK
    <2> QED
      BY <2>1, <2>2, <2>3, <2>4 DEF ReaderMissesNothing
  <1>4. ASSUME NEW c \in Connections, Begin(c) \/ Capture(c) \/ Rollback(c)
        PROVE  ReaderMissesNothing'
    BY <1>1, <1>4 DEF Begin, Capture, Rollback, readers
  <1>5. CASE UNCHANGED vars
    BY <1>1, <1>5 DEF vars, feed, readers
  <1>6. ASSUME NEW h \in Hooks, NEW state \in HookStates, Configure(h, state)
        PROVE ReaderMissesNothing'
    BY <1>1, <1>6 DEF Configure, feed, readers
  <1>7. CASE Dispatch \/ Send \/ SweepRefused \/ Tick \/ Crash
    BY <1>1, <1>7 DEF Dispatch, Send, SweepRefused, Tick, Crash, feed, readers
  <1>8. ASSUME NEW d \in Deliveries, PassInflight(d) \/ Defer(d) \/ Retain(d)
        PROVE ReaderMissesNothing'
    BY <1>1, <1>8 DEF PassInflight, Defer, Retain, feed, readers
  <1>9. ASSUME NEW d \in Deliveries, Accept(d) \/ AcceptLate(d) \/ LoseLate(d)
        PROVE ReaderMissesNothing'
    BY <1>1, <1>9 DEF Accept, AcceptLate, LoseLate, feed, readers
  <1>10. ASSUME NEW d \in Deliveries,
                Answer(d) \/ AnswerUnrecorded(d) \/ Refuse(d) \/ TimeOut(d)
         PROVE ReaderMissesNothing'
    BY <1>1, <1>10 DEF Answer, AnswerUnrecorded, Refuse, TimeOut, feed, readers
  <1> QED
    BY <1>2, <1>3, <1>4, <1>5, <1>6, <1>7, <1>8, <1>9, <1>10 DEF Next, SweepStep

\* Every type, and the order of the log, from the start.
LEMMA LogInvariant == Spec => [](TypeOK /\ Ordered)
  <1>1. Init => Ordered
    BY EventsAssumption DEF Init, Ordered
  <1>2. Init => TypeOK
    BY ConnectionsAssumption, EventsAssumption, LimitsAssumption, RowTypes
    DEF Init, TypeOK
  <1> QED
    BY <1>1, <1>2, TypeStep, OrderedStep, PTL DEF Spec

\* A consumer that keeps its cursor misses no event, however many connections
\* write and whatever the page size.
THEOREM ReadersMissNothing == Spec => []ReaderMissesNothing
  <1>1. Init => ReaderMissesNothing
    BY DEF Init, ReaderMissesNothing
  <1> QED
    BY <1>1, LogInvariant, ReaderStep, PTL DEF Spec

-----------------------------------------------------------------------------
(* What leaves the server *)

\* A sweep starts outside a transaction, so it sees committed rows only.
LEMMA DueIsCommitted ==
  ASSUME TypeOK, Ordered, ~open[Server], NEW d \in Deliveries, Due(d)
  PROVE  d[1] \in committed
  <1>1. written[Server] = {}
    BY ConnectionsAssumption DEF Ordered
  <1> QED
    BY <1>1 DEF Due, Visible

LEMMA EscapedStep == TypeOK /\ Ordered /\ Escaped /\ [Next]_vars => Escaped'
  <1> SUFFICES ASSUME TypeOK, Ordered, Escaped, [Next]_vars PROVE Escaped'
    OBVIOUS
  <1> USE DEF Escaped, OnlyCommittedIsSent
  <1>1. CASE /\ committed \subseteq committed'
             /\ batch' \subseteq batch
             /\ sending' \in {sending, NoDelivery}
             /\ UNCHANGED <<asked, orphaned, received>>
    BY <1>1 DEF TypeOK
  <1>2. CASE Dispatch
    <2>1. \A d \in batch' : d \in Deliveries /\ Due(d)
      BY <1>2 DEF Dispatch, IsBatch
    <2>2. \A d \in batch' : d[1] \in committed
      BY <1>2, <2>1, DueIsCommitted DEF Dispatch
    <2> QED
      BY <1>2, <2>2 DEF Dispatch, feed, network
  <1>3. ASSUME NEW d \in Deliveries, Retain(d) PROVE Escaped'
    BY <1>3 DEF Retain, Turn, feed, network
  <1>4. CASE Send
    BY <1>4 DEF TypeOK, Send, feed
  <1>5. ASSUME NEW d \in Deliveries, Accept(d) PROVE Escaped'
    BY <1>5 DEF TypeOK, Accept, feed, sweep
  <1>6. ASSUME NEW d \in Deliveries, AcceptLate(d) PROVE Escaped'
    BY <1>6 DEF TypeOK, AcceptLate, feed, sweep
  <1>7. ASSUME NEW d \in Deliveries, LoseLate(d) PROVE Escaped'
    BY <1>7 DEF TypeOK, LoseLate, feed, sweep
  <1>8. ASSUME NEW d \in Deliveries, Refuse(d) PROVE Escaped'
    BY <1>8 DEF TypeOK, Refuse, feed, sweep
  <1>9. ASSUME NEW d \in Deliveries, TimeOut(d) PROVE Escaped'
    BY <1>9 DEF TypeOK, TimeOut, feed, sweep
  <1>10. CASE Crash
    BY <1>10 DEF TypeOK, Crash
  <1>11. ASSUME NEW c \in Connections,
                Begin(c) \/ Capture(c) \/ Commit(c) \/ Rollback(c)
         PROVE Escaped'
    BY <1>1, <1>11 DEF Begin, Capture, Commit, Rollback, sweep, network
  <1>12. ASSUME NEW r \in Readers, Read(r) PROVE Escaped'
    BY <1>1, <1>12 DEF Read, feed, sweep, network
  <1>13. ASSUME NEW h \in Hooks, NEW state \in HookStates, Configure(h, state)
         PROVE Escaped'
    BY <1>1, <1>13 DEF Configure, feed, sweep, network
  <1>14. ASSUME NEW d \in Deliveries, PassInflight(d) \/ Defer(d) PROVE Escaped'
    BY <1>1, <1>14 DEF PassInflight, Defer, feed, network
  <1>15. CASE SweepRefused \/ Tick \/ UNCHANGED vars
    BY <1>1, <1>15 DEF SweepRefused, Tick, vars, feed, sweep, network
  <1>16. ASSUME NEW d \in Deliveries, Answer(d) \/ AnswerUnrecorded(d) PROVE Escaped'
    BY <1>1, <1>16 DEF Answer, AnswerUnrecorded, feed, sweep
  <1> QED
    BY <1>2, <1>3, <1>4, <1>5, <1>6, <1>7, <1>8, <1>9, <1>10, <1>11, <1>12,
       <1>13, <1>14, <1>15, <1>16 DEF Next, SweepStep

LEMMA EscapedInvariant == Spec => []Escaped
  <1>1. Init => Escaped
    BY DEF Init, Escaped, OnlyCommittedIsSent
  <1> QED
    BY <1>1, LogInvariant, EscapedStep, PTL DEF Spec

\* A rolled-back outcome never leaves the server.
THEOREM OnlyCommittedLeaves == Spec => []OnlyCommittedIsSent
  <1>1. Escaped => OnlyCommittedIsSent
    BY DEF Escaped
  <1> QED
    BY <1>1, EscapedInvariant, PTL

-----------------------------------------------------------------------------
(* The copies *)

\* A row that is written or taken back has no history.
LEMMA FreshRow ==
  ASSUME TypeOK, Ordered, Escaped, Ledger, NEW d \in Deliveries,
         d[1] \notin committed
  PROVE  ~rows[d].delivered /\ received[d] = 0 /\ agreed[d] = 0 /\ excused[d] = 0
  <1>2. asked[d] \in Nat /\ orphaned[d] \in Nat /\ received[d] \in Nat
    BY DEF TypeOK
  <1>3. ~(asked[d] + orphaned[d] + received[d] > 0)
    BY DEF Escaped, OnlyCommittedIsSent
  <1>1. received[d] = 0
    BY <1>2, <1>3
  <1> QED
    BY <1>1 DEF TypeOK, Ledger, Balance

\* The numbers of a row.
LEMMA Counts ==
  ASSUME TypeOK, NEW d \in Deliveries
  PROVE  /\ asked[d] \in Nat /\ agreed[d] \in Nat /\ orphaned[d] \in Nat
         /\ received[d] \in Nat /\ excused[d] \in Nat
         /\ rows[d].delivered \in BOOLEAN
  BY DEF TypeOK, Row

LEMMA LedgerStep ==
  TypeOK /\ TypeOK' /\ Ordered /\ Escaped /\ Ledger /\ [Next]_vars => Ledger'
  <1> SUFFICES ASSUME TypeOK, TypeOK', Ordered, Escaped, Ledger, [Next]_vars
               PROVE  Ledger'
    OBVIOUS
  <1> USE DEF Ledger, Balance
  <1>1. CASE /\ \A d \in Deliveries : rows'[d].delivered = rows[d].delivered
             /\ batch' \subseteq batch
             /\ sending' \in {sending, NoDelivery}
             /\ UNCHANGED <<inflight, asked, agreed, received, excused>>
    <2>1. \A d \in Deliveries : Balance(d)'
      BY <1>1, NoDeliveryAssumption
    <2> QED
      BY <1>1, <2>1
  <1>2. ASSUME NEW c \in Connections, Capture(c) PROVE Ledger'
    <2>1. nextId + 1 \notin committed
      BY EventsAssumption DEF TypeOK, Ordered, Events
    <2>2. \A d \in Deliveries : rows'[d].delivered = rows[d].delivered
      <3> TAKE d \in Deliveries
      <3>1. CASE rows'[d] = rows[d]
        BY <3>1
      <3>2. CASE d[1] = nextId + 1 /\ rows'[d] = NewRow
        <4>1. ~rows[d].delivered
          BY <2>1, <3>2, FreshRow
        <4>2. ~rows'[d].delivered
          BY <3>2, RowTypes
        <4>3. rows[d].delivered \in BOOLEAN /\ rows'[d].delivered \in BOOLEAN
          BY DEF TypeOK, Row
        <4> QED
          BY <4>1, <4>2, <4>3
      <3> QED
        BY <1>2, <3>1, <3>2 DEF Capture, Record
    <2> QED
      BY <1>1, <1>2, <2>2 DEF Capture, sweep, network
  <1>3. ASSUME NEW c \in Connections, rows' = Forgotten(c)
        PROVE  \A d \in Deliveries : rows'[d].delivered = rows[d].delivered
    <2> TAKE d \in Deliveries
    <2>1. CASE d[1] \in written[c]
      <3>1. d[1] \notin committed
        BY <2>1, EventsAssumption DEF TypeOK, Ordered, Events
      <3>2. ~rows[d].delivered /\ ~rows'[d].delivered
        BY <1>3, <2>1, <3>1, FreshRow, RowTypes DEF Forgotten
      <3>3. rows[d].delivered \in BOOLEAN /\ rows'[d].delivered \in BOOLEAN
        BY DEF TypeOK, Row
      <3> QED
        BY <3>2, <3>3
    <2> QED
      BY <1>3, <2>1 DEF Forgotten
  <1>4. ASSUME NEW c \in Connections, Rollback(c) PROVE Ledger'
    BY <1>1, <1>3, <1>4 DEF Rollback, sweep, network
  <1>5. CASE Crash
    <2>1. \A d \in Deliveries : rows'[d].delivered = rows[d].delivered
      BY <1>3, <1>5, ConnectionsAssumption DEF Crash
    <2> QED
      <3>1. \A d \in Deliveries :
              /\ asked'[d] = 0 /\ agreed'[d] = 0
              /\ excused'[d] = excused[d] + agreed[d]
              /\ received'[d] = received[d]
        BY <1>5 DEF Crash
      <3>2. batch' = {} /\ sending' = NoDelivery
        BY <1>5 DEF Crash
      <3>3. ASSUME NEW d \in Deliveries PROVE Balance(d)'
        BY <2>1, <3>1, <3>2, Counts, NoDeliveryAssumption
      <3> QED
        BY <3>2, <3>3
  <1>6. CASE Dispatch
    <2>1. \A d \in batch' : ~rows[d].delivered
      BY <1>6 DEF Dispatch, IsBatch, Due
    <2> QED
      <3>1. UNCHANGED <<rows, sending, inflight, asked, agreed, received, excused>>
        BY <1>6 DEF Dispatch, network
      <3> QED
        BY <2>1, <3>1
  <1>7. ASSUME NEW d \in Deliveries, Retain(d) PROVE Ledger'
    <2>1. \A e \in Deliveries : rows'[e].delivered = rows[e].delivered
      BY <1>7, RetainedType DEF TypeOK, Retain
    <2>2. ~rows[d].delivered /\ d \notin inflight
      BY <1>7 DEF Retain, Turn
    <2> QED
      BY <1>7, <2>1, <2>2, NoDeliveryAssumption DEF Retain, network
  <1>8. CASE Send
    <2> DEFINE d == sending
    <2>1. /\ d \in Deliveries /\ d \notin inflight
          /\ inflight' = inflight \cup {d}
          /\ asked' = [asked EXCEPT ![d] = @ + 1]
          /\ sending' = NoDelivery
          /\ UNCHANGED <<rows, batch, agreed, received, excused>>
      BY <1>8 DEF TypeOK, Send
    <2>2. asked[d] = 0 /\ agreed[d] = 0
      BY <2>1, Counts
    <2>3. ~rows[d].delivered
      BY <2>1
    <2> HIDE DEF d
    <2> QED
      BY <2>1, <2>2, <2>3, NoDeliveryAssumption DEF TypeOK
  <1>9. ASSUME NEW d \in Deliveries, Accept(d) PROVE Ledger'
    <2>1. asked[d] = 1 /\ agreed[d] = 0 /\ ~rows[d].delivered
      BY <1>9, Counts DEF Accept
    <2>2. asked'[d] = 0 /\ agreed'[d] = 1 /\ received'[d] = received[d] + 1
      BY <1>9, <2>1 DEF TypeOK, Accept
    <2> QED
      BY <1>9, <2>1, <2>2, Counts DEF TypeOK, Accept, sweep
  <1>10. ASSUME NEW d \in Deliveries, AcceptLate(d) PROVE Ledger'
    BY <1>10 DEF TypeOK, AcceptLate, sweep
  <1>11. ASSUME NEW d \in Deliveries, LoseLate(d) PROVE Ledger'
    BY <1>1, <1>11 DEF LoseLate, sweep
  <1>12. ASSUME NEW d \in Deliveries, Answer(d) PROVE Ledger'
    <2>1. agreed[d] = 1 /\ asked[d] = 0 /\ ~rows[d].delivered
      BY <1>12, Counts DEF Answer
    <2>2. rows'[d].delivered
          /\ \A e \in Deliveries : e # d => rows'[e] = rows[e]
      BY <1>12 DEF TypeOK, Row, Answer
    <2> QED
      BY <1>12, <2>1, <2>2, NoDeliveryAssumption
      DEF TypeOK, Answer, Done, AtRest, sweep
  <1>13. ASSUME NEW d \in Deliveries, AnswerUnrecorded(d) PROVE Ledger'
    <2>1. agreed[d] = 1 /\ asked[d] = 0 /\ ~rows[d].delivered
      BY <1>13, Counts DEF AnswerUnrecorded
    <2>2. agreed'[d] = 0 /\ excused'[d] = excused[d] + 1
      BY <1>13, <2>1 DEF TypeOK, AnswerUnrecorded
    <2> QED
      BY <1>13, <2>1, <2>2, Counts DEF TypeOK, AnswerUnrecorded, Done, sweep
  <1>14. ASSUME NEW d \in Deliveries, Refuse(d) \/ TimeOut(d) PROVE Ledger'
    BY <1>14 DEF TypeOK, Refuse, TimeOut, Done, sweep
  <1>15. ASSUME NEW d \in Deliveries, Defer(d) PROVE Ledger'
    <2>1. \A e \in Deliveries : rows'[e].delivered = rows[e].delivered
      BY <1>15 DEF TypeOK, Row, Defer
    <2> QED
      BY <1>1, <1>15, <2>1 DEF Defer, network
  <1>16. CASE Tick
    <2>1. \A e \in Deliveries : rows'[e].delivered = rows[e].delivered
      BY <1>16 DEF TypeOK, Row, Tick
    <2> QED
      BY <1>1, <1>16, <2>1 DEF Tick, sweep, network
  <1>17. ASSUME NEW c \in Connections, Begin(c) \/ Commit(c) PROVE Ledger'
    BY <1>1, <1>17 DEF Begin, Commit, sweep, network
  <1>18. ASSUME NEW r \in Readers, Read(r) PROVE Ledger'
    BY <1>1, <1>18 DEF Read, sweep, network
  <1>19. ASSUME NEW h \in Hooks, NEW state \in HookStates, Configure(h, state)
         PROVE Ledger'
    BY <1>1, <1>19 DEF Configure, sweep, network
  <1>20. ASSUME NEW d \in Deliveries, PassInflight(d) PROVE Ledger'
    BY <1>1, <1>20 DEF PassInflight, network
  <1>21. CASE SweepRefused \/ UNCHANGED vars
    BY <1>1, <1>21 DEF SweepRefused, vars, sweep, network
  <1> QED
    BY <1>2, <1>4, <1>5, <1>6, <1>7, <1>8, <1>9, <1>10, <1>11, <1>12, <1>13,
       <1>14, <1>15, <1>16, <1>17, <1>18, <1>19, <1>20, <1>21
    DEF Next, SweepStep

\* Every copy an endpoint took is accounted for: a second one takes an answer
\* that was lost or could not be saved.
THEOREM CopiesAccounted == Spec => []CopiesAreAccounted
  <1>1. Init => Ledger
    BY RowTypes DEF Init, Ledger, Balance
  <1>2. Ledger /\ TypeOK => CopiesAreAccounted
    BY Counts DEF Ledger, Balance, CopiesAreAccounted
  <1> QED
    BY <1>1, <1>2, LogInvariant, EscapedInvariant, TypeStep, LedgerStep, PTL
    DEF Spec

-----------------------------------------------------------------------------
(* The contract *)

\* A consumer has exactly what its cursor says; a row that a sweep holds is
\* still there.
Kept ==
    /\ \A r \in Readers : seen[r] = {e \in committed : e <= cursor[r]}
    /\ \A d \in batch : rows[d].exists
    /\ sending # NoDelivery => rows[sending].exists

Seen == <<committed, seen, owedBar, settledBar, requestBar, orphaned, received>>

\* What a step may do to the rows: those of committed events are neither made
\* nor taken back.
RowsStand ==
    \A d \in Deliveries :
        /\ d[1] \in committed => rows'[d].exists = rows[d].exists
        /\ rows'[d].delivered = rows[d].delivered

LEMMA RowsDeferred ==
  ASSUME TypeOK, NEW d \in Deliveries, Defer(d) \/ Retain(d)
  PROVE  RowsStand
  <1>1. rows \in [Deliveries -> Row]
    BY DEF TypeOK
  <1>2. CASE Defer(d)
    BY ZenonT(40), <1>1, <1>2 DEF Defer, Row, RowsStand
  <1>3. CASE Retain(d)
    BY ZenonT(40), <1>1, <1>3 DEF Retain, Retained, Row, RowsStand
  <1> QED
    BY <1>2, <1>3

LEMMA RowsTick ==
  ASSUME TypeOK, Tick
  PROVE  RowsStand
  <1>1. \A d \in Deliveries : rows[d] \in Row
    BY DEF TypeOK
  <1> SUFFICES ASSUME NEW d \in Deliveries
               PROVE  /\ rows'[d].exists = rows[d].exists
                      /\ rows'[d].delivered = rows[d].delivered
    BY DEF RowsStand
  <1>2. rows'[d] = IF Pending(d) THEN [rows[d] EXCEPT !.next = @ - 1] ELSE rows[d]
    BY DEF Tick
  <1> QED
    BY <1>1, <1>2 DEF Row

\* A transaction's rows go with it; they are of events not committed.
LEMMA RowsForgotten ==
  ASSUME TypeOK, Ordered, Escaped, Ledger, NEW c \in Connections, rows' = Forgotten(c)
  PROVE  RowsStand
  <1> SUFFICES ASSUME NEW d \in Deliveries
               PROVE  /\ d[1] \in committed => rows'[d].exists = rows[d].exists
                      /\ rows'[d].delivered = rows[d].delivered
    BY DEF RowsStand
  <1>1. CASE d[1] \in written[c]
    <2>1. d[1] \notin committed
      BY <1>1, EventsAssumption DEF TypeOK, Ordered, Events
    <2>2. ~rows[d].delivered /\ ~rows'[d].delivered
      BY <1>1, <2>1, FreshRow, RowTypes DEF Forgotten
    <2>3. rows[d].delivered \in BOOLEAN /\ rows'[d].delivered \in BOOLEAN
      BY <1>1, RowTypes DEF TypeOK, Row, Forgotten
    <2> QED
      BY <2>1, <2>2, <2>3
  <1>2. CASE d[1] \notin written[c]
    BY <1>2 DEF Forgotten
  <1> QED
    BY <1>1, <1>2

\* The rows of a new event.
LEMMA RowsRecorded ==
  ASSUME TypeOK, Ordered, Escaped, Ledger, NEW c \in Connections, Capture(c)
  PROVE  RowsStand
  <1>1. nextId + 1 \notin committed
    BY EventsAssumption DEF TypeOK, Ordered, Events
  <1> SUFFICES ASSUME NEW d \in Deliveries
               PROVE  /\ d[1] \in committed => rows'[d].exists = rows[d].exists
                      /\ rows'[d].delivered = rows[d].delivered
    BY DEF RowsStand
  <1>2. CASE rows'[d] = rows[d]
    BY <1>2
  <1>3. CASE d[1] = nextId + 1 /\ rows'[d] = NewRow
    <2>1. d[1] \notin committed
      BY <1>1, <1>3
    <2>2. ~rows[d].delivered /\ ~rows'[d].delivered
      BY <1>3, <2>1, FreshRow, RowTypes
    <2>3. rows[d].delivered \in BOOLEAN /\ rows'[d].delivered \in BOOLEAN
      BY <1>3, RowTypes DEF TypeOK, Row
    <2> QED
      BY <2>1, <2>2, <2>3
  <1> QED
    BY <1>2, <1>3 DEF Capture, Record

\* A step on rows alone shows the contract nothing.
LEMMA Unseen ==
  ASSUME RowsStand, UNCHANGED <<committed, seen, asked, agreed, orphaned, received>>
  PROVE  UNCHANGED Seen
  <1>1. owedBar' = owedBar /\ settledBar' = settledBar
    BY DEF RowsStand, owedBar, settledBar
  <1>2. requestBar' = requestBar
    BY DEF requestBar, RequestOf
  <1> QED
    BY <1>1, <1>2 DEF Seen

LEMMA UnseenRows ==
  ASSUME UNCHANGED <<rows, committed, seen, asked, agreed, orphaned, received>>
  PROVE  UNCHANGED Seen
  BY Unseen DEF RowsStand

\* Of a row at most one request is awaited.
LEMMA RequestValues ==
  ASSUME TypeOK, Ledger, NEW d \in Deliveries
  PROVE  /\ requestBar[d] = "asked" <=> asked[d] = 1 /\ agreed[d] = 0
         /\ requestBar[d] = "taken" <=> asked[d] = 0 /\ agreed[d] = 1
         /\ requestBar[d] = "no" <=> asked[d] = 0 /\ agreed[d] = 0
         /\ requestBar[d] \in {"no", "asked", "taken"}
  <1>1. /\ asked[d] \in Nat /\ agreed[d] \in Nat /\ asked[d] + agreed[d] <= 1
    BY Counts DEF Ledger, Balance
  <1>2. requestBar[d] = RequestOf(d)
    BY DEF requestBar
  <1> QED
    BY <1>1, <1>2 DEF RequestOf

\* A step that moves the request of one row.
LEMMA RequestMoves ==
  ASSUME TypeOK, Ledger, TypeOK', Ledger', NEW d \in Deliveries,
         \A e \in Deliveries \ {d} : asked'[e] = asked[e] /\ agreed'[e] = agreed[e],
         NEW to, requestBar'[d] = to
  PROVE  requestBar' = [requestBar EXCEPT ![d] = to]
  <1>1. \A e \in Deliveries \ {d} : RequestOf(e)' = RequestOf(e)
    BY DEF RequestOf
  <1>2. requestBar' = [e \in Deliveries |-> RequestOf(e)']
    BY DEF requestBar
  <1>3. RequestOf(d)' = to
    BY <1>2
  <1> QED
    BY <1>1, <1>2, <1>3 DEF requestBar

EInv == TypeOK /\ Ordered /\ Escaped /\ Ledger /\ Kept

Simulates == Contract!Next \/ UNCHANGED Seen

\* A commit appends to the log; its rows become obligations.
LEMMA CommitSimulates ==
  ASSUME EInv, NEW c \in Connections, Commit(c)
  PROVE  Contract!Next
  <1> USE DEF EInv
  <1> DEFINE new == written[c]
             arising == {d \in Deliveries : d[1] \in new /\ rows[d].exists}
  <1>1. /\ committed' = committed \cup new
        /\ UNCHANGED <<rows, seen, asked, agreed, orphaned, received>>
    BY DEF Commit, readers, network
  <1>2. new \subseteq Events
    BY DEF TypeOK
  <1>3. \A e \in new, f \in committed : f < e
    BY DEF Ordered
  <1>4. new \in SUBSET (Events \ committed)
    <2>1. \A e \in new : e \in committed => e < e
      BY <1>3
    <2>2. \A e \in Events : ~(e < e)
      BY EventsAssumption DEF Events
    <2> QED
      BY <1>2, <2>1, <2>2
  <1>5. arising \in SUBSET {d \in Deliveries : d[1] \in new} /\ owedBar' = owedBar \cup arising
    BY <1>1 DEF owedBar
  <1>6. settledBar' = settledBar /\ requestBar' = requestBar
    BY <1>1 DEF settledBar, requestBar, RequestOf
  <1>7. Contract!Publish(new)
    BY <1>1, <1>3, <1>5, <1>6 DEF Contract!Publish
  <1> QED
    BY <1>4, <1>7 DEF Contract!Next

\* A page makes what the consumer has one longer beginning of the log.
LEMMA ReadSimulates ==
  ASSUME EInv, NEW r \in Readers, Read(r)
  PROVE  /\ Contract!Next
         /\ \A q \in Readers : seen'[q] = {e \in committed : e <= cursor'[q]}
  <1> USE DEF EInv
  <1>1. PICK last \in Page(r) : /\ \A e \in Page(r) : e <= last
                                /\ cursor' = [cursor EXCEPT ![r] = last]
    BY DEF Read
  <1>2. seen' = [seen EXCEPT ![r] = @ \cup Page(r)] /\ committed' = committed
    BY DEF Read, feed
  <1>3. seen[r] = {e \in committed : e <= cursor[r]}
    BY DEF Kept
  <1>4. /\ last \in committed /\ last > cursor[r] /\ Page(r) \subseteq committed
        /\ committed \subseteq Int /\ cursor[r] \in Int
    BY EventsAssumption DEF Page, TypeOK, Events
  <1>5. \A e \in committed : e <= last => e <= cursor[r] \/ e \in Page(r)
    BY PageIsComplete
  <1>6. \A e \in committed : e <= cursor[r] => e <= last
    BY <1>4
  <1>7. seen[r] \cup Page(r) = {e \in committed : e <= last}
    BY <1>1, <1>3, <1>4, <1>5, <1>6
  <1>8. last \in committed \ seen[r]
    BY <1>3, <1>4
  <1>9. seen' = [seen EXCEPT ![r] = {e \in committed : e <= last}]
    BY <1>2, <1>7
  <1>10. UNCHANGED <<owedBar, settledBar, requestBar, orphaned, received>>
    BY <1>2 DEF Read, network, owedBar, settledBar, requestBar, RequestOf
  <1>11. Contract!Read(r)
    BY <1>2, <1>8, <1>9, <1>10 DEF Contract!Read
  <1>12. ASSUME NEW q \in Readers
         PROVE  seen'[q] = {e \in committed : e <= cursor'[q]}
    <2>1. CASE q = r
      BY <1>1, <1>9, <2>1 DEF TypeOK
    <2>2. CASE q # r
      <3>1. seen'[q] = seen[q] /\ cursor'[q] = cursor[q]
        BY <1>1, <1>9, <2>2 DEF TypeOK
      <3> QED
        BY <3>1 DEF Kept
    <2> QED
      BY <2>1, <2>2
  <1> QED
    BY <1>11, <1>12 DEF Contract!Next

\* What is sent is owed, was not settled, and nothing is awaited of it.
LEMMA SendSimulates ==
  ASSUME EInv, TypeOK', Ledger', Send
  PROVE  Contract!Next
  <1> USE DEF EInv
  <1> DEFINE d == sending
  <1>1. /\ d \in Deliveries /\ d \notin inflight
        /\ asked' = [asked EXCEPT ![d] = @ + 1]
        /\ UNCHANGED <<committed, seen, rows, agreed, orphaned, received>>
    BY DEF TypeOK, Ledger, Send, feed, readers
  <1>2. d \in owedBar
    BY <1>1 DEF Send, Kept, Escaped, owedBar
  <1>3. d \notin settledBar
    BY <1>1 DEF settledBar, Ledger, Balance
  <1>4. asked[d] = 0 /\ agreed[d] = 0 /\ asked[d] \in Nat
    BY <1>1, Counts DEF Ledger, Balance
  <1> HIDE DEF d
  <1>5. requestBar[d] = "no"
    BY <1>1, <1>4, RequestValues
  <1>6. asked'[d] = 1 /\ agreed'[d] = 0
    BY <1>1, <1>4 DEF TypeOK
  <1>7. requestBar'[d] = "asked"
    BY <1>1, <1>6 DEF requestBar, RequestOf
  <1>8. requestBar' = [requestBar EXCEPT ![d] = "asked"]
    <2>1. \A e \in Deliveries \ {d} : asked'[e] = asked[e] /\ agreed'[e] = agreed[e]
      BY <1>1 DEF TypeOK
    <2> QED
      BY <1>1, <1>7, <2>1, RequestMoves
  <1>9. owedBar' = owedBar /\ settledBar' = settledBar
    BY <1>1 DEF owedBar, settledBar
  <1>10. Contract!Ask(d)
    BY <1>1, <1>2, <1>3, <1>5, <1>8, <1>9 DEF Contract!Ask, Contract!Answers
  <1> QED
    BY <1>1, <1>10 DEF Contract!Next

\* What an endpoint does with the awaited request, and what becomes of it.
LEMMA AnswerMoves ==
  ASSUME EInv, TypeOK', Ledger', NEW d \in Deliveries
  PROVE  /\ Accept(d) => requestBar[d] = "asked"
                         /\ requestBar' = [requestBar EXCEPT ![d] = "taken"]
         /\ Refuse(d) \/ TimeOut(d) =>
              requestBar[d] = "asked" /\ requestBar' = [requestBar EXCEPT ![d] = "no"]
         /\ Answer(d) \/ AnswerUnrecorded(d) =>
              requestBar[d] = "taken" /\ requestBar' = [requestBar EXCEPT ![d] = "no"]
  <1> USE DEF EInv
  <1>1. asked[d] \in Nat /\ agreed[d] \in Nat /\ asked[d] + agreed[d] <= 1
    BY Counts DEF Ledger, Balance
  <1>2. ASSUME NEW to, requestBar'[d] = to, asked' = [asked EXCEPT ![d] = asked'[d]],
               agreed' = [agreed EXCEPT ![d] = agreed'[d]]
        PROVE  requestBar' = [requestBar EXCEPT ![d] = to]
    <2>1. \A e \in Deliveries \ {d} : asked'[e] = asked[e] /\ agreed'[e] = agreed[e]
      BY <1>2 DEF TypeOK
    <2> QED
      BY <1>2, <2>1, RequestMoves
  <1>3. ASSUME Accept(d)
        PROVE  /\ requestBar[d] = "asked"
               /\ requestBar' = [requestBar EXCEPT ![d] = "taken"]
    <2>1. asked[d] = 1 /\ agreed[d] = 0
      BY <1>1, <1>3 DEF Accept
    <2>2. asked' = [asked EXCEPT ![d] = 0] /\ agreed' = [agreed EXCEPT ![d] = 1]
      BY <1>3, <2>1 DEF Accept
    <2>3. asked'[d] = 0 /\ agreed'[d] = 1
      BY <2>2 DEF TypeOK
    <2>4. requestBar'[d] = "taken"
      BY <2>3 DEF requestBar, RequestOf
    <2> QED
      BY <1>2, <2>1, <2>2, <2>3, <2>4, RequestValues
  <1>4. ASSUME Refuse(d) \/ TimeOut(d)
        PROVE  requestBar[d] = "asked" /\ requestBar' = [requestBar EXCEPT ![d] = "no"]
    <2>1. asked[d] = 1 /\ agreed[d] = 0
      BY <1>1, <1>4 DEF Refuse, TimeOut
    <2>2. asked' = [asked EXCEPT ![d] = 0] /\ agreed' = agreed
      BY <1>4, <2>1 DEF Refuse, TimeOut
    <2>3. asked'[d] = 0 /\ agreed'[d] = 0 /\ agreed' = [agreed EXCEPT ![d] = 0]
      BY <2>1, <2>2 DEF TypeOK
    <2>4. requestBar'[d] = "no"
      BY <2>3 DEF requestBar, RequestOf
    <2> QED
      BY <1>2, <2>1, <2>2, <2>3, <2>4, RequestValues
  <1>5. ASSUME Answer(d) \/ AnswerUnrecorded(d)
        PROVE  requestBar[d] = "taken" /\ requestBar' = [requestBar EXCEPT ![d] = "no"]
    <2>1. asked[d] = 0 /\ agreed[d] = 1
      BY <1>1, <1>5 DEF Answer, AnswerUnrecorded
    <2>2. agreed' = [agreed EXCEPT ![d] = 0] /\ asked' = asked
      BY <1>5, <2>1 DEF Answer, AnswerUnrecorded, sweep
    <2>3. asked'[d] = 0 /\ agreed'[d] = 0 /\ asked' = [asked EXCEPT ![d] = 0]
      BY <2>1, <2>2 DEF TypeOK
    <2>4. requestBar'[d] = "no"
      BY <2>3 DEF requestBar, RequestOf
    <2> QED
      BY <1>2, <2>1, <2>2, <2>3, <2>4, RequestValues
  <1> QED
    BY <1>3, <1>4, <1>5

LEMMA AnswersSimulate ==
  ASSUME EInv, TypeOK', Ledger', NEW d \in Deliveries,
         \/ Accept(d) \/ AcceptLate(d) \/ LoseLate(d)
         \/ Answer(d) \/ AnswerUnrecorded(d) \/ Refuse(d) \/ TimeOut(d)
  PROVE  Contract!Next
  <1> USE DEF EInv
  <1>1. UNCHANGED <<committed, seen>>
    BY DEF Accept, AcceptLate, LoseLate, Answer, AnswerUnrecorded, Refuse, TimeOut, feed,
           readers
  <1>2. ASSUME rows' = rows PROVE owedBar' = owedBar /\ settledBar' = settledBar
    BY <1>1, <1>2 DEF owedBar, settledBar
  <1>3. CASE Accept(d)
    <2>1. rows' = rows /\ orphaned' = orphaned
          /\ received' = [received EXCEPT ![d] = @ + 1]
      BY <1>3 DEF Accept
    <2>2. Contract!Take(d)
      BY <1>1, <1>2, <1>3, <2>1, AnswerMoves DEF Contract!Take, Contract!Answers
    <2> QED
      BY <2>2 DEF Contract!Next
  <1>4. CASE AcceptLate(d) \/ LoseLate(d)
    <2>1. UNCHANGED <<rows, asked, agreed>>
      BY <1>4 DEF AcceptLate, LoseLate
    <2>2. requestBar' = requestBar
      BY <2>1 DEF requestBar, RequestOf
    <2>3. Contract!Stray(d)
      BY <1>1, <1>2, <1>4, <2>1, <2>2 DEF Contract!Stray, AcceptLate, LoseLate
    <2> QED
      BY <2>3 DEF Contract!Next
  <1>5. CASE Answer(d)
    <2>1. rows' = [rows EXCEPT ![d].delivered = TRUE] /\ UNCHANGED <<orphaned, received>>
      BY <1>5 DEF Answer
    <2>2. \A e \in Deliveries : rows'[e].exists = rows[e].exists
      BY ZenonT(40), <2>1 DEF TypeOK, Row
    <2>3. owedBar' = owedBar
      BY <1>1, <2>2 DEF owedBar
    <2>4. /\ rows'[d].delivered
          /\ \A e \in Deliveries : e # d => rows'[e] = rows[e]
      BY <2>1 DEF TypeOK, Row
    <2>5. settledBar' = settledBar \cup {d}
      BY <2>4 DEF settledBar
    <2>6. Contract!Settle(d)
      BY <1>1, <1>5, <2>1, <2>3, <2>5, AnswerMoves DEF Contract!Settle, Contract!Answers
    <2> QED
      BY <2>6 DEF Contract!Next
  <1>6. CASE AnswerUnrecorded(d) \/ Refuse(d) \/ TimeOut(d)
    <2>1. rows' = rows /\ received' = received
      BY <1>6 DEF AnswerUnrecorded, Refuse, TimeOut
    <2>2. /\ requestBar[d] # "no"
          /\ requestBar' = [requestBar EXCEPT ![d] = "no"]
      BY <1>6, AnswerMoves
    <2>3. requestBar' = [e \in Deliveries |-> IF e \in {d} THEN "no" ELSE requestBar[e]]
      BY <2>2 DEF requestBar
    <2>4. \E straying \in SUBSET {e \in {d} : requestBar[e] = "asked"} :
            orphaned' = [e \in Deliveries |->
                           IF e \in straying THEN orphaned[e] + 1 ELSE orphaned[e]]
      <3>1. CASE orphaned' = orphaned
        <4>1. orphaned' = [e \in Deliveries |->
                             IF e \in {} THEN orphaned[e] + 1 ELSE orphaned[e]]
          BY <3>1 DEF TypeOK
        <4>2. {} \in SUBSET {e \in {d} : requestBar[e] = "asked"}
          OBVIOUS
        <4> QED
          BY Zenon, <4>1, <4>2
      <3>2. CASE TimeOut(d)
        <4>1. orphaned' = [orphaned EXCEPT ![d] = @ + 1] /\ requestBar[d] = "asked"
          BY <3>2, AnswerMoves DEF TimeOut
        <4>2. orphaned' = [e \in Deliveries |->
                             IF e \in {d} THEN orphaned[e] + 1 ELSE orphaned[e]]
          BY <4>1 DEF TypeOK
        <4> QED
          BY <4>1, <4>2
      <3> QED
        BY <1>6, <3>1, <3>2 DEF AnswerUnrecorded, Refuse
    <2>5. Contract!GiveUp({d})
      BY <1>1, <1>2, <2>1, <2>3, <2>4 DEF Contract!GiveUp
    <2>6. {d} \in SUBSET Contract!Awaited
      BY <2>2 DEF Contract!Awaited
    <2> QED
      BY <2>5, <2>6 DEF Contract!Next
  <1> QED
    BY <1>3, <1>4, <1>5, <1>6

\* With the process go all the requests it awaited.
LEMMA CrashSimulates ==
  ASSUME EInv, Crash
  PROVE  Contract!Next
  <1> USE DEF EInv
  <1> DEFINE straying == {d \in Contract!Awaited : requestBar[d] = "asked"}
  <1>1. /\ asked' = [d \in Deliveries |-> 0] /\ agreed' = [d \in Deliveries |-> 0]
        /\ orphaned' = [d \in Deliveries |-> orphaned[d] + asked[d]]
        /\ rows' = Forgotten(Server) /\ UNCHANGED <<committed, seen, received>>
    BY DEF Crash, readers
  <1>2. RowsStand
    BY <1>1, RowsForgotten, ConnectionsAssumption
  <1>3. owedBar' = owedBar /\ settledBar' = settledBar
    BY <1>1, <1>2 DEF RowsStand, owedBar, settledBar
  <1>4. \A d \in Deliveries : requestBar'[d] = "no"
    BY <1>1 DEF requestBar, RequestOf
  <1>5. requestBar' = [d \in Deliveries |->
                         IF d \in Contract!Awaited THEN "no" ELSE requestBar[d]]
    <2>1. \A d \in Deliveries : d \notin Contract!Awaited => requestBar[d] = "no"
      BY DEF Contract!Awaited
    <2>2. requestBar' = [d \in Deliveries |-> "no"]
      BY <1>4 DEF requestBar
    <2> QED
      BY <2>1, <2>2
  <1>6. ASSUME NEW d \in Deliveries
        PROVE  orphaned[d] + asked[d] = IF d \in straying THEN orphaned[d] + 1 ELSE orphaned[d]
    <2>1. asked[d] \in Nat /\ agreed[d] \in Nat /\ orphaned[d] \in Nat
          /\ asked[d] + agreed[d] <= 1
      BY Counts DEF Ledger, Balance
    <2>2. d \in straying <=> requestBar[d] = "asked"
      BY DEF Contract!Awaited
    <2>3. requestBar[d] = "asked" <=> asked[d] = 1 /\ agreed[d] = 0
      BY RequestValues
    <2> HIDE DEF straying
    <2> QED
      BY <2>1, <2>2, <2>3
  <1>7. orphaned' = [d \in Deliveries |->
                       IF d \in straying THEN orphaned[d] + 1 ELSE orphaned[d]]
    BY <1>1, <1>6
  <1>8. straying \in SUBSET {d \in Contract!Awaited : requestBar[d] = "asked"}
    OBVIOUS
  <1> HIDE DEF straying
  <1>9. Contract!GiveUp(Contract!Awaited)
    BY Zenon, <1>1, <1>3, <1>5, <1>7, <1>8 DEF Contract!GiveUp
  <1>10. Contract!Awaited \in SUBSET Contract!Awaited
    OBVIOUS
  <1> QED
    BY <1>9, <1>10 DEF Contract!Next

\* Everything else the contract does not see.
LEMMA StepSimulates ==
  ASSUME EInv, TypeOK', Ledger', [Next]_vars
  PROVE  Simulates
  <1> USE DEF EInv, Simulates
  <1>1. CASE UNCHANGED vars
    BY <1>1, UnseenRows DEF vars, feed, readers, network
  <1>2. ASSUME NEW c \in Connections, Begin(c) PROVE Simulates
    BY <1>2, UnseenRows DEF Begin, readers, network
  <1>3. ASSUME NEW c \in Connections, Capture(c) PROVE Simulates
    BY <1>3, RowsRecorded, Unseen DEF Capture, readers, network
  <1>4. ASSUME NEW c \in Connections, Rollback(c) PROVE Simulates
    BY <1>4, RowsForgotten, Unseen DEF Rollback, readers, network
  <1>5. ASSUME NEW h \in Hooks, NEW state \in HookStates, Configure(h, state)
        PROVE Simulates
    BY <1>5, UnseenRows DEF Configure, feed, readers, network
  <1>6. CASE Dispatch \/ SweepRefused
    BY <1>6, UnseenRows DEF Dispatch, SweepRefused, feed, readers, network
  <1>7. ASSUME NEW d \in Deliveries, PassInflight(d) PROVE Simulates
    BY <1>7, UnseenRows DEF PassInflight, feed, readers, network
  <1>8. ASSUME NEW d \in Deliveries, Defer(d) \/ Retain(d) PROVE Simulates
    BY <1>8, RowsDeferred, Unseen DEF Defer, Retain, feed, readers, network
  <1>9. CASE Tick
    BY <1>9, RowsTick, Unseen DEF Tick, feed, readers, network
  <1> QED
    BY <1>1, <1>2, <1>3, <1>4, <1>5, <1>6, <1>7, <1>8, <1>9, CommitSimulates,
       ReadSimulates, SendSimulates, AnswersSimulate, CrashSimulates
    DEF Next, SweepStep

\* Cursors and the rows of a sweep.
LEMMA KeptStep ==
  ASSUME EInv, [Next]_vars
  PROVE  Kept'
  <1> USE DEF EInv
  <1>1. ASSUME RowsStand, batch' \subseteq batch, sending' \in {sending, NoDelivery}
        PROVE  /\ \A d \in batch' : rows'[d].exists
               /\ sending' # NoDelivery => rows'[sending'].exists
    BY <1>1 DEF RowsStand, Kept, Escaped, TypeOK
  <1>2. ASSUME UNCHANGED <<committed, cursor, seen>>
        PROVE  \A r \in Readers : seen'[r] = {e \in committed' : e <= cursor'[r]}
    BY <1>2 DEF Kept
  <1>3. ASSUME RowsStand, batch' \subseteq batch, sending' \in {sending, NoDelivery},
               UNCHANGED <<committed, cursor, seen>>
        PROVE  Kept'
    BY <1>1, <1>2, <1>3 DEF Kept
  <1>4. ASSUME rows' = rows PROVE RowsStand
    BY <1>4 DEF RowsStand
  <1>5. CASE UNCHANGED vars
    BY <1>3, <1>4, <1>5 DEF vars, feed, readers, sweep
  <1>6. ASSUME NEW c \in Connections, Begin(c) PROVE Kept'
    BY <1>3, <1>4, <1>6 DEF Begin, readers, sweep
  <1>7. ASSUME NEW c \in Connections, Capture(c) PROVE Kept'
    BY <1>3, <1>7, RowsRecorded DEF Capture, readers, sweep
  <1>8. ASSUME NEW c \in Connections, Rollback(c) PROVE Kept'
    BY <1>3, <1>8, RowsForgotten DEF Rollback, readers, sweep
  <1>9. ASSUME NEW c \in Connections, Commit(c) PROVE Kept'
    <2>1. committed' = committed \cup written[c] /\ UNCHANGED <<cursor, seen, rows, sweep>>
      BY <1>9 DEF Commit, readers
    <2>2. \A r \in Readers, e \in written[c] : ~(e <= cursor[r])
      BY EventsAssumption DEF TypeOK, Ordered, Events
    <2>3. \A r \in Readers : seen'[r] = {e \in committed' : e <= cursor'[r]}
      BY <2>1, <2>2 DEF Kept
    <2> QED
      BY <2>1, <2>3 DEF Kept, sweep
  <1>10. ASSUME NEW r \in Readers, Read(r) PROVE Kept'
    <2>1. UNCHANGED <<committed, rows, sweep>>
      BY <1>10 DEF Read, feed
    <2> QED
      BY <1>10, <2>1, ReadSimulates DEF Kept, sweep
  <1>11. ASSUME NEW h \in Hooks, NEW state \in HookStates, Configure(h, state)
         PROVE Kept'
    BY <1>3, <1>4, <1>11 DEF Configure, feed, readers, sweep
  <1>12. CASE Dispatch
    <2>1. \A d \in batch' : rows[d].exists
      BY <1>12 DEF Dispatch, IsBatch, Due, Visible
    <2> QED
      BY <1>12, <2>1 DEF Kept, Dispatch, feed, readers
  <1>13. CASE SweepRefused \/ Send
    BY <1>3, <1>4, <1>13 DEF SweepRefused, Send, feed, readers
  <1>14. ASSUME NEW d \in Deliveries, PassInflight(d) PROVE Kept'
    BY <1>3, <1>4, <1>14 DEF PassInflight, feed, readers
  <1>15. ASSUME NEW d \in Deliveries, Defer(d) PROVE Kept'
    BY <1>3, <1>15, RowsDeferred DEF Defer, feed, readers
  <1>16. ASSUME NEW d \in Deliveries, Retain(d) PROVE Kept'
    <2>1. RowsStand
      BY <1>16, RowsDeferred
    <2>2. batch' = batch \ {d} /\ sending' \in {d, NoDelivery} /\ d \in batch
          /\ UNCHANGED <<committed, cursor, seen>>
      BY <1>16 DEF Retain, Turn, feed, readers
    <2>3. \A e \in batch : rows'[e].exists
      BY <2>1 DEF RowsStand, Kept, Escaped, TypeOK
    <2> QED
      BY <1>2, <2>2, <2>3 DEF Kept
  <1>17. ASSUME NEW d \in Deliveries,
                Accept(d) \/ AcceptLate(d) \/ LoseLate(d)
                \/ AnswerUnrecorded(d) \/ Refuse(d) \/ TimeOut(d)
         PROVE Kept'
    BY <1>3, <1>4, <1>17
    DEF Accept, AcceptLate, LoseLate, AnswerUnrecorded, Refuse, TimeOut, feed, readers, sweep
  <1>18. ASSUME NEW d \in Deliveries, Answer(d) PROVE Kept'
    <2>1. batch = {} /\ sending = NoDelivery /\ UNCHANGED <<committed, cursor, seen, sweep>>
      BY <1>18 DEF Answer, Done, AtRest, feed, readers
    <2> QED
      BY <1>2, <2>1 DEF Kept, sweep
  <1>19. CASE Crash
    BY <1>3, <1>19, RowsForgotten, ConnectionsAssumption DEF Crash, readers
  <1>20. CASE Tick
    BY <1>3, <1>20, RowsTick DEF Tick, feed, readers, sweep
  <1> QED
    BY <1>5, <1>6, <1>7, <1>8, <1>9, <1>10, <1>11, <1>12, <1>13, <1>14, <1>15,
       <1>16, <1>17, <1>18, <1>19, <1>20 DEF Next, SweepStep

\* Every behaviour of the log and its delivery is one of the contract.
THEOREM EventsImplementContract == Spec => ImplementsContract
  <1>1. Init => EInv
    <2> SUFFICES ASSUME Init PROVE EInv
      OBVIOUS
    <2>1. TypeOK
      BY ConnectionsAssumption, EventsAssumption, LimitsAssumption, RowTypes
      DEF Init, TypeOK
    <2>2. Ordered /\ Escaped
      BY EventsAssumption DEF Init, Ordered, Escaped, OnlyCommittedIsSent
    <2>3. Ledger
      BY RowTypes DEF Init, Ledger, Balance
    <2>4. Kept
      BY DEF Init, Kept
    <2> QED
      BY <2>1, <2>2, <2>3, <2>4 DEF EInv
  <1>2. EInv /\ [Next]_vars => EInv'
    <2> SUFFICES ASSUME EInv, [Next]_vars PROVE EInv'
      OBVIOUS
    <2>1. TypeOK'
      BY TypeStep DEF EInv
    <2> QED
      BY <2>1, OrderedStep, EscapedStep, LedgerStep, KeptStep DEF EInv
  <1>3. Init => Contract!Init
    <2> SUFFICES ASSUME Init PROVE Contract!Init
      OBVIOUS
    <2>1. owedBar = {} /\ settledBar = {}
      BY RowTypes DEF Init, owedBar, settledBar
    <2>2. requestBar = [d \in Deliveries |-> "no"]
      BY DEF Init, requestBar, RequestOf
    <2> QED
      BY <2>1, <2>2 DEF Init, Contract!Init
  <1>4. EInv /\ EInv' /\ [Next]_vars => [Contract!Next]_(Contract!vars)
    <2> SUFFICES ASSUME EInv, EInv', [Next]_vars PROVE [Contract!Next]_(Contract!vars)
      OBVIOUS
    <2>1. Simulates
      BY StepSimulates DEF EInv
    <2> QED
      BY <2>1 DEF Simulates, Seen, Contract!vars
  <1> QED
    BY <1>1, <1>2, <1>3, <1>4, PTL DEF Spec, ImplementsContract
=============================================================================
