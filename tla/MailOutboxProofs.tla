-------------------------- MODULE MailOutboxProofs --------------------------
(***************************************************************************)
(* The safety of the outbox, for any number of messages, accounts and      *)
(* attempts.  IInv is the inductive invariant: the conjuncts of MailOutbox *)
(* that TLC checks do not carry themselves over a crash in the middle of a *)
(* submission, so it adds where the process stands (Standing), what each   *)
(* row's state says of its attempt count (Budget), and which messages a    *)
(* copy may have reached since the last decision (Ledger).                 *)
(***************************************************************************)
EXTENDS MailOutbox, TLAPS

Holding == {"claimed", "bound", "waiting"}

\* Where the process stands: only a sweep that holds a claimed row has a
\* current message, and only one that waits has a submission.
Standing ==
    /\ pc \notin Holding => current = NoMessage
    /\ pc \in Holding => current \in Messages /\ mail[current].state = "sending"
    /\ pc # "waiting" <=> fate = "none"
    /\ pc \in {"bound", "waiting"} =>
          smtp \in Accounts /\ (smtp \in Unbound \/ mail[current].account = smtp)
    /\ fate = "accepted" => accepted[current] > 0

\* What a row's state says of its attempts, and its attempts of its tries.
Budget ==
    \A m \in Messages :
        /\ mail[m].state \in {"absent", "queued", "failed"} => mail[m].attempts < MaxAttempts
        /\ mail[m].state = "sending" => mail[m].attempts > 0
        /\ tries[m] <= mail[m].attempts
        /\ pc \in {"claimed", "bound"} /\ current = m => tries[m] < mail[m].attempts

Hot(m) == IF m \in hot THEN 1 ELSE 0

\* A message is hot while the last decision's copy may have left; then its
\* row is in flight, in doubt or sent, and there is at most that one copy.
Ledger ==
    /\ pc \in {"claimed", "bound"} => current \notin hot
    /\ fate \in {"open", "accepted"} => current \in hot
    /\ fate = "refused" => current \notin hot
    /\ \A m \in hot : mail[m].state \in {"sending", "uncertain", "sent"}
    /\ \A m \in Messages : Exposed(m) <= resends[m] + Hot(m)
    /\ \A m \in Messages : mail[m].state = "absent" => resends[m] = 0

IInv == TypeOK /\ Standing /\ Budget /\ Ledger /\ SentWasAccepted /\ OneAccount

-----------------------------------------------------------------------------
(* Arithmetic of the ticks *)

\* A countdown cut off at zero is a natural number, and a running one is untouched.
LEMMA FloorIsNat == \A n \in Int : Floor(n) \in Nat /\ (n > 0 => Floor(n) = n)
  BY DEF Floor

\* The backoff after any attempt is a natural number of ticks.
LEMMA BackoffIsNat == \A a \in Nat \ {0} : Backoff(a) \in Nat
  <1> SUFFICES ASSUME NEW a \in Nat \ {0} PROVE Backoff(a) \in Nat
    OBVIOUS
  <1> DEFINE i == IF a > 10 THEN 11 ELSE a
  <1>1. i \in 1..11
    OBVIOUS
  <1>2. Doubling[i] \in Nat
    BY <1>1 DEF Doubling
  <1> QED
    BY <1>2 DEF Backoff

USE DEF stored, sweep, history

-----------------------------------------------------------------------------
(* The invariant is inductive *)

\* The server starts with no rows, no sweep and nothing sent.
LEMMA InitInv == Init => IInv
  <1> USE MessagesAssumption, AccountsAssumption, AttemptsAssumption, LimitAssumption, LeaseAssumption
  <1> SUFFICES ASSUME Init PROVE IInv
    OBVIOUS
  <1>1. NewRow \in Row
    BY DEF NewRow, Row, States
  <1>2. TypeOK
    BY <1>1 DEF Init, TypeOK, Steps
  <1>3. \A m \in Messages : mail[m].state = "absent" /\ mail[m].attempts = 0
    BY DEF Init, NewRow
  <1>4. Standing /\ Budget
    BY <1>3 DEF Init, Standing, Budget, Holding
  <1>5. Ledger
    BY DEF Init, Ledger, Exposed, Open, Hot
  <1>6. SentWasAccepted /\ OneAccount
    BY <1>3 DEF Init, SentWasAccepted, OneAccount
  <1> QED
    BY <1>2, <1>4, <1>5, <1>6 DEF IInv

\* A new row has spent nothing and nothing of it has left.
LEMMA EnqueueInv ==
  ASSUME IInv, NEW m \in Messages, Enqueue(m)
  PROVE  IInv'
  <1> USE MessagesAssumption, AccountsAssumption, AttemptsAssumption, LimitAssumption, LeaseAssumption
  <1> USE DEF IInv
  <1>1. TypeOK'
    BY DEF TypeOK, Standing, Row, States, Steps, Holding, Enqueue
  <1>2. Standing'
    BY DEF TypeOK, Standing, Row, Holding, Enqueue
  <1>3. Budget'
    BY DEF TypeOK, Standing, Budget, Row, Holding, Floor, Enqueue
  <1>4. Ledger'
    BY DEF TypeOK, Standing, Ledger, Row, Holding, Exposed, Open, Hot, Enqueue
  <1>5. SentWasAccepted' /\ OneAccount'
    BY DEF TypeOK, Standing, SentWasAccepted, OneAccount, Row, Holding, Enqueue
  <1> QED
    BY <1>1, <1>2, <1>3, <1>4, <1>5

\* A retry opens a new budget; leaving doubt it counts as a new decision.
LEMMA RetryInv ==
  ASSUME IInv, NEW m \in Messages, Retry(m)
  PROVE  IInv'
  <1> USE MessagesAssumption, AccountsAssumption, AttemptsAssumption, LimitAssumption, LeaseAssumption
  <1> USE DEF IInv
  <1>1. TypeOK'
    <2>1. m \in Messages
      OBVIOUS
    <2>2. 0 \in 0..LeaseTicks /\ 0 \in 0..MaxAttempts
      OBVIOUS
    <2>3. mail[m] \in Row
      BY <2>1 DEF TypeOK
    <2>4. [mail[m] EXCEPT !.state = "queued", !.attempts = 0, !.next = 0, !.lease = 0]
          \in Row
      BY <2>1, <2>2, <2>3 DEF TypeOK, Row, States
    <2>5. mail' \in [Messages -> Row]
      BY <2>1, <2>4 DEF TypeOK, Retry, Retryable
    <2> QED
      BY <2>5 DEF TypeOK, Steps, Retry, Retryable
  <1>2. Standing'
    BY DEF TypeOK, Standing, Row, Holding, Retry, Retryable
  <1>3. Budget'
    BY DEF TypeOK, Standing, Budget, Row, Holding, Floor, Retry, Retryable
  <1>4. Ledger'
    BY DEF TypeOK, Standing, Ledger, Row, Holding, Exposed, Open, Hot, Retry, Retryable
  <1>5. SentWasAccepted' /\ OneAccount'
    BY DEF TypeOK, Standing, SentWasAccepted, OneAccount, Row, Holding, Retry, Retryable
  <1> QED
    BY <1>1, <1>2, <1>3, <1>4, <1>5

\* Only a row of which no copy can leave is cancelled.
LEMMA CancelInv ==
  ASSUME IInv, NEW m \in Messages, Cancel(m)
  PROVE  IInv'
  <1> USE MessagesAssumption, AccountsAssumption, AttemptsAssumption, LimitAssumption, LeaseAssumption
  <1> USE DEF IInv
  <1>1. TypeOK'
    <2>1. m \in Messages
      OBVIOUS
    <2>2. 0 \in 0..LeaseTicks /\ 0 \in 0..MaxAttempts
      OBVIOUS
    <2>3. mail[m] \in Row
      BY <2>1 DEF TypeOK
    <2>4. [mail[m] EXCEPT !.state = "cancelled", !.next = 0, !.lease = 0]
          \in Row
      BY <2>1, <2>2, <2>3 DEF TypeOK, Row, States
    <2>5. mail' \in [Messages -> Row]
      BY <2>1, <2>4 DEF TypeOK, Cancel
    <2> QED
      BY <2>5 DEF TypeOK, Steps, Cancel
  <1>2. Standing'
    BY DEF TypeOK, Standing, Row, Holding, Cancel
  <1>3. Budget'
    BY DEF TypeOK, Standing, Budget, Row, Holding, Floor, Cancel
  <1>4. Ledger'
    BY DEF TypeOK, Standing, Ledger, Row, Holding, Exposed, Open, Hot, Cancel
  <1>5. SentWasAccepted' /\ OneAccount'
    BY DEF TypeOK, Standing, SentWasAccepted, OneAccount, Row, Holding, Cancel
  <1> QED
    BY <1>1, <1>2, <1>3, <1>4, <1>5

\* Forgetting a private message cancels it only while it waits.
LEMMA ForgetInv ==
  ASSUME IInv, NEW m \in Messages, Forget(m)
  PROVE  IInv'
  <1> USE MessagesAssumption, AccountsAssumption, AttemptsAssumption, LimitAssumption, LeaseAssumption
  <1> USE DEF IInv
  <1>1. TypeOK'
    <2>1. m \in Messages
      OBVIOUS
    <2>2. 0 \in 0..LeaseTicks /\ 0 \in 0..MaxAttempts
      OBVIOUS
    <2>3. mail[m] \in Row
      BY <2>1 DEF TypeOK
    <2>4. [mail[m] EXCEPT !.state = "cancelled", !.next = 0, !.lease = 0]
          \in Row
      BY <2>1, <2>2, <2>3 DEF TypeOK, Row, States
    <2>5. mail' \in [Messages -> Row]
      BY <2>1, <2>4 DEF TypeOK, Forget
    <2> QED
      BY <2>5 DEF TypeOK, Steps, Forget
  <1>2. Standing'
    BY DEF TypeOK, Standing, Row, Holding, Forget
  <1>3. Budget'
    BY DEF TypeOK, Standing, Budget, Row, Holding, Floor, Forget
  <1>4. Ledger'
    BY DEF TypeOK, Standing, Ledger, Row, Holding, Exposed, Open, Hot, Forget
  <1>5. SentWasAccepted' /\ OneAccount'
    BY DEF TypeOK, Standing, SentWasAccepted, OneAccount, Row, Holding, Forget
  <1> QED
    BY <1>1, <1>2, <1>3, <1>4, <1>5

\* Pausing a message changes no row.
LEMMA PauseInv ==
  ASSUME IInv, NEW m \in Messages, Pause(m)
  PROVE  IInv'
  <1> USE MessagesAssumption, AccountsAssumption, AttemptsAssumption, LimitAssumption, LeaseAssumption
  <1> USE DEF IInv
  <1>1. TypeOK'
    BY DEF TypeOK, Standing, Steps, Holding, Pause
  <1>2. Standing'
    BY DEF TypeOK, Standing, Holding, Pause
  <1>3. Budget'
    BY DEF TypeOK, Standing, Budget, Row, Pause
  <1>4. Ledger'
    BY DEF TypeOK, Standing, Ledger, Holding, Exposed, Open, Hot, Pause
  <1>5. SentWasAccepted' /\ OneAccount'
    BY DEF TypeOK, Standing, SentWasAccepted, OneAccount, Pause
  <1> QED
    BY <1>1, <1>2, <1>3, <1>4, <1>5

\* Changing the organization's SMTP connection rewrites no row.
LEMMA ConfigureInv ==
  ASSUME IInv, NEW a \in Accounts \cup {NoAccount}, Configure(a)
  PROVE  IInv'
  <1> USE MessagesAssumption, AccountsAssumption, AttemptsAssumption, LimitAssumption, LeaseAssumption
  <1> USE DEF IInv
  <1>1. TypeOK'
    BY DEF TypeOK, Standing, Steps, Holding, Configure
  <1>2. Standing'
    BY DEF TypeOK, Standing, Holding, Configure
  <1>3. Budget'
    BY DEF TypeOK, Standing, Budget, Row, Configure
  <1>4. Ledger'
    BY DEF TypeOK, Standing, Ledger, Holding, Exposed, Open, Hot, Configure
  <1>5. SentWasAccepted' /\ OneAccount'
    BY DEF TypeOK, Standing, SentWasAccepted, OneAccount, Configure
  <1> QED
    BY <1>1, <1>2, <1>3, <1>4, <1>5

\* A sweep starts holding nothing.
LEMMA StartInv ==
  ASSUME IInv, NEW rows \in SUBSET Messages, Start(rows)
  PROVE  IInv'
  <1> USE MessagesAssumption, AccountsAssumption, AttemptsAssumption, LimitAssumption, LeaseAssumption
  <1> USE DEF IInv
  <1>1. TypeOK'
    <2>1. todo' \subseteq Messages
      BY DEF Start, Due, Expired
    <2> QED
      BY <2>1 DEF TypeOK, Steps, Start
  <1>2. Standing'
    BY DEF TypeOK, Standing, Holding, Start
  <1>3. Budget'
    BY DEF TypeOK, Standing, Budget, Row, Start
  <1>4. Ledger'
    BY DEF TypeOK, Standing, Ledger, Holding, Exposed, Open, Hot, Start
  <1>5. SentWasAccepted' /\ OneAccount'
    BY DEF TypeOK, Standing, SentWasAccepted, OneAccount, Start
  <1> QED
    BY <1>1, <1>2, <1>3, <1>4, <1>5

\* A refused save drops the sweep and leaves an open submission on the wire.
LEMMA AbortInv ==
  ASSUME IInv, Abort, pc # "down"
  PROVE  IInv'
  <1> USE MessagesAssumption, AccountsAssumption, AttemptsAssumption, LimitAssumption, LeaseAssumption
  <1> USE DEF IInv
  <1>1. TypeOK'
    <2>1. fate = "open" => current \in Messages
      BY DEF TypeOK, Standing, Steps, Holding
    <2>2. wire' \in [Messages -> Nat]
      BY <2>1 DEF TypeOK, Abort
    <2> QED
      BY <2>2 DEF TypeOK, Steps, Abort
  <1>2. Standing'
    BY DEF TypeOK, Standing, Holding, Abort
  <1>3. Budget'
    BY DEF TypeOK, Standing, Budget, Row, Abort
  <1>4. Ledger'
    BY DEF TypeOK, Standing, Ledger, Holding, Exposed, Open, Hot, Abort
  <1>5. SentWasAccepted' /\ OneAccount'
    BY DEF TypeOK, Standing, SentWasAccepted, OneAccount, Abort
  <1> QED
    BY <1>1, <1>2, <1>3, <1>4, <1>5

\* Recovery puts an interrupted row in doubt and keeps its account.
LEMMA RecoverExpiredInv ==
  ASSUME IInv, NEW m \in Messages, RecoverExpired(m)
  PROVE  IInv'
  <1> USE MessagesAssumption, AccountsAssumption, AttemptsAssumption, LimitAssumption, LeaseAssumption
  <1> USE DEF IInv
  <1>1. TypeOK'
    <2>1. m \in Messages
      OBVIOUS
    <2>2. 0 \in 0..LeaseTicks /\ 0 \in 0..MaxAttempts
      OBVIOUS
    <2>3. mail[m] \in Row
      BY <2>1 DEF TypeOK
    <2>4. [mail[m] EXCEPT !.state = "uncertain", !.lease = 0]
          \in Row
      BY <2>1, <2>2, <2>3 DEF TypeOK, Row, States
    <2>5. mail' \in [Messages -> Row]
      BY <2>1, <2>4 DEF TypeOK, RecoverExpired, First
    <2> QED
      BY <2>5 DEF TypeOK, Steps, RecoverExpired, First
  <1>2. Standing'
    BY DEF TypeOK, Standing, Row, Holding, RecoverExpired, First
  <1>3. Budget'
    BY DEF TypeOK, Standing, Budget, Row, Holding, Floor, RecoverExpired, First
  <1>4. Ledger'
    BY DEF TypeOK, Standing, Ledger, Row, Holding, Exposed, Open, Hot, RecoverExpired, First
  <1>5. SentWasAccepted' /\ OneAccount'
    BY DEF TypeOK, Standing, SentWasAccepted, OneAccount, Row, Holding, RecoverExpired, First
  <1> QED
    BY <1>1, <1>2, <1>3, <1>4, <1>5

\* A row the sweep may not send, past its limit or paused, is passed over.
LEMMA PassOverInv ==
  ASSUME IInv, NEW m \in Messages, PassOver(m)
  PROVE  IInv'
  <1> USE MessagesAssumption, AccountsAssumption, AttemptsAssumption, LimitAssumption, LeaseAssumption
  <1> USE DEF IInv
  <1>1. TypeOK'
    BY DEF TypeOK, Standing, Steps, Holding, PassOver, First
  <1>2. Standing'
    BY DEF TypeOK, Standing, Holding, PassOver, First
  <1>3. Budget'
    BY DEF TypeOK, Standing, Budget, Row, PassOver, First
  <1>4. Ledger'
    BY DEF TypeOK, Standing, Ledger, Holding, Exposed, Open, Hot, PassOver, First
  <1>5. SentWasAccepted' /\ OneAccount'
    BY DEF TypeOK, Standing, SentWasAccepted, OneAccount, PassOver, First
  <1> QED
    BY <1>1, <1>2, <1>3, <1>4, <1>5

\* A claim takes a row of which nothing has left since the last decision.
LEMMA ClaimInv ==
  ASSUME IInv, NEW m \in Messages, Claim(m)
  PROVE  IInv'
  <1> USE MessagesAssumption, AccountsAssumption, AttemptsAssumption, LimitAssumption, LeaseAssumption
  <1> USE DEF IInv
  <1>1. TypeOK'
    <2>1. m \in Messages
      OBVIOUS
    <2>2. mail[m].attempts + 1 \in 0..MaxAttempts
      BY <2>1 DEF TypeOK, Budget, Row, Claim
    <2>3. Floor(LeaseTicks - elapsed) \in 0..LeaseTicks
      BY DEF TypeOK, Floor
    <2>4. [mail[m] EXCEPT !.state = "sending", !.attempts = mail[m].attempts + 1,
                         !.lease = Floor(LeaseTicks - elapsed)]
          \in Row
      BY ZenonT(40), <2>1, <2>2, <2>3 DEF TypeOK, Row, States
    <2>5. mail' \in [Messages -> Row]
      BY <2>1, <2>4 DEF TypeOK, Claim
    <2> QED
      BY <2>5 DEF TypeOK, Steps, Claim, First
  <1>2. Standing'
    BY DEF TypeOK, Standing, Row, Holding, Claim, First
  <1>3. Budget'
    <2>1. \A k \in Messages : k # m => mail'[k] = mail[k]
      BY DEF TypeOK, Claim
    <2>2. mail'[m].state = "sending" /\ mail'[m].attempts = mail[m].attempts + 1
      BY DEF TypeOK, Row, Claim
    <2>3. tries[m] <= mail[m].attempts /\ mail[m].attempts \in Nat /\ tries[m] \in Nat
      BY DEF TypeOK, Row, Budget
    <2>4. tries' = tries /\ pc' = "claimed" /\ current' = m /\ pc = "visiting"
      BY DEF Claim
    <2> QED
      BY <2>1, <2>2, <2>3, <2>4 DEF Budget
  <1>4. Ledger'
    BY DEF TypeOK, Standing, Ledger, Row, Holding, Exposed, Open, Hot, Claim, First
  <1>5. SentWasAccepted' /\ OneAccount'
    BY DEF TypeOK, Standing, SentWasAccepted, OneAccount, Row, Holding, Claim, First
  <1> QED
    BY <1>1, <1>2, <1>3, <1>4, <1>5

\* A veto before the send cancels the row and gives its attempt back.
LEMMA VetoInv ==
  ASSUME IInv, Veto
  PROVE  IInv'
  <1> USE MessagesAssumption, AccountsAssumption, AttemptsAssumption, LimitAssumption, LeaseAssumption
  <1> USE DEF IInv
  <1>1. TypeOK'
    <2>1. current \in Messages
      BY DEF Standing, Holding, Veto
    <2>2. Floor(mail[current].attempts - 1) \in 0..MaxAttempts
      BY <2>1 DEF TypeOK, Row, Floor
    <2>3. 0 \in 0..LeaseTicks
      OBVIOUS
    <2>4. [mail[current] EXCEPT !.state = "cancelled", !.lease = 0,
                               !.next = 0, !.attempts = Floor(@ - 1)]
          \in Row
      BY ZenonT(40), <2>1, <2>2, <2>3 DEF TypeOK, Row, States
    <2>5. mail' \in [Messages -> Row]
      BY <2>1, <2>4 DEF TypeOK, Veto, Settle
    <2> QED
      BY <2>5 DEF TypeOK, Steps, Veto, Settle
  <1>2. Standing'
    BY DEF TypeOK, Standing, Row, Holding, Veto, Settle
  <1>3. Budget'
    BY DEF TypeOK, Standing, Budget, Row, Holding, Floor, Veto, Settle
  <1>4. Ledger'
    BY DEF TypeOK, Standing, Ledger, Row, Holding, Exposed, Open, Hot, Veto, Settle
  <1>5. SentWasAccepted' /\ OneAccount'
    BY DEF TypeOK, Standing, SentWasAccepted, OneAccount, Row, Holding, Veto, Settle
  <1> QED
    BY <1>1, <1>2, <1>3, <1>4, <1>5

\* A message that cannot be built goes dead with nothing sent.
LEMMA PrepareRefusedInv ==
  ASSUME IInv, PrepareRefused
  PROVE  IInv'
  <1> USE MessagesAssumption, AccountsAssumption, AttemptsAssumption, LimitAssumption, LeaseAssumption
  <1> USE DEF IInv
  <1>1. TypeOK'
    <2>1. current \in Messages
      BY DEF Standing, Holding, PrepareRefused
    <2>2. 0 \in 0..LeaseTicks /\ 0 \in 0..MaxAttempts
      OBVIOUS
    <2>3. mail[current] \in Row
      BY <2>1 DEF TypeOK
    <2>4. [mail[current] EXCEPT !.state = "dead", !.lease = 0, !.next = 0]
          \in Row
      BY <2>1, <2>2, <2>3 DEF TypeOK, Row, States
    <2>5. mail' \in [Messages -> Row]
      BY <2>1, <2>4 DEF TypeOK, PrepareRefused, Settle
    <2> QED
      BY <2>5 DEF TypeOK, Steps, PrepareRefused, Settle
  <1>2. Standing'
    BY DEF TypeOK, Standing, Row, Holding, PrepareRefused, Settle
  <1>3. Budget'
    BY DEF TypeOK, Standing, Budget, Row, Holding, Floor, PrepareRefused, Settle
  <1>4. Ledger'
    BY DEF TypeOK, Standing, Ledger, Row, Holding, Exposed, Open, Hot, PrepareRefused, Settle
  <1>5. SentWasAccepted' /\ OneAccount'
    BY DEF TypeOK, Standing, SentWasAccepted, OneAccount, Row, Holding, PrepareRefused, Settle
  <1> QED
    BY <1>1, <1>2, <1>3, <1>4, <1>5

\* The claimed row is tied to the connection the message was prepared with.
LEMMA BindInv ==
  ASSUME IInv, Bind
  PROVE  IInv'
  <1> USE MessagesAssumption, AccountsAssumption, AttemptsAssumption, LimitAssumption, LeaseAssumption
  <1> USE DEF IInv
  <1>1. TypeOK'
    BY DEF TypeOK, Standing, Row, States, Steps, Holding, Bind, Replaced
  <1>2. Standing'
    BY DEF TypeOK, Standing, Row, Holding, Bind, Replaced
  <1>3. Budget'
    BY DEF TypeOK, Standing, Budget, Row, Holding, Floor, Bind, Replaced
  <1>4. Ledger'
    BY DEF TypeOK, Standing, Ledger, Row, Holding, Exposed, Open, Hot, Bind, Replaced
  <1>5. SentWasAccepted' /\ OneAccount'
    BY DEF TypeOK, Standing, SentWasAccepted, OneAccount, Row, Holding, Bind, Replaced
  <1> QED
    BY <1>1, <1>2, <1>3, <1>4, <1>5

\* A submission counts one try against the attempt already saved.
LEMMA SubmitInv ==
  ASSUME IInv, Submit
  PROVE  IInv'
  <1> USE MessagesAssumption, AccountsAssumption, AttemptsAssumption, LimitAssumption, LeaseAssumption
  <1> USE DEF IInv
  <1>1. TypeOK'
    BY DEF TypeOK, Standing, Steps, Holding, Submit
  <1>2. Standing'
    BY DEF TypeOK, Standing, Holding, Submit
  <1>3. Budget'
    BY DEF TypeOK, Standing, Budget, Row, Submit
  <1>4. Ledger'
    BY DEF TypeOK, Standing, Ledger, Holding, Exposed, Open, Hot, Submit
  <1>5. SentWasAccepted' /\ OneAccount'
    BY DEF TypeOK, Standing, SentWasAccepted, OneAccount, Submit
  <1> QED
    BY <1>1, <1>2, <1>3, <1>4, <1>5

\* The relay accepts the copy that was open.
LEMMA RelayAcceptsInv ==
  ASSUME IInv, RelayAccepts
  PROVE  IInv'
  <1> USE MessagesAssumption, AccountsAssumption, AttemptsAssumption, LimitAssumption, LeaseAssumption
  <1> USE DEF IInv
  <1>1. TypeOK'
    BY DEF TypeOK, Standing, Steps, Holding, RelayAccepts
  <1>2. Standing'
    BY DEF TypeOK, Standing, Holding, RelayAccepts
  <1>3. Budget'
    BY DEF TypeOK, Standing, Budget, Row, RelayAccepts
  <1>4. Ledger'
    BY DEF TypeOK, Standing, Ledger, Holding, Exposed, Open, Hot, RelayAccepts
  <1>5. SentWasAccepted' /\ OneAccount'
    BY DEF TypeOK, Standing, SentWasAccepted, OneAccount, RelayAccepts
  <1> QED
    BY <1>1, <1>2, <1>3, <1>4, <1>5

\* A refused submission is known to have left no copy.
LEMMA RelayRefusesInv ==
  ASSUME IInv, RelayRefuses
  PROVE  IInv'
  <1> USE MessagesAssumption, AccountsAssumption, AttemptsAssumption, LimitAssumption, LeaseAssumption
  <1> USE DEF IInv
  <1>1. TypeOK'
    BY DEF TypeOK, Standing, Steps, Holding, RelayRefuses
  <1>2. Standing'
    BY DEF TypeOK, Standing, Holding, RelayRefuses
  <1>3. Budget'
    BY DEF TypeOK, Standing, Budget, Row, RelayRefuses
  <1>4. Ledger'
    BY DEF TypeOK, Standing, Ledger, Holding, Exposed, Open, Hot, RelayRefuses
  <1>5. SentWasAccepted' /\ OneAccount'
    BY DEF TypeOK, Standing, SentWasAccepted, OneAccount, RelayRefuses
  <1> QED
    BY <1>1, <1>2, <1>3, <1>4, <1>5

\* A copy left on the wire may be accepted after the sweep forgot it.
LEMMA LateAcceptInv ==
  ASSUME IInv, NEW m \in Messages, LateAccept(m)
  PROVE  IInv'
  <1> USE MessagesAssumption, AccountsAssumption, AttemptsAssumption, LimitAssumption, LeaseAssumption
  <1> USE DEF IInv
  <1>1. TypeOK'
    BY DEF TypeOK, Standing, Steps, Holding, LateAccept
  <1>2. Standing'
    BY DEF TypeOK, Standing, Holding, LateAccept
  <1>3. Budget'
    BY DEF TypeOK, Standing, Budget, Row, LateAccept
  <1>4. Ledger'
    BY DEF TypeOK, Standing, Ledger, Holding, Exposed, Open, Hot, LateAccept
  <1>5. SentWasAccepted' /\ OneAccount'
    BY DEF TypeOK, Standing, SentWasAccepted, OneAccount, LateAccept
  <1> QED
    BY <1>1, <1>2, <1>3, <1>4, <1>5

\* A copy left on the wire may be lost.
LEMMA LateLossInv ==
  ASSUME IInv, NEW m \in Messages, LateLoss(m)
  PROVE  IInv'
  <1> USE MessagesAssumption, AccountsAssumption, AttemptsAssumption, LimitAssumption, LeaseAssumption
  <1> USE DEF IInv
  <1>1. TypeOK'
    BY DEF TypeOK, Standing, Steps, Holding, LateLoss
  <1>2. Standing'
    BY DEF TypeOK, Standing, Holding, LateLoss
  <1>3. Budget'
    BY DEF TypeOK, Standing, Budget, Row, LateLoss
  <1>4. Ledger'
    BY DEF TypeOK, Standing, Ledger, Holding, Exposed, Open, Hot, LateLoss
  <1>5. SentWasAccepted' /\ OneAccount'
    BY DEF TypeOK, Standing, SentWasAccepted, OneAccount, LateLoss
  <1> QED
    BY <1>1, <1>2, <1>3, <1>4, <1>5

\* The answer "sent" closes a row the relay has accepted.
LEMMA AnswerSentInv ==
  ASSUME IInv, AnswerSent
  PROVE  IInv'
  <1> USE MessagesAssumption, AccountsAssumption, AttemptsAssumption, LimitAssumption, LeaseAssumption
  <1> USE DEF IInv
  <1>1. TypeOK'
    <2>1. current \in Messages
      BY DEF Standing, Holding, AnswerSent
    <2>2. 0 \in 0..LeaseTicks /\ 0 \in 0..MaxAttempts
      OBVIOUS
    <2>3. mail[current] \in Row
      BY <2>1 DEF TypeOK
    <2>4. [mail[current] EXCEPT !.state = "sent", !.lease = 0, !.next = 0]
          \in Row
      BY <2>1, <2>2, <2>3 DEF TypeOK, Row, States
    <2>5. mail' \in [Messages -> Row]
      BY <2>1, <2>4 DEF TypeOK, AnswerSent, Settle
    <2> QED
      BY <2>5 DEF TypeOK, Steps, AnswerSent, Settle
  <1>2. Standing'
    BY DEF TypeOK, Standing, Row, Holding, AnswerSent, Settle
  <1>3. Budget'
    BY DEF TypeOK, Standing, Budget, Row, Holding, Floor, AnswerSent, Settle
  <1>4. Ledger'
    BY DEF TypeOK, Standing, Ledger, Row, Holding, Exposed, Open, Hot, AnswerSent, Settle
  <1>5. SentWasAccepted' /\ OneAccount'
    BY DEF TypeOK, Standing, SentWasAccepted, OneAccount, Row, Holding, AnswerSent, Settle
  <1> QED
    BY <1>1, <1>2, <1>3, <1>4, <1>5

\* A refusal returns the row to "failed", or to "dead" at the budget.
LEMMA AnswerTransientInv ==
  ASSUME IInv, AnswerTransient
  PROVE  IInv'
  <1> USE MessagesAssumption, AccountsAssumption, AttemptsAssumption, LimitAssumption, LeaseAssumption
  <1> USE DEF IInv
  <1>1. TypeOK'
    <2>1. current \in Messages
      BY DEF Standing, Holding, AnswerTransient
    <2>2. Backoff(mail[current].attempts) \in Nat
      BY <2>1, BackoffIsNat DEF TypeOK, Row, Standing, Holding, Budget, AnswerTransient
    <2>3. Floor(Backoff(mail[current].attempts) - elapsed) \in Nat
      BY <2>2, FloorIsNat DEF TypeOK
    <2> DEFINE end == IF mail[current].attempts >= MaxAttempts THEN "dead" ELSE "failed"
    <2>6. end \in States
      BY DEF States
    <2>7. 0 \in 0..LeaseTicks
      OBVIOUS
    <2> HIDE DEF end
    <2>4. [mail[current] EXCEPT !.state = end, !.lease = 0,
                 !.next = Floor(Backoff(mail[current].attempts) - elapsed)] \in Row
      BY ZenonT(40), <2>1, <2>3, <2>6, <2>7 DEF TypeOK, Row
    <2>5. mail' \in [Messages -> Row]
      BY <2>1, <2>4 DEF TypeOK, AnswerTransient, Settle, end
    <2> QED
      BY <2>5 DEF TypeOK, Steps, AnswerTransient, Settle
  <1>2. Standing'
    BY DEF TypeOK, Standing, Row, Holding, AnswerTransient, Settle
  <1>3. Budget'
    BY DEF TypeOK, Standing, Budget, Row, Holding, Floor, AnswerTransient, Settle
  <1>4. Ledger'
    BY DEF TypeOK, Standing, Ledger, Row, Holding, Exposed, Open, Hot, AnswerTransient, Settle
  <1>5. SentWasAccepted' /\ OneAccount'
    BY DEF TypeOK, Standing, SentWasAccepted, OneAccount, Row, Holding, AnswerTransient, Settle
  <1> QED
    BY <1>1, <1>2, <1>3, <1>4, <1>5

\* A permanent refusal closes the row with nothing sent.
LEMMA AnswerPermanentInv ==
  ASSUME IInv, AnswerPermanent
  PROVE  IInv'
  <1> USE MessagesAssumption, AccountsAssumption, AttemptsAssumption, LimitAssumption, LeaseAssumption
  <1> USE DEF IInv
  <1>1. TypeOK'
    <2>1. current \in Messages
      BY DEF Standing, Holding, AnswerPermanent
    <2>2. 0 \in 0..LeaseTicks /\ 0 \in 0..MaxAttempts
      OBVIOUS
    <2>3. mail[current] \in Row
      BY <2>1 DEF TypeOK
    <2>4. [mail[current] EXCEPT !.state = "dead", !.lease = 0, !.next = 0]
          \in Row
      BY <2>1, <2>2, <2>3 DEF TypeOK, Row, States
    <2>5. mail' \in [Messages -> Row]
      BY <2>1, <2>4 DEF TypeOK, AnswerPermanent, Settle
    <2> QED
      BY <2>5 DEF TypeOK, Steps, AnswerPermanent, Settle
  <1>2. Standing'
    BY DEF TypeOK, Standing, Row, Holding, AnswerPermanent, Settle
  <1>3. Budget'
    BY DEF TypeOK, Standing, Budget, Row, Holding, Floor, AnswerPermanent, Settle
  <1>4. Ledger'
    BY DEF TypeOK, Standing, Ledger, Row, Holding, Exposed, Open, Hot, AnswerPermanent, Settle
  <1>5. SentWasAccepted' /\ OneAccount'
    BY DEF TypeOK, Standing, SentWasAccepted, OneAccount, Row, Holding, AnswerPermanent, Settle
  <1> QED
    BY <1>1, <1>2, <1>3, <1>4, <1>5

\* Silence puts the row in doubt.
LEMMA AnswerUncertainInv ==
  ASSUME IInv, AnswerUncertain
  PROVE  IInv'
  <1> USE MessagesAssumption, AccountsAssumption, AttemptsAssumption, LimitAssumption, LeaseAssumption
  <1> USE DEF IInv
  <1>1. TypeOK'
    <2>1. current \in Messages
      BY DEF Standing, Holding, AnswerUncertain
    <2>2. 0 \in 0..LeaseTicks /\ 0 \in 0..MaxAttempts
      OBVIOUS
    <2>3. mail[current] \in Row
      BY <2>1 DEF TypeOK
    <2>4. [mail[current] EXCEPT !.state = "uncertain", !.lease = 0, !.next = 0]
          \in Row
      BY <2>1, <2>2, <2>3 DEF TypeOK, Row, States
    <2>5. mail' \in [Messages -> Row]
      BY <2>1, <2>4 DEF TypeOK, AnswerUncertain, Settle
    <2> QED
      BY <2>5 DEF TypeOK, Steps, AnswerUncertain, Settle
  <1>2. Standing'
    BY DEF TypeOK, Standing, Row, Holding, AnswerUncertain, Settle
  <1>3. Budget'
    BY DEF TypeOK, Standing, Budget, Row, Holding, Floor, AnswerUncertain, Settle
  <1>4. Ledger'
    BY DEF TypeOK, Standing, Ledger, Row, Holding, Exposed, Open, Hot, AnswerUncertain, Settle
  <1>5. SentWasAccepted' /\ OneAccount'
    BY DEF TypeOK, Standing, SentWasAccepted, OneAccount, Row, Holding, AnswerUncertain, Settle
  <1> QED
    BY <1>1, <1>2, <1>3, <1>4, <1>5

\* A crash leaves the claimed row in "sending" and the open submission on the wire.
LEMMA CrashInv ==
  ASSUME IInv, Crash
  PROVE  IInv'
  <1> USE MessagesAssumption, AccountsAssumption, AttemptsAssumption, LimitAssumption, LeaseAssumption
  <1> USE DEF IInv
  <1>1. TypeOK'
    <2>1. fate = "open" => current \in Messages
      BY DEF TypeOK, Standing, Steps, Holding
    <2>2. wire' \in [Messages -> Nat]
      BY <2>1 DEF TypeOK, Crash
    <2> QED
      BY <2>2 DEF TypeOK, Steps, Crash
  <1>2. Standing'
    BY DEF TypeOK, Standing, Holding, Crash
  <1>3. Budget'
    BY DEF TypeOK, Standing, Budget, Row, Crash
  <1>4. Ledger'
    BY DEF TypeOK, Standing, Ledger, Holding, Exposed, Open, Hot, Crash
  <1>5. SentWasAccepted' /\ OneAccount'
    BY DEF TypeOK, Standing, SentWasAccepted, OneAccount, Crash
  <1> QED
    BY <1>1, <1>2, <1>3, <1>4, <1>5

\* A restarted server holds no row.
LEMMA RestartInv ==
  ASSUME IInv, Restart
  PROVE  IInv'
  <1> USE MessagesAssumption, AccountsAssumption, AttemptsAssumption, LimitAssumption, LeaseAssumption
  <1> USE DEF IInv
  <1>1. TypeOK'
    BY DEF TypeOK, Standing, Steps, Holding, Restart
  <1>2. Standing'
    BY DEF TypeOK, Standing, Holding, Restart
  <1>3. Budget'
    BY DEF TypeOK, Standing, Budget, Row, Restart
  <1>4. Ledger'
    BY DEF TypeOK, Standing, Ledger, Holding, Exposed, Open, Hot, Restart
  <1>5. SentWasAccepted' /\ OneAccount'
    BY DEF TypeOK, Standing, SentWasAccepted, OneAccount, Restart
  <1> QED
    BY <1>1, <1>2, <1>3, <1>4, <1>5

\* Time moves countdowns only, and a running sweep's own clock.
LEMMA TickInv ==
  ASSUME IInv, Tick
  PROVE  IInv'
  <1> USE LeaseAssumption
  <1> USE DEF IInv
  <1>1. ASSUME NEW m \in Messages
        PROVE  /\ mail'[m] \in Row
               /\ mail'[m].state = mail[m].state
               /\ mail'[m].attempts = mail[m].attempts
               /\ mail'[m].account = mail[m].account
    <2>1. mail[m] \in Row
      BY DEF TypeOK
    <2>2. Floor(mail[m].lease - 1) \in 0..LeaseTicks
      BY <2>1 DEF Row, Floor
    <2>3. Floor(mail[m].next - 1) \in Nat
      BY <2>1, FloorIsNat DEF Row
    <2>4. mail'[m] = [mail[m] EXCEPT !.lease = Floor(mail[m].lease - 1),
                                     !.next = Floor(mail[m].next - 1)]
      BY DEF Tick
    <2> QED
      BY <2>1, <2>2, <2>3, <2>4 DEF Row
  <1>2. mail' \in [Messages -> Row]
    BY <1>1 DEF Tick
  <1>3. UNCHANGED <<smtp, paused, pc, todo, count, current, fate>> /\ UNCHANGED history
    BY DEF Tick
  <1>4. elapsed' \in Nat
    <2>1. elapsed' = elapsed + 1 \/ elapsed' = elapsed
      BY Zenon DEF Tick
    <2> QED
      BY <2>1 DEF TypeOK
  <1>5. TypeOK'
    BY <1>2, <1>3, <1>4 DEF TypeOK
  <1>6. Standing'
    BY <1>1, <1>3 DEF Standing, Holding
  <1>7. Budget'
    BY <1>1, <1>3 DEF Budget
  <1>8. Ledger'
    BY <1>1, <1>3 DEF Ledger, TypeOK, Exposed, Open, Hot
  <1>9. SentWasAccepted' /\ OneAccount'
    BY <1>1, <1>3 DEF SentWasAccepted, OneAccount
  <1> QED
    BY <1>5, <1>6, <1>7, <1>8, <1>9

\* A stuttering step changes nothing.
LEMMA StutterInv ==
  ASSUME IInv, UNCHANGED vars
  PROVE  IInv'
  BY DEF IInv, TypeOK, Standing, Budget, Ledger, SentWasAccepted, OneAccount, Exposed,
      Open, Hot, vars

\* Every action preserves the invariant.
LEMMA NextInv ==
  ASSUME IInv, [Next]_vars
  PROVE  IInv'
  <1>1. CASE Request
    <2>1. ASSUME NEW m \in Messages, Enqueue(m) \/ Retry(m) \/ Cancel(m) \/ Forget(m) \/ Pause(m)
          PROVE  IInv'
      BY <2>1, EnqueueInv, RetryInv, CancelInv, ForgetInv, PauseInv
    <2>2. ASSUME NEW a \in Accounts \cup {NoAccount}, Configure(a)
          PROVE  IInv'
      BY <2>2, ConfigureInv
    <2> QED
      BY <1>1, <2>1, <2>2 DEF Request
  <1>2. CASE TimerSweep \/ RequestedSweep \/ \E m \in Messages : DeliverOne(m)
    <2>1. PICK rows \in SUBSET Messages : Start(rows)
      BY <1>2 DEF TimerSweep, RequestedSweep, DeliverOne
    <2> QED
      BY <2>1, StartInv
  <1>3. CASE SweepStep
    <2>1. ASSUME NEW m \in Messages, RecoverExpired(m) \/ PassOver(m) \/ Claim(m)
          PROVE  IInv'
      BY <2>1, RecoverExpiredInv, PassOverInv, ClaimInv
    <2>2. Finished => IInv'
      BY AbortInv DEF Finished
    <2>3. Veto \/ PrepareRefused \/ Bind \/ Submit => IInv'
      BY VetoInv, PrepareRefusedInv, BindInv, SubmitInv
    <2>4. AnswerSent \/ AnswerTransient \/ AnswerPermanent \/ AnswerUncertain => IInv'
      BY AnswerSentInv, AnswerTransientInv, AnswerPermanentInv, AnswerUncertainInv
    <2> QED
      BY <1>3, <2>1, <2>2, <2>3, <2>4 DEF SweepStep
  <1>4. CASE SaveFails
    BY <1>4, AbortInv DEF SaveFails
  <1>5. CASE RelayAccepts \/ RelayRefuses
    BY <1>5, RelayAcceptsInv, RelayRefusesInv
  <1>6. CASE \E m \in Messages : LateAccept(m) \/ LateLoss(m)
    BY <1>6, LateAcceptInv, LateLossInv
  <1>7. CASE Crash \/ Restart \/ Tick
    BY <1>7, CrashInv, RestartInv, TickInv
  <1>8. CASE UNCHANGED vars
    BY <1>8, StutterInv
  <1> QED
    BY <1>1, <1>2, <1>3, <1>4, <1>5, <1>6, <1>7, <1>8 DEF Next

\* The inductive invariant holds in every reachable state.
THEOREM InvariantHolds == Spec => []IInv
  <1>1. Init => IInv
    BY InitInv
  <1>2. IInv /\ [Next]_vars => IInv'
    BY NextInv
  <1> QED
    BY <1>1, <1>2, PTL DEF Spec

-----------------------------------------------------------------------------
(* What follows *)

\* Rows, leases, attempts and the sweep's own state keep their types.
THEOREM TypeCorrect == Spec => []TypeOK
  <1>1. IInv => TypeOK
    BY DEF IInv
  <1> QED
    BY <1>1, InvariantHolds, PTL

\* At most one copy per decision reaches the relay, however deliver_selected is
\* interrupted.
THEOREM AtMostOneCopy == Spec => []OneCopyPerDecision
  <1>1. IInv => OneCopyPerDecision
    <2> SUFFICES ASSUME IInv, NEW m \in Messages PROVE Exposed(m) <= resends[m] + 1
      BY DEF OneCopyPerDecision
    <2>1. Exposed(m) \in Nat /\ resends[m] \in Nat
      BY DEF IInv, TypeOK, Exposed, Open
    <2> QED
      BY <2>1 DEF IInv, Ledger, Hot
  <1> QED
    BY <1>1, InvariantHolds, PTL

\* A row that says "not delivered" is right about it.
THEOREM StatesAreTrue == Spec => []KnownStatesAreTrue
  <1>1. IInv => KnownStatesAreTrue
    <2> SUFFICES ASSUME IInv, NEW m \in Messages,
                        mail[m].state \in {"queued", "failed", "dead", "cancelled"}
                 PROVE  Exposed(m) <= resends[m]
      BY DEF KnownStatesAreTrue
    <2>1. m \notin hot
      BY DEF IInv, Ledger
    <2>2. resends[m] \in Nat
      BY DEF IInv, TypeOK
    <2> QED
      BY <2>1, <2>2 DEF IInv, Ledger, Hot
  <1> QED
    BY <1>1, InvariantHolds, PTL

\* "sent" means accepted by the relay.
THEOREM SentIsTrue == Spec => []SentWasAccepted
  <1>1. IInv => SentWasAccepted
    BY DEF IInv
  <1> QED
    BY <1>1, InvariantHolds, PTL

\* A settled row tells the operator the truth, whichever way it was settled.
THEOREM SettledIsTrue == Spec => []SettledRowsAreTrue
  <1>1. KnownStatesAreTrue /\ SentWasAccepted => SettledRowsAreTrue
    BY DEF SettledRowsAreTrue
  <1> QED
    BY <1>1, StatesAreTrue, SentIsTrue, PTL

\* A message never changes its SMTP connection once it was submitted through one.
THEOREM NeverTwoAccounts == Spec => []OneAccount
  <1>1. IInv => OneAccount
    BY DEF IInv
  <1> QED
    BY <1>1, InvariantHolds, PTL

\* Submissions between two operator decisions stay within max-attempts.
THEOREM BudgetIsKept == Spec => []AttemptBudget
  <1>1. IInv => AttemptBudget
    <2> SUFFICES ASSUME IInv, NEW m \in Messages PROVE tries[m] <= MaxAttempts
      BY DEF AttemptBudget
    <2>1. mail[m].attempts \in 0..MaxAttempts /\ tries[m] \in Nat
      BY DEF IInv, TypeOK, Row
    <2>2. tries[m] <= mail[m].attempts
      BY DEF IInv, Budget
    <2> QED
      BY <2>1, <2>2, AttemptsAssumption
  <1> QED
    BY <1>1, InvariantHolds, PTL

\* What only some steps do to a row: the rows a step rewrites, and how.
LEMMA RowSteps ==
  ASSUME IInv, [Next]_vars, NEW m \in Messages
  PROVE  /\ mail[m].state \in {"cancelled", "sent"} =>
                mail'[m].state = mail[m].state /\ tries'[m] = tries[m]
         /\ mail[m].state = "sending" /\ mail'[m].state \in {"queued", "failed"} =>
                current = m /\ fate = "refused"
  <1> USE DEF IInv, TypeOK, Row
  <1>1. CASE Request
    BY <1>1 DEF Request, Enqueue, Retry, Retryable, Cancel, Forget, Pause, Configure
  <1>2. CASE UNCHANGED mail /\ UNCHANGED tries
    BY <1>2
  <1>3. CASE \E k \in Messages : RecoverExpired(k) \/ Claim(k)
    <2>1. PICK k \in Messages : RecoverExpired(k) \/ Claim(k)
      BY <1>3
    <2>2. tries' = tries /\ mail[k].state \in {"sending", "queued", "failed"}
      BY <2>1 DEF RecoverExpired, Claim
    <2>3. m # k => mail'[m] = mail[m]
      BY <2>1 DEF RecoverExpired, Claim
    <2>4. mail'[k].state \in {"uncertain", "sending"}
      <3>1. CASE RecoverExpired(k)
        BY <3>1 DEF RecoverExpired
      <3>2. CASE Claim(k)
        BY <3>2 DEF Claim
      <3> QED
        BY <2>1, <3>1, <3>2
    <2> QED
      BY <2>2, <2>3, <2>4
  <1>4. CASE Veto \/ PrepareRefused
    BY ZenonT(40), <1>4 DEF Veto, PrepareRefused, Settle, Standing, Holding
  <1>5. CASE Bind \/ Submit
    BY <1>5 DEF Bind, Submit, Standing, Holding
  <1>6. CASE AnswerSent \/ AnswerPermanent \/ AnswerUncertain
    BY ZenonT(40), <1>6 DEF AnswerSent, AnswerPermanent, AnswerUncertain, Settle, Standing, Holding
  <1>7. CASE AnswerTransient
    <2>1. current \in Messages /\ mail[current].state = "sending" /\ fate = "refused"
      BY <1>7 DEF AnswerTransient, Standing, Holding
    <2>2. tries' = tries /\ (m # current => mail'[m] = mail[m])
      BY <1>7, <2>1 DEF AnswerTransient, Settle
    <2> QED
      BY <2>1, <2>2
  <1>8. CASE Tick
    BY <1>8 DEF Tick
  <1> QED
    BY <1>1, <1>2, <1>3, <1>4, <1>5, <1>6, <1>7, <1>8
    DEF Next, vars, SweepStep, TimerSweep, RequestedSweep, DeliverOne, Start, PassOver,
        Finished, Abort, SaveFails, RelayAccepts, RelayRefuses, LateAccept, LateLoss,
        Crash, Restart

\* Cancelled and sent rows are final: no step rewrites or submits them.
THEOREM FinalStatesHold == Spec => DecidedIsFinal
  <1>1. IInv /\ [Next]_vars =>
            [\A m \in Messages : mail[m].state \in {"cancelled", "sent"} =>
                mail'[m].state = mail[m].state /\ tries'[m] = tries[m]]_vars
    BY RowSteps
  <1> QED
    BY <1>1, InvariantHolds, PTL DEF Spec, DecidedIsFinal

\* Recovery never makes an interrupted delivery claimable again.
THEOREM RecoveryNeverResends == Spec => NoAutomaticResend
  <1>1. IInv /\ [Next]_vars =>
            [\A m \in Messages :
                mail[m].state = "sending" /\ mail'[m].state \in {"queued", "failed"} =>
                    current = m /\ fate = "refused"]_vars
    BY RowSteps
  <1> QED
    BY <1>1, InvariantHolds, PTL DEF Spec, NoAutomaticResend
=============================================================================
