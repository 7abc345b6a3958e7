--------------------- MODULE MailOutboxRefinementProofs ---------------------
(***************************************************************************)
(* MailOutbox implements MailContract, for every value of the constants.   *)
(* Each action is shown to be one contract action or a stutter; the        *)
(* inductive invariant gives what the contract's guards ask for.           *)
(***************************************************************************)
EXTENDS MailOutboxRefinement, MailOutboxProofs

Seen == <<phaseBar, accepted, pendingBar, decisionsBar>>

-----------------------------------------------------------------------------
(* The mapping, one message at a time *)

\* A step that rewrites one row and no other row's phase.
LEMMA PhaseStep ==
  ASSUME NEW m \in Messages, NEW to,
         \A k \in Messages \ {m} : mail'[k].state = mail[k].state /\ (k \in hot' <=> k \in hot),
         PhaseOf(m)' = to
  PROVE  phaseBar' = [phaseBar EXCEPT ![m] = to]
  <1>1. \A k \in Messages \ {m} : PhaseOf(k)' = PhaseOf(k)
    BY DEF PhaseOf
  <1> QED
    BY <1>1 DEF phaseBar

\* No phase changes when no message's does.
LEMMA PhaseStutter ==
  ASSUME \A k \in Messages : PhaseOf(k)' = PhaseOf(k)
  PROVE  phaseBar' = phaseBar
  BY DEF phaseBar

\* A submission that moves from the sweep to the wire stays pending.
LEMMA PendingStutter ==
  ASSUME \A k \in Messages : wire'[k] + Open(k)' = wire[k] + Open(k)
  PROVE  pendingBar' = pendingBar
  BY DEF pendingBar

\* One submission of m fewer, and no other message's.
LEMMA PendingDown ==
  ASSUME NEW m \in Messages, wire \in [Messages -> Nat],
         \A k \in Messages \ {m} : wire'[k] + Open(k)' = wire[k] + Open(k),
         wire[m] + Open(m) > 0, wire'[m] + Open(m)' = (wire[m] + Open(m)) - 1
  PROVE  pendingBar' = [pendingBar EXCEPT ![m] = @ - 1] /\ pendingBar[m] > 0
  <1> DEFINE left == [pendingBar EXCEPT ![m] = pendingBar[m] - 1]
  <1>1. pendingBar[m] = wire[m] + Open(m)
    BY DEF pendingBar
  <1>2. pendingBar' = [k \in Messages |-> wire'[k] + Open(k)']
    BY DEF pendingBar
  <1>3. left = [k \in Messages |-> IF k = m THEN pendingBar[m] - 1 ELSE pendingBar[k]]
    BY DEF pendingBar
  <1>4. \A k \in Messages : wire'[k] + Open(k)'
                            = IF k = m THEN pendingBar[m] - 1 ELSE pendingBar[k]
    <2> SUFFICES ASSUME NEW k \in Messages
                 PROVE  wire'[k] + Open(k)'
                          = IF k = m THEN pendingBar[m] - 1 ELSE pendingBar[k]
      OBVIOUS
    <2>1. CASE k = m
      <3>1. wire'[m] + Open(m)' = pendingBar[m] - 1
        BY <1>1
      <3> QED
        BY <2>1, <3>1
    <2>2. CASE k # m
      <3>1. pendingBar[k] = wire[k] + Open(k)
        BY DEF pendingBar
      <3> QED
        BY <2>2, <3>1
    <2> QED
      BY <2>1, <2>2
  <1>5. pendingBar' = left
    <2> HIDE DEF left
    <2> QED
      BY <1>2, <1>3, <1>4
  <1> QED
    BY <1>1, <1>5

\* Decisions change only with a new row or a resend.
LEMMA DecisionsStutter ==
  ASSUME \A k \in Messages : mail'[k].state = "absent" <=> mail[k].state = "absent",
         resends' = resends
  PROVE  decisionsBar' = decisionsBar
  BY DEF decisionsBar

\* Steps that rewrite no row and no history.
LEMMA QuietStep ==
  ASSUME UNCHANGED <<mail, hot, wire, accepted, resends>>,
         \A k \in Messages : Open(k)' = Open(k)
  PROVE  UNCHANGED Seen
  <1>1. phaseBar' = phaseBar
    BY DEF phaseBar, PhaseOf
  <1>2. pendingBar' = pendingBar
    BY DEF pendingBar
  <1>3. decisionsBar' = decisionsBar
    BY DEF decisionsBar
  <1> QED
    BY <1>1, <1>2, <1>3 DEF Seen

-----------------------------------------------------------------------------
(* Each action is one step of the contract, or none *)

Simulates == Contract!Next \/ UNCHANGED Seen

\* Steps that rewrite the row of m and leave everything else the contract sees.
LEMMA RowStep ==
  ASSUME IInv, NEW m \in Messages, NEW to,
         \A k \in Messages \ {m} : mail'[k] = mail[k],
         PhaseOf(m)' = to,
         mail[m].state # "absent", mail'[m].state # "absent",
         UNCHANGED <<hot, accepted, resends>>,
         \A k \in Messages : wire'[k] + Open(k)' = wire[k] + Open(k)
  PROVE  /\ phaseBar' = [phaseBar EXCEPT ![m] = to]
         /\ UNCHANGED <<accepted, pendingBar, decisionsBar>>
         /\ phaseBar[m] = PhaseOf(m)
  <1>1. phaseBar' = [phaseBar EXCEPT ![m] = to]
    BY PhaseStep
  <1>2. pendingBar' = pendingBar
    BY PendingStutter
  <1>3. decisionsBar' = decisionsBar
    BY DecisionsStutter
  <1> QED
    BY <1>1, <1>2, <1>3 DEF phaseBar

\* A new row is the contract's first decision on a message.
LEMMA EnqueueSimulates ==
  ASSUME IInv, NEW m \in Messages, Enqueue(m)
  PROVE  Contract!Decide(m)
  <1> USE DEF Enqueue, stored, sweep, history
  <1>1. mail'[m].state = "queued" /\ \A k \in Messages \ {m} : mail'[k] = mail[k]
    BY DEF IInv, TypeOK, Row
  <1>2. phaseBar[m] = "none" /\ PhaseOf(m)' = "waiting"
    BY <1>1 DEF phaseBar, PhaseOf
  <1>3. phaseBar' = [phaseBar EXCEPT ![m] = "waiting"]
    BY <1>1, <1>2, PhaseStep
  <1>4. pendingBar' = pendingBar
    BY DEF pendingBar, Open
  <1>5. decisionsBar' = [decisionsBar EXCEPT ![m] = @ + 1]
    <2>1. resends[m] = 0 /\ resends' = resends
      BY DEF IInv, Ledger
    <2> QED
      BY <1>1, <2>1 DEF decisionsBar
  <1> QED
    BY <1>2, <1>3, <1>4, <1>5 DEF Contract!Decide, Contract!Move





\* Retrying, by the state retried from: a resend is a new decision.
LEMMA RetrySimulates ==
  ASSUME IInv, NEW m \in Messages, Retry(m)
  PROVE  Simulates
  <1> USE DEF Retry, stored, sweep, history
  <1>1. mail'[m].state = "queued" /\ \A k \in Messages \ {m} : mail'[k] = mail[k]
    BY DEF IInv, TypeOK, Row
  <1>2. PhaseOf(m)' = "waiting"
    BY <1>1 DEF PhaseOf
  <1>3. phaseBar' = [phaseBar EXCEPT ![m] = "waiting"]
    BY <1>1, <1>2, PhaseStep
  <1>4. pendingBar' = pendingBar
    BY DEF pendingBar, Open
  <1>5. CASE mail[m].state = "uncertain"
    <2>1. phaseBar[m] = "doubtful"
      BY <1>5 DEF phaseBar, PhaseOf
    <2>2. decisionsBar' = [decisionsBar EXCEPT ![m] = @ + 1]
      BY <1>1, <1>5 DEF decisionsBar, IInv, TypeOK
    <2>3. Contract!Decide(m)
      BY <1>3, <1>4, <2>1, <2>2 DEF Contract!Decide, Contract!Move
    <2> QED
      BY <2>3 DEF Simulates, Contract!Next
  <1>6. CASE mail[m].state \in {"failed", "dead"}
    <2>1. resends' = resends
      BY <1>6 DEF IInv, TypeOK
    <2>2. decisionsBar' = decisionsBar
      BY <1>1, <1>6, <2>1, DecisionsStutter
    <2>3. CASE mail[m].state = "failed"
      <3>1. phaseBar[m] = "waiting"
        BY <2>3 DEF phaseBar, PhaseOf
      <3>2. phaseBar' = phaseBar
        BY <1>3, <3>1 DEF phaseBar
      <3> QED
        BY <1>4, <2>2, <3>2 DEF Simulates, Seen
    <2>4. CASE mail[m].state = "dead"
      <3>1. phaseBar[m] = "closed"
        BY <2>4 DEF phaseBar, PhaseOf
      <3>2. Contract!Reopen(m)
        BY <1>3, <1>4, <2>2, <3>1 DEF Contract!Reopen, Contract!Move
      <3> QED
        BY <3>2 DEF Simulates, Contract!Next
    <2> QED
      BY <1>6, <2>3, <2>4
  <1> QED
    BY <1>5, <1>6 DEF Retryable

\* Cancelling withdraws a waiting message.
LEMMA CancelSimulates ==
  ASSUME IInv, NEW m \in Messages, Cancel(m)
  PROVE  Simulates
  <1> USE DEF Cancel, stored, sweep, history
  <1>1. mail'[m].state = "cancelled" /\ \A k \in Messages \ {m} : mail'[k] = mail[k]
    BY DEF IInv, TypeOK, Row
  <1>2. PhaseOf(m)' = "withdrawn"
    BY <1>1 DEF PhaseOf
  <1>3. PhaseOf(m) = "waiting"
    BY SMT DEF PhaseOf, IInv, Ledger
  <1>4. \A k \in Messages : wire'[k] + Open(k)' = wire[k] + Open(k)
    BY SMT DEF Open, IInv, TypeOK, Standing, Holding
  <1>5. /\ phaseBar' = [phaseBar EXCEPT ![m] = "withdrawn"]
        /\ UNCHANGED <<accepted, pendingBar, decisionsBar>>
        /\ phaseBar[m] = PhaseOf(m)
    BY <1>1, <1>2, <1>4, RowStep
  <1>6. Contract!Withdraw(m)
    BY <1>3, <1>5 DEF Contract!Withdraw, Contract!Move
  <1> QED
    BY <1>6 DEF Simulates, Contract!Next

\* Forgetting withdraws a waiting private message and leaves others alone.
LEMMA ForgetSimulates ==
  ASSUME IInv, NEW m \in Messages, Forget(m)
  PROVE  Simulates
  <1> USE DEF Forget, stored, sweep, history
  <1>1. mail'[m].state = "cancelled" /\ \A k \in Messages \ {m} : mail'[k] = mail[k]
    BY DEF IInv, TypeOK, Row
  <1>2. PhaseOf(m)' = "withdrawn"
    BY <1>1 DEF PhaseOf
  <1>3. PhaseOf(m) \in {"waiting", "closed"}
    BY SMT DEF PhaseOf, IInv, Ledger
  <1>4. \A k \in Messages : wire'[k] + Open(k)' = wire[k] + Open(k)
    BY SMT DEF Open, IInv, TypeOK, Standing, Holding
  <1>5. /\ phaseBar' = [phaseBar EXCEPT ![m] = "withdrawn"]
        /\ UNCHANGED <<accepted, pendingBar, decisionsBar>>
        /\ phaseBar[m] = PhaseOf(m)
    BY <1>1, <1>2, <1>4, RowStep
  <1>6. Contract!Withdraw(m)
    BY <1>3, <1>5 DEF Contract!Withdraw, Contract!Move
  <1> QED
    BY <1>6 DEF Simulates, Contract!Next

\* Recovery is doubt, whether or not a copy left.
LEMMA RecoverExpiredSimulates ==
  ASSUME IInv, NEW m \in Messages, RecoverExpired(m)
  PROVE  Simulates
  <1> USE DEF RecoverExpired, stored, sweep, history
  <1>1. mail'[m].state = "uncertain" /\ \A k \in Messages \ {m} : mail'[k] = mail[k]
    BY DEF IInv, TypeOK, Row
  <1>2. PhaseOf(m)' = "doubtful"
    BY <1>1 DEF PhaseOf
  <1>3. PhaseOf(m) \in {"offered", "waiting"}
    BY SMT DEF PhaseOf, IInv, Ledger
  <1>4. \A k \in Messages : wire'[k] + Open(k)' = wire[k] + Open(k)
    BY SMT DEF Open, IInv, TypeOK, Standing, Holding
  <1>5. /\ phaseBar' = [phaseBar EXCEPT ![m] = "doubtful"]
        /\ UNCHANGED <<accepted, pendingBar, decisionsBar>>
        /\ phaseBar[m] = PhaseOf(m)
    BY <1>1, <1>2, <1>4, RowStep
  <1>6. Contract!Doubt(m)
    BY <1>3, <1>5 DEF Contract!Doubt, Contract!Move
  <1> QED
    BY <1>6 DEF Simulates, Contract!Next

\* A veto withdraws a message that was not offered.
LEMMA VetoSimulates ==
  ASSUME IInv, Veto
  PROVE  Simulates
  <1> USE DEF Veto, Settle, stored, sweep, history
  <1>0. PICK m \in Messages : m = current /\ mail[m].state = "sending"
    BY DEF IInv, Standing, Holding
  <1>1. mail'[m].state = "cancelled" /\ \A k \in Messages \ {m} : mail'[k] = mail[k]
    BY <1>0 DEF IInv, TypeOK, Row
  <1>2. PhaseOf(m)' = "withdrawn"
    BY <1>1 DEF PhaseOf
  <1>3. PhaseOf(m) = "waiting"
    BY <1>0, SMT DEF PhaseOf, IInv, Ledger
  <1>4. \A k \in Messages : wire'[k] + Open(k)' = wire[k] + Open(k)
    BY <1>0, SMT DEF Open, IInv, TypeOK, Standing, Holding
  <1>5. /\ phaseBar' = [phaseBar EXCEPT ![m] = "withdrawn"]
        /\ UNCHANGED <<accepted, pendingBar, decisionsBar>>
        /\ phaseBar[m] = PhaseOf(m)
    BY <1>0, <1>1, <1>2, <1>4, RowStep
  <1>6. Contract!Withdraw(m)
    BY <1>0, <1>3, <1>5 DEF Contract!Withdraw, Contract!Move
  <1> QED
    BY <1>0, <1>6 DEF Simulates, Contract!Next

\* A message that cannot be built is closed.
LEMMA PrepareRefusedSimulates ==
  ASSUME IInv, PrepareRefused
  PROVE  Simulates
  <1> USE DEF PrepareRefused, Settle, stored, sweep, history
  <1>0. PICK m \in Messages : m = current /\ mail[m].state = "sending"
    BY DEF IInv, Standing, Holding
  <1>1. mail'[m].state = "dead" /\ \A k \in Messages \ {m} : mail'[k] = mail[k]
    BY <1>0 DEF IInv, TypeOK, Row
  <1>2. PhaseOf(m)' = "closed"
    BY <1>1 DEF PhaseOf
  <1>3. PhaseOf(m) = "waiting"
    BY <1>0, SMT DEF PhaseOf, IInv, Ledger
  <1>4. \A k \in Messages : wire'[k] + Open(k)' = wire[k] + Open(k)
    BY <1>0, SMT DEF Open, IInv, TypeOK, Standing, Holding
  <1>5. /\ phaseBar' = [phaseBar EXCEPT ![m] = "closed"]
        /\ UNCHANGED <<accepted, pendingBar, decisionsBar>>
        /\ phaseBar[m] = PhaseOf(m)
    BY <1>0, <1>1, <1>2, <1>4, RowStep
  <1>6. Contract!Close(m)
    BY <1>0, <1>3, <1>5 DEF Contract!Close, Contract!Move
  <1> QED
    BY <1>0, <1>6 DEF Simulates, Contract!Next

\* A permanent refusal closes a message that was not offered.
LEMMA AnswerPermanentSimulates ==
  ASSUME IInv, AnswerPermanent
  PROVE  Simulates
  <1> USE DEF AnswerPermanent, Settle, stored, sweep, history
  <1>0. PICK m \in Messages : m = current /\ mail[m].state = "sending"
    BY DEF IInv, Standing, Holding
  <1>1. mail'[m].state = "dead" /\ \A k \in Messages \ {m} : mail'[k] = mail[k]
    BY <1>0 DEF IInv, TypeOK, Row
  <1>2. PhaseOf(m)' = "closed"
    BY <1>1 DEF PhaseOf
  <1>3. PhaseOf(m) = "waiting"
    BY <1>0, SMT DEF PhaseOf, IInv, Ledger
  <1>4. \A k \in Messages : wire'[k] + Open(k)' = wire[k] + Open(k)
    BY <1>0, SMT DEF Open, IInv, TypeOK, Standing, Holding
  <1>5. /\ phaseBar' = [phaseBar EXCEPT ![m] = "closed"]
        /\ UNCHANGED <<accepted, pendingBar, decisionsBar>>
        /\ phaseBar[m] = PhaseOf(m)
    BY <1>0, <1>1, <1>2, <1>4, RowStep
  <1>6. Contract!Close(m)
    BY <1>0, <1>3, <1>5 DEF Contract!Close, Contract!Move
  <1> QED
    BY <1>0, <1>6 DEF Simulates, Contract!Next

\* Silence after an offer is doubt.
LEMMA AnswerUncertainSimulates ==
  ASSUME IInv, AnswerUncertain
  PROVE  Simulates
  <1> USE DEF AnswerUncertain, Settle, stored, sweep, history
  <1>0. PICK m \in Messages : m = current /\ mail[m].state = "sending"
    BY DEF IInv, Standing, Holding
  <1>1. mail'[m].state = "uncertain" /\ \A k \in Messages \ {m} : mail'[k] = mail[k]
    BY <1>0 DEF IInv, TypeOK, Row
  <1>2. PhaseOf(m)' = "doubtful"
    BY <1>1 DEF PhaseOf
  <1>3. PhaseOf(m) \in {"offered", "waiting"}
    BY <1>0, SMT DEF PhaseOf, IInv, Ledger
  <1>4. \A k \in Messages : wire'[k] + Open(k)' = wire[k] + Open(k)
    BY <1>0, SMT DEF Open, IInv, TypeOK, Standing, Holding
  <1>5. /\ phaseBar' = [phaseBar EXCEPT ![m] = "doubtful"]
        /\ UNCHANGED <<accepted, pendingBar, decisionsBar>>
        /\ phaseBar[m] = PhaseOf(m)
    BY <1>0, <1>1, <1>2, <1>4, RowStep
  <1>6. Contract!Doubt(m)
    BY <1>0, <1>3, <1>5 DEF Contract!Doubt, Contract!Move
  <1> QED
    BY <1>0, <1>6 DEF Simulates, Contract!Next

\* The relay's "sent": the submission was accepted.
LEMMA AnswerSentSimulates ==
  ASSUME IInv, AnswerSent
  PROVE  Simulates
  <1> USE DEF AnswerSent, Settle, stored, sweep, history
  <1>0. PICK m \in Messages : m = current /\ mail[m].state = "sending"
    BY DEF IInv, Standing, Holding
  <1>1. mail'[m].state = "sent" /\ \A k \in Messages \ {m} : mail'[k] = mail[k]
    BY <1>0 DEF IInv, TypeOK, Row
  <1>2. PhaseOf(m)' = "delivered"
    BY <1>1 DEF PhaseOf
  <1>3. PhaseOf(m) = "offered" /\ accepted[m] > 0
    BY <1>0 DEF PhaseOf, IInv, Ledger, Standing
  <1>4. \A k \in Messages : wire'[k] + Open(k)' = wire[k] + Open(k)
    BY DEF Open
  <1>5. /\ phaseBar' = [phaseBar EXCEPT ![m] = "delivered"]
        /\ UNCHANGED <<accepted, pendingBar, decisionsBar>>
        /\ phaseBar[m] = PhaseOf(m)
    BY <1>0, <1>1, <1>2, <1>4, RowStep
  <1>6. Contract!Deliver(m)
    BY <1>3, <1>5 DEF Contract!Deliver, Contract!Move
  <1> QED
    BY <1>6 DEF Simulates, Contract!Next

\* A refusal leaves the message waiting, or closes it at the attempt budget.
LEMMA AnswerTransientSimulates ==
  ASSUME IInv, AnswerTransient
  PROVE  Simulates
  <1> USE DEF Settle, stored, sweep, history
  <1>0. PICK m \in Messages : m = current /\ mail[m].state = "sending"
    BY DEF IInv, Standing, Holding, AnswerTransient
  <1>1. mail'[m].state \in {"dead", "failed"} /\ \A k \in Messages \ {m} : mail'[k] = mail[k]
    BY <1>0, Zenon DEF AnswerTransient, IInv, TypeOK, Row
  <1>2. PhaseOf(m)' \in {"closed", "waiting"}
    BY <1>1 DEF PhaseOf
  <1>3. PhaseOf(m) = "waiting"
    BY <1>0 DEF PhaseOf, IInv, Ledger, AnswerTransient
  <1>4. \A k \in Messages : wire'[k] + Open(k)' = wire[k] + Open(k)
    BY DEF Open, AnswerTransient
  <1>5. PICK to \in {"closed", "waiting"} : PhaseOf(m)' = to
    BY <1>2
  <1>6. /\ phaseBar' = [phaseBar EXCEPT ![m] = to]
        /\ UNCHANGED <<accepted, pendingBar, decisionsBar>>
        /\ phaseBar[m] = PhaseOf(m)
    <2>1. UNCHANGED <<hot, accepted, resends>>
      BY DEF AnswerTransient
    <2> QED
      BY <1>0, <1>1, <1>4, <1>5, <2>1, RowStep
  <1>7. CASE to = "closed"
    <2>1. Contract!Close(m)
      BY <1>3, <1>6, <1>7 DEF Contract!Close, Contract!Move
    <2> QED
      BY <2>1 DEF Simulates, Contract!Next
  <1>8. CASE to = "waiting"
    <2>1. phaseBar' = phaseBar
      BY <1>3, <1>6, <1>8 DEF phaseBar
    <2> QED
      BY <1>6, <2>1 DEF Simulates, Seen
  <1> QED
    BY <1>7, <1>8

-----------------------------------------------------------------------------
(* The wire *)

\* A submission is the contract's offer.
LEMMA SubmitSimulates ==
  ASSUME IInv, Submit
  PROVE  Simulates
  <1> USE DEF Submit, stored
  <1>0. PICK m \in Messages : m = current /\ mail[m].state = "sending" /\ m \notin hot
    BY DEF IInv, Standing, Holding, Ledger
  <1>1. phaseBar[m] = "waiting" /\ PhaseOf(m)' = "offered"
    BY <1>0 DEF phaseBar, PhaseOf
  <1>2. phaseBar' = [phaseBar EXCEPT ![m] = "offered"]
    BY <1>0, <1>1, PhaseStep
  <1>3. \A k \in Messages : Open(k) = 0 /\ Open(k)' = IF k = m THEN 1 ELSE 0
    BY <1>0 DEF Open, IInv, Standing
  <1>4. pendingBar' = [pendingBar EXCEPT ![m] = @ + 1]
    BY <1>3 DEF pendingBar, IInv, TypeOK
  <1>5. accepted[m] + pendingBar[m] < decisionsBar[m]
    <2>1. Exposed(m) <= resends[m] + 0
      BY <1>0 DEF IInv, Ledger, Hot
    <2>2. pendingBar[m] = wire[m] /\ decisionsBar[m] = resends[m] + 1
      BY <1>0, <1>3 DEF pendingBar, decisionsBar, IInv, TypeOK
    <2> QED
      BY <1>3, <2>1, <2>2 DEF Exposed, IInv, TypeOK
  <1>6. decisionsBar' = decisionsBar
    BY DEF decisionsBar
  <1>7. Contract!Offer(m)
    BY <1>1, <1>2, <1>4, <1>5, <1>6 DEF Contract!Offer, Contract!Move
  <1> QED
    BY <1>7 DEF Simulates, Contract!Next

\* The relay's acceptance is the contract's.
LEMMA RelayAcceptsSimulates ==
  ASSUME IInv, RelayAccepts
  PROVE  Simulates
  <1> USE DEF RelayAccepts, stored
  <1>0. PICK m \in Messages : m = current
    BY DEF IInv, Standing, Holding
  <1>1. phaseBar' = phaseBar /\ decisionsBar' = decisionsBar
    BY DEF phaseBar, PhaseOf, decisionsBar
  <1>2. \A k \in Messages : Open(k)' = 0 /\ Open(k) = IF k = m THEN 1 ELSE 0
    BY <1>0 DEF Open
  <1>3. pendingBar' = [pendingBar EXCEPT ![m] = @ - 1] /\ pendingBar[m] > 0
    <2>1. wire' = wire /\ wire \in [Messages -> Nat]
      BY DEF IInv, TypeOK
    <2>2. /\ \A k \in Messages \ {m} : wire'[k] + Open(k)' = wire[k] + Open(k)
          /\ wire[m] + Open(m) > 0 /\ wire'[m] + Open(m)' = (wire[m] + Open(m)) - 1
      BY <1>2, <2>1
    <2> QED
      BY <2>1, <2>2, PendingDown
  <1>4. Contract!Accept(m)
    BY <1>0, <1>1, <1>3 DEF Contract!Accept
  <1> QED
    BY <1>4 DEF Simulates, Contract!Next

\* The relay's refusal takes the offer back.
LEMMA RelayRefusesSimulates ==
  ASSUME IInv, RelayRefuses
  PROVE  Simulates
  <1> USE DEF RelayRefuses, stored
  <1>0. PICK m \in Messages : m = current /\ mail[m].state = "sending" /\ m \in hot
    BY DEF IInv, Standing, Holding, Ledger
  <1>1. phaseBar[m] = "offered" /\ PhaseOf(m)' = "waiting"
    BY <1>0 DEF phaseBar, PhaseOf
  <1>2. phaseBar' = [phaseBar EXCEPT ![m] = "waiting"]
    BY <1>0, <1>1, PhaseStep
  <1>3. \A k \in Messages : Open(k)' = 0 /\ Open(k) = IF k = m THEN 1 ELSE 0
    BY <1>0 DEF Open
  <1>4. pendingBar' = [pendingBar EXCEPT ![m] = @ - 1] /\ pendingBar[m] > 0
    <2>1. wire' = wire /\ wire \in [Messages -> Nat]
      BY DEF IInv, TypeOK
    <2>2. /\ \A k \in Messages \ {m} : wire'[k] + Open(k)' = wire[k] + Open(k)
          /\ wire[m] + Open(m) > 0 /\ wire'[m] + Open(m)' = (wire[m] + Open(m)) - 1
      BY <1>3, <2>1
    <2> QED
      BY <2>1, <2>2, PendingDown
  <1>5. decisionsBar' = decisionsBar
    BY DEF decisionsBar
  <1>6. Contract!Refuse(m)
    BY <1>1, <1>2, <1>4, <1>5 DEF Contract!Refuse, Contract!Move
  <1> QED
    BY <1>6 DEF Simulates, Contract!Next

\* A copy settled after the sweep forgot it is accepted or lost in the contract too.
LEMMA LateSimulates ==
  ASSUME IInv, NEW m \in Messages, LateAccept(m) \/ LateLoss(m)
  PROVE  Simulates
  <1>1. /\ UNCHANGED <<mail, hot, resends, current, fate>>
        /\ wire[m] > 0 /\ wire' = [wire EXCEPT ![m] = @ - 1]
    BY DEF LateAccept, LateLoss, stored, sweep
  <1>2. phaseBar' = phaseBar /\ decisionsBar' = decisionsBar
    BY <1>1 DEF phaseBar, PhaseOf, decisionsBar
  <1>3. \A k \in Messages : Open(k)' = Open(k) /\ Open(k) \in {0, 1}
    BY <1>1 DEF Open
  <1>4. pendingBar' = [pendingBar EXCEPT ![m] = @ - 1] /\ pendingBar[m] > 0
    <2>1. wire \in [Messages -> Nat]
      BY DEF IInv, TypeOK
    <2>2. /\ \A k \in Messages \ {m} : wire'[k] + Open(k)' = wire[k] + Open(k)
          /\ wire[m] + Open(m) > 0 /\ wire'[m] + Open(m)' = (wire[m] + Open(m)) - 1
      BY <1>1, <1>3, <2>1
    <2> QED
      BY <2>1, <2>2, PendingDown
  <1>5. CASE LateAccept(m)
    <2>1. Contract!Accept(m)
      BY <1>2, <1>4, <1>5 DEF LateAccept, Contract!Accept
    <2> QED
      BY <2>1 DEF Simulates, Contract!Next
  <1>6. CASE LateLoss(m)
    <2>1. Contract!Lose(m)
      BY <1>2, <1>4, <1>6 DEF LateLoss, Contract!Lose
    <2> QED
      BY <2>1 DEF Simulates, Contract!Next
  <1> QED
    BY <1>5, <1>6

\* A crash or a refused save leaves an open submission on the wire.
LEMMA InterruptionSimulates ==
  ASSUME IInv, Abort \/ Crash
  PROVE  Simulates
  <1> USE DEF Abort, Crash, stored
  <1>0. UNCHANGED <<mail, hot, resends, accepted>>
    OBVIOUS
  <1>1. phaseBar' = phaseBar /\ decisionsBar' = decisionsBar /\ accepted' = accepted
    BY <1>0 DEF phaseBar, PhaseOf, decisionsBar
  <1>2. fate = "open" => current \in Messages
    BY DEF IInv, TypeOK, Standing, Holding
  <1>3. \A k \in Messages : wire'[k] + Open(k)' = wire[k] + Open(k)
    BY <1>2 DEF Open, IInv, TypeOK
  <1>4. pendingBar' = pendingBar
    BY <1>3, PendingStutter
  <1> QED
    BY <1>1, <1>4 DEF Simulates, Seen

-----------------------------------------------------------------------------
(* Steps the contract does not see *)

\* Claiming and binding change nothing the contract sees.
LEMMA ClaimOrBindSimulates ==
  ASSUME IInv, NEW m \in Messages, Claim(m) \/ (m = current /\ Bind)
  PROVE  Simulates
  <1> USE DEF stored, sweep, history
  <1>1. mail'[m].state = "sending" /\ \A k \in Messages \ {m} : mail'[k] = mail[k]
    <2>1. CASE Claim(m)
      BY <2>1 DEF Claim, IInv, TypeOK, Row
    <2>2. CASE m = current /\ Bind
      BY <2>2 DEF Bind, IInv, TypeOK, Row, Standing, Holding
    <2> QED
      BY <2>1, <2>2
  <1>2. PhaseOf(m) = "waiting" /\ mail[m].state # "absent"
    BY DEF Claim, Bind, PhaseOf, IInv, Standing, Holding, Ledger
  <1>3. UNCHANGED <<hot, accepted, resends, wire, fate>> /\ fate = "none" /\ m \notin hot
    BY DEF Claim, Bind, IInv, Standing, Ledger
  <1>4. PhaseOf(m)' = "waiting"
    BY <1>1, <1>3 DEF PhaseOf
  <1>5. \A k \in Messages : wire'[k] + Open(k)' = wire[k] + Open(k)
    BY <1>3 DEF Open
  <1>6. /\ phaseBar' = [phaseBar EXCEPT ![m] = "waiting"]
        /\ UNCHANGED <<accepted, pendingBar, decisionsBar>>
        /\ phaseBar[m] = PhaseOf(m)
    BY <1>1, <1>2, <1>3, <1>4, <1>5, RowStep
  <1>7. phaseBar' = phaseBar
    BY <1>2, <1>6 DEF phaseBar
  <1> QED
    BY <1>6, <1>7 DEF Simulates, Seen

\* Time changes nothing the contract sees.
LEMMA TickSimulates ==
  ASSUME IInv, Tick
  PROVE  Simulates
  <1>1. \A k \in Messages : mail'[k].state = mail[k].state
    BY DEF Tick, IInv, TypeOK, Row
  <1>2. UNCHANGED <<hot, wire, accepted, resends, current, fate>>
    BY DEF Tick, history
  <1>3. \A k \in Messages : PhaseOf(k)' = PhaseOf(k)
    BY <1>1, <1>2 DEF PhaseOf
  <1>4. phaseBar' = phaseBar
    BY <1>3, PhaseStutter
  <1>5. pendingBar' = pendingBar
    BY <1>2 DEF pendingBar, Open
  <1>6. decisionsBar' = decisionsBar
    BY <1>1, <1>2, DecisionsStutter
  <1> QED
    BY <1>2, <1>4, <1>5, <1>6 DEF Simulates, Seen

\* Steps of the sweep's own bookkeeping change nothing the contract sees.
LEMMA QuietSimulates ==
  ASSUME UNCHANGED <<mail, hot, wire, accepted, resends, current, fate>>
  PROVE  Simulates
  <1>1. \A k \in Messages : Open(k)' = Open(k)
    BY DEF Open
  <1> QED
    BY <1>1, QuietStep DEF Simulates

-----------------------------------------------------------------------------
(* The refinement *)

\* The empty outbox is the contract's initial state.
LEMMA InitSimulates == Init => Contract!Init
  BY DEF Init, Contract!Init, phaseBar, PhaseOf, pendingBar, decisionsBar, Open, NewRow

\* Every step of the outbox is one step of the contract, or none.
LEMMA NextSimulates ==
  ASSUME IInv, [Next]_vars
  PROVE  Simulates
  <1>1. CASE Request
    <2>1. ASSUME NEW m \in Messages, Enqueue(m)
          PROVE  Simulates
      BY <2>1, EnqueueSimulates DEF Simulates, Contract!Next
    <2>2. ASSUME NEW m \in Messages, Retry(m) \/ Cancel(m) \/ Forget(m)
          PROVE  Simulates
      BY <2>2, RetrySimulates, CancelSimulates, ForgetSimulates
    <2>3. ASSUME NEW m \in Messages, Pause(m)
          PROVE  Simulates
      BY <2>3, QuietSimulates DEF Pause, sweep, history
    <2>4. ASSUME NEW a \in Accounts \cup {NoAccount}, Configure(a)
          PROVE  Simulates
      BY <2>4, QuietSimulates DEF Configure, sweep, history
    <2> QED
      BY <1>1, <2>1, <2>2, <2>3, <2>4 DEF Request
  <1>2. CASE TimerSweep \/ RequestedSweep \/ \E m \in Messages : DeliverOne(m)
    BY <1>2, QuietSimulates DEF TimerSweep, RequestedSweep, DeliverOne, Start, stored, history
  <1>3. CASE SweepStep
    <2>1. ASSUME NEW m \in Messages, RecoverExpired(m) \/ PassOver(m) \/ Claim(m)
          PROVE  Simulates
      <3>1. CASE PassOver(m)
        BY <3>1, QuietSimulates DEF PassOver, stored, history
      <3> QED
        BY <2>1, <3>1, RecoverExpiredSimulates, ClaimOrBindSimulates
    <2>2. CASE Bind
      <3>1. current \in Messages
        BY <2>2 DEF Bind, IInv, Standing, Holding
      <3> QED
        BY <2>2, <3>1, ClaimOrBindSimulates
    <2>3. CASE Finished
      BY <2>3, InterruptionSimulates DEF Finished
    <2>4. CASE Veto \/ PrepareRefused \/ Submit
      BY <2>4, VetoSimulates, PrepareRefusedSimulates, SubmitSimulates
    <2>5. CASE AnswerSent \/ AnswerTransient \/ AnswerPermanent \/ AnswerUncertain
      BY <2>5, AnswerSentSimulates, AnswerTransientSimulates, AnswerPermanentSimulates,
         AnswerUncertainSimulates
    <2> QED
      BY <1>3, <2>1, <2>2, <2>3, <2>4, <2>5 DEF SweepStep
  <1>4. CASE SaveFails \/ Crash
    BY <1>4, InterruptionSimulates DEF SaveFails
  <1>5. CASE RelayAccepts \/ RelayRefuses
    BY <1>5, RelayAcceptsSimulates, RelayRefusesSimulates
  <1>6. CASE \E m \in Messages : LateAccept(m) \/ LateLoss(m)
    BY <1>6, LateSimulates
  <1>7. CASE Restart
    BY <1>7, QuietSimulates DEF Restart, stored, history
  <1>8. CASE Tick
    BY <1>8, TickSimulates
  <1>9. CASE UNCHANGED vars
    BY <1>9, QuietSimulates DEF vars
  <1> QED
    BY <1>1, <1>2, <1>3, <1>4, <1>5, <1>6, <1>7, <1>8, <1>9 DEF Next

\* The outbox keeps the contract: each copy offered to the relay is covered by
\* a decision of its own, and doubt is left only by a new decision.
THEOREM OutboxImplementsContract == Spec => ImplementsContract
  <1>1. Init => Contract!Init
    BY InitSimulates
  <1>2. IInv /\ [Next]_vars => [Contract!Next]_(Contract!vars)
    BY NextSimulates DEF Simulates, Seen, Contract!vars
  <1> QED
    BY <1>1, <1>2, InvariantHolds, PTL DEF Spec, ImplementsContract
=============================================================================
