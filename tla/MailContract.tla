---------------------------- MODULE MailContract ----------------------------
(***************************************************************************)
(* What the outbox promises of one message, without rows, leases, sweeps   *)
(* or a process: a copy is offered to the relay only under a decision      *)
(* (the enqueue, or an operator's resend of a message in doubt), each      *)
(* decision covers at most one copy, and only a known outcome reopens a    *)
(* message without a new decision.                                         *)
(***************************************************************************)
EXTENDS Naturals

CONSTANT Messages

VARIABLES
    phase,      \* [Messages -> Phases]
    copies,     \* [Messages -> Nat]: copies the relay accepted
    pending,    \* [Messages -> Nat]: copies it may still accept
    decisions   \* [Messages -> Nat]: copies somebody decided to send

vars == <<phase, copies, pending, decisions>>

Phases == {"none", "waiting", "offered", "delivered", "doubtful", "closed",
           "withdrawn"}

Init ==
    /\ phase = [m \in Messages |-> "none"]
    /\ copies = [m \in Messages |-> 0]
    /\ pending = [m \in Messages |-> 0]
    /\ decisions = [m \in Messages |-> 0]

Move(m, from, to) ==
    /\ phase[m] \in from
    /\ phase' = [phase EXCEPT ![m] = to]

\* A new decision: the enqueue, or the resend of a doubtful message.
Decide(m) ==
    /\ Move(m, {"none", "doubtful"}, "waiting")
    /\ decisions' = [decisions EXCEPT ![m] = @ + 1]
    /\ UNCHANGED <<copies, pending>>

Offer(m) ==
    /\ copies[m] + pending[m] < decisions[m]
    /\ Move(m, {"waiting"}, "offered")
    /\ pending' = [pending EXCEPT ![m] = @ + 1]
    /\ UNCHANGED <<copies, decisions>>

Accept(m) ==
    /\ pending[m] > 0
    /\ pending' = [pending EXCEPT ![m] = @ - 1]
    /\ copies' = [copies EXCEPT ![m] = @ + 1]
    /\ UNCHANGED <<phase, decisions>>

Lose(m) ==
    /\ pending[m] > 0
    /\ pending' = [pending EXCEPT ![m] = @ - 1]
    /\ UNCHANGED <<phase, copies, decisions>>

\* The relay says no: the decision is still unspent.
Refuse(m) ==
    /\ pending[m] > 0
    /\ Move(m, {"offered"}, "waiting")
    /\ pending' = [pending EXCEPT ![m] = @ - 1]
    /\ UNCHANGED <<copies, decisions>>

Deliver(m) ==
    /\ copies[m] > 0
    /\ Move(m, {"offered"}, "delivered")
    /\ UNCHANGED <<copies, pending, decisions>>

Doubt(m) ==
    /\ Move(m, {"offered", "waiting"}, "doubtful")
    /\ UNCHANGED <<copies, pending, decisions>>

Close(m) ==
    /\ Move(m, {"waiting"}, "closed")
    /\ UNCHANGED <<copies, pending, decisions>>

Reopen(m) ==
    /\ Move(m, {"closed"}, "waiting")
    /\ UNCHANGED <<copies, pending, decisions>>

Withdraw(m) ==
    /\ Move(m, {"waiting", "closed"}, "withdrawn")
    /\ UNCHANGED <<copies, pending, decisions>>

Next ==
    \E m \in Messages :
        \/ Decide(m) \/ Offer(m) \/ Accept(m) \/ Lose(m) \/ Refuse(m)
        \/ Deliver(m) \/ Doubt(m) \/ Close(m) \/ Reopen(m) \/ Withdraw(m)

Spec == Init /\ [][Next]_vars
=============================================================================
