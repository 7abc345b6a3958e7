------------------------ MODULE MailOutboxRefinement ------------------------
(***************************************************************************)
(* MailOutbox implements MailContract: the mapping from rows, leases and   *)
(* the sweep's progress to the phases of a message.                        *)
(***************************************************************************)
EXTENDS MailOutbox

PhaseOf(m) ==
    CASE mail[m].state = "absent" -> "none"
      [] mail[m].state \in {"queued", "failed"} -> "waiting"
      [] mail[m].state = "sending" -> IF m \in hot THEN "offered" ELSE "waiting"
      [] mail[m].state = "sent" -> "delivered"
      [] mail[m].state = "uncertain" -> "doubtful"
      [] mail[m].state = "dead" -> "closed"
      [] mail[m].state = "cancelled" -> "withdrawn"

phaseBar == [m \in Messages |-> PhaseOf(m)]

pendingBar == [m \in Messages |-> wire[m] + Open(m)]

decisionsBar == [m \in Messages |->
    IF mail[m].state = "absent" THEN 0 ELSE resends[m] + 1]

Contract == INSTANCE MailContract
    WITH phase <- phaseBar, copies <- accepted, pending <- pendingBar,
         decisions <- decisionsBar

\* Every step of the outbox is a step of the contract or changes nothing the
\* contract sees.
ImplementsContract == Contract!Init /\ [][Contract!Next]_(Contract!vars)
=============================================================================
