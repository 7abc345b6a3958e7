--------------------------- MODULE MailboxContract ---------------------------
(***************************************************************************)
(* What reading a mailbox promises of every place in it, without leases,   *)
(* programs, sessions or pages: a place gets one row, which stays; the row *)
(* holds what lies there, with its content unless a row elsewhere has that *)
(* already, or says that it was given up after enough failures of its own; *)
(* and the account never counts a place as read that holds mail and has no *)
(* row, though it may read places again.                                   *)
(***************************************************************************)
EXTENDS Naturals

CONSTANTS Places, Messages, Nothing, Enough, Row

VARIABLES
    mail,       \* [Places -> Messages \cup {Nothing}]: what lies there now
    rows,       \* [Places -> Row]
    failures,   \* [Places -> Nat]
    read        \* SUBSET Places: what the account counts as read

vars == <<mail, rows, failures, read>>

Empty == [kind |-> "none", message |-> Nothing]

Given(kind, m) == [kind |-> kind, message |-> m]

Init ==
    /\ mail = [p \in Places |-> Nothing]
    /\ rows = [p \in Places |-> Empty]
    /\ failures = [p \in Places |-> 0]
    /\ read = {}

\* Messages come, go and are renumbered; none comes to a place already read.
Elsewhere ==
    /\ \A p \in read : mail'[p] \in {mail[p], Nothing}
    /\ UNCHANGED <<rows, failures, read>>

Fail(p) ==
    /\ failures' = [failures EXCEPT ![p] = IF @ < Enough THEN @ + 1 ELSE @]
    /\ UNCHANGED <<mail, rows, read>>

\* What is read changes as it likes, but for mail without a row.
Marks ==
    /\ read' \subseteq Places
    /\ \A p \in read' : mail[p] = Nothing \/ rows'[p] # Empty
    /\ UNCHANGED <<mail, failures>>

Mark == Marks /\ UNCHANGED rows

Gets(p, row) ==
    /\ rows[p] = Empty
    /\ rows' = [rows EXCEPT ![p] = row]
    /\ Marks

File(p, m) ==
    /\ m # Nothing /\ mail[p] = m
    /\ \/ Gets(p, Given("root", m)) /\ \A q \in Places : rows[q] # Given("root", m)
       \/ Gets(p, Given("copy", m)) /\ \E q \in Places : rows[q] = Given("root", m)

GiveUp(p) == failures[p] = Enough /\ Gets(p, Given("stub", Nothing))

Next ==
    \/ Elsewhere \/ Mark
    \/ \E p \in Places : Fail(p) \/ GiveUp(p) \/ \E m \in Messages : File(p, m)

Spec == Init /\ [][Next]_vars
=============================================================================
