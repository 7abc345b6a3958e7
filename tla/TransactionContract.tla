------------------------- MODULE TransactionContract -------------------------
(***************************************************************************)
(* What the database promises its callers, without begins inside begins,   *)
(* a lock that counts, or handlers: one transaction at a time, flat, which *)
(* stores all of what was written in it or nothing and says which; once    *)
(* any part of it was given up, nothing of it, written before or after, is *)
(* ever stored; and whoever else is let in finds none under way.           *)
(***************************************************************************)
CONSTANTS Writes, Readers, Nobody

VARIABLES
    stored,    \* SUBSET Writes
    state,     \* {"none", "open", "lost"}: the transaction
    draft,     \* SUBSET Writes: what an open one is to store
    reader,    \* Readers \cup {Nobody}: who else is let in
    verdict    \* {"nothing", "committed", "failed"}: its answer

vars == <<stored, state, draft, reader, verdict>>

Init ==
    /\ stored = {} /\ draft = {}
    /\ state = "none" /\ reader = Nobody /\ verdict = "nothing"

Start ==
    /\ state = "none" /\ reader = Nobody
    /\ state' = "open" /\ verdict' = "nothing"
    /\ UNCHANGED <<stored, draft, reader>>

Write(w) ==
    /\ state = "open"
    /\ draft' = draft \cup {w}
    /\ UNCHANGED <<stored, state, reader, verdict>>

WriteAlone(w) ==
    /\ state = "none" /\ reader = Nobody
    /\ stored' = stored \cup {w} /\ verdict' = "nothing"
    /\ UNCHANGED <<state, draft, reader>>

Lose ==
    /\ state = "open"
    /\ state' = "lost" /\ draft' = {}
    /\ UNCHANGED <<stored, reader, verdict>>

Commit ==
    /\ state = "open"
    /\ stored' = stored \cup draft
    /\ state' = "none" /\ draft' = {} /\ verdict' = "committed"
    /\ UNCHANGED reader

Fail ==
    /\ state # "none"
    /\ state' = "none" /\ draft' = {} /\ verdict' = "failed"
    /\ UNCHANGED <<stored, reader>>

Enter(t) ==
    /\ reader = Nobody /\ state = "none"
    /\ reader' = t
    /\ UNCHANGED <<stored, state, draft, verdict>>

Leave ==
    /\ reader # Nobody
    /\ reader' = Nobody
    /\ UNCHANGED <<stored, state, draft, verdict>>

Next ==
    \/ Start \/ Lose \/ Commit \/ Fail \/ Leave
    \/ \E w \in Writes : Write(w) \/ WriteAlone(w)
    \/ \E t \in Readers : Enter(t)

Spec == Init /\ [][Next]_vars
=============================================================================
