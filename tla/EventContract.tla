---------------------------- MODULE EventContract ----------------------------
(***************************************************************************)
(* What the log of business events promises, without connections, locks,   *)
(* transactions, batches, retries or a process.                            *)
(*                                                                         *)
(* Its consumers: the log grows at its end only, and whoever reads it has  *)
(* a beginning of it, without a gap.  Its endpoints: what they are asked   *)
(* to take was published and is owed to them; of one obligation at most    *)
(* one request awaits an answer, and none is made once it is settled; it   *)
(* is settled by an endpoint that took the request, not by one that gave   *)
(* no answer.                                                              *)
(***************************************************************************)
EXTENDS Integers

CONSTANTS Events, Deliveries, Readers

VARIABLES
    published,   \* SUBSET Events
    given,       \* [Readers -> SUBSET Events]: what a consumer has
    owed,        \* SUBSET Deliveries: obligations that arose
    settled,     \* SUBSET Deliveries: those on record as met
    request,     \* [Deliveries -> {"no", "asked", "taken"}]: the awaited one
    late,        \* [Deliveries -> Nat]: requests given up that may still arrive
    copies       \* [Deliveries -> Nat]: copies endpoints took

vars == <<published, given, owed, settled, request, late, copies>>

Init ==
    /\ published = {} /\ given = [r \in Readers |-> {}]
    /\ owed = {} /\ settled = {}
    /\ request = [d \in Deliveries |-> "no"]
    /\ late = [d \in Deliveries |-> 0]
    /\ copies = [d \in Deliveries |-> 0]

\* Obligations arise with their event and at no other time.
Publish(new) ==
    /\ \A e \in new, f \in published : f < e
    /\ published' = published \cup new
    /\ \E arising \in SUBSET {d \in Deliveries : d[1] \in new} : owed' = owed \cup arising
    /\ UNCHANGED <<given, settled, request, late, copies>>

Read(r) ==
    /\ \E last \in published \ given[r] :
          given' = [given EXCEPT ![r] = {e \in published : e <= last}]
    /\ UNCHANGED <<published, owed, settled, request, late, copies>>

Answers(d, from, to) ==
    /\ request[d] = from
    /\ request' = [request EXCEPT ![d] = to]

Ask(d) ==
    /\ d \in owed \ settled
    /\ Answers(d, "no", "asked")
    /\ UNCHANGED <<published, given, owed, settled, late, copies>>

Take(d) ==
    /\ Answers(d, "asked", "taken")
    /\ copies' = [copies EXCEPT ![d] = @ + 1]
    /\ UNCHANGED <<published, given, owed, settled, late>>

Settle(d) ==
    /\ Answers(d, "taken", "no")
    /\ settled' = settled \cup {d}
    /\ UNCHANGED <<published, given, owed, late, copies>>

Awaited == {d \in Deliveries : request[d] # "no"}

\* Requests are given up, all that are awaited when the process dies; of those
\* not taken some may still arrive.
GiveUp(lost) ==
    /\ request' = [d \in Deliveries |-> IF d \in lost THEN "no" ELSE request[d]]
    /\ \E straying \in SUBSET {d \in lost : request[d] = "asked"} :
          late' = [d \in Deliveries |-> IF d \in straying THEN late[d] + 1 ELSE late[d]]
    /\ UNCHANGED <<published, given, owed, settled, copies>>

\* A request given up arrives, or never does.
Stray(d) ==
    /\ late[d] > 0
    /\ late' = [late EXCEPT ![d] = @ - 1]
    /\ \/ copies' = [copies EXCEPT ![d] = @ + 1]
       \/ copies' = copies
    /\ UNCHANGED <<published, given, owed, settled, request>>

Next ==
    \/ \E new \in SUBSET (Events \ published) : Publish(new)
    \/ \E r \in Readers : Read(r)
    \/ \E d \in Deliveries : Ask(d) \/ Take(d) \/ Settle(d) \/ Stray(d)
    \/ \E lost \in SUBSET Awaited : GiveUp(lost)

Spec == Init /\ [][Next]_vars
=============================================================================
