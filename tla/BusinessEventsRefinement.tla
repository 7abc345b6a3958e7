---------------------- MODULE BusinessEventsRefinement ----------------------
(***************************************************************************)
(* BusinessEvents implements EventContract: the log is what was committed, *)
(* an obligation arises with the commit that stores its row, and a request *)
(* is awaited from the moment it is sent until the callback, a timeout or  *)
(* the end of the process.                                                 *)
(***************************************************************************)
EXTENDS BusinessEvents

owedBar == {d \in Deliveries : rows[d].exists /\ d[1] \in committed}

settledBar == {d \in Deliveries : rows[d].delivered}

RequestOf(d) ==
    CASE asked[d] > 0 -> "asked"
      [] asked[d] = 0 /\ agreed[d] > 0 -> "taken"
      [] asked[d] = 0 /\ agreed[d] = 0 -> "no"

requestBar == [d \in Deliveries |-> RequestOf(d)]

Contract == INSTANCE EventContract
    WITH published <- committed, given <- seen, owed <- owedBar,
         settled <- settledBar, request <- requestBar, late <- orphaned,
         copies <- received

\* Every step of the log, its readers and its deliveries is a step of the
\* contract or changes nothing the contract sees: among several writers the log
\* still grows at its end, a reader never has a gap, and no endpoint is asked
\* twice at a time, after it was settled, or about what was never committed
\* (venture_business_events_capture, _read, _dispatch and the callback sent).
ImplementsContract == Contract!Init /\ [][Contract!Next]_(Contract!vars)
=============================================================================
