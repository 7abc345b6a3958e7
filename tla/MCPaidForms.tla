---------------------------- MODULE MCPaidForms ----------------------------
(* Small instances of PaidForms for TLC.                                   *)
EXTENDS PaidFormsRefinement

\* The buffer between meetings makes all slots overlap.
MCClashing == {p \in Slots \X Slots : p[1] # p[2]}

\* The first invoice may be paid in two ways; another intake competes with it
\* for the place and the seat.
MCRoom == {<<1, 1>>, <<1, 2>>}

=============================================================================
