------------------------- MODULE MCConfirmationStore ------------------------
(***************************************************************************)
(* TLC instances of the approval queue: two records whose display names    *)
(* the configuration makes equal or different.                             *)
(***************************************************************************)
EXTENDS ConfirmationStore

CONSTANTS r1, r2, la, lb

SameLabel == [r \in Existing |-> la]
OwnLabels == [r \in Existing |-> IF r = r1 THEN la ELSE lb]
=============================================================================
