------------------------- MODULE MCCommittedEffects -------------------------
(***************************************************************************)
(* The TLC instance: handlers in the order the server connects them, the   *)
(* referral rewards first (database init), then a detaching service and    *)
(* the currency registry; two rewards, one write for each other handler    *)
(* and one that nobody hears of.                                           *)
(***************************************************************************)
EXTENDS CommittedEffects, DatabaseTransactionRefinement

CONSTANTS won, again, converted, euro, plain

ServerStyle == <<"draining", "detaching", "reloading">>
ServerListener ==
    [w \in Writes |-> CASE w \in {won, again} -> 1 [] w = converted -> 2
                        [] w = euro -> 3 [] w = plain -> 0]
=============================================================================
