-------------------------- MODULE MCBusinessEvents --------------------------
(***************************************************************************)
(* The TLC instance: two connections, two events, each wanted by a hook of *)
(* its own, and batches of one, so that one row can stand before another.  *)
(***************************************************************************)
EXTENDS BusinessEventsRefinement

CONSTANTS h1, h2

OwnEvents == [h \in Hooks |-> IF h = h1 THEN {1} ELSE {2}]
=============================================================================
