---------------------------- MODULE MCMailOutbox ----------------------------
(***************************************************************************)
(* The TLC instance of the outbox that takes every step of MailOutbox: one *)
(* message, two accounts and a plugin's transport, two attempts, two       *)
(* deliberate resends.                                                     *)
(***************************************************************************)
EXTENDS MailOutboxRefinement
=============================================================================
