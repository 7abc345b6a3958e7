----------------------------- MODULE MCMailSync -----------------------------
(***************************************************************************)
(* The TLC instances: one folder that two programs sync, and two folders   *)
(* that may hold the same message.                                         *)
(***************************************************************************)
EXTENDS MailSyncRefinement, TLC

CONSTANTS inbox, archive

InboxOnly == <<inbox>>

InboxFirst == <<inbox, archive>>

\* Programs that may sync differ in nothing: sound for the invariants.
AnyCaller == Permutations(Callers)
=============================================================================
