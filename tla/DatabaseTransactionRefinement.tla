-------------------- MODULE DatabaseTransactionRefinement --------------------
(***************************************************************************)
(* DatabaseTransaction implements TransactionContract: however begins,     *)
(* commits and rollbacks nest, its callers see one flat transaction.       *)
(***************************************************************************)
EXTENDS DatabaseTransaction

stateBar == IF depth = 0 THEN "none" ELSE IF open THEN "open" ELSE "lost"

\* Everything executed since the outermost begin, whichever level did it.
draftBar == IF open THEN since ELSE {}

readerBar == IF holder \in Others THEN holder ELSE Nobody

Flat == INSTANCE TransactionContract
    WITH Readers <- Others, state <- stateBar, draft <- draftBar,
         reader <- readerBar, verdict <- told

\* Every step of nested calls, of handlers and of other threads is a step of
\* one flat transaction, or changes nothing its callers see: an inner commit
\* stores nothing, an inner rollback loses all of it for good
\* (venture_database_commit(), venture_database_rollback()).
KeepsTransactionContract == Flat!Init /\ [][Flat!Next]_(Flat!vars)
=============================================================================
