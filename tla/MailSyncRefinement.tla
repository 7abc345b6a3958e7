------------------------- MODULE MailSyncRefinement -------------------------
(***************************************************************************)
(* MailSync implements MailboxContract: what the folders hold and what the *)
(* stored cursors pass, by place.                                          *)
(***************************************************************************)
EXTENDS MailSync

\* Only the present numbering of a folder has anything in its places.
mailBar == [key \in Keys |->
    IF key[2] = validity[key[1]] THEN box[key[1]][key[3]] ELSE Nothing]

readBar == {key \in Keys :
    key[2] = stored[key[1]].validity /\ key[3] <= stored[key[1]].uid}

Promise == INSTANCE MailboxContract
    WITH Places <- Keys, Enough <- MaxAttempts, mail <- mailBar,
         failures <- tries, read <- readBar

\* Whatever programs sync, die, overlap or save over each other, and however the
\* folders change meanwhile: every place is treated as the contract says
\* (venture_mail_sync_service_sync(), file_message(), message_failed()).
KeepsMailboxContract == Promise!Init /\ [][Promise!Next]_(Promise!vars)
=============================================================================
