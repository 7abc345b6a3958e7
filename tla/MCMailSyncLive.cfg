CONSTANTS
  inbox = inbox
  archive = archive
  Callers = {server}
  Folders = {inbox, archive}
  FolderOrder <- InboxFirst
  Messages = {m1}
  Nothing = nothing
  Unfileable = {m1}
  MaxUid = 2
  MaxValidity = 1
  MaxAttempts = 2
  Budget = 1
  MaxDisturbed = 1
SPECIFICATION FairSpec
PROPERTY EveryMessageIsHandled
