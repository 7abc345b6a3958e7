CONSTANTS
  inbox = inbox
  archive = archive
  Callers = {server, tool}
  Folders = {inbox}
  FolderOrder <- InboxOnly
  Messages = {m1, m2}
  Nothing = nothing
  Unfileable = {m1}
  MaxUid = 2
  MaxValidity = 2
  MaxAttempts = 2
  Budget = 2
  MaxDisturbed = 2
SYMMETRY AnyCaller
SPECIFICATION Spec
INVARIANTS TypeOK NothingIsSkipped FiledOnce
PROPERTY KeepsMailboxContract
