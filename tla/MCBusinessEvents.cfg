CONSTANTS
  h1 = h1
  h2 = h2
  Connections = {server, tool}
  Server = server
  Nobody = nobody
  Readers = {consumer}
  MaxEvents = 2
  Hooks = {h1, h2}
  Wants <- OwnEvents
  NoDelivery = none
  PageLimit = 1
  BatchLimit = 1
  BackoffCap = 1
  MaxAttempts = 1
  MaxOverdue = 1
  MaxFaults = 2
SPECIFICATION Spec
INVARIANTS TypeOK ReaderMissesNothing CopiesAreAccounted
PROPERTY ImplementsContract
