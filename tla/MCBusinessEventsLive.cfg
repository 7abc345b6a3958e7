CONSTANTS
  h1 = h1
  h2 = h2
  Connections = {server}
  Server = server
  Nobody = nobody
  Readers = {}
  MaxEvents = 2
  Hooks = {h1, h2}
  Wants <- OwnEvents
  NoDelivery = none
  PageLimit = 1
  BatchLimit = 1
  BackoffCap = 2
  MaxAttempts = 1
  MaxOverdue = 1
  MaxFaults = 1
SPECIFICATION FairSpec
PROPERTY CapturedIsDelivered
