CONSTANTS
  Messages = {1, 2}
  NoMessage = 0
  Private = {}
  Accounts = {a1}
  Unbound = {}
  NoAccount = none
  MaxAttempts = 2
  Limit = 1
  LeaseTicks = 1
  MaxResends = 0
  MaxInterruptions = 1
SPECIFICATION LiveSpec
PROPERTIES InterruptedIsRecovered WaitingIsAttempted
