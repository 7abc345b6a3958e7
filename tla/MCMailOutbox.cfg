CONSTANTS
  Messages = {1}
  NoMessage = 0
  Private = {1}
  Accounts = {a1, a2, plugin}
  Unbound = {plugin}
  NoAccount = none
  MaxAttempts = 2
  Limit = 1
  LeaseTicks = 2
  MaxResends = 2
SPECIFICATION Spec
INVARIANTS TypeOK OneCopyPerDecision SettledRowsAreTrue OneAccount AttemptBudget
PROPERTIES DecidedIsFinal NoAutomaticResend ImplementsContract
