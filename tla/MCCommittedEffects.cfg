CONSTANTS
  Home = home
  Others = {t1}
  Nobody = nobody
  won = won
  again = again
  converted = converted
  euro = euro
  plain = plain
  Writes = {won, again, converted, euro, plain}
  Handlers = 3
  MaxFrames = 4
  Style <- ServerStyle
  Listener <- ServerListener
SPECIFICATION EffectsSpec
INVARIANTS EffectsTypeOK LockAndDepthBalanced NoDirtyRead VerdictIsTrue StoredEffectsOnce FirstHandlerMissesNothing RegistryMissesNothing
PROPERTY KeepsTransactionContract
