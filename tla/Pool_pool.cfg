SPECIFICATION FairSpec
CONSTANTS
  Contexts = {a, b, c, d}
  NULL = NULL
  Count = 2
  MaxDetached = 1
  MaxExtra = 1
INVARIANTS
  TypeOK
  SlotsHoldLiveContexts
  OneSlotPerContext
  EmptySlotsAreReconnecting
  ConnectionLedger
PROPERTIES
  SlotsChangeByCallback
  NullMeansAtMostOne
  PoolRefills
