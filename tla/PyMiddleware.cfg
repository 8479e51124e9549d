SPECIFICATION FairSpec
CONSTANTS
  Requests = {r1, r2}
  EPOCH_LIMIT = 3
  Window = 2
  None = None
  MaxEpoch = 7
  MaxLayers = 3
INVARIANTS
  RetryIsNewer
PROPERTIES
  NewestNeverRegresses
  EventuallyAnswered
