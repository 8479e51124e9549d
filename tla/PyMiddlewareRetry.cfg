SPECIFICATION Spec
CONSTANTS
  Requests = {r1}
  EPOCH_LIMIT = 5
  Window = 1
  None = None
  MaxEpoch = 3
  MaxLayers = 3
INVARIANTS
  EncryptedOnce
