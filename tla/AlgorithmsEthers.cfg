SPECIFICATION Spec
CONSTANTS
  Reverted = reverted
  Missing = missing
  Malformed = malformed
  AbiDecodeError = abiDecodeError
  Idle = idle
  WordBytes = 1
  LastYear = 1970
  UnknownChain = 999
  NoContract = none
  Unavailable = unavailable
INVARIANTS
  EthersServesEveryCall
CHECK_DEADLOCK FALSE
