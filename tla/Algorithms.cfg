SPECIFICATION Spec
CONSTANTS
  Reverted = reverted
  Missing = missing
  Malformed = malformed
  AbiDecodeError = abiDecodeError
  Idle = idle
  WordBytes = 2
  LastYear = 2100
  UnknownChain = 999
  NoContract = none
  Unavailable = unavailable
INVARIANTS
  EncodedIsCbor
  ReceiptsDecode
  PublicKeyFound
  SignatureSplit
  WhatIsSignedIsSent
  RequestsUnderstood
  SiweFieldsFound
  DaysMatchCalendar
  DeploymentsPair
  CallsAnswered
  CiphersAgree
  SignedQueriesVerified
  ProxyGuards
  EventsDecrypted
CHECK_DEADLOCK FALSE
