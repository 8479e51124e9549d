SPECIFICATION Spec
CONSTANTS
  Host = host
  Enclave = enclave
  Strangers = {stranger}
  ping = ping
  pong = pong
  Methods <- MCMethods
  Registered <- MCRegistered
  InOrder = FALSE
  BusMayDuplicate = FALSE
  HostPosts = 2
  EnclavePosts = 2
  MaxPosts <- MCMaxPosts
  MaxSeq = 2
  MaxDeliveries = 3
INVARIANTS
  OnlyGenuineHandled
  HandledToAnEndOnce
  TransientFailureMayBeAcceptedLater
