SPECIFICATION Spec
CONSTANTS
  Host = host
  Enclave = enclave
  Strangers = {stranger}
  ping = ping
  pong = pong
  Methods <- MCMethods
  Registered <- MCRegistered
  InOrder = TRUE
  BusMayDuplicate = FALSE
  HostPosts = 2
  EnclavePosts = 2
  MaxPosts <- MCMaxPosts
  MaxSeq = 2
  MaxDeliveries = 2
INVARIANTS
  TransientFailureMayBeAcceptedLater
