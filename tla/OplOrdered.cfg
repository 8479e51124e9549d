SPECIFICATION FairSpec
CONSTANTS
  Host = host
  Enclave = enclave
  Strangers = {stranger}
  ping = ping
  pong = pong
  Methods <- MCMethods
  Registered <- MCRegistered
  InOrder = TRUE
  BusMayDuplicate = TRUE
  HostPosts = 3
  EnclavePosts = 1
  MaxPosts <- MCMaxPosts
  MaxSeq = 3
  MaxDeliveries = 3
INVARIANTS
  InOrderDelivery
PROPERTIES
  LinkFIFO
  EventuallyConsumed
