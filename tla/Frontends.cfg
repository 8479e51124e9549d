SPECIFICATION FairFrontSpec
CONSTANTS
  Callers = {c1, c2}
  Chains = {sapphire}
  NoKey = NoKey
  Timeout = 3
  MaxLatency = 2
  Jitter = 1
  MaxFailures = 2
  MaxTime = 20
  Clients = {v1, v2, v3}
  Keys = {p1, p2}
  Uses = {u1, u2}
  Accounts = {a1, a2}
  Holders = {a1}
  None = None
  Transfers = {t1}
  MaxConnects = 2
  MaxQueries = 2
  Contracts = {k1, k2, k3}
  NoContract = NoContract
INVARIANTS
  SerializerKeyAge
  SentAsSigned
  OneWrapperPerProvider
  EncryptedOnSapphire
  PollingMatchesSelection
  ShownWriteIsOfShownContract
PROPERTIES
  BalanceSettles
  StoredContractIsShown
CHECK_DEADLOCK FALSE
