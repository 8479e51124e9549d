SPECIFICATION Spec
CONSTANTS
  Users = {alice, bob}
  Domains = {here, elsewhere}
  Chains = {sapphire, testnet}
  ChainId = sapphire
  Times = {1, 3}
  None = None
  DEFAULT_VALIDITY = 2
  MaxTime = 5
  MaxLogins = 2
INVARIANTS
  TokenKeepsToItsMessage
  RevokedMessageStaysOut
PROPERTIES
  NoResurrection
