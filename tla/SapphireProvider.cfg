SPECIFICATION SendSpec
CONSTANTS
  Callers = {c1, c2}
  Chains = {mainnet, testnet}
  NoKey = NoKey
  Nothing = Nothing
  Timeout = 2
  MaxLatency = 1
  MaxTime = 7
SYMMETRY CallerSymmetry
INVARIANTS
  KeyAge
  WrongChainIsTransient
  SnapKeyIsClose
PROPERTIES
  RegressBounded
