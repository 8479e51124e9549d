-------------------------- MODULE AlgorithmsProofs --------------------------
(***************************************************************************)
(* What the algorithms do with every input of their kind, where the runs   *)
(* of Algorithms look at a few.                                            *)
(***************************************************************************)
EXTENDS Algorithms, FiniteSetTheorems, SequenceTheorems, WellFoundedInduction,
        TLAPS

(***************************************************************************)
(* The deployments of OplConfig.                                           *)
(***************************************************************************)

\* The table of the chains.
LEMMA ChainTable ==
  /\ DOMAIN ChainIds = {"ethereum", "optimism", "bsc", "bsc_testnet", "polygon", "fantom",
       "fantom_testnet", "moonriver", "arbitrum_one", "arbitrum_nova", "sapphire",
       "sapphire_testnet", "avalanche", "avalanche_fuji"}
  /\ ChainIds["ethereum"] = 1 /\ ChainIds["optimism"] = 10 /\ ChainIds["bsc"] = 56
  /\ ChainIds["bsc_testnet"] = 97 /\ ChainIds["polygon"] = 137 /\ ChainIds["fantom"] = 250
  /\ ChainIds["fantom_testnet"] = 4002 /\ ChainIds["moonriver"] = 1285
  /\ ChainIds["arbitrum_one"] = 42161 /\ ChainIds["arbitrum_nova"] = 42170
  /\ ChainIds["sapphire"] = Sapphire /\ ChainIds["sapphire_testnet"] = SapphireTestnet
  /\ ChainIds["avalanche"] = 43114 /\ ChainIds["avalanche_fuji"] = 43113
BY DEF ChainIds

LEMMA TestnetTable ==
  /\ DOMAIN TestnetOf = {"bsc", "fantom", "sapphire", "avalanche"}
  /\ TestnetOf["bsc"] = "bsc_testnet" /\ TestnetOf["fantom"] = "fantom_testnet"
  /\ TestnetOf["sapphire"] = "sapphire_testnet" /\ TestnetOf["avalanche"] = "avalanche_fuji"
BY DEF TestnetOf

\* What autoswitch makes of a protocol, on the chains that have a bus.
LEMMA Autoswitch ==
  ASSUME NEW chain \in ConfiguredChains, NEW protocol
  PROVE  autoswitch(chain, protocol) =
           IF isTestnet(chain)
           THEN IF protocol \in DOMAIN TestnetOf THEN TestnetOf[protocol] ELSE Unavailable
           ELSE IF chainName2ChainId(protocol) = 0 THEN Unavailable ELSE protocol
BY DEF autoswitch, ConfiguredChains, LocalChains, isTestnet

\* Sapphire is no local network.
LEMMA SapphireChains ==
  /\ Sapphire = 23294 /\ SapphireTestnet = 23295
  /\ Sapphire \in ConfiguredChains /\ SapphireTestnet \in ConfiguredChains
  /\ ~ isTestnet(Sapphire) /\ isTestnet(SapphireTestnet)
BY DEF Sapphire, SapphireTestnet, ConfiguredChains, isTestnet

\* A name of the table that is not the testnet's: an enclave on Sapphire finds it.
LEMMA MainnetName ==
  ASSUME NEW name \in DOMAIN ChainIds, NEW chain \in Nat, ChainIds[name] = chain,
         chain # 0, chain # Sapphire
  PROVE  \E protocol \in Protocols :
           /\ Deployable(Sapphire, autoswitch(Sapphire, protocol))
           /\ getRemoteChainId(Sapphire, autoswitch(Sapphire, protocol)) = chain
<1>1. name # Unavailable /\ name # "local"
  BY ConfigAssumption, ChainTable
<1>2. chainName2ChainId(name) = chain
  BY DEF chainName2ChainId
<1>3. autoswitch(Sapphire, name) = name
  BY <1>2, Autoswitch, SapphireChains
<1>4. getRemoteChainId(Sapphire, name) = chain
  BY <1>1, <1>2 DEF getRemoteChainId
<1>5. Deployable(Sapphire, name)
  BY <1>1, <1>4, SapphireChains DEF Deployable, hasBus
<1>6. name \in Protocols
  BY DEF Protocols
<1>. QED BY <1>3, <1>4, <1>5, <1>6

\* The same on the testnet, for the names that autoswitch knows a testnet of.
LEMMA TestnetName ==
  ASSUME NEW name \in DOMAIN TestnetOf, NEW chain \in Nat,
         ChainIds[TestnetOf[name]] = chain, chain # 0, chain # SapphireTestnet
  PROVE  \E protocol \in Protocols :
           /\ Deployable(SapphireTestnet, autoswitch(SapphireTestnet, protocol))
           /\ getRemoteChainId(SapphireTestnet, autoswitch(SapphireTestnet, protocol)) = chain
<1>1. /\ TestnetOf[name] \in DOMAIN ChainIds /\ name \in DOMAIN ChainIds
      /\ TestnetOf[name] # Unavailable /\ TestnetOf[name] # "local"
  BY ConfigAssumption, ChainTable, TestnetTable
<1>2. chainName2ChainId(TestnetOf[name]) = chain
  BY <1>1 DEF chainName2ChainId
<1>3. autoswitch(SapphireTestnet, name) = TestnetOf[name]
  BY Autoswitch, SapphireChains
<1>4. getRemoteChainId(SapphireTestnet, TestnetOf[name]) = chain
  BY <1>1, <1>2 DEF getRemoteChainId
<1>5. Deployable(SapphireTestnet, TestnetOf[name])
  BY <1>1, <1>4, SapphireChains DEF Deployable, hasBus
<1>6. name \in Protocols
  BY <1>1 DEF Protocols
<1>. QED BY <1>3, <1>4, <1>5, <1>6

\* A host that could be deployed is on a chain with a bus, and its network is the
\* Sapphire of its kind, which has a name for the host's chain.
LEMMA HostPairs ==
  ASSUME NEW chain \in Chains, chain \notin LocalChains,
         Deployable(chain, autoswitch(chain, "sapphire"))
  PROVE  LET remote == getRemoteChainId(chain, autoswitch(chain, "sapphire"))
         IN  /\ remote = IF isTestnet(chain) THEN SapphireTestnet ELSE Sapphire
             /\ \E protocol \in Protocols :
                  /\ Deployable(remote, autoswitch(remote, protocol))
                  /\ getRemoteChainId(remote, autoswitch(remote, protocol)) = chain
<1>1. chain \in ConfiguredChains
  BY DEF Deployable, autoswitch
<1>2. CASE isTestnet(chain)
  <2>1. autoswitch(chain, "sapphire") = "sapphire_testnet"
    BY <1>1, <1>2, Autoswitch, TestnetTable
  <2>2. getRemoteChainId(chain, "sapphire_testnet") = SapphireTestnet
    BY ChainTable DEF getRemoteChainId, chainName2ChainId
  <2>3. chain # SapphireTestnet
    BY <2>1, <2>2, SapphireChains DEF Deployable
  <2>4. chain \in {97, 4002, 43113}
    BY <1>2, <2>3, SapphireChains DEF isTestnet
  <2>5. \E name \in DOMAIN TestnetOf : ChainIds[TestnetOf[name]] = chain
    BY <2>4, ChainTable, TestnetTable
  <2>6. \E protocol \in Protocols :
          /\ Deployable(SapphireTestnet, autoswitch(SapphireTestnet, protocol))
          /\ getRemoteChainId(SapphireTestnet, autoswitch(SapphireTestnet, protocol)) = chain
    BY <2>3, <2>4, <2>5, TestnetName
  <2>. QED BY <1>2, <2>1, <2>2, <2>6
<1>3. CASE ~ isTestnet(chain)
  <2>1. autoswitch(chain, "sapphire") = "sapphire"
    BY <1>1, <1>3, Autoswitch, ChainTable, SapphireChains DEF chainName2ChainId
  <2>2. getRemoteChainId(chain, "sapphire") = Sapphire
    BY ChainTable DEF getRemoteChainId, chainName2ChainId
  <2>3. chain # Sapphire
    BY <2>1, <2>2, SapphireChains DEF Deployable
  <2>4. chain \in {1, 10, 56, 137, 250, 1285, 42161, 42170, 43114}
    BY <1>1, <1>3, <2>3, SapphireChains DEF ConfiguredChains, isTestnet
  <2>5. \E name \in DOMAIN ChainIds : ChainIds[name] = chain
    BY <2>4, ChainTable
  <2>6. \E protocol \in Protocols :
          /\ Deployable(Sapphire, autoswitch(Sapphire, protocol))
          /\ getRemoteChainId(Sapphire, autoswitch(Sapphire, protocol)) = chain
    BY <2>3, <2>4, <2>5, MainnetName
  <2>. QED BY <1>3, <2>1, <2>2, <2>6
<1>. QED BY <1>2, <1>3

\* An enclave that could be deployed names a chain with a bus, and one of the
\* testnet a testnet.
LEMMA EnclavePairs ==
  ASSUME NEW chain \in {Sapphire, SapphireTestnet}, NEW protocol \in Protocols,
         Deployable(chain, autoswitch(chain, protocol))
  PROVE  LET remote == getRemoteChainId(chain, autoswitch(chain, protocol))
         IN  /\ remote \in ConfiguredChains
             /\ isTestnet(chain) => isTestnet(remote)
<1>1. chain \in ConfiguredChains
  BY SapphireChains
<1>2. CASE chain = SapphireTestnet
  <2>1. protocol \in DOMAIN TestnetOf /\ autoswitch(chain, protocol) = TestnetOf[protocol]
    BY <1>1, <1>2, Autoswitch, SapphireChains DEF Deployable
  <2>2. TestnetOf[protocol] \in {"bsc_testnet", "fantom_testnet", "sapphire_testnet", "avalanche_fuji"}
    BY <2>1, TestnetTable
  <2>3. getRemoteChainId(chain, TestnetOf[protocol]) \in {97, 4002, 23295, 43113}
    BY <2>2, ChainTable, SapphireChains DEF getRemoteChainId, chainName2ChainId
  <2>. QED BY <2>1, <2>3 DEF ConfiguredChains, isTestnet
<1>3. CASE chain = Sapphire
  <2>1. autoswitch(chain, protocol) = protocol /\ chainName2ChainId(protocol) # 0
    BY <1>1, <1>3, Autoswitch, SapphireChains DEF Deployable
  <2>2. protocol \in DOMAIN ChainIds /\ protocol # "local"
    BY <2>1, ChainTable DEF chainName2ChainId
  <2>3. getRemoteChainId(chain, protocol) = ChainIds[protocol]
    BY <2>2 DEF getRemoteChainId, chainName2ChainId
  <2>4. ChainIds[protocol] \in ConfiguredChains
    BY <2>2, ChainTable, SapphireChains DEF ConfiguredChains
  <2>. QED BY <1>3, <2>1, <2>3, <2>4, SapphireChains
<1>. QED BY <1>2, <1>3

\* What DeploymentsPair asks of a host, and of an enclave.
HostPaired(contract) ==
  contract # NoContract /\ contract.chain \notin LocalChains =>
    /\ contract.remote = IF isTestnet(contract.chain) THEN SapphireTestnet ELSE Sapphire
    /\ \E protocol \in Protocols :
         LET name == autoswitch(contract.remote, protocol) IN
           /\ Deployable(contract.remote, name)
           /\ getRemoteChainId(contract.remote, name) = contract.chain

EnclavePaired(contract) ==
  contract # NoContract /\ contract.chain \notin LocalChains =>
    /\ contract.remote \in ConfiguredChains
    /\ isTestnet(contract.chain) => isTestnet(contract.remote)

\* Every deployment keeps the pairs fitting.
LEMMA DeploymentKeeps ==
  ASSUME HostPaired(host), EnclavePaired(enclave), ConfigNext
  PROVE  HostPaired(host') /\ EnclavePaired(enclave')
<1>1. CASE DeployHost
  <2>1. PICK chain \in Chains :
          /\ Deployable(chain, autoswitch(chain, "sapphire"))
          /\ host' = Contract(chain, autoswitch(chain, "sapphire"))
    BY <1>1 DEF DeployHost
  <2>2. /\ host'.chain = chain
        /\ host'.remote = getRemoteChainId(chain, autoswitch(chain, "sapphire"))
    BY <2>1 DEF Contract
  <2>3. HostPaired(host')
    BY <2>1, <2>2, HostPairs DEF HostPaired
  <2>. QED BY <1>1, <2>3 DEF DeployHost
<1>2. CASE DeployEnclave
  <2>1. PICK chain \in {Sapphire, SapphireTestnet} \cup LocalChains, protocol \in Protocols :
          /\ Deployable(chain, autoswitch(chain, protocol))
          /\ enclave' = Contract(chain, autoswitch(chain, protocol))
    BY <1>2 DEF DeployEnclave
  <2>2. /\ enclave'.chain = chain
        /\ enclave'.remote = getRemoteChainId(chain, autoswitch(chain, protocol))
    BY <2>1 DEF Contract
  <2>3. EnclavePaired(enclave')
    BY <2>1, <2>2, EnclavePairs DEF EnclavePaired
  <2>. QED BY <1>2, <2>3 DEF DeployEnclave
<1>. QED BY <1>1, <1>2 DEF ConfigNext

\* Hosts and enclaves fit together on every chain of the tables, whatever the chain
\* id that they do not list.
THEOREM DeploymentsFit == Spec => []DeploymentsPair
<1>1. Init => DeploymentsPair
  BY DEF Init, ConfigInit, DeploymentsPair
<1>2. DeploymentsPair /\ [Next]_<<input, host, enclave>> => DeploymentsPair'
  <2> SUFFICES ASSUME DeploymentsPair, [Next]_<<input, host, enclave>>
               PROVE  DeploymentsPair'
    OBVIOUS
  <2>1. HostPaired(host) /\ EnclavePaired(enclave)
    BY DEF DeploymentsPair, HostPaired, EnclavePaired
  <2>2. HostPaired(host') /\ EnclavePaired(enclave')
    BY <2>1, DeploymentKeeps DEF Next
  <2>. QED BY <2>2 DEF DeploymentsPair, HostPaired, EnclavePaired
<1>. QED BY <1>1, <1>2, PTL DEF Spec
-----------------------------------------------------------------------------
(***************************************************************************)
(* Words, and the DER signatures that carry two of them.                   *)
(***************************************************************************)

\* The least element of a set of numbers.
LEMMA Smallest ==
  ASSUME NEW S \in SUBSET Nat, S # {}
  PROVE  \E x \in S : \A y \in S : x <= y
<1> DEFINE R == OpToRel(<, Nat)
<1>1. IsWellFoundedOn(R, Nat)
  BY NatLessThanWellFounded
<1>2. \A x, y \in Nat : y < x => <<y, x>> \in R
  BY DEF OpToRel
<1> HIDE DEF R
<1>3. PICK x \in S : \A y \in S : ~ (<<y, x>> \in R)
  BY <1>1, WFMin
<1>4. ASSUME NEW y \in S PROVE x <= y
  <2>1. x \in Nat /\ y \in Nat
    OBVIOUS
  <2>2. ~ (y < x)
    BY <1>2, <1>3, <2>1, Zenon
  <2>. QED BY <2>1, <2>2
<1>. QED BY <1>4

\* A word has no zeros in front.
Canonical(word) == word \in Seq(Nat) /\ (word # << >> => word[1] # 0)

\* Word cuts the zeros in front, however many.
LEMMA WordCuts ==
  ASSUME NEW bytes \in Seq(Nat)
  PROVE  \/ Word(bytes) = << >> /\ \A i \in 1..Len(bytes) : bytes[i] = 0
         \/ \E first \in 1..Len(bytes) :
              /\ bytes[first] # 0 /\ \A i \in 1..(first - 1) : bytes[i] = 0
              /\ Word(bytes) = SubSeq(bytes, first, Len(bytes))
<1> DEFINE nonZero == {i \in 1..Len(bytes) : bytes[i] # 0}
           least == CHOOSE x \in nonZero : \A y \in nonZero : x <= y
<1>1. Word(bytes) = IF nonZero = {} THEN << >>
                    ELSE IF least = 0 THEN << >> ELSE SubSeq(bytes, least, Len(bytes))
  BY DEF Word, SelectInSeq, Min
<1>2. nonZero \in SUBSET Nat
  OBVIOUS
<1>3. CASE nonZero = {}
  BY <1>1, <1>3
<1>4. CASE nonZero # {}
  <2>1. least \in nonZero /\ \A y \in nonZero : least <= y
    <3> HIDE DEF nonZero
    <3>. QED BY <1>2, <1>4, Smallest
  <2>2. least \in 1..Len(bytes) /\ bytes[least] # 0
    BY <2>1
  <2>3. \A i \in 1..(least - 1) : bytes[i] = 0
    <3> SUFFICES ASSUME NEW i \in 1..(least - 1) PROVE bytes[i] = 0
      OBVIOUS
    <3>1. i \in 1..Len(bytes) /\ ~ (least <= i)
      <4> HIDE DEF nonZero, least
      <4>. QED BY <2>2
    <3>2. i \notin nonZero
      <4> HIDE DEF nonZero, least
      <4>. QED BY <2>1, <3>1
    <3>. QED BY <3>1, <3>2
  <2> HIDE DEF nonZero, least
  <2>. QED BY <1>1, <1>4, <2>2, <2>3, SMTT(30)
<1>. QED BY <1>3, <1>4

\* So what is left is a word, and no longer than what there was.
LEMMA WordIsCanonical ==
  ASSUME NEW bytes \in Seq(Nat)
  PROVE  Canonical(Word(bytes)) /\ Len(Word(bytes)) <= Len(bytes)
<1>1. CASE Word(bytes) = << >>
  BY <1>1 DEF Canonical
<1>2. ASSUME NEW first \in 1..Len(bytes), bytes[first] # 0,
             Word(bytes) = SubSeq(bytes, first, Len(bytes))
      PROVE  Canonical(Word(bytes)) /\ Len(Word(bytes)) <= Len(bytes)
  BY <1>2 DEF Canonical
<1>. QED BY <1>1, <1>2, WordCuts

\* Two byte strings are equal when they agree at every index.
LEMMA SameBytes ==
  ASSUME NEW s \in Seq(Nat), NEW t \in Seq(Nat), Len(s) = Len(t),
         \A i \in 1..Len(t) : s[i] = t[i]
  PROVE  s = t
BY SeqEqual

\* The tail of a concatenation from the end of its first part on.
LEMMA SecondPart ==
  ASSUME NEW s \in Seq(Nat), NEW t \in Seq(Nat)
  PROVE  SubSeq(s \o t, Len(s) + 1, Len(s) + Len(t)) = t
<1>1. s \o t \in Seq(Nat) /\ Len(s \o t) = Len(s) + Len(t) /\ Len(s) \in Nat /\ Len(t) \in Nat
  OBVIOUS
<1>2. \A i \in 1..Len(t) : (s \o t)[Len(s) + i] = t[i]
  OBVIOUS
<1> DEFINE all == s \o t
           tail == SubSeq(all, Len(s) + 1, Len(s) + Len(t))
<1>3. tail \in Seq(Nat) /\ Len(tail) = Len(t) /\ \A i \in 1..Len(t) : tail[i] = all[Len(s) + i]
  <2> HIDE DEF all
  <2>1. all \in Seq(Nat) /\ Len(all) = Len(s) + Len(t)
    BY <1>1 DEF all
  <2>. QED BY <1>1, <2>1, SMTT(30)
<1> HIDE DEF tail
<1>4. tail = t
  BY <1>2, <1>3, SameBytes
<1>. QED BY <1>4 DEF tail

\* Zeros in front of a word make no difference.
LEMMA WordPadded ==
  ASSUME NEW word, Canonical(word), NEW zeros \in Seq(Nat),
         \A i \in 1..Len(zeros) : zeros[i] = 0
  PROVE  Word(zeros \o word) = word
<1> DEFINE bytes == zeros \o word
           n == Len(zeros)
<1>1. word \in Seq(Nat) /\ Len(word) \in Nat /\ n \in Nat
  BY DEF Canonical
<1>2. /\ bytes \in Seq(Nat) /\ Len(bytes) = n + Len(word)
      /\ \A i \in 1..n : bytes[i] = 0
      /\ \A i \in 1..Len(word) : bytes[n + i] = word[i]
  BY <1>1
<1>3. CASE word = << >>
  <2>1. Len(word) = 0 /\ Len(bytes) = n
    BY <1>1, <1>2, <1>3
  <2> HIDE DEF bytes, n
  <2>2. \A first \in 1..Len(bytes) : bytes[first] = 0
    BY <1>2, <2>1
  <2>3. Word(bytes) = << >>
    BY <1>2, <2>2, WordCuts
  <2>. QED BY <1>3, <2>3 DEF bytes
<1>4. CASE word # << >>
  <2>1. word[1] # 0 /\ Len(word) >= 1
    BY <1>1, <1>4 DEF Canonical
  <2> HIDE DEF bytes, n
  <2>2. bytes[n + 1] # 0 /\ n + 1 \in 1..Len(bytes)
    BY <1>1, <1>2, <2>1
  <2>3. PICK first \in 1..Len(bytes) :
          /\ bytes[first] # 0 /\ \A i \in 1..(first - 1) : bytes[i] = 0
          /\ Word(bytes) = SubSeq(bytes, first, Len(bytes))
    BY <1>2, <2>2, WordCuts
  <2>4. first \in Nat /\ first >= 1
    BY <1>1, <1>2
  <2>5. ~ (first <= n)
    <3>1. first <= n => first \in 1..n
      BY <1>1, <2>4
    <3>. QED BY <1>2, <2>3, <3>1
  <2>6. ~ (n + 1 < first)
    <3>1. n + 1 < first => n + 1 \in 1..(first - 1)
      BY <1>1, <2>4
    <3>. QED BY <2>2, <2>3, <3>1
  <2>7. first = n + 1
    BY <1>1, <2>4, <2>5, <2>6
  <2>8. Word(bytes) = SubSeq(bytes, n + 1, n + Len(word))
    BY <1>2, <2>3, <2>7
  <2>. QED BY <1>1, <2>8, SecondPart DEF bytes, n
<1>. QED BY <1>3, <1>4

LEMMA WordOfWord ==
  ASSUME NEW word, Canonical(word)
  PROVE  Word(word) = word
<1>1. << >> \in Seq(Nat) /\ Len(<< >>) = 0 /\ << >> \o word = word
  BY DEF Canonical
<1>2. \A i \in 1..Len(<< >>) : << >>[i] = 0
  BY <1>1
<1>3. Word(<< >> \o word) = word
  BY <1>1, <1>2, WordPadded
<1>. QED BY <1>1, <1>3

\* What concatenation does to lengths and indices.
LEMMA Joined ==
  ASSUME NEW s \in Seq(Nat), NEW t \in Seq(Nat)
  PROVE  /\ s \o t \in Seq(Nat) /\ Len(s \o t) = Len(s) + Len(t)
         /\ Len(s) \in Nat /\ Len(t) \in Nat
         /\ \A i \in 1..Len(s) : (s \o t)[i] = s[i]
         /\ \A i \in 1..Len(t) : (s \o t)[Len(s) + i] = t[i]
OBVIOUS

\* The same with two bytes in front, and at the end.
LEMMA PairBefore ==
  ASSUME NEW x \in Nat, NEW y \in Nat, NEW s \in Seq(Nat)
  PROVE  LET all == <<x, y>> \o s
         IN  /\ all \in Seq(Nat) /\ Len(all) = Len(s) + 2 /\ all[1] = x /\ all[2] = y
             /\ \A k \in 1..Len(s) : all[2 + k] = s[k]
<1> DEFINE t == <<x, y>>
<1>1. t \in Seq(Nat) /\ Len(t) = 2 /\ t[1] = x /\ t[2] = y
  OBVIOUS
<1> HIDE DEF t
<1>. QED BY <1>1, Joined DEF t

LEMMA PairAfter ==
  ASSUME NEW x \in Nat, NEW y \in Nat, NEW s \in Seq(Nat)
  PROVE  LET all == s \o <<x, y>>
         IN  /\ all \in Seq(Nat) /\ Len(all) = Len(s) + 2
             /\ all[Len(s) + 1] = x /\ all[Len(s) + 2] = y
             /\ \A k \in 1..Len(s) : all[k] = s[k]
<1> DEFINE t == <<x, y>>
<1>1. t \in Seq(Nat) /\ Len(t) = 2 /\ t[1] = x /\ t[2] = y
  OBVIOUS
<1> HIDE DEF t
<1> DEFINE all == s \o t
<1>2. /\ all \in Seq(Nat) /\ Len(all) = Len(s) + Len(t)
      /\ \A i \in 1..Len(s) : all[i] = s[i]
      /\ \A i \in 1..Len(t) : all[Len(s) + i] = t[i]
  BY <1>1, Joined
<1> HIDE DEF all
<1>3. 1 \in 1..Len(t) /\ 2 \in 1..Len(t)
  BY <1>1
<1>4. all[Len(s) + 1] = t[1] /\ all[Len(s) + 2] = t[2]
  BY <1>2, <1>3, Zenon
<1>. QED BY <1>1, <1>2, <1>4 DEF all, t

\* A part of a byte string.
LEMMA PartOf ==
  ASSUME NEW s \in Seq(Nat), NEW from \in Nat, NEW n \in Nat, from + n <= Len(s)
  PROVE  /\ SubSeq(s, from + 1, from + n) \in Seq(Nat)
         /\ Len(SubSeq(s, from + 1, from + n)) = n
         /\ \A i \in 1..n : SubSeq(s, from + 1, from + n)[i] = s[from + i]
<1>1. \A i \in (from + 1)..(from + n) : s[i] \in Nat
  OBVIOUS
<1>2. from + 1 \in Int /\ from + n \in Int /\ (from + n) - (from + 1) + 1 = n
  OBVIOUS
<1> DEFINE part == SubSeq(s, from + 1, from + n)
<1>3. /\ part \in Seq(Nat)
      /\ Len(part) = IF from + 1 <= from + n THEN (from + n) - (from + 1) + 1 ELSE 0
      /\ \A i \in 1..((from + n) - (from + 1) + 1) : part[i] = s[(from + 1) + i - 1]
  BY <1>1, <1>2, SubSeqProperties
<1> HIDE DEF part
<1>4. \A i \in 1..n : part[i] = s[from + i]
  BY <1>2, <1>3
<1>5. Len(part) = n
  BY <1>3
<1>. QED BY <1>3, <1>4, <1>5 DEF part

LEMMA FilledBytes ==
  ASSUME NEW n \in Nat, NEW byte \in Nat
  PROVE  /\ Filled(n, byte) \in Seq(Nat) /\ Len(Filled(n, byte)) = n
         /\ \A i \in 1..n : Filled(n, byte)[i] = byte
BY DEF Filled

\* The integers of a signature fit in a word.
IsComponent(word) == Canonical(word) /\ Len(word) <= WordBytes

\* What an integer of DER looks like: never empty, at most a sign byte longer than
\* a word, and the word again once the zero in front is gone.
LEMMA IntegerShape ==
  ASSUME NEW word, IsComponent(word)
  PROVE  LET int == DerInteger(word)
         IN  /\ int \in Seq(Nat) /\ Len(int) \in 1..(WordBytes + 1)
             /\ Word(int) = word
             /\ Len(int) = WordBytes + 1 => int[1] = 0 /\ int = <<0>> \o word
<1>1. word \in Seq(Nat) /\ Canonical(word) /\ Len(word) \in Nat /\ Len(word) <= WordBytes
  BY DEF IsComponent, Canonical
<1>2. WordBytes \in Nat /\ WordBytes >= 1
  BY WordBytesAssumption
<1>3. CASE word = << >> \/ word[1] >= 128
  <2>1. DerInteger(word) = <<0>> \o word
    BY <1>3 DEF DerInteger
  <2>2. <<0>> \in Seq(Nat) /\ Len(<<0>>) = 1 /\ \A i \in 1..Len(<<0>>) : <<0>>[i] = 0
    OBVIOUS
  <2>3. /\ <<0>> \o word \in Seq(Nat) /\ Len(<<0>> \o word) = 1 + Len(word)
        /\ (<<0>> \o word)[1] = 0
    BY <1>1
  <2>4. Word(<<0>> \o word) = word
    BY <1>1, <2>2, WordPadded
  <2>. QED BY <1>1, <1>2, <2>1, <2>3, <2>4
<1>4. CASE ~ (word = << >> \/ word[1] >= 128)
  <2>1. DerInteger(word) = word
    BY <1>4 DEF DerInteger
  <2>2. Len(word) >= 1
    BY <1>1, <1>4
  <2>3. Word(word) = word
    BY <1>1, WordOfWord
  <2>. QED BY <1>1, <1>2, <2>1, <2>2, <2>3
<1>. QED BY <1>3, <1>4

\* Load reads the word that stands at an offset, in spite of what lies beyond.
LEMMA LoadReads ==
  ASSUME NEW der \in Seq(Nat), NEW offset \in Nat, NEW int \in Seq(Nat),
         Len(int) <= WordBytes, offset + Len(int) <= Len(der),
         \A k \in 1..Len(int) : der[offset + k] = int[k]
  PROVE  Load(der, offset, Len(int)) = Word(int)
<1> DEFINE beyond == Filled(WordBytes, Beyond)
           memory == der \o beyond
           loaded == Slice(memory, offset, WordBytes)
           n == Len(int)
<1>1. WordBytes \in Nat /\ n \in Nat /\ Len(der) \in Nat
  BY WordBytesAssumption
<1>2. beyond \in Seq(Nat) /\ Len(beyond) = WordBytes
  <2>1. Beyond \in Nat
    BY DEF Beyond
  <2>. QED BY <1>1, <2>1, FilledBytes
<1>3. /\ memory \in Seq(Nat) /\ Len(memory) = Len(der) + WordBytes
      /\ \A i \in 1..Len(der) : memory[i] = der[i]
  <2> HIDE DEF beyond
  <2>. QED BY <1>1, <1>2, Joined
<1>4. /\ loaded \in Seq(Nat) /\ Len(loaded) = WordBytes
      /\ \A i \in 1..WordBytes : loaded[i] = memory[offset + i]
  <2> HIDE DEF memory
  <2>1. loaded = SubSeq(memory, offset + 1, offset + WordBytes)
    BY DEF Slice
  <2>2. offset + WordBytes <= Len(memory)
    BY <1>1, <1>3
  <2>3. LET part == SubSeq(memory, offset + 1, offset + WordBytes)
        IN  /\ part \in Seq(Nat) /\ Len(part) = WordBytes
            /\ \A i \in 1..WordBytes : part[i] = memory[offset + i]
    BY <1>1, <1>3, <2>2, PartOf
  <2> HIDE DEF loaded
  <2>. QED BY <2>1, <2>3
<1>5. Load(der, offset, n) = Word(SubSeq(loaded, 1, n))
  BY DEF Load
<1> HIDE DEF memory, loaded
<1>6. /\ SubSeq(loaded, 1, n) \in Seq(Nat) /\ Len(SubSeq(loaded, 1, n)) = n
      /\ \A i \in 1..n : SubSeq(loaded, 1, n)[i] = loaded[i]
  <2> HIDE DEF n
  <2>1. n <= Len(loaded)
    BY <1>1, <1>4 DEF n
  <2>. QED BY <1>1, <1>4, <2>1
<1>7. ASSUME NEW i \in 1..n PROVE SubSeq(loaded, 1, n)[i] = int[i]
  <2>1. i \in 1..WordBytes /\ offset + i \in 1..Len(der)
    BY <1>1
  <2>2. loaded[i] = memory[offset + i] /\ memory[offset + i] = der[offset + i]
    BY <1>3, <1>4, <2>1
  <2>. QED BY <1>6, <2>2
<1>8. SubSeq(loaded, 1, n) = int
  BY <1>6, <1>7, SameBytes
<1>. QED BY <1>5, <1>8

\* So a component is the word that its integer stands for.
LEMMA ComponentReads ==
  ASSUME NEW der \in Seq(Nat), NEW offset \in Nat, NEW word, IsComponent(word),
         offset + Len(DerInteger(word)) <= Len(der),
         \A k \in 1..Len(DerInteger(word)) : der[offset + k] = DerInteger(word)[k]
  PROVE  Component(der, offset, Len(DerInteger(word))) = word
<1> DEFINE int == DerInteger(word)
<1>1. /\ int \in Seq(Nat) /\ Len(int) \in 1..(WordBytes + 1) /\ Word(int) = word
      /\ Len(int) = WordBytes + 1 => int[1] = 0 /\ int = <<0>> \o word
  BY IntegerShape
<1>2. word \in Seq(Nat) /\ Len(word) \in Nat /\ Word(word) = word /\ WordBytes \in Nat
      /\ Len(word) <= WordBytes /\ Len(der) \in Nat
  BY WordOfWord, WordBytesAssumption DEF IsComponent, Canonical
<1>3. CASE Len(int) <= WordBytes
  <2> HIDE DEF int
  <2>1. Component(der, offset, Len(int)) = Load(der, offset, Len(int))
    BY <1>3 DEF Component
  <2>2. Load(der, offset, Len(int)) = Word(int)
    BY <1>1, <1>3, LoadReads DEF int
  <2>. QED BY <1>1, <2>1, <2>2 DEF int
<1>4. CASE ~ (Len(int) <= WordBytes)
  <2>1. Len(int) = WordBytes + 1
    BY <1>1, <1>2, <1>4
  <2>2. int[1] = 0 /\ int = <<0>> \o word
    BY <1>1, <2>1
  <2>3. Len(int) = 1 + Len(word) /\ \A k \in 1..Len(word) : int[k + 1] = word[k]
    <3>1. Len(<<0>> \o word) = 1 + Len(word) /\ \A k \in 1..Len(word) : (<<0>> \o word)[k + 1] = word[k]
      BY <1>2
    <3> HIDE DEF int
    <3>. QED BY <2>2, <3>1
  <2>4. \A k \in 1..Len(int) : der[offset + k] = int[k]
    OBVIOUS
  <2>5. offset + Len(int) <= Len(der)
    OBVIOUS
  <2> HIDE DEF int
  <2>6. der[offset + 1] = 0
    BY <1>2, <2>1, <2>2, <2>4
  <2>7. Component(der, offset, Len(int)) = Load(der, offset + 1, Len(word))
    BY <1>2, <1>4, <2>3, <2>6 DEF Component
  <2>8. ASSUME NEW k \in 1..Len(word) PROVE der[offset + 1 + k] = word[k]
    <3>1. k + 1 \in 1..Len(int) /\ int[k + 1] = word[k] /\ offset + (k + 1) = offset + 1 + k
      BY <1>2, <2>3
    <3>. QED BY <2>4, <3>1
  <2>9. Load(der, offset + 1, Len(word)) = Word(word)
    BY <1>2, <2>3, <2>5, <2>8, LoadReads
  <2>. QED BY <1>2, <2>7, <2>9 DEF int
<1>. QED BY <1>3, <1>4

\* Where the parts of a DER signature are.
LEMMA DerShape ==
  ASSUME NEW r, NEW s, DerInteger(r) \in Seq(Nat), DerInteger(s) \in Seq(Nat)
  PROVE  LET ir == DerInteger(r)
             is == DerInteger(s)
             lr == Len(ir)
             ls == Len(is)
             der == DerSignature(r, s)
         IN  /\ der \in Seq(Nat) /\ Len(der) = lr + ls + 6
             /\ der[1] = 48 /\ der[2] = lr + ls + 4 /\ der[3] = 2 /\ der[4] = lr
             /\ der[5 + lr] = 2 /\ der[6 + lr] = ls
             /\ \A k \in 1..lr : der[4 + k] = ir[k]
             /\ \A k \in 1..ls : der[6 + lr + k] = is[k]
<1> DEFINE ir == DerInteger(r)
           is == DerInteger(s)
           lr == Len(ir)
           ls == Len(is)
           b1 == <<2, lr>> \o ir
           b2 == b1 \o <<2, ls>>
           b3 == b2 \o is
           h == <<48, Len(b3)>>
           der == h \o b3
<1>0. DerSignature(r, s) = der
  BY DEF DerSignature
<1>1. lr \in Nat /\ ls \in Nat /\ ir \in Seq(Nat) /\ is \in Seq(Nat)
  OBVIOUS
<1> HIDE DEF ir, is
<1>2. /\ b1 \in Seq(Nat) /\ Len(b1) = lr + 2 /\ b1[1] = 2 /\ b1[2] = lr
      /\ \A k \in 1..lr : b1[2 + k] = ir[k]
  <2>1. 2 \in Nat
    OBVIOUS
  <2>. QED BY <1>1, <2>1, PairBefore
<1>3. /\ b2 \in Seq(Nat) /\ Len(b2) = Len(b1) + 2
      /\ b2[Len(b1) + 1] = 2 /\ b2[Len(b1) + 2] = ls
      /\ \A k \in 1..Len(b1) : b2[k] = b1[k]
  <2> HIDE DEF b1
  <2>1. 2 \in Nat
    OBVIOUS
  <2>. QED BY <1>1, <1>2, <2>1, PairAfter
<1>4. /\ b3 \in Seq(Nat) /\ Len(b3) = Len(b2) + ls
      /\ \A k \in 1..Len(b2) : b3[k] = b2[k]
      /\ \A k \in 1..ls : b3[Len(b2) + k] = is[k]
  <2> HIDE DEF b2
  <2>. QED BY <1>1, <1>3, Joined
<1>5. /\ der \in Seq(Nat) /\ Len(der) = Len(b3) + 2 /\ der[1] = 48 /\ der[2] = Len(b3)
      /\ \A k \in 1..Len(b3) : der[2 + k] = b3[k]
  <2> HIDE DEF b3
  <2> DEFINE n == Len(b3)
             all == <<48, n>> \o b3
  <2>1. n \in Nat /\ b3 \in Seq(Nat)
    BY <1>4
  <2> HIDE DEF n
  <2>2. /\ all \in Seq(Nat) /\ Len(all) = Len(b3) + 2 /\ all[1] = 48 /\ all[2] = n
        /\ \A k \in 1..Len(b3) : all[2 + k] = b3[k]
    BY <2>1, PairBefore
  <2>. QED BY <2>2 DEF n
<1> HIDE DEF der, h, b3, b2, b1, lr, ls
<1>6. Len(b1) = lr + 2 /\ Len(b2) = lr + 4 /\ Len(b3) = lr + ls + 4
  BY <1>1, <1>2, <1>3, <1>4
<1>7. b2[3 + lr] = 2 /\ b2[4 + lr] = ls /\ \A k \in 1..(lr + 2) : b2[k] = b1[k]
  <2>1. Len(b1) + 1 = 3 + lr /\ Len(b1) + 2 = 4 + lr
    BY <1>1, <1>6
  <2>. QED BY <1>3, <1>6, <2>1
<1>8. \A k \in 1..(lr + 4) : der[2 + k] = b2[k]
  <2> SUFFICES ASSUME NEW k \in 1..(lr + 4) PROVE der[2 + k] = b2[k]
    OBVIOUS
  <2>1. k \in 1..Len(b3) /\ k \in 1..Len(b2)
    BY <1>1, <1>6
  <2>. QED BY <1>4, <1>5, <2>1
<1>9. der[3] = 2 /\ der[4] = lr
  <2>1. der[2 + 1] = b2[1] /\ der[2 + 2] = b2[2] /\ b2[1] = b1[1] /\ b2[2] = b1[2]
    BY <1>1, <1>7, <1>8
  <2>. QED BY <1>2, <2>1
<1>10. der[5 + lr] = 2 /\ der[6 + lr] = ls
  <2>1. der[2 + (3 + lr)] = b2[3 + lr] /\ der[2 + (4 + lr)] = b2[4 + lr]
    <3>1. 3 + lr \in 1..(lr + 4) /\ 4 + lr \in 1..(lr + 4)
      BY <1>1
    <3>. QED BY <1>8, <3>1
  <2>2. 2 + (3 + lr) = 5 + lr /\ 2 + (4 + lr) = 6 + lr
    BY <1>1
  <2>. QED BY <1>7, <2>1, <2>2
<1>11. ASSUME NEW k \in 1..lr PROVE der[4 + k] = ir[k]
  <2>1. 2 + k \in 1..(lr + 2) /\ 2 + k \in 1..(lr + 4) /\ 2 + (2 + k) = 4 + k
    BY <1>1
  <2>2. der[2 + (2 + k)] = b2[2 + k] /\ b2[2 + k] = b1[2 + k]
    BY <1>7, <1>8, <2>1
  <2>. QED BY <1>2, <2>1, <2>2
<1>12. ASSUME NEW k \in 1..ls PROVE der[6 + lr + k] = is[k]
  <2>1. Len(b2) + k \in 1..Len(b3) /\ 2 + (Len(b2) + k) = 6 + lr + k
    BY <1>1, <1>6
  <2>2. der[2 + (Len(b2) + k)] = b3[Len(b2) + k]
    BY <1>5, <2>1
  <2>. QED BY <1>4, <2>1, <2>2
<1>13. Len(der) = lr + ls + 6 /\ der[2] = lr + ls + 4
  BY <1>1, <1>5, <1>6
<1>. QED BY <1>0, <1>5, <1>9, <1>10, <1>11, <1>12, <1>13 DEF ir, is, lr, ls

\* splitDERSignature finds both integers of a signature.
LEMMA SplitReads ==
  ASSUME NEW r, IsComponent(r), NEW s, IsComponent(s)
  PROVE  splitDERSignature(DerSignature(r, s)) = [r |-> r, s |-> s]
<1> DEFINE ir == DerInteger(r)
           is == DerInteger(s)
           lr == Len(ir)
           ls == Len(is)
           der == DerSignature(r, s)
<1>1. /\ ir \in Seq(Nat) /\ is \in Seq(Nat)
      /\ lr \in 1..(WordBytes + 1) /\ ls \in 1..(WordBytes + 1)
  BY IntegerShape
<1>2. WordBytes \in Nat
  BY WordBytesAssumption
<1>3. r \in Seq(Nat) /\ s \in Seq(Nat)
  BY DEF IsComponent, Canonical
<1>4. /\ der \in Seq(Nat) /\ Len(der) = lr + ls + 6
      /\ der[1] = 48 /\ der[2] = lr + ls + 4 /\ der[3] = 2 /\ der[4] = lr
      /\ der[5 + lr] = 2 /\ der[6 + lr] = ls
      /\ \A k \in 1..lr : der[4 + k] = ir[k]
      /\ \A k \in 1..ls : der[6 + lr + k] = is[k]
  BY <1>1, DerShape
<1>5. Component(der, 4, lr) = r
  <2> HIDE DEF der
  <2>1. 4 + lr <= Len(der)
    BY <1>1, <1>2, <1>4
  <2>. QED BY <1>4, <2>1, ComponentReads
<1>6. Component(der, 6 + lr, ls) = s
  <2> HIDE DEF der
  <2>1. 6 + lr + ls <= Len(der) /\ 6 + lr \in Nat
    <3> HIDE DEF lr, ls
    <3>1. lr \in Nat /\ ls \in Nat
      BY <1>1, <1>2
    <3>. QED BY <1>4, <3>1
  <2>. QED BY <1>4, <2>1, ComponentReads
<1> HIDE DEF ir, is, lr, ls, der
<1>7. WellFormed(der)
  <2>1. der[der[4] + 6] = ls /\ der[der[4] + 5] = 2
    BY <1>1, <1>2, <1>4
  <2>. QED BY <1>1, <1>2, <1>4, <2>1 DEF WellFormed
<1>8. r # Reverted /\ s # Reverted
  BY <1>3, RevertedAssumption
<1>9. splitDERSignature(der) = [r |-> r, s |-> s]
  BY <1>4, <1>5, <1>6, <1>7, <1>8 DEF splitDERSignature
<1>. QED BY <1>9 DEF der

\* And nothing in one with a byte too many or too few, since the length says so.
LEMMA OnlyWholeSignatures ==
  ASSUME NEW der \in Seq(Nat), Len(der) >= 2, Len(der) = der[2] + 2
  PROVE  /\ splitDERSignature(Append(der, 0)) = Reverted
         /\ \A n \in 0..(Len(der) - 1) : splitDERSignature(SubSeq(der, 1, n)) = Reverted
<1>1. Len(Append(der, 0)) = Len(der) + 1 /\ Append(der, 0)[2] = der[2] /\ der[2] \in Nat
  OBVIOUS
<1>2. ~ WellFormed(Append(der, 0))
  BY <1>1 DEF WellFormed
<1>3. ASSUME NEW n \in 0..(Len(der) - 1)
      PROVE  ~ WellFormed(SubSeq(der, 1, n))
  <2>1. 0 + 1 = 1 /\ 0 + n = n /\ n \in Nat /\ 0 + n <= Len(der)
    OBVIOUS
  <2>2. /\ Len(SubSeq(der, 1, n)) = n
        /\ \A i \in 1..n : SubSeq(der, 1, n)[i] = der[0 + i]
    <3>1. /\ Len(SubSeq(der, 0 + 1, 0 + n)) = n
          /\ \A i \in 1..n : SubSeq(der, 0 + 1, 0 + n)[i] = der[0 + i]
      BY <2>1, PartOf
    <3>. QED BY <2>1, <3>1
  <2> DEFINE part == SubSeq(der, 1, n)
  <2>3. Len(part) = n /\ (n >= 2 => part[2] = der[2])
    BY <2>2
  <2> HIDE DEF part
  <2>4. n >= 8 => Len(part) # part[2] + 2
    BY <1>1, <2>3
  <2>. QED BY <2>3, <2>4 DEF WellFormed, part
<1>. QED BY <1>2, <1>3 DEF splitDERSignature

\* What is chosen says of which kind it is.
LEMMA ChosenKinds ==
  /\ ChooseUint => input'.alg = "uint"
  /\ ChooseLength => input'.alg = "length"
  /\ ChooseDelegate => input'.alg = "delegate"
  /\ ChooseDelegateError => input'.alg = "delegateError"
  /\ ChooseUndelegateStart => input'.alg = "undelegateStart"
  /\ ChooseUndelegateDone => input'.alg = "undelegateDone"
  /\ ChoosePublicKey => input'.alg = "publicKey"
  /\ ChooseSignature => input'.alg = "signature"
  /\ ChooseTransaction => input'.alg = "transaction"
  /\ ChooseRequest => input'.alg = "request"
  /\ ChooseCallData => input'.alg = "calldata"
  /\ ChooseMessage => input'.alg = "message"
  /\ ChooseClientCall => input'.alg \in {"clientCall", "cipherResult", "runtimeResult", "signedCall"}
  /\ ChooseEvents => input'.alg = "events"
  /\ FirstDay \/ NextDay => input'.alg = "date"
<1>1. /\ ChooseUint => input'.alg = "uint"
      /\ ChooseLength => input'.alg = "length"
      /\ ChooseDelegate => input'.alg = "delegate"
      /\ ChooseDelegateError => input'.alg = "delegateError"
      /\ ChooseUndelegateStart => input'.alg = "undelegateStart"
      /\ ChooseUndelegateDone => input'.alg = "undelegateDone"
  BY DEF ChooseUint, ChooseLength, ChooseDelegate, ChooseDelegateError,
         ChooseUndelegateStart, ChooseUndelegateDone
<1>2. /\ ChoosePublicKey => input'.alg = "publicKey"
      /\ ChooseSignature => input'.alg = "signature"
      /\ ChooseTransaction => input'.alg = "transaction"
      /\ ChooseRequest => input'.alg = "request"
      /\ ChooseCallData => input'.alg = "calldata"
      /\ ChooseMessage => input'.alg = "message"
      /\ ChooseEvents => input'.alg = "events"
  <2>1. ChoosePublicKey => input'.alg = "publicKey"
    BY SMTT(30) DEF ChoosePublicKey
  <2>2. ChooseSignature => input'.alg = "signature"
    BY DEF ChooseSignature
  <2>3. ChooseTransaction => input'.alg = "transaction"
    BY DEF ChooseTransaction
  <2>4. ChooseRequest => input'.alg = "request"
    BY DEF ChooseRequest
  <2>5. ChooseCallData => input'.alg = "calldata"
    BY DEF ChooseCallData
  <2>6. ChooseMessage => input'.alg = "message"
    BY DEF ChooseMessage
  <2>7. ChooseEvents => input'.alg = "events"
    BY DEF ChooseEvents
  <2>. QED BY <2>1, <2>2, <2>3, <2>4, <2>5, <2>6, <2>7
<1>3. ChooseClientCall => input'.alg \in {"clientCall", "cipherResult", "runtimeResult", "signedCall"}
  <2>1. \A c \in CipherResults : c.alg \in {"cipherResult", "runtimeResult"}
    BY DEF CipherResults, EncryptedResults, RuntimeResults
  <2>2. \A c \in SignedRequests : c.alg = "signedCall"
    BY DEF SignedRequests
  <2>3. \A c \in ClientCalls : c.alg = "clientCall"
    BY DEF ClientCalls, ClientRequests
  <2>. QED BY <2>1, <2>2, <2>3 DEF ChooseClientCall
<1>4. FirstDay \/ NextDay => input'.alg = "date"
  BY DEF FirstDay, NextDay, Date
<1>. QED BY <1>1, <1>2, <1>3, <1>4

\* A step that comes to an input has chosen it, but for the days.
LEMMA InputStays ==
  ASSUME [Next]_<<input, host, enclave>>
  PROVE  input' = input \/ ChooseInput \/ NextDay
BY DEF Next

\* A signature is one of two words.
SignatureInput ==
  Given("signature") =>
    \E r, s : /\ IsComponent(r) /\ IsComponent(s)
              /\ input = [alg |-> "signature", r |-> r, s |-> s, der |-> DerSignature(r, s)]

LEMMA SignaturesMade == Spec => []SignatureInput
<1>1. Init => SignatureInput
  BY DEF Init, SignatureInput, Given
<1>2. ASSUME SignatureInput, [Next]_<<input, host, enclave>>
      PROVE  SignatureInput'
  <2>1. CASE input' = input
    BY <1>2, <2>1 DEF SignatureInput, Given
  <2>2. CASE ChooseSignature
    <3> DEFINE Components == UNION {[1..n -> {0, 1, 127, 128, 255}] : n \in 1..WordBytes}
    <3>1. PICK r \in {Word(c) : c \in Components}, s \in {Word(c) : c \in Components} :
            input' = [alg |-> "signature", r |-> r, s |-> s, der |-> DerSignature(r, s)]
      BY <2>2 DEF ChooseSignature
    <3>2. ASSUME NEW c \in Components PROVE IsComponent(Word(c))
      <4>1. PICK n \in 1..WordBytes : c \in [1..n -> {0, 1, 127, 128, 255}]
        BY SMTT(30)
      <4>2. n \in Nat /\ n <= WordBytes
        BY WordBytesAssumption
      <4>3. c \in Seq(Nat) /\ Len(c) = n
        BY <4>1, <4>2
      <4>. QED BY <4>2, <4>3, WordIsCanonical, WordBytesAssumption DEF IsComponent, Canonical
    <3>3. IsComponent(r) /\ IsComponent(s)
      BY <3>2
    <3>. QED BY <3>1, <3>3 DEF SignatureInput
  <2>3. CASE (ChooseInput \/ NextDay) /\ ~ ChooseSignature
    <3>1. input'.alg # "signature"
      BY <2>3, ChosenKinds DEF ChooseInput
    <3>. QED BY <3>1 DEF SignatureInput, Given
  <2>. QED BY <1>2, <2>1, <2>2, <2>3, InputStays
<1>. QED BY <1>1, <1>2, PTL DEF Spec

\* Every signature is split into its integers, for every size of a word, and none
\* whose length has changed: splitDERSignature of EthereumUtils.sol takes the
\* signatures of either curve and any padding.
THEOREM SignaturesSplit == Spec => []SignatureSplit
<1>1. SignatureInput => SignatureSplit
  <2> SUFFICES ASSUME SignatureInput, Given("signature")
               PROVE  /\ splitDERSignature(input.der) = [r |-> input.r, s |-> input.s]
                      /\ splitDERSignature(Append(input.der, 0)) = Reverted
                      /\ \A n \in 0..(Len(input.der) - 1) :
                           splitDERSignature(SubSeq(input.der, 1, n)) = Reverted
    BY DEF SignatureSplit
  <2>1. PICK r, s : /\ IsComponent(r) /\ IsComponent(s)
                    /\ input = [alg |-> "signature", r |-> r, s |-> s, der |-> DerSignature(r, s)]
    BY DEF SignatureInput
  <2>2. input.r = r /\ input.s = s /\ input.der = DerSignature(r, s)
    BY <2>1
  <2>3. splitDERSignature(input.der) = [r |-> r, s |-> s]
    BY <2>1, <2>2, SplitReads
  <2>4. /\ DerInteger(r) \in Seq(Nat) /\ DerInteger(s) \in Seq(Nat)
        /\ Len(DerInteger(r)) \in Nat /\ Len(DerInteger(s)) \in Nat
    BY <2>1, IntegerShape
  <2>5. /\ input.der \in Seq(Nat)
        /\ Len(input.der) = Len(DerInteger(r)) + Len(DerInteger(s)) + 6
        /\ input.der[2] = Len(DerInteger(r)) + Len(DerInteger(s)) + 4
    BY <2>2, <2>4, DerShape
  <2>6. Len(input.der) >= 2 /\ Len(input.der) = input.der[2] + 2
    BY <2>4, <2>5
  <2>. QED BY <2>2, <2>3, <2>5, <2>6, OnlyWholeSignatures
<1>. QED BY <1>1, SignaturesMade, PTL

-----------------------------------------------------------------------------
(***************************************************************************)
(* Dates.                                                                  *)
(***************************************************************************)

\* The numbers that two and four digits stand for.  The recursion of parseDecimal
\* has a solution, which is what makes its equations hold.
LEMMA DecimalOfTwo ==
  ASSUME NEW digits, Len(digits) = 2, digits[1] \in Nat, digits[2] \in Nat
  PROVE  parseDecimal(digits) = 10 * digits[1] + digits[2]
<1> DEFINE Number(number) ==
             number = [i \in 0..2 |-> IF i = 0 THEN 0 ELSE 10 * number[i - 1] + digits[i]]
           found == CHOOSE number : Number(number)
           witness == [i \in 0..2 |->
                         IF i = 0 THEN 0 ELSE IF i = 1 THEN digits[1] ELSE 10 * digits[1] + digits[2]]
<1>1. Number(witness)
  OBVIOUS
<1>2. Number(found)
  <2> HIDE DEF Number, witness
  <2>. QED BY <1>1
<1>3. parseDecimal(digits) = found[2]
  BY DEF parseDecimal
<1>4. found[0] = 0 /\ found[1] = 10 * found[0] + digits[1] /\ found[2] = 10 * found[1] + digits[2]
  <2> HIDE DEF found
  <2>. QED BY <1>2
<1> HIDE DEF found
<1>. QED BY <1>3, <1>4

LEMMA DecimalOfFour ==
  ASSUME NEW digits, Len(digits) = 4,
         digits[1] \in Nat, digits[2] \in Nat, digits[3] \in Nat, digits[4] \in Nat
  PROVE  parseDecimal(digits) = 1000 * digits[1] + 100 * digits[2] + 10 * digits[3] + digits[4]
<1> DEFINE Number(number) ==
             number = [i \in 0..4 |-> IF i = 0 THEN 0 ELSE 10 * number[i - 1] + digits[i]]
           found == CHOOSE number : Number(number)
           two == 10 * digits[1] + digits[2]
           three == 10 * two + digits[3]
           witness == [i \in 0..4 |-> IF i = 0 THEN 0 ELSE IF i = 1 THEN digits[1]
                                      ELSE IF i = 2 THEN two ELSE IF i = 3 THEN three
                                      ELSE 10 * three + digits[4]]
<1>1. Number(witness)
  OBVIOUS
<1>2. Number(found)
  <2> HIDE DEF Number, witness
  <2>. QED BY <1>1
<1>3. parseDecimal(digits) = found[4]
  BY DEF parseDecimal
<1>4. /\ found[0] = 0 /\ found[1] = 10 * found[0] + digits[1] /\ found[2] = 10 * found[1] + digits[2]
      /\ found[3] = 10 * found[2] + digits[3] /\ found[4] = 10 * found[3] + digits[4]
  <2> HIDE DEF found
  <2>. QED BY <1>2
<1> HIDE DEF found
<1>. QED BY <1>3, <1>4

\* The lengths of the months are the calendar's.
LEMMA MonthsOfCalendar ==
  ASSUME NEW year \in Nat, NEW month \in 1..12
  PROVE  /\ monthDayCounts(year)[month] = MonthLength(year, month)
         /\ MonthLength(year, month) \in 28..31
<1>1. isLeapYear(year) <=> year % (IF year % 100 = 0 THEN 400 ELSE 4) = 0
  BY DEF isLeapYear
<1>2. month \in {1, 2, 3, 4, 5, 6, 7, 8, 9, 10, 11, 12}
  OBVIOUS
<1>. QED BY <1>1, <1>2 DEF monthDayCounts, MonthLength

\* The days before the months add up, to a year.
LEMMA DaysAddUp ==
  ASSUME NEW year \in Nat
  PROVE  /\ daysBefore(year)[1] = 0
         /\ \A month \in 1..11 :
              /\ daysBefore(year)[month] \in Nat
              /\ daysBefore(year)[month + 1] = daysBefore(year)[month] + MonthLength(year, month)
         /\ daysBefore(year)[12] + 31 = IF isLeapYear(year) THEN 366 ELSE 365
<1> DEFINE count == monthDayCounts(year)
           Days(days) == days = [month \in 1..12 |->
                                   IF month = 1 THEN 0 ELSE days[month - 1] + count[month - 1]]
           found == CHOOSE days : Days(days)
           leap == IF isLeapYear(year) THEN 1 ELSE 0
           witness == [month \in 1..12 |->
             CASE month = 1 -> 0 [] month = 2 -> 31 [] month = 3 -> 59 + leap
               [] month = 4 -> 90 + leap [] month = 5 -> 120 + leap [] month = 6 -> 151 + leap
               [] month = 7 -> 181 + leap [] month = 8 -> 212 + leap [] month = 9 -> 243 + leap
               [] month = 10 -> 273 + leap [] month = 11 -> 304 + leap [] OTHER -> 334 + leap]
<1>1. /\ count[1] = 31 /\ count[2] = 28 + leap /\ count[3] = 31 /\ count[4] = 30
      /\ count[5] = 31 /\ count[6] = 30 /\ count[7] = 31 /\ count[8] = 31
      /\ count[9] = 30 /\ count[10] = 31 /\ count[11] = 30 /\ count[12] = 31
  BY DEF monthDayCounts
<1> HIDE DEF count
<1>2. leap \in Nat
  OBVIOUS
<1> HIDE DEF leap
<1>3. Days(witness)
  <2>1. ASSUME NEW month \in 1..12
        PROVE  witness[month] = IF month = 1 THEN 0 ELSE witness[month - 1] + count[month - 1]
    <3>1. month \in {1, 2, 3, 4, 5, 6, 7, 8, 9, 10, 11, 12}
      OBVIOUS
    <3>. QED BY <1>1, <1>2, <3>1
  <2>. QED BY <2>1
<1>4. Days(found)
  <2> HIDE DEF Days, witness
  <2>. QED BY <1>3
<1>5. daysBefore(year) = found
  BY DEF daysBefore, count
<1> HIDE DEF found
<1>6. found[1] = 0 /\ \A month \in 1..11 : found[month + 1] = found[month] + count[month]
  <2>1. found[1] = 0
    BY <1>4
  <2>2. ASSUME NEW month \in 1..11 PROVE found[month + 1] = found[month] + count[month]
    <3>1. month + 1 \in 1..12 /\ month + 1 # 1 /\ (month + 1) - 1 = month
      OBVIOUS
    <3>2. found[month + 1] = found[(month + 1) - 1] + count[(month + 1) - 1]
      BY <1>4, <3>1
    <3>. QED BY <3>1, <3>2
  <2>. QED BY <2>1, <2>2
<1>7. /\ found[2] = 31 /\ found[3] = 59 + leap /\ found[4] = 90 + leap /\ found[5] = 120 + leap
      /\ found[6] = 151 + leap /\ found[7] = 181 + leap
  <2>1. /\ found[1 + 1] = found[1] + count[1] /\ found[2 + 1] = found[2] + count[2]
        /\ found[3 + 1] = found[3] + count[3] /\ found[4 + 1] = found[4] + count[4]
        /\ found[5 + 1] = found[5] + count[5] /\ found[6 + 1] = found[6] + count[6]
    BY <1>6
  <2>. QED BY <1>1, <1>2, <1>6, <2>1
<1>8. /\ found[8] = 212 + leap /\ found[9] = 243 + leap /\ found[10] = 273 + leap
      /\ found[11] = 304 + leap /\ found[12] = 334 + leap
  <2>1. /\ found[7 + 1] = found[7] + count[7] /\ found[8 + 1] = found[8] + count[8]
        /\ found[9 + 1] = found[9] + count[9] /\ found[10 + 1] = found[10] + count[10]
        /\ found[11 + 1] = found[11] + count[11]
    BY <1>6
  <2>. QED BY <1>1, <1>2, <1>7, <2>1
<1>9. \A month \in 1..11 : found[month] \in Nat
  <2>1. \A month \in 1..11 : month \in {1, 2, 3, 4, 5, 6, 7, 8, 9, 10, 11}
    OBVIOUS
  <2>. QED BY <1>2, <1>6, <1>7, <1>8, <2>1
<1>10. \A month \in 1..11 : count[month] = MonthLength(year, month)
  BY MonthsOfCalendar DEF count
<1>. QED BY <1>5, <1>6, <1>8, <1>9, <1>10 DEF leap

\* The leap years before a year, counted one by one.
leapYears(n) == {y \in 1970..(n - 1) : isLeapYear(y)}

LEMMA LeapYearsCounted ==
  ASSUME NEW year \in Nat, year >= 1970
  PROVE  /\ Cardinality(leapYears(1970)) = 0
         /\ Cardinality(leapYears(year)) \in Nat
         /\ Cardinality(leapYears(year + 1)) =
              Cardinality(leapYears(year)) + IF isLeapYear(year) THEN 1 ELSE 0
<1>1. leapYears(1970) = {}
  BY DEF leapYears
<1>2. IsFiniteSet(leapYears(year))
  <2>1. IsFiniteSet(1970..(year - 1)) /\ leapYears(year) \subseteq 1970..(year - 1)
    BY FS_Interval DEF leapYears
  <2>. QED BY <2>1, FS_Subset
<1>3. year \notin leapYears(year)
  BY DEF leapYears
<1>4. leapYears(year + 1) = IF isLeapYear(year) THEN leapYears(year) \cup {year} ELSE leapYears(year)
  <2>1. \A y : y \in leapYears(year + 1) <=> y \in 1970..year /\ isLeapYear(y)
    BY DEF leapYears
  <2>2. \A y : y \in leapYears(year) <=> y \in 1970..(year - 1) /\ isLeapYear(y)
    BY DEF leapYears
  <2>3. \A y : y \in 1970..year <=> y \in 1970..(year - 1) \/ y = year
    OBVIOUS
  <2>4. CASE isLeapYear(year)
    <3>1. \A y : y \in leapYears(year + 1) <=> y \in leapYears(year) \/ y = year
      BY <2>1, <2>2, <2>3, <2>4
    <3>. QED BY <2>4, <3>1
  <2>5. CASE ~ isLeapYear(year)
    <3>1. \A y : y \in leapYears(year + 1) <=> y \in leapYears(year)
      BY <2>1, <2>2, <2>3, <2>5
    <3>. QED BY <2>5, <3>1
  <2>. QED BY <2>4, <2>5
<1>5. Cardinality(leapYears(year)) \in Nat
  BY <1>2, FS_CardinalityType
<1>6. Cardinality(leapYears(year) \cup {year}) = Cardinality(leapYears(year)) + 1
  BY <1>2, <1>3, FS_AddElement
<1>7. Cardinality(leapYears(1970)) = 0
  BY <1>1, FS_EmptySet
<1>. QED BY <1>4, <1>5, <1>6, <1>7

\* What toTimestamp makes of a date.
DaysUntil(year, month, day) == toTimestamp(year, month, day, 0, 0, 0).days

\* From a day to the next, in a month and from one to the next month or year.
LEMMA DaysFollow ==
  ASSUME NEW year \in Nat, year >= 1970
  PROVE  /\ \A month \in 1..12, day \in Nat \ {0} :
              DaysUntil(year, month, day + 1) = DaysUntil(year, month, day) + 1
         /\ \A month \in 1..11 :
              DaysUntil(year, month + 1, 1) =
                DaysUntil(year, month, MonthLength(year, month)) + 1
         /\ DaysUntil(year + 1, 1, 1) = DaysUntil(year, 12, MonthLength(year, 12)) + 1
         /\ DaysUntil(1970, 1, 1) = 0
<1> DEFINE leaps(n) == Cardinality(leapYears(n))
<1>1. \A y, month, day : DaysUntil(y, month, day) =
                           365 * (y - 1970) + leaps(y) + daysBefore(y)[month] + (day - 1)
  BY DEF DaysUntil, toTimestamp, leapYears
<1>2. /\ leaps(1970) = 0 /\ leaps(year) \in Nat
      /\ leaps(year + 1) = leaps(year) + IF isLeapYear(year) THEN 1 ELSE 0
  BY LeapYearsCounted
<1> HIDE DEF leaps
<1>3. /\ daysBefore(year)[1] = 0
      /\ \A month \in 1..11 :
           /\ daysBefore(year)[month] \in Nat
           /\ daysBefore(year)[month + 1] = daysBefore(year)[month] + MonthLength(year, month)
      /\ daysBefore(year)[12] + 31 = IF isLeapYear(year) THEN 366 ELSE 365
  BY DaysAddUp
<1>4. daysBefore(year + 1)[1] = 0 /\ daysBefore(1970)[1] = 0
  BY DaysAddUp
<1>5. \A month \in 1..12 : MonthLength(year, month) \in Nat
  BY MonthsOfCalendar
<1>6. daysBefore(year)[12] \in Nat
  <2>1. daysBefore(year)[11 + 1] = daysBefore(year)[11] + MonthLength(year, 11)
    BY <1>3
  <2>. QED BY <1>3, <1>5, <2>1
<1>7. ASSUME NEW month \in 1..12, NEW day \in Nat \ {0}
      PROVE  DaysUntil(year, month, day + 1) = DaysUntil(year, month, day) + 1
  <2>1. daysBefore(year)[month] \in Nat
    BY <1>3, <1>6
  <2>. QED BY <1>1, <1>2, <2>1
<1>8. ASSUME NEW month \in 1..11
      PROVE  DaysUntil(year, month + 1, 1) = DaysUntil(year, month, MonthLength(year, month)) + 1
  <2>1. daysBefore(year)[month] \in Nat /\ MonthLength(year, month) \in Nat
    BY <1>3, <1>5
  <2>. QED BY <1>1, <1>2, <1>3, <2>1
<1>9. DaysUntil(year + 1, 1, 1) = DaysUntil(year, 12, MonthLength(year, 12)) + 1
  <2>1. MonthLength(year, 12) = 31
    BY DEF MonthLength
  <2>2. DaysUntil(year + 1, 1, 1) = 365 * (year + 1 - 1970) + leaps(year + 1)
    BY <1>1, <1>2, <1>4
  <2>3. DaysUntil(year, 12, 31) = 365 * (year - 1970) + leaps(year) + daysBefore(year)[12] + 30
    BY <1>1
  <2>. QED BY <1>2, <1>3, <1>6, <2>1, <2>2, <2>3
<1>10. DaysUntil(1970, 1, 1) = 0
  BY <1>1, <1>2, <1>4
<1>. QED BY <1>7, <1>8, <1>9, <1>10

\* The characters of a part of a text, whatever they are.
LEMMA CharactersOf ==
  ASSUME NEW text, NEW from \in Nat, NEW to \in Nat, from <= to
  PROVE  /\ Len(substr(text, from, to)) = to - from
         /\ \A i \in 1..(to - from) : substr(text, from, to)[i] = text[from + i]
<1> DEFINE S == {text[i] : i \in (from + 1)..to}
           part == SubSeq(text, from + 1, to)
<1>1. substr(text, from, to) = part
  <2>1. from + (to - from) = to
    OBVIOUS
  <2>. QED BY <2>1 DEF substr, Slice
<1>2. from + 1 \in Int /\ to \in Int /\ to - (from + 1) + 1 = to - from
  OBVIOUS
<1>3. \A i \in (from + 1)..to : text[i] \in S
  OBVIOUS
<1>4. /\ Len(part) = IF from + 1 <= to THEN to - (from + 1) + 1 ELSE 0
      /\ \A i \in 1..(to - (from + 1) + 1) : part[i] = text[(from + 1) + i - 1]
  <2> HIDE DEF S
  <2>. QED BY <1>2, <1>3, SubSeqProperties
<1> HIDE DEF part
<1>5. Len(part) = to - from
  <2>1. from + 1 <= to \/ to - from = 0
    OBVIOUS
  <2>. QED BY <1>2, <1>4, <2>1
<1>6. ASSUME NEW i \in 1..(to - from)
      PROVE  part[i] = text[from + i]
  <2>1. (from + 1) + i - 1 = from + i
    OBVIOUS
  <2>2. part[i] = text[(from + 1) + i - 1]
    BY <1>2, <1>4
  <2>. QED BY <2>1, <2>2
<1>. QED BY <1>1, <1>5, <1>6

\* A number of two digits somewhere in a text.
LEMMA TwoDigits ==
  ASSUME NEW text, NEW from \in Nat, text[from + 1] \in Nat, text[from + 2] \in Nat
  PROVE  parseDecimal(substr(text, from, from + 2)) = 10 * text[from + 1] + text[from + 2]
<1> DEFINE digits == substr(text, from, from + 2)
<1>1. /\ Len(digits) = (from + 2) - from
      /\ \A i \in 1..((from + 2) - from) : digits[i] = text[from + i]
  <2>1. from + 2 \in Nat /\ from <= from + 2
    OBVIOUS
  <2>. QED BY <2>1, CharactersOf, Zenon
<1> HIDE DEF digits
<1>2. Len(digits) = 2 /\ digits[1] = text[from + 1] /\ digits[2] = text[from + 2]
  BY <1>1
<1>3. parseDecimal(digits) = 10 * digits[1] + digits[2]
  BY <1>2, DecimalOfTwo
<1>. QED BY <1>2, <1>3 DEF digits

LEMMA FourDigits ==
  ASSUME NEW text, NEW from \in Nat, text[from + 1] \in Nat, text[from + 2] \in Nat,
         text[from + 3] \in Nat, text[from + 4] \in Nat
  PROVE  parseDecimal(substr(text, from, from + 4)) =
           1000 * text[from + 1] + 100 * text[from + 2] + 10 * text[from + 3] + text[from + 4]
<1> DEFINE digits == substr(text, from, from + 4)
<1>1. /\ Len(digits) = (from + 4) - from
      /\ \A i \in 1..((from + 4) - from) : digits[i] = text[from + i]
  <2>1. from + 4 \in Nat /\ from <= from + 4
    OBVIOUS
  <2>. QED BY <2>1, CharactersOf, Zenon
<1> HIDE DEF digits
<1>2. /\ Len(digits) = 4 /\ digits[1] = text[from + 1] /\ digits[2] = text[from + 2]
      /\ digits[3] = text[from + 3] /\ digits[4] = text[from + 4]
  BY <1>1
<1>3. parseDecimal(digits) = 1000 * digits[1] + 100 * digits[2] + 10 * digits[3] + digits[4]
  BY <1>2, DecimalOfFour
<1>. QED BY <1>2, <1>3 DEF digits

\* A date as it is written.
IsoText(year, month, day) ==
  LET digit(n, unit) == (n \div unit) % 10
  IN  <<digit(year, 1000), digit(year, 100), digit(year, 10), digit(year, 1), "-",
        digit(month, 10), digit(month, 1), "-", digit(day, 10), digit(day, 1),
        "T", 2, 3, ":", 5, 8, ":", 0, 7, "Z">>

\* And as it is read.
LEMMA IsoTextRead ==
  ASSUME NEW year \in Nat, NEW month \in Nat, NEW day \in Nat,
         year <= 9999, month <= 99, day <= 99
  PROVE  timestampFromIso(IsoText(year, month, day)) =
           toTimestamp(year, month, day, 23, 58, 7)
<1> DEFINE text == IsoText(year, month, day)
           part(from, to) == parseDecimal(substr(text, from, to))
<1>1. /\ text[1] = (year \div 1000) % 10 /\ text[2] = (year \div 100) % 10
      /\ text[3] = (year \div 10) % 10 /\ text[4] = (year \div 1) % 10
      /\ text[6] = (month \div 10) % 10 /\ text[7] = (month \div 1) % 10
      /\ text[9] = (day \div 10) % 10 /\ text[10] = (day \div 1) % 10
      /\ text[12] = 2 /\ text[13] = 3 /\ text[15] = 5 /\ text[16] = 8
      /\ text[18] = 0 /\ text[19] = 7
  BY DEF IsoText
<1> HIDE DEF text
<1>2. part(0, 4) = year
  <2>1. text[0 + 1] \in Nat /\ text[0 + 2] \in Nat /\ text[0 + 3] \in Nat /\ text[0 + 4] \in Nat
    BY <1>1
  <2>2. parseDecimal(substr(text, 0, 0 + 4)) =
          1000 * text[0 + 1] + 100 * text[0 + 2] + 10 * text[0 + 3] + text[0 + 4]
    BY <2>1, FourDigits
  <2>3. part(0, 4) = 1000 * text[1] + 100 * text[2] + 10 * text[3] + text[4]
    BY <2>2
  <2>4. year = 1000 * ((year \div 1000) % 10) + 100 * ((year \div 100) % 10)
                 + 10 * ((year \div 10) % 10) + ((year \div 1) % 10)
    OBVIOUS
  <2> HIDE DEF part
  <2>. QED BY <1>1, <2>3, <2>4
<1>3. part(5, 7) = month
  <2>1. text[5 + 1] \in Nat /\ text[5 + 2] \in Nat
    BY <1>1
  <2>2. parseDecimal(substr(text, 5, 5 + 2)) = 10 * text[5 + 1] + text[5 + 2]
    BY <2>1, TwoDigits
  <2>3. part(5, 7) = 10 * text[6] + text[7]
    BY <2>2
  <2>4. month = 10 * ((month \div 10) % 10) + ((month \div 1) % 10)
    OBVIOUS
  <2> HIDE DEF part
  <2>. QED BY <1>1, <2>3, <2>4
<1>4. part(8, 10) = day
  <2>1. text[8 + 1] \in Nat /\ text[8 + 2] \in Nat
    BY <1>1
  <2>2. parseDecimal(substr(text, 8, 8 + 2)) = 10 * text[8 + 1] + text[8 + 2]
    BY <2>1, TwoDigits
  <2>3. part(8, 10) = 10 * text[9] + text[10]
    BY <2>2
  <2>4. day = 10 * ((day \div 10) % 10) + ((day \div 1) % 10)
    OBVIOUS
  <2> HIDE DEF part
  <2>. QED BY <1>1, <2>3, <2>4
<1>5. part(11, 13) = 23
  <2>1. text[11 + 1] \in Nat /\ text[11 + 2] \in Nat
    BY <1>1
  <2>2. parseDecimal(substr(text, 11, 11 + 2)) = 10 * text[11 + 1] + text[11 + 2]
    BY <2>1, TwoDigits
  <2>. QED BY <1>1, <2>2
<1>6. part(14, 16) = 58
  <2>1. text[14 + 1] \in Nat /\ text[14 + 2] \in Nat
    BY <1>1
  <2>2. parseDecimal(substr(text, 14, 14 + 2)) = 10 * text[14 + 1] + text[14 + 2]
    BY <2>1, TwoDigits
  <2>. QED BY <1>1, <2>2
<1>7. part(17, 19) = 7
  <2>1. text[17 + 1] \in Nat /\ text[17 + 2] \in Nat
    BY <1>1
  <2>2. parseDecimal(substr(text, 17, 17 + 2)) = 10 * text[17 + 1] + text[17 + 2]
    BY <2>1, TwoDigits
  <2>. QED BY <1>1, <2>2
<1>8. timestampFromIso(text) = toTimestamp(part(0, 4), part(5, 7), part(8, 10),
                                           part(11, 13), part(14, 16), part(17, 19))
  BY DEF timestampFromIso
<1> HIDE DEF part
<1>9. timestampFromIso(text) = toTimestamp(year, month, day, 23, 58, 7)
  BY <1>2, <1>3, <1>4, <1>5, <1>6, <1>7, <1>8
<1>. QED BY <1>9 DEF text

\* The days come in order, none left out: every date is one of the calendar, and its
\* count the days that toTimestamp makes of it.
IsDate(year, month, day) ==
  /\ year \in Nat /\ 1970 <= year /\ year <= 9999
  /\ month \in 1..12 /\ day \in 1..31 /\ day <= MonthLength(year, month)

DateInput ==
  Given("date") =>
    \E year, month, day :
      /\ IsDate(year, month, day)
      /\ input = Date(year, month, day, DaysUntil(year, month, day))

LEMMA DatesFollow == Spec => []DateInput
<1>1. Init => DateInput
  BY DEF Init, DateInput, Given
<1>2. ASSUME DateInput, [Next]_<<input, host, enclave>>
      PROVE  DateInput'
  <2>1. CASE input' = input
    BY <1>2, <2>1 DEF DateInput, Given
  <2>2. CASE FirstDay
    <3>1. 1970 \in Nat /\ 1970 >= 1970 /\ 1970 <= 9999
      OBVIOUS
    <3>2. DaysUntil(1970, 1, 1) = 0
      BY <3>1, DaysFollow
    <3>3. IsDate(1970, 1, 1)
      BY <3>1 DEF IsDate, MonthLength
    <3>. QED BY <2>2, <3>2, <3>3 DEF FirstDay, DateInput
  <2>3. CASE NextDay
    <3>1. Given("date")
      BY <2>3 DEF NextDay, Given
    <3>2. PICK year, month, day :
            IsDate(year, month, day) /\ input = Date(year, month, day, DaysUntil(year, month, day))
      BY <1>2, <3>1 DEF DateInput
    <3> DEFINE count == DaysUntil(year, month, day)
    <3>3. input.year = year /\ input.month = month /\ input.day = day /\ input.count = count
      BY <3>2 DEF Date
    <3> HIDE DEF count
    <3>4. /\ year <= LastYear
          /\ input' = IF day < MonthLength(year, month) THEN Date(year, month, day + 1, count + 1)
                      ELSE IF month < 12 THEN Date(year, month + 1, 1, count + 1)
                      ELSE Date(year + 1, 1, 1, count + 1)
      BY <2>3, <3>3 DEF NextDay
    <3>5. /\ year \in Nat /\ year >= 1970 /\ year <= 9999 /\ month \in 1..12 /\ day \in 1..31
          /\ day <= MonthLength(year, month)
      BY <3>2 DEF IsDate
    <3>6. MonthLength(year, month) \in 28..31
      BY <3>5, MonthsOfCalendar
    <3>7. CASE day < MonthLength(year, month)
      <4>1. DaysUntil(year, month, day + 1) = count + 1
        BY <3>5, DaysFollow DEF count
      <4>2. IsDate(year, month, day + 1)
        BY <3>5, <3>6, <3>7 DEF IsDate
      <4>. QED BY <3>4, <3>7, <4>1, <4>2 DEF DateInput
    <3>8. CASE ~ (day < MonthLength(year, month))
      <4>1. day = MonthLength(year, month)
        BY <3>5, <3>6, <3>8
      <4>2. CASE month < 12
        <5>1. month \in 1..11 /\ month + 1 \in 1..12
          BY <3>5, <4>2
        <5>2. DaysUntil(year, month + 1, 1) = count + 1
          BY <3>5, <4>1, <5>1, DaysFollow DEF count
        <5>3. MonthLength(year, month + 1) \in 28..31
          BY <3>5, <5>1, MonthsOfCalendar
        <5>4. IsDate(year, month + 1, 1)
          BY <3>5, <5>1, <5>3 DEF IsDate
        <5>. QED BY <3>4, <3>8, <4>2, <5>2, <5>4 DEF DateInput
      <4>3. CASE ~ (month < 12)
        <5>1. month = 12 /\ year + 1 \in Nat /\ year + 1 <= 9999 /\ 1 \in 1..12
          BY <3>4, <3>5, <4>3, LastYearAssumption
        <5>2. DaysUntil(year + 1, 1, 1) = count + 1
          BY <3>5, <4>1, <5>1, DaysFollow DEF count
        <5>3. MonthLength(year + 1, 1) \in 28..31
          BY <5>1, MonthsOfCalendar
        <5>4. IsDate(year + 1, 1, 1)
          BY <3>5, <5>1, <5>3 DEF IsDate
        <5>. QED BY <3>4, <3>8, <4>3, <5>2, <5>4 DEF DateInput
      <4>. QED BY <4>2, <4>3
    <3>. QED BY <3>7, <3>8
  <2>4. CASE ChooseInput /\ ~ FirstDay
    <3>1. input'.alg # "date"
      BY <2>4, ChosenKinds DEF ChooseInput
    <3>. QED BY <3>1 DEF DateInput, Given
  <2>. QED BY <1>2, <2>1, <2>2, <2>3, <2>4, InputStays
<1>. QED BY <1>1, <1>2, PTL DEF Spec

\* The timestamps of SiweParser.sol and DateTime.sol count the days of the calendar,
\* to the last year that four digits can write.
THEOREM DaysCounted == Spec => []DaysMatchCalendar
<1>1. DateInput => DaysMatchCalendar
  <2> SUFFICES ASSUME DateInput, Given("date")
               PROVE  timestampFromIso(IsoText(input.year, input.month, input.day)) =
                        [days |-> input.count, seconds |-> 23 * 3600 + 58 * 60 + 7]
    BY DEF DaysMatchCalendar, IsoText
  <2>1. PICK year, month, day :
          IsDate(year, month, day) /\ input = Date(year, month, day, DaysUntil(year, month, day))
    BY DEF DateInput
  <2>2. /\ input.year = year /\ input.month = month /\ input.day = day
        /\ input.count = DaysUntil(year, month, day)
    BY <2>1 DEF Date
  <2>3. timestampFromIso(IsoText(year, month, day)) = toTimestamp(year, month, day, 23, 58, 7)
    <3>1. /\ year \in Nat /\ month \in Nat /\ day \in Nat
          /\ year <= 9999 /\ month <= 99 /\ day <= 99
      BY <2>1 DEF IsDate
    <3>. QED BY <3>1, IsoTextRead
  <2>4. toTimestamp(year, month, day, 23, 58, 7) =
          [days |-> DaysUntil(year, month, day), seconds |-> 23 * 3600 + 58 * 60 + 7]
    BY DEF DaysUntil, toTimestamp
  <2>. QED BY <2>2, <2>3, <2>4
<1>. QED BY <1>1, DatesFollow, PTL

-----------------------------------------------------------------------------
(***************************************************************************)
(* Envelopes and ciphers, for any keys, epochs and bytes.                  *)
(***************************************************************************)

\* What the runtime finds in an envelope of a client's.
LEMMA EnvelopeOpens ==
  ASSUME NEW pk, NEW epoch, NEW bytes
  PROVE  LET secret == SharedSecret(pk, RuntimeKey(epoch))
         IN  Opened(CallEnvelope(pk, epoch, SealedBytes(secret, InnerCall(bytes)))) =
               [ok |-> TRUE, secret |-> secret, data |-> bytes]
<1> DEFINE secret == SharedSecret(pk, RuntimeKey(epoch))
           sealed == SealedBytes(secret, InnerCall(bytes))
           fields == [pk |-> <<"key", pk>>, epoch |-> <<"number", epoch>>, data |-> BytesItem(sealed)]
           envelope == CallEnvelope(pk, epoch, sealed)
<1>1. envelope[2].body[2] = fields
  BY DEF CallEnvelope, MapItem
<1>2. fields.pk[2] = pk /\ fields.epoch[2] = epoch /\ fields.data[2] = sealed
  BY DEF BytesItem
<1> HIDE DEF fields
<1>3. Unseal(secret, sealed) = InnerCall(bytes)
  BY DEF Unseal, SealedBytes
<1>4. InnerCall(bytes) # Forged /\ cborDecode(InnerCall(bytes))[2].body[2] = bytes
  BY DEF InnerCall, Forged, cborDecode, CborBytes, MapItem, BytesItem
<1> HIDE DEF envelope, sealed
<1>5. Opened(envelope) = [ok |-> TRUE, secret |-> secret, data |-> bytes]
  <2> HIDE DEF secret
  <2>1. secret = SharedSecret(pk, RuntimeKey(epoch))
    BY DEF secret
  <2>. QED BY <1>1, <1>2, <1>3, <1>4, <2>1 DEF Opened
<1>. QED BY <1>5 DEF envelope, sealed

\* A signed pack around one.
LEMMA PackOpens ==
  ASSUME NEW fields, NEW leash, NEW signature
  PROVE  LET item == MapItem([data |-> MapItem(fields), leash |-> MapItem(leash),
                              signature |-> signature])
         IN  RuntimeDecodes(CborBytes(item)) = Opened(MapItem(fields))
<1> DEFINE pack == [data |-> MapItem(fields), leash |-> MapItem(leash), signature |-> signature]
           item == MapItem(pack)
<1>1. ~ IsEnvelope(item)
  BY DEF IsEnvelope, HasField, MapItem
<1>2. IsPack(item)
  BY DEF IsPack, HasMap, HasField, MapItem
<1>3. item[2].data = MapItem(fields)
  BY DEF MapItem
<1>4. cborDecode(CborBytes(item)) = item
  BY DEF cborDecode, CborBytes
<1> HIDE DEF item
<1>5. RuntimeDecodes(CborBytes(item)) = Opened(MapItem(fields))
  BY <1>1, <1>2, <1>3, <1>4 DEF RuntimeDecodes, Decoded
<1>. QED BY <1>5 DEF item

\* The answer to an encrypted call that returns.
AnswerItem(secret, bytes) == MapItem([ok |-> Aead(secret, MapItem([ok |-> BytesItem(bytes)]))])

LEMMA RuntimeReturns ==
  ASSUME NEW secret, NEW bytes, secret # {}
  PROVE  AnswerTo([ok |-> TRUE, secret |-> secret, data |-> bytes], "ok") =
           CborBytes(AnswerItem(secret, Returned(TRUE, bytes)))
BY DEF AnswerTo, AnswerItem

\* The items that the ciphers read.
LEMMA Items ==
  ASSUME NEW fields
  PROVE  /\ cborDecode(CborBytes(MapItem(fields))) = MapItem(fields)
         /\ MapItem(fields) # Undecodable /\ MapItem(fields) # NullItem
         /\ MapItem(fields)[1] = "map" /\ MapItem(fields)[2] = fields
         /\ \A f : HasField(MapItem(fields), f) <=> f \in DOMAIN fields
         /\ \A f : HasMap(MapItem(fields), f) <=> f \in DOMAIN fields /\ fields[f][1] = "map"
         /\ \A f : HasBytes(MapItem(fields), f) <=> f \in DOMAIN fields /\ fields[f][1] = "bytes"
         /\ CborBytes(MapItem(fields)) # Forged
<1>1. MapItem(fields)[1] = "map" /\ MapItem(fields)[2] = fields
  BY DEF MapItem
<1>2. cborDecode(CborBytes(MapItem(fields))) = MapItem(fields)
  BY DEF CborBytes, cborDecode
<1>3. MapItem(fields) # Undecodable /\ MapItem(fields) # NullItem /\ CborBytes(MapItem(fields)) # Forged
  BY DEF MapItem, Undecodable, NullItem, CborBytes, Forged
<1>. QED BY <1>1, <1>2, <1>3 DEF HasField, HasMap, HasBytes

\* A ciphertext in an item opens to what was sealed, and under another key to nothing.
LEMMA AeadOpens ==
  ASSUME NEW secret, NEW item
  PROVE  /\ Aead(secret, item)[1] = "map"
         /\ Unseal(secret, Aead(secret, item)[2].data[2]) = CborBytes(item)
         /\ \A other : other # secret => Unseal(other, Aead(secret, item)[2].data[2]) = Forged
<1>1. Aead(secret, item)[1] = "map"
      /\ Aead(secret, item)[2].data[2] = SealedBytes(secret, CborBytes(item))
  BY DEF Aead, MapItem, BytesItem
<1>2. /\ SealedBytes(secret, CborBytes(item))[1] = "sealed"
      /\ SealedBytes(secret, CborBytes(item))[2] = secret
      /\ SealedBytes(secret, CborBytes(item))[3] = CborBytes(item)
  BY DEF SealedBytes
<1>. QED BY <1>1, <1>2 DEF Unseal

\* Of the fields that a client looks for, it finds the one that is there.
LEMMA FirstOfOne ==
  ASSUME NEW fields, NEW f, DOMAIN fields = {f},
         NEW a, NEW b, NEW c, a # b, a # c, b # c, f \in {a, b, c}
  PROVE  FirstOf(MapItem(fields), <<a, b, c>>) = f
<1> DEFINE names == <<a, b, c>>
           has == {i \in DOMAIN names : HasField(MapItem(fields), names[i])}
           least == CHOOSE i \in has : \A j \in has : i <= j
<1>1. /\ DOMAIN names = {1, 2, 3} /\ names[1] = a /\ names[2] = b /\ names[3] = c
  OBVIOUS
<1>2. \A x : HasField(MapItem(fields), x) <=> x = f
  BY Items
<1> HIDE DEF names
<1>3. PICK k \in {1, 2, 3} : names[k] = f /\ has = {k}
  <2>1. PICK k \in {1, 2, 3} : names[k] = f
    BY <1>1
  <2>2. \A i \in {1, 2, 3} : names[i] = f => i = k
    BY <1>1, <2>1
  <2>3. has = {k}
    BY <1>1, <1>2, <2>1, <2>2
  <2>. QED BY <2>1, <2>3
<1>4. has # {} /\ least = k
  BY <1>3
<1>5. FirstOf(MapItem(fields), names) = IF has = {} THEN "none" ELSE names[least]
  BY DEF FirstOf
<1> HIDE DEF has, least
<1>. QED BY <1>3, <1>4, <1>5 DEF names

\* The results of a call, of which each has one field: an answer, one that says that
\* the call failed, and one that says that it was refused.
InnerFailure(secret, why) == MapItem([ok |-> Aead(secret, MapItem([fail |-> why]))])
OuterFailure(why) == MapItem([fail |-> why])

\* Go takes the one field of a result for a failure, an aead, or bytes in the clear;
LEMMA GoLooks ==
  ASSUME NEW cipher, NEW fields, NEW f \in ResultFields, DOMAIN fields = {f}
  PROVE  LET got == DecryptCallResult(cipher, CborBytes(MapItem(fields)))
         IN  /\ f = "fail" => got = Err
             /\ f # "fail" /\ fields[f][1] = "map" => got = DecryptInner(cipher, fields[f])
             /\ f # "fail" /\ fields[f][1] = "bytes" => got = CborBytes(fields[f])
<1>1. FirstOf(MapItem(fields), <<"fail", "ok", "unknown">>) = f
  BY FirstOfOne DEF ResultFields
<1>2. HasMap(MapItem(fields), f) <=> fields[f][1] = "map"
  BY Items
<1>3. f # "none"
  BY DEF ResultFields
<1>4. MapItem(fields)[2] = fields /\ cborDecode(CborBytes(MapItem(fields))) = MapItem(fields)
      /\ MapItem(fields) # Undecodable
  BY Items
<1>. QED BY <1>1, <1>2, <1>3, <1>4 DEF DecryptCallResult

\* and reads the bytes in its own seal, if this has none of a failure.
LEMMA GoOpens ==
  ASSUME NEW cipher, NEW secret, NEW inner, NEW g \in ResultFields, DOMAIN inner = {g}
  PROVE  DecryptInner(cipher, Aead(secret, MapItem(inner))) =
           IF cipher.cipher # secret \/ g = "fail" THEN Err ELSE inner[g][2]
<1>1. CASE cipher.cipher # secret
  BY <1>1, AeadOpens DEF DecryptInner, Decrypt
<1>2. CASE cipher.cipher = secret
  <2>1. FirstOf(MapItem(inner), <<"unknown", "ok", "fail">>) = g /\ g # "none"
    BY FirstOfOne, SMTT(30) DEF ResultFields
  <2>2. Decrypt(cipher, Aead(secret, MapItem(inner))[2].data[2]) = CborBytes(MapItem(inner))
    BY <1>2, AeadOpens DEF Decrypt
  <2>3. /\ CborBytes(MapItem(inner)) # Forged
        /\ cborDecode(CborBytes(MapItem(inner))) = MapItem(inner)
        /\ MapItem(inner)[2] = inner
    BY Items
  <2>. QED BY <1>2, <2>1, <2>2, <2>3 DEF DecryptInner
<1>. QED BY <1>1, <1>2

\* Python knows an aead under ok alone, and in its own seal bytes under ok.
LEMMA PythonLooks ==
  ASSUME NEW cipher, NEW fields, NEW f \in ResultFields, DOMAIN fields = {f}
  PROVE  LET got == decrypt_response(cipher, CborBytes(MapItem(fields)))
         IN  IF f = "ok" /\ fields[f][1] = "map" THEN got = decrypt_inner(cipher, fields[f])
             ELSE Throws(got)
<1>1. /\ cborDecode(CborBytes(MapItem(fields))) = MapItem(fields)
      /\ MapItem(fields) # Undecodable /\ MapItem(fields)[1] = "map" /\ MapItem(fields)[2] = fields
      /\ HasMap(MapItem(fields), "ok") <=> f = "ok" /\ fields[f][1] = "map"
      /\ ~ HasField(MapItem(fields), "failure")
  BY Items DEF ResultFields
<1>2. Throws(Throw("EnvelopeError"))
  BY DEF Throws, Throw
<1>3. fields["ok"] = fields.ok
  OBVIOUS
<1>. QED BY <1>1, <1>2, <1>3 DEF decrypt_response

LEMMA PythonOpens ==
  ASSUME NEW cipher, NEW secret, NEW inner, NEW g \in ResultFields, DOMAIN inner = {g}, NEW bytes,
         g = "ok" => inner[g] = BytesItem(bytes)
  PROVE  LET got == decrypt_inner(cipher, Aead(secret, MapItem(inner)))
         IN  IF cipher.cipher = secret /\ g = "ok" THEN got = U8(bytes) ELSE Throws(got)
<1>1. CASE cipher.cipher # secret
  <2>1. Unseal(cipher.cipher, Aead(secret, MapItem(inner))[2].data[2]) = Forged
    BY <1>1, AeadOpens
  <2>2. decrypt_inner(cipher, Aead(secret, MapItem(inner))) = Throw("DecryptError")
    BY <2>1 DEF decrypt_inner
  <2>. QED BY <1>1, <2>2 DEF Throws, Throw
<1>2. CASE cipher.cipher = secret
  <2>1. Unseal(cipher.cipher, Aead(secret, MapItem(inner))[2].data[2]) = CborBytes(MapItem(inner))
    BY <1>2, AeadOpens
  <2>2. decrypt_inner(cipher, Aead(secret, MapItem(inner))) = decode_inner(MapItem(inner))
    BY <2>1, Items DEF decrypt_inner
  <2>3. CASE g = "ok"
    <3>1. inner["ok"][1] = "bytes" /\ inner["ok"][2] = bytes
      BY <2>3 DEF BytesItem
    <3>2. HasBytes(MapItem(inner), "ok") /\ MapItem(inner)[2].ok[2] = bytes
      BY <2>3, <3>1, Items
    <3>. QED BY <1>2, <2>2, <2>3, <3>2 DEF decode_inner
  <2>4. CASE g # "ok"
    <3>1. ~ HasBytes(MapItem(inner), "ok")
      BY <2>4, Items
    <3>. QED BY <2>2, <2>4, <3>1 DEF decode_inner, Throws, Throw
  <2>. QED BY <2>3, <2>4
<1>. QED BY <1>1, <1>2

\* JavaScript looks for an aead under ok and under unknown,
InForm(form, bytes) == <<form, bytes>>

LEMMA BothForms ==
  ASSUME NEW form \in {"hex", "array"}, NEW x
  PROVE  /\ isBytesLike(InForm(form, x)) /\ InForm(form, x)[1] = form /\ InForm(form, x)[2] = x
         /\ InForm(form, x) = IF form = "hex" THEN Hex(x) ELSE U8(x)
BY DEF InForm, isBytesLike, Hex, U8

LEMMA JavaScriptLooks ==
  ASSUME NEW cipher, NEW fields, NEW f \in ResultFields, DOMAIN fields = {f},
         NEW form \in {"hex", "array"}
  PROVE  LET given == InForm(form, CborBytes(MapItem(fields)))
             got == decryptResult(cipher, given)
         IN  /\ (f = "fail" \/ fields[f][1] = "bytes") => Throws(got)
             /\ f # "fail" /\ fields[f][1] = "map" => got = decryptInner(cipher, given, fields[f])
<1> DEFINE given == InForm(form, CborBytes(MapItem(fields)))
<1>1. /\ cborDecode(CborBytes(MapItem(fields))) = MapItem(fields)
      /\ MapItem(fields) # Undecodable /\ MapItem(fields)[2] = fields
      /\ \A x : HasField(MapItem(fields), x) <=> x = f
      /\ HasBytes(MapItem(fields), "ok") <=> f = "ok" /\ fields[f][1] = "bytes"
  BY Items
<1>2. isBytesLike(given) /\ given[2] = CborBytes(MapItem(fields))
  BY BothForms
<1>3. \A why : Throws(Throw(why))
  BY DEF Throws, Throw
<1> HIDE DEF given
<1>4. fields["ok"] = fields.ok /\ fields["unknown"] = fields.unknown
  OBVIOUS
<1>5. f = "fail" => Throws(decryptResult(cipher, given))
  BY <1>1, <1>2, <1>3 DEF decryptResult
<1>6. f = "ok" /\ fields[f][1] = "bytes" => Throws(decryptResult(cipher, given))
  BY <1>1, <1>2, <1>3 DEF decryptResult
<1>7. f = "ok" /\ fields[f][1] = "map" => decryptResult(cipher, given) = decryptInner(cipher, given, fields[f])
  BY <1>1, <1>2, <1>4 DEF decryptResult
<1>8. f = "unknown" => decryptResult(cipher, given) = decryptInner(cipher, given, fields[f])
  BY <1>1, <1>2, <1>4 DEF decryptResult
<1>9. fields[f][1] = "bytes" => Throws(decryptInner(cipher, given, fields[f]))
  <2>1. fields[f][1] = "bytes" => ~ HasBytes(fields[f], "data")
    BY DEF HasBytes, HasField
  <2>. QED BY <1>3, <2>1 DEF decryptInner
<1>10. f \in {"ok", "unknown", "fail"}
  BY DEF ResultFields
<1>. QED BY <1>5, <1>6, <1>7, <1>8, <1>9, <1>10 DEF given

\* and reads bytes under ok in its own seal, in the form that the answer came in.
IsForm(form) == form \in {"hex", "array"}
IsContent(inner, g, bytes) ==
  g \in ResultFields /\ DOMAIN inner = {g} /\ (g = "ok" => inner[g] = BytesItem(bytes))

LEMMA JavaScriptOpens ==
  ASSUME NEW cipher, NEW secret, NEW inner, NEW g, NEW bytes, IsContent(inner, g, bytes),
         NEW form, IsForm(form), NEW x
  PROVE  LET got == decryptInner(cipher, InForm(form, x), Aead(secret, MapItem(inner)))
         IN  /\ cipher.secretKey = secret /\ g = "ok" => got = InForm(form, bytes)
             /\ ~ (cipher.secretKey = secret /\ g = "ok") => Throws(got)
<1> DEFINE given == InForm(form, x)
           aead == Aead(secret, MapItem(inner))
<1>0. /\ g \in ResultFields /\ DOMAIN inner = {g} /\ (g = "ok" => inner[g] = BytesItem(bytes))
      /\ form \in {"hex", "array"}
  BY DEF IsContent, IsForm
<1>1. HasBytes(aead, "data")
  BY Items DEF Aead, BytesItem
<1>2. \A why : Throws(Throw(why))
  BY DEF Throws, Throw
<1>3. CASE cipher.secretKey # secret
  <2>1. decrypt(cipher, aead[2].data[2]) = Forged
    BY <1>3, AeadOpens DEF decrypt
  <2> HIDE DEF aead, given
  <2>2. Throws(decryptInner(cipher, given, aead))
    BY <1>1, <1>2, <2>1 DEF decryptInner
  <2>. QED BY <1>3, <2>2 DEF given, aead
<1>4. CASE cipher.secretKey = secret
  <2>1. decrypt(cipher, aead[2].data[2]) = CborBytes(MapItem(inner))
    BY <1>4, AeadOpens DEF decrypt
  <2>2. CborBytes(MapItem(inner)) # Forged /\ cborDecode(CborBytes(MapItem(inner))) = MapItem(inner)
    BY Items
  <2>3. CASE g = "ok"
    <3>1. inner["ok"][1] = "bytes" /\ inner["ok"][2] = bytes
      BY <1>0, <2>3 DEF BytesItem
    <3>2. HasBytes(MapItem(inner), "ok") /\ MapItem(inner)[2].ok[2] = bytes
      BY <1>0, <2>3, <3>1, Items
    <3>3. isBytesLike(U8(bytes)) /\ U8(bytes)[1] = "array" /\ U8(bytes)[2] = bytes
      BY DEF isBytesLike, U8
    <3>4. isBytesLike(given) /\ given[1] = form
      BY <1>0, BothForms
    <3>5. asBytesLike(given, U8(bytes)) = InForm(form, bytes)
      <4>1. ("hex" \in {given[1], U8(bytes)[1]}) <=> form = "hex"
        BY <1>0, <3>3, <3>4
      <4>. QED BY <1>0, <3>3, <3>4, <4>1, BothForms DEF asBytesLike
    <3> HIDE DEF aead, given
    <3>6. decryptInner(cipher, given, aead) = asBytesLike(given, U8(bytes))
      BY <1>1, <2>1, <2>2, <3>2 DEF decryptInner
    <3>. QED BY <1>4, <2>3, <3>5, <3>6 DEF given, aead
  <2>4. CASE g # "ok"
    <3>1. ~ HasBytes(MapItem(inner), "ok")
      BY <1>0, <2>4, Items
    <3> HIDE DEF aead, given
    <3>2. Throws(decryptInner(cipher, given, aead))
      BY <1>1, <1>2, <2>1, <2>2, <3>1 DEF decryptInner
    <3>. QED BY <2>4, <3>2 DEF given, aead
  <2>. QED BY <2>3, <2>4
<1>. QED BY <1>3, <1>4

\* A query of any account and contract, at any block and nonce.
IsSignedRequest(c) ==
  /\ c.client \in {"go", "python"}
  /\ c.block \in Nat /\ c.delay \in Nat /\ c.nonce \in Nat /\ c.nonceAfter \in Nat

\* What both clients make of it: the fields with the defaults, and in the data a pack of
\* the envelope, the leash and the signature of the fields.
QueryFields(c, data) ==
  [from |-> c.from, to |-> c.to, gas |-> IF c.gas = 0 THEN 30 ELSE c.gas,
   gasPrice |-> IF c.gasPrice = 0 THEN 100 ELSE c.gasPrice, value |-> c.value,
   chainId |-> c.chainId, data |-> data]
QueryLeash(c) ==
  [nonce |-> c.nonce, blockNumber |-> c.block - 1, blockHash |-> <<"hash", c.block - 1>>,
   blockRange |-> 15]
QuerySecret == SharedSecret(ClientKey, RuntimeKey(7))
QueryEnvelope == CallEnvelope(ClientKey, 7, SealedBytes(QuerySecret, InnerCall(PlainBytes(1))))
QueryPack(c) ==
  [data |-> QueryEnvelope, leash |-> MapItem(QueryLeash(c)),
   signature |-> Signature(QueryFields(c, PlainBytes(1)), QueryLeash(c))]

LEMMA QueriesAlike ==
  ASSUME NEW c, IsSignedRequest(c)
  PROVE  SignedCall(c) = QueryFields(c, CborBytes(MapItem(QueryPack(c))))
<1> DEFINE call == [from |-> c.from, to |-> c.to, gas |-> c.gas, gasPrice |-> c.gasPrice,
                    value |-> c.value, chainId |-> c.chainId, data |-> PlainBytes(1)]
<1>1. CASE c.client = "go"
  <2> DEFINE cipher == NewX25519DeoxysIICipher(ClientKey, 7)
  <2>1. SignedCall(c) = PackSignedCall(cipher, call, makeLeash(c.block, c.nonce))
    BY <1>1 DEF SignedCall
  <2>2. makeLeash(c.block, c.nonce) = QueryLeash(c)
    BY DEF makeLeash, QueryLeash, DefaultBlockRange
  <2>3. cipher.cipher = QuerySecret /\ cipher.publicKey = ClientKey /\ cipher.epoch = 7
    BY DEF NewX25519DeoxysIICipher, QuerySecret
  <2> HIDE DEF cipher
  <2>4. EncryptEnvelope(cipher, PlainBytes(1)) = QueryEnvelope
    <3>1. PlainBytes(1) # NoBytes
      BY DEF PlainBytes, NoBytes
    <3>. QED BY <2>3, <3>1 DEF EncryptEnvelope, Encrypt, QueryEnvelope
  <2> DEFINE full == [call EXCEPT !.gas = IF @ = 0 THEN DefaultGasLimit ELSE @,
                                  !.gasPrice = IF @ = 0 THEN 100 ELSE @]
  <2>5. full = QueryFields(c, PlainBytes(1))
    <3> DEFINE g == IF c.gas = 0 THEN 30 ELSE c.gas
               p == IF c.gasPrice = 0 THEN 100 ELSE c.gasPrice
    <3>1. call.gas = c.gas /\ call.gasPrice = c.gasPrice
      OBVIOUS
    <3>2. full = [call EXCEPT !.gas = g, !.gasPrice = p]
      BY DEF DefaultGasLimit
    <3>3. call = [from |-> c.from, to |-> c.to, gas |-> c.gas, gasPrice |-> c.gasPrice,
                  value |-> c.value, chainId |-> c.chainId, data |-> PlainBytes(1)]
      OBVIOUS
    <3> HIDE DEF call, full, g, p
    <3>4. [call EXCEPT !.gas = g, !.gasPrice = p] =
            [from |-> c.from, to |-> c.to, gas |-> g, gasPrice |-> p, value |-> c.value,
             chainId |-> c.chainId, data |-> PlainBytes(1)]
      <4>1. [call EXCEPT !.gas = g, !.gasPrice = p] =
              [[call EXCEPT !.gas = g] EXCEPT !.gasPrice = p]
        BY <3>3
      <4>2. [call EXCEPT !.gas = g] =
              [from |-> c.from, to |-> c.to, gas |-> g, gasPrice |-> c.gasPrice, value |-> c.value,
               chainId |-> c.chainId, data |-> PlainBytes(1)]
        BY <3>3
      <4>3. [[from |-> c.from, to |-> c.to, gas |-> g, gasPrice |-> c.gasPrice, value |-> c.value,
              chainId |-> c.chainId, data |-> PlainBytes(1)] EXCEPT !.gasPrice = p] =
              [from |-> c.from, to |-> c.to, gas |-> g, gasPrice |-> p, value |-> c.value,
               chainId |-> c.chainId, data |-> PlainBytes(1)]
        OBVIOUS
      <4>. QED BY <4>1, <4>2, <4>3
    <3>. QED BY <3>2, <3>4 DEF QueryFields, g, p
  <2>6. PackSignedCall(cipher, call, QueryLeash(c)) =
          [full EXCEPT !.data = CborBytes(MapItem(
             [data |-> EncryptEnvelope(cipher, call.data), leash |-> MapItem(QueryLeash(c)),
              signature |-> Signature(full, QueryLeash(c))]))]
    BY DEF PackSignedCall
  <2>7. call.data = PlainBytes(1)
    OBVIOUS
  <2> HIDE DEF call, full
  <2>8. PackSignedCall(cipher, call, QueryLeash(c)) =
          [QueryFields(c, PlainBytes(1)) EXCEPT !.data = CborBytes(MapItem(QueryPack(c)))]
    BY <2>4, <2>5, <2>6, <2>7 DEF QueryPack
  <2>9. \A d : [QueryFields(c, PlainBytes(1)) EXCEPT !.data = d] = QueryFields(c, d)
    BY DEF QueryFields
  <2>. QED BY <2>1, <2>2, <2>8, <2>9 DEF call
<1>2. CASE c.client = "python"
  <2> DEFINE cipher == TransactionCipher(ClientKey, 7)
             leash == SignedCallData(c.block, c.block - 1, c.nonce)
  <2>1. SignedCall(c) = new_signed_call_data_pack(cipher, call, PlainBytes(1), leash)
    BY <1>2 DEF SignedCall
  <2>2. leash = QueryLeash(c)
    BY DEF SignedCallData, QueryLeash, DEFAULT_BLOCK_RANGE
  <2> HIDE DEF leash
  <2>3. make_envelope(cipher, PlainBytes(1)) = QueryEnvelope
    BY DEF TransactionCipher, make_envelope, QuerySecret, QueryEnvelope
  <2> DEFINE full == [call EXCEPT !.gas = IF @ = 0 THEN 30 ELSE @,
                                  !.gasPrice = IF @ = 0 THEN 100 ELSE @]
  <2> HIDE DEF cipher
  <2>5. full = QueryFields(c, PlainBytes(1))
    <3> DEFINE g == IF c.gas = 0 THEN 30 ELSE c.gas
               p == IF c.gasPrice = 0 THEN 100 ELSE c.gasPrice
    <3>1. call.gas = c.gas /\ call.gasPrice = c.gasPrice
      OBVIOUS
    <3>2. full = [call EXCEPT !.gas = g, !.gasPrice = p]
      OBVIOUS
    <3>3. call = [from |-> c.from, to |-> c.to, gas |-> c.gas, gasPrice |-> c.gasPrice,
                  value |-> c.value, chainId |-> c.chainId, data |-> PlainBytes(1)]
      OBVIOUS
    <3> HIDE DEF call, full, g, p
    <3>4. [call EXCEPT !.gas = g, !.gasPrice = p] =
            [from |-> c.from, to |-> c.to, gas |-> g, gasPrice |-> p, value |-> c.value,
             chainId |-> c.chainId, data |-> PlainBytes(1)]
      <4>1. [call EXCEPT !.gas = g, !.gasPrice = p] =
              [[call EXCEPT !.gas = g] EXCEPT !.gasPrice = p]
        BY <3>3
      <4>2. [call EXCEPT !.gas = g] =
              [from |-> c.from, to |-> c.to, gas |-> g, gasPrice |-> c.gasPrice, value |-> c.value,
               chainId |-> c.chainId, data |-> PlainBytes(1)]
        BY <3>3
      <4>3. [[from |-> c.from, to |-> c.to, gas |-> g, gasPrice |-> c.gasPrice, value |-> c.value,
              chainId |-> c.chainId, data |-> PlainBytes(1)] EXCEPT !.gasPrice = p] =
              [from |-> c.from, to |-> c.to, gas |-> g, gasPrice |-> p, value |-> c.value,
               chainId |-> c.chainId, data |-> PlainBytes(1)]
        OBVIOUS
      <4>. QED BY <4>1, <4>2, <4>3
    <3>. QED BY <3>2, <3>4 DEF QueryFields, g, p
  <2>6. new_signed_call_data_pack(cipher, call, PlainBytes(1), leash) =
          [full EXCEPT !.data = CborBytes(MapItem(
             [data |-> make_envelope(cipher, PlainBytes(1)), leash |-> MapItem(leash),
              signature |-> Signature([full EXCEPT !.data = PlainBytes(1)], leash)]))]
    BY DEF new_signed_call_data_pack
  <2> HIDE DEF call, full
  <2>7. \A d : [QueryFields(c, PlainBytes(1)) EXCEPT !.data = d] = QueryFields(c, d)
    BY DEF QueryFields
  <2>8. [full EXCEPT !.data = PlainBytes(1)] = QueryFields(c, PlainBytes(1))
    BY <2>5, <2>7
  <2>9. new_signed_call_data_pack(cipher, call, PlainBytes(1), leash) =
          [QueryFields(c, PlainBytes(1)) EXCEPT !.data = CborBytes(MapItem(QueryPack(c)))]
    BY <2>2, <2>3, <2>5, <2>6, <2>8 DEF QueryPack
  <2>. QED BY <2>1, <2>7, <2>9
<1>. QED BY <1>1, <1>2 DEF IsSignedRequest

\* Such a query is good for the 15 blocks of its leash and as long as the account is
\* not used, and its answer comes back; for every block, delay and nonce.
THEOREM EveryQueryVerified ==
  ASSUME NEW c, IsSignedRequest(c)
  PROVE  SignedQueryVerified(c)
<1> DEFINE call == SignedCall(c)
           pack == QueryPack(c)
           leash == QueryLeash(c)
<1>1. call = QueryFields(c, CborBytes(MapItem(pack)))
  BY QueriesAlike
<1>2. call.data = CborBytes(MapItem(pack)) /\ call.gas # 0 /\ call.gasPrice # 0
  <2> HIDE DEF call, pack
  <2>. QED BY <1>1 DEF QueryFields
<1>3. Opened(QueryEnvelope) = [ok |-> TRUE, secret |-> QuerySecret, data |-> PlainBytes(1)]
  BY EnvelopeOpens DEF QueryEnvelope, QuerySecret
<1>4. /\ pack.data = QueryEnvelope /\ pack.leash = MapItem(leash)
      /\ pack.signature = Signature(QueryFields(c, PlainBytes(1)), leash)
  BY DEF QueryPack
<1>5. cborDecode(call.data)[2] = pack
  <2> HIDE DEF call, pack
  <2>. QED BY <1>2, Items
<1>6. [call EXCEPT !.data = PlainBytes(1)] = QueryFields(c, PlainBytes(1))
  <2> HIDE DEF call, pack
  <2>. QED BY <1>1 DEF QueryFields
<1>7. MapItem(leash)[2] = leash
  BY Items
<1>8. ASSUME NEW block \in Int, NEW nonce \in Int
      PROVE  RuntimeVerifies(call, block, nonce) <=>
               /\ leash.blockHash = <<"hash", leash.blockNumber>>
               /\ block \in (leash.blockNumber + 1)..(leash.blockNumber + leash.blockRange)
               /\ leash.nonce >= nonce
  <2> HIDE DEF call, pack, leash
  <2>1. pack.leash[2] = leash
    BY <1>4, <1>7
  <2>2. [call EXCEPT !.data = Opened(pack.data).data] = QueryFields(c, PlainBytes(1))
    BY <1>3, <1>4, <1>6
  <2>. QED BY <1>4, <1>5, <2>1, <2>2 DEF RuntimeVerifies
<1>9. RuntimeVerifies(call, c.block + c.delay, c.nonceAfter)
        <=> c.delay <= 14 /\ c.nonceAfter <= c.nonce
  <2> HIDE DEF call
  <2>1. /\ c.block \in Nat /\ c.delay \in Nat /\ c.nonce \in Nat /\ c.nonceAfter \in Nat
        /\ c.block + c.delay \in Int /\ c.nonceAfter \in Int
    BY DEF IsSignedRequest
  <2>2. /\ leash.blockHash = <<"hash", leash.blockNumber>> /\ leash.blockNumber = c.block - 1
        /\ leash.blockRange = 15 /\ leash.nonce = c.nonce
    BY DEF QueryLeash
  <2>3. c.block + c.delay \in (c.block - 1 + 1)..(c.block - 1 + 15) <=> c.delay <= 14
    BY <2>1
  <2> HIDE DEF leash
  <2>. QED BY <1>8, <2>1, <2>2, <2>3
<1>10. RuntimeAnswers(call.data, "ok") = CborBytes(AnswerItem(QuerySecret, Returned(TRUE, PlainBytes(1))))
  <2>1. RuntimeDecodes(call.data) = Opened(QueryEnvelope)
    BY <1>2, PackOpens DEF QueryPack, QueryEnvelope, CallEnvelope
  <2>2. QuerySecret # {}
    BY DEF QuerySecret, SharedSecret
  <2> HIDE DEF call
  <2>. QED BY <1>3, <2>1, <2>2, RuntimeReturns DEF RuntimeAnswers
<1>11. DecryptCallResult(NewX25519DeoxysIICipher(ClientKey, 7), RuntimeAnswers(call.data, "ok")) =
         Returned(TRUE, PlainBytes(1))
  <2> DEFINE cipher == NewX25519DeoxysIICipher(ClientKey, 7)
  <2>1. cipher.cipher = QuerySecret
    BY DEF NewX25519DeoxysIICipher, QuerySecret
  <2> HIDE DEF call, cipher
  <2>2. DecryptCallResult(cipher, CborBytes(AnswerItem(QuerySecret, Returned(TRUE, PlainBytes(1))))) =
          Returned(TRUE, PlainBytes(1))
    <3> DEFINE inner == [ok |-> BytesItem(Returned(TRUE, PlainBytes(1)))]
               fields == [ok |-> Aead(QuerySecret, MapItem(inner))]
    <3>1. /\ DOMAIN inner = {"ok"} /\ DOMAIN fields = {"ok"} /\ "ok" \in ResultFields
          /\ fields["ok"] = Aead(QuerySecret, MapItem(inner)) /\ fields["ok"][1] = "map"
      BY AeadOpens DEF ResultFields
    <3>2. inner["ok"][2] = Returned(TRUE, PlainBytes(1))
      BY DEF BytesItem
    <3> HIDE DEF inner, fields
    <3>3. DecryptInner(cipher, fields["ok"]) = Returned(TRUE, PlainBytes(1))
      <4>1. DecryptInner(cipher, Aead(QuerySecret, MapItem(inner))) =
              IF cipher.cipher # QuerySecret \/ "ok" = "fail" THEN Err ELSE inner["ok"][2]
        <5>1. DOMAIN inner = {"ok"} /\ "ok" \in ResultFields
          BY <3>1
        <5>. QED BY <5>1, GoOpens
      <4>2. "ok" # "fail" /\ cipher.cipher = QuerySecret /\ fields["ok"] = Aead(QuerySecret, MapItem(inner))
        BY <2>1, <3>1
      <4>. QED BY <3>2, <4>1, <4>2
    <3>4. DecryptCallResult(cipher, CborBytes(MapItem(fields))) = DecryptInner(cipher, fields["ok"])
      BY <3>1, GoLooks
    <3>. QED BY <3>3, <3>4 DEF AnswerItem, inner, fields
  <2>. QED BY <1>10, <2>2 DEF cipher
<1>. QED BY <1>2, <1>9, <1>11 DEF SignedQueryVerified

\* The queries of a run are among them: compat.go and sapphire.py make queries that the
\* runtime accepts, exactly while their leash holds.
SignedInput == Given("signedCall") => IsSignedRequest(input)

THEOREM QueriesVerified == Spec => []SignedQueriesVerified
<1>1. Init => SignedInput
  BY DEF Init, SignedInput, Given
<1>2. ASSUME SignedInput, [Next]_<<input, host, enclave>>
      PROVE  SignedInput'
  <2>1. CASE input' = input
    BY <1>2, <2>1 DEF SignedInput, Given
  <2>2. CASE ChooseClientCall
    <3>1. PICK c \in ClientCalls \cup CipherResults \cup SignedRequests : input' = c
      BY <2>2 DEF ChooseClientCall
    <3>2. c \in ClientCalls => c.alg = "clientCall"
      BY DEF ClientCalls, ClientRequests
    <3>3. c \in CipherResults => c.alg # "signedCall"
      BY DEF CipherResults, EncryptedResults, RuntimeResults
    <3>4. c \in SignedRequests => IsSignedRequest(c)
      BY DEF SignedRequests, IsSignedRequest
    <3>. QED BY <3>1, <3>2, <3>3, <3>4 DEF SignedInput, Given
  <2>3. CASE (ChooseInput \/ NextDay) /\ ~ ChooseClientCall
    <3>1. input'.alg # "signedCall"
      BY <2>3, ChosenKinds DEF ChooseInput
    <3>. QED BY <3>1 DEF SignedInput, Given
  <2>. QED BY <1>2, <2>1, <2>2, <2>3, InputStays
<1>3. SignedInput => SignedQueriesVerified
  BY EveryQueryVerified DEF SignedInput, SignedQueriesVerified
<1>. QED BY <1>1, <1>2, <1>3, PTL DEF Spec

\* The key of the client and that of an epoch make the secret of this epoch only.
LEMMA SecretsDiffer ==
  ASSUME NEW d, NEW e, SharedSecret(ClientKey, RuntimeKey(d)) = SharedSecret(ClientKey, RuntimeKey(e))
  PROVE  d = e
<1>1. RuntimeKey(d) # ClientKey /\ RuntimeKey(e) # ClientKey
  BY DEF RuntimeKey, ClientKey
<1>2. RuntimeKey(d) = RuntimeKey(e)
  BY <1>1 DEF SharedSecret
<1>3. RuntimeKey(d)[2] = d /\ RuntimeKey(e)[2] = e
  BY DEF RuntimeKey
<1>. QED BY <1>2, <1>3

\* JavaScript opens the envelopes of its own secret, in the form that they came in, and
\* no others.
LEMMA CallOpens ==
  ASSUME NEW cipher, NEW pk, NEW epoch, NEW secret, NEW bytes, NEW form \in {"hex", "array"}
  PROVE  LET given == InForm(form, CborBytes(CallEnvelope(pk, epoch, SealedBytes(secret, InnerCall(bytes)))))
         IN  /\ cipher.secretKey = secret => decryptCall(cipher, given) = InForm(form, bytes)
             /\ cipher.secretKey # secret => Throws(decryptCall(cipher, given))
<1> DEFINE sealed == SealedBytes(secret, InnerCall(bytes))
           body == [pk |-> <<"key", pk>>, epoch |-> <<"number", epoch>>, data |-> BytesItem(sealed)]
           fields == [format |-> <<"number", 1>>, body |-> MapItem(body)]
           given == <<form, CborBytes(MapItem(fields))>>
           inner == [body |-> BytesItem(bytes)]
<1>0. CallEnvelope(pk, epoch, sealed) = MapItem(fields)
  BY DEF CallEnvelope
<1>1. /\ isBytesLike(given) /\ given[1] = form /\ given[2] = CborBytes(MapItem(fields))
      /\ <<form, bytes>> = IF form = "hex" THEN Hex(bytes) ELSE U8(bytes)
  BY DEF isBytesLike, Hex, U8
<1>2. /\ sealed[1] = "sealed" /\ sealed[2] = secret /\ sealed[3] = CborBytes(MapItem(inner))
  BY DEF SealedBytes, InnerCall
<1>3. /\ BytesItem(sealed)[1] = "bytes" /\ BytesItem(sealed)[2] = sealed
      /\ BytesItem(bytes)[2] = bytes
  BY DEF BytesItem
<1>4. body.data = BytesItem(sealed) /\ "data" \in DOMAIN body
  OBVIOUS
<1>5. fields.format = <<"number", 1>> /\ fields.body = MapItem(body)
      /\ "format" \in DOMAIN fields /\ "body" \in DOMAIN fields
  OBVIOUS
<1>6. inner.body = BytesItem(bytes)
  OBVIOUS
<1> HIDE DEF sealed, body, fields, given, inner
<1>7. EnvelopeFormat(MapItem(fields)) = <<"true">>
  <2>1. /\ MapItem(fields) # NullItem
        /\ HasField(MapItem(fields), "body") /\ HasField(MapItem(fields), "format")
        /\ MapItem(fields)[2].format = <<"number", 1>> /\ HasMap(MapItem(fields), "body")
        /\ MapItem(fields)[2].body = MapItem(body)
    BY <1>5, Items
  <2>2. HasBytes(MapItem(body), "data")
    BY <1>3, <1>4, Items
  <2>. QED BY <2>1, <2>2 DEF EnvelopeFormat
<1>8. MapItem(fields)[2].body[2].data[2] = sealed
  BY <1>3, <1>4, <1>5, Items
<1>9. /\ cipher.secretKey = secret => decrypt(cipher, sealed) = CborBytes(MapItem(inner))
      /\ cipher.secretKey # secret => decrypt(cipher, sealed) = Forged
  BY <1>2 DEF decrypt, Unseal
<1>10. decryptCall(cipher, given) =
         IF decrypt(cipher, sealed) = Forged THEN Throw("forged")
         ELSE asBytesLike(given, U8(cborDecode(decrypt(cipher, sealed))[2].body[2]))
  <2>1. cborDecode(given[2]) = MapItem(fields) /\ MapItem(fields) # Undecodable
    BY <1>1, Items
  <2>2. ~ Throws(<<"true">>)
    BY DEF Throws
  <2>. QED BY <1>7, <1>8, <2>1, <2>2 DEF decryptCall, Then
<1>11. cborDecode(CborBytes(MapItem(inner)))[2].body[2] = bytes /\ CborBytes(MapItem(inner)) # Forged
  BY <1>3, <1>6, Items
<1>12. asBytesLike(given, U8(bytes)) = <<form, bytes>>
  <2>1. isBytesLike(U8(bytes)) /\ U8(bytes)[1] = "array" /\ U8(bytes)[2] = bytes
    BY DEF isBytesLike, U8
  <2>2. ("hex" \in {given[1], U8(bytes)[1]}) <=> form = "hex"
    BY <1>1, <2>1
  <2>. QED BY <1>1, <2>1, <2>2 DEF asBytesLike
<1>13. Throws(Throw("forged"))
  BY DEF Throws, Throw
<1>14. /\ cipher.secretKey = secret => decryptCall(cipher, given) = <<form, bytes>>
       /\ cipher.secretKey # secret => Throws(decryptCall(cipher, given))
  BY <1>9, <1>10, <1>11, <1>12, <1>13
<1>. QED BY <1>0, <1>14 DEF sealed, given, InForm

\* Either end of a cipher reads the calls of all three clients.
LEMMA CallsReadBack ==
  ASSUME NEW bytes, NEW epoch \in Int
  PROVE  CallReadsBack(U8(bytes), epoch)
<1> DEFINE secret == SharedSecret(ClientKey, RuntimeKey(epoch))
           cipher == Cipher(ClientKey, epoch)
           wrong == Cipher(ClientKey, epoch + 1)
           Envelope(b) == CallEnvelope(ClientKey, epoch, SealedBytes(secret, InnerCall(b)))
           sent == InForm("array", CborBytes(Envelope(bytes)))
<1>1. /\ cipher.secretKey = secret /\ cipher.publicKey = ClientKey /\ cipher.epoch = epoch
  BY DEF Cipher
<1>2. wrong.secretKey # secret
  <2>1. epoch + 1 # epoch
    OBVIOUS
  <2>. QED BY <2>1, SecretsDiffer DEF Cipher
<1>3. U8(bytes) # U8(NoBytes) => encryptCall(cipher, U8(bytes)) = sent
  <2> HIDE DEF cipher, secret
  <2>1. U8(bytes) # Undefined /\ U8(bytes) # EmptyString
        /\ \A x : isBytesLike(U8(x)) /\ U8(x)[1] = "array" /\ U8(x)[2] = x
    BY DEF U8, Undefined, EmptyString, isBytesLike
  <2>2. CallEnvelope(cipher.publicKey, cipher.epoch, encrypt(cipher, InnerCall(bytes))) = Envelope(bytes)
    BY <1>1 DEF encrypt
  <2> HIDE DEF Envelope
  <2>3. asBytesLike(U8(bytes), U8(CborBytes(Envelope(bytes)))) = U8(CborBytes(Envelope(bytes)))
    BY <2>1 DEF asBytesLike
  <2>4. U8(CborBytes(Envelope(bytes))) = sent
    BY DEF U8, InForm
  <2> HIDE DEF sent
  <2>. QED BY <2>1, <2>2, <2>3, <2>4 DEF encryptCall
<1>4. decryptCall(cipher, sent) = U8(bytes) /\ Throws(decryptCall(wrong, sent))
  <2> HIDE DEF cipher, wrong, secret
  <2>1. U8(bytes) = InForm("array", bytes)
    BY DEF U8, InForm
  <2>. QED BY <1>1, <1>2, <2>1, CallOpens
<1>5. /\ EncryptEnvelope(NewX25519DeoxysIICipher(ClientKey, epoch), PlainBytes(4)) = Envelope(PlainBytes(4))
      /\ make_envelope(TransactionCipher(ClientKey, epoch), PlainBytes(4)) = Envelope(PlainBytes(4))
  <2>1. PlainBytes(4) # NoBytes
    BY DEF PlainBytes, NoBytes
  <2>. QED BY <2>1 DEF EncryptEnvelope, Encrypt, NewX25519DeoxysIICipher, make_envelope, TransactionCipher
<1>6. decryptCall(cipher, Hex(CborBytes(Envelope(PlainBytes(4))))) = Hex(PlainBytes(4))
  <2> HIDE DEF cipher, secret
  <2>1. \A x : Hex(x) = InForm("hex", x)
    BY DEF Hex, InForm
  <2>. QED BY <1>1, <2>1, CallOpens
<1>7. PlainDecryptCallResult(CborBytes(MapItem([ok |-> BytesItem(PlainBytes(4))]))) = PlainBytes(4)
  <2> DEFINE fields == [ok |-> BytesItem(PlainBytes(4))]
  <2>1. FirstOf(MapItem(fields), <<"fail", "unknown", "ok">>) = "ok"
    <3>1. DOMAIN fields = {"ok"} /\ "ok" \in {"fail", "unknown", "ok"}
      OBVIOUS
    <3> HIDE DEF fields
    <3>. QED BY <3>1, FirstOfOne
  <2>2. /\ cborDecode(CborBytes(MapItem(fields))) = MapItem(fields) /\ MapItem(fields) # Undecodable
        /\ HasBytes(MapItem(fields), "ok") /\ MapItem(fields)[2]["ok"][2] = PlainBytes(4)
    BY Items DEF BytesItem
  <2> HIDE DEF fields
  <2>3. PlainDecryptCallResult(CborBytes(MapItem(fields))) = PlainBytes(4)
    BY <2>1, <2>2 DEF PlainDecryptCallResult
  <2>. QED BY <2>3 DEF fields
<1>8. PlainDecryptCallResult(CborBytes(MapItem([fail |-> Failure]))) = Err
  <2> DEFINE fields == [fail |-> Failure]
  <2>1. FirstOf(MapItem(fields), <<"fail", "unknown", "ok">>) = "fail"
    BY FirstOfOne
  <2>2. cborDecode(CborBytes(MapItem(fields))) = MapItem(fields)
    BY Items
  <2> HIDE DEF fields
  <2>3. PlainDecryptCallResult(CborBytes(MapItem(fields))) = Err
    BY <2>1, <2>2 DEF PlainDecryptCallResult
  <2>. QED BY <2>3 DEF fields
<1> HIDE DEF cipher, wrong, sent, Envelope
<1>. QED BY <1>3, <1>4, <1>5, <1>6, <1>7, <1>8 DEF CallReadsBack, cipher, wrong

\* What the three read of a result with one field: of a failure nothing,
LEMMA FailureRead ==
  ASSUME NEW fields, DOMAIN fields = {"fail"}
  PROVE  AllGet(Undefined, CborBytes(MapItem(fields)))
<1>. DEFINE result == CborBytes(MapItem(fields))
<1>1. "fail" \in ResultFields
  BY DEF ResultFields
<1>2. \A form \in {"hex", "array"} : Throws(decryptResult(Cipher(ClientKey, 7), InForm(form, result)))
  BY <1>1, JavaScriptLooks
<1>3. InForm("hex", result) = Hex(result) /\ InForm("array", result) = U8(result)
  BY BothForms
<1>4. DecryptCallResult(NewX25519DeoxysIICipher(ClientKey, 7), result) = Err
  BY <1>1, GoLooks
<1>5. Throws(decrypt_response(TransactionCipher(ClientKey, 7), result))
  BY <1>1, PythonLooks
<1>. HIDE DEF result
<1>6. JsGets(Undefined, result)
  BY <1>2, <1>3 DEF JsGets
<1>. QED BY <1>4, <1>5, <1>6 DEF AllGet, GoGets, PyGets, result

\* of bytes in the clear, only Go anything, with the head of their item,
LEMMA ClearRead ==
  ASSUME NEW fields, NEW f \in {"ok", "unknown"}, DOMAIN fields = {f}, NEW bytes,
         fields[f] = BytesItem(bytes)
  PROVE  LET result == CborBytes(MapItem(fields))
         IN  /\ JsGets(Undefined, result) /\ PyGets(Undefined, result)
             /\ GoGets(U8(CborBytes(BytesItem(bytes))), result)
<1>. DEFINE result == CborBytes(MapItem(fields))
<1>1. f \in ResultFields /\ f # "fail" /\ fields[f][1] = "bytes" /\ fields[f][1] # "map"
  BY DEF ResultFields, BytesItem
<1>2. \A form \in {"hex", "array"} : Throws(decryptResult(Cipher(ClientKey, 7), InForm(form, result)))
  BY <1>1, JavaScriptLooks
<1>3. InForm("hex", result) = Hex(result) /\ InForm("array", result) = U8(result)
  BY BothForms
<1>4. DecryptCallResult(NewX25519DeoxysIICipher(ClientKey, 7), result) = CborBytes(BytesItem(bytes))
  BY <1>1, GoLooks
<1>5. Throws(decrypt_response(TransactionCipher(ClientKey, 7), result))
  BY <1>1, PythonLooks
<1>6. \A x : U8(x) # Undefined /\ U8(x)[2] = x
  BY DEF U8, Undefined
<1>. HIDE DEF result
<1>7. JsGets(Undefined, result)
  BY <1>2, <1>3 DEF JsGets
<1>. QED BY <1>4, <1>5, <1>6, <1>7 DEF GoGets, PyGets, result

\* and of what is sealed, if it is for their key, what each knows the fields of.
LEMMA SealedRead ==
  ASSUME NEW epoch \in Int, NEW bytes,
         NEW fields, NEW f \in {"ok", "unknown"}, DOMAIN fields = {f},
         NEW inner, NEW g \in ResultFields, DOMAIN inner = {g},
         fields[f] = Aead(SharedSecret(ClientKey, RuntimeKey(epoch)), MapItem(inner)),
         g # "fail" => inner[g] = BytesItem(bytes)
  PROVE  LET result == CborBytes(MapItem(fields))
         IN  /\ JsGets(ReadIf(epoch = 7 /\ g = "ok", bytes), result)
             /\ PyGets(ReadIf(epoch = 7 /\ g = "ok" /\ f = "ok", bytes), result)
             /\ GoGets(ReadIf(epoch = 7 /\ g # "fail", bytes), result)
<1>. DEFINE result == CborBytes(MapItem(fields))
            secret == SharedSecret(ClientKey, RuntimeKey(epoch))
            js == Cipher(ClientKey, 7)
            go == NewX25519DeoxysIICipher(ClientKey, 7)
            py == TransactionCipher(ClientKey, 7)
<1>1. f \in ResultFields /\ f # "fail" /\ fields[f][1] = "map"
  BY AeadOpens DEF ResultFields
<1>2. /\ js.secretKey = secret <=> epoch = 7
      /\ go.cipher = secret <=> epoch = 7
      /\ py.cipher = secret <=> epoch = 7
  <2>1. /\ js.secretKey = SharedSecret(ClientKey, RuntimeKey(7))
        /\ go.cipher = SharedSecret(ClientKey, RuntimeKey(7))
        /\ py.cipher = SharedSecret(ClientKey, RuntimeKey(7))
    BY DEF Cipher, NewX25519DeoxysIICipher, TransactionCipher
  <2>. QED BY <2>1, SecretsDiffer
<1>3. \A x : U8(x) # Undefined /\ U8(x)[2] = x
  BY DEF U8, Undefined
<1>4. g # "fail" => inner[g][2] = bytes
  BY DEF BytesItem
<1>. HIDE DEF js, go, py, secret
<1>5. \A form \in {"hex", "array"} :
        LET got == decryptResult(js, InForm(form, result))
        IN  IF epoch = 7 /\ g = "ok" THEN got = InForm(form, bytes) ELSE Throws(got)
  <2>1. TAKE form \in {"hex", "array"}
  <2>2. decryptResult(js, InForm(form, result)) = decryptInner(js, InForm(form, result), fields[f])
    BY <1>1, JavaScriptLooks
  <2>3. fields[f] = Aead(secret, MapItem(inner))
    BY DEF secret
  <2>4. IsContent(inner, g, bytes) /\ IsForm(form)
    BY DEF IsContent, IsForm
  <2>. HIDE DEF result
  <2>5. LET got == decryptInner(js, InForm(form, result), Aead(secret, MapItem(inner)))
        IN  /\ js.secretKey = secret /\ g = "ok" => got = InForm(form, bytes)
            /\ ~ (js.secretKey = secret /\ g = "ok") => Throws(got)
    BY <2>4, JavaScriptOpens
  <2>. QED BY <1>2, <2>2, <2>3, <2>5
<1>6. JsGets(ReadIf(epoch = 7 /\ g = "ok", bytes), result)
  <2>1. InForm("hex", result) = Hex(result) /\ InForm("array", result) = U8(result)
    BY BothForms
  <2>2. InForm("hex", bytes) = Hex(bytes) /\ InForm("array", bytes) = U8(bytes)
    BY BothForms
  <2>. HIDE DEF result
  <2>. QED BY <1>3, <1>5, <2>1, <2>2 DEF JsGets, ReadIf, js
<1>7. GoGets(ReadIf(epoch = 7 /\ g # "fail", bytes), result)
  <2>1. DecryptCallResult(go, result) = DecryptInner(go, fields[f])
    BY <1>1, GoLooks
  <2>2. DecryptInner(go, fields[f]) = IF go.cipher # secret \/ g = "fail" THEN Err ELSE inner[g][2]
    BY GoOpens DEF secret
  <2>. HIDE DEF result
  <2>. QED BY <1>2, <1>3, <1>4, <2>1, <2>2 DEF GoGets, ReadIf, go
<1>8. PyGets(ReadIf(epoch = 7 /\ g = "ok" /\ f = "ok", bytes), result)
  <2>1. f # "ok" => Throws(decrypt_response(py, result))
    BY <1>1, PythonLooks
  <2>2. f = "ok" => decrypt_response(py, result) = decrypt_inner(py, fields[f])
    BY <1>1, PythonLooks
  <2>3. LET got == decrypt_inner(py, fields[f])
        IN  IF py.cipher = secret /\ g = "ok" THEN got = U8(bytes) ELSE Throws(got)
    <3>1. fields[f] = Aead(secret, MapItem(inner)) /\ (g = "ok" => inner[g] = BytesItem(bytes))
      BY DEF secret
    <3>. QED BY <3>1, PythonOpens
  <2>. HIDE DEF result
  <2>. QED BY <1>2, <1>3, <2>1, <2>2, <2>3 DEF PyGets, ReadIf, py
<1>. QED BY <1>6, <1>7, <1>8 DEF result

\* A result of the runtime in any of the forms, with any bytes, sealed for any epoch.
IsRuntimeResult(c) ==
  /\ c.field \in ResultFields /\ c.inner \in ResultFields
  /\ c.sealed \in BOOLEAN /\ c.epoch \in Int

\* Of every result of the runtime, under each field, in the clear or sealed, under each
\* field of the seal, for any bytes and epoch, each of the three clients reads what
\* RuntimeResultRead says, and nothing else: all read ok sealed within ok; JavaScript and
\* Go ok sealed within unknown; Go what is sealed as unknown, and what is in the clear.
THEOREM EveryResultRead ==
  ASSUME NEW c, IsRuntimeResult(c)
  PROVE  RuntimeResultRead(c)
<1>. DEFINE inner == [f \in {c.inner} |-> IF f = "fail" THEN Failure ELSE BytesItem(c.bytes)]
            secret == SharedSecret(ClientKey, RuntimeKey(c.epoch))
            fields == [f \in {c.field} |->
                         IF f = "fail" THEN Failure
                         ELSE IF c.sealed THEN Aead(secret, MapItem(inner)) ELSE BytesItem(c.bytes)]
            result == RuntimeResult(c)
<1>1. result = CborBytes(MapItem(fields))
  BY DEF RuntimeResult
<1>2. /\ c.field \in {"ok", "unknown", "fail"} /\ c.inner \in ResultFields
      /\ c.sealed \in BOOLEAN /\ c.epoch \in Int
  BY DEF IsRuntimeResult, ResultFields
<1>3. DOMAIN fields = {c.field} /\ DOMAIN inner = {c.inner}
  OBVIOUS
<1>4. CASE c.field = "fail"
  <2>1. AllGet(Undefined, result)
    <3>. HIDE DEF result, fields
    <3>. QED BY <1>1, <1>3, <1>4, FailureRead
  <2>. HIDE DEF result
  <2>. QED BY <1>4, <2>1 DEF AllGet, RuntimeResultRead, ReadIf, result
<1>5. CASE c.field # "fail" /\ ~ c.sealed
  <2>1. fields[c.field] = BytesItem(c.bytes) /\ c.field \in {"ok", "unknown"}
    BY <1>2, <1>5
  <2>2. /\ JsGets(Undefined, result) /\ PyGets(Undefined, result)
        /\ GoGets(U8(CborBytes(BytesItem(c.bytes))), result)
    <3>. HIDE DEF result, fields
    <3>. QED BY <1>1, <1>3, <2>1, ClearRead
  <2>. HIDE DEF result
  <2>. QED BY <1>5, <2>2 DEF RuntimeResultRead, ReadIf, result
<1>6. CASE c.field # "fail" /\ c.sealed
  <2>1. fields[c.field] = Aead(secret, MapItem(inner)) /\ c.field \in {"ok", "unknown"}
    BY <1>2, <1>6
  <2>2. c.inner # "fail" => inner[c.inner] = BytesItem(c.bytes)
    OBVIOUS
  <2>3. /\ JsGets(ReadIf(c.epoch = 7 /\ c.inner = "ok", c.bytes), result)
        /\ PyGets(ReadIf(c.epoch = 7 /\ c.inner = "ok" /\ c.field = "ok", c.bytes), result)
        /\ GoGets(ReadIf(c.epoch = 7 /\ c.inner # "fail", c.bytes), result)
    <3>. DEFINE epoch == c.epoch
                bytes == c.bytes
                f == c.field
                g == c.inner
    <3>1. /\ epoch \in Int /\ f \in {"ok", "unknown"} /\ g \in ResultFields
          /\ DOMAIN fields = {f} /\ DOMAIN inner = {g}
          /\ fields[f] = Aead(SharedSecret(ClientKey, RuntimeKey(epoch)), MapItem(inner))
          /\ g # "fail" => inner[g] = BytesItem(bytes)
      BY <1>2, <1>3, <2>1, <2>2
    <3>. HIDE DEF result, fields, inner, epoch, bytes, f, g
    <3>2. LET sent == CborBytes(MapItem(fields))
          IN  /\ JsGets(ReadIf(epoch = 7 /\ g = "ok", bytes), sent)
              /\ PyGets(ReadIf(epoch = 7 /\ g = "ok" /\ f = "ok", bytes), sent)
              /\ GoGets(ReadIf(epoch = 7 /\ g # "fail", bytes), sent)
      BY <3>1, SealedRead
    <3>. QED BY <1>1, <3>2 DEF epoch, bytes, f, g
  <2>. HIDE DEF result
  <2>. QED BY <1>6, <2>3 DEF RuntimeResultRead, ReadIf, result
<1>. QED BY <1>4, <1>5, <1>6

\* The arguments of the JavaScript cipher, for any bytes, failures and epoch.
IsEncryptedResult(c) ==
  /\ \E bytes : c.ok \in {Undefined, U8(bytes)}
  /\ c.epoch \in Int

\* What one of the three ciphers makes of a result of encryptResult, all make of it,
\* whichever arguments are given, and whether the key is of this epoch or not.
THEOREM EveryEncryptedResultAlike ==
  ASSUME NEW c, IsEncryptedResult(c)
  PROVE  EncryptedResultRead(c)
<1> DEFINE names == {"ok", "innerFail", "outerFail"}
           given == {f \in names : c[f] # Undefined}
           secret == SharedSecret(ClientKey, RuntimeKey(c.epoch))
           result == encryptResult(Cipher(ClientKey, c.epoch), c.ok, c.innerFail, c.outerFail)
           read == IF c.epoch = 7 THEN c.ok ELSE Undefined
<1>1. PICK bytes : c.ok \in {Undefined, U8(bytes)}
  BY DEF IsEncryptedResult
<1>2. c.epoch \in Int
  BY DEF IsEncryptedResult
<1>4. U8(bytes) # Undefined /\ U8(bytes)[2] = bytes
  BY DEF U8, Undefined
<1>5. \A x : ~ Throws(U8(x)) /\ U8(x)[2] = x
  BY DEF Throws, U8
<1>6. Cardinality(given) = 1 <=> \E f : given = {f}
  <2>1. IsFiniteSet(given)
    <3>1. IsFiniteSet(names)
      <4>1. IsFiniteSet({"ok"}) /\ IsFiniteSet({"innerFail"}) /\ IsFiniteSet({"outerFail"})
        BY FS_Singleton
      <4>2. IsFiniteSet({"ok"} \cup {"innerFail"})
        BY <4>1, FS_Union
      <4>3. IsFiniteSet(({"ok"} \cup {"innerFail"}) \cup {"outerFail"})
        BY <4>1, <4>2, FS_Union
      <4>4. names = ({"ok"} \cup {"innerFail"}) \cup {"outerFail"}
        OBVIOUS
      <4>. QED BY <4>3, <4>4
    <3>. QED BY <3>1, FS_Subset
  <2> HIDE DEF given
  <2>. QED BY <2>1, FS_Singleton
<1>7. result =
        IF Cardinality(given) # 1 THEN Throw("EnvelopeError")
        ELSE IF c.outerFail # Undefined THEN U8(CborBytes(OuterFailure(c.outerFail)))
        ELSE IF c.ok = Undefined THEN U8(CborBytes(InnerFailure(secret, c.innerFail)))
        ELSE U8(CborBytes(AnswerItem(secret, c.ok[2])))
  <2>1. {f \in {"ok", "innerFail", "outerFail"} :
          [ok |-> c.ok, innerFail |-> c.innerFail, outerFail |-> c.outerFail][f] # Undefined} = given
    OBVIOUS
  <2>2. Cipher(ClientKey, c.epoch).secretKey = secret
    BY DEF Cipher
  <2> DEFINE cipher == Cipher(ClientKey, c.epoch)
  <2> HIDE DEF given, secret, cipher
  <2>. QED BY <2>1, <2>2 DEF encryptResult, OuterFailure, InnerFailure, AnswerItem, cipher
<1>8. (Throws(result) <=> Cardinality(given) # 1)
  <2>1. Throws(Throw("EnvelopeError"))
    BY DEF Throws, Throw
  <2> HIDE DEF result, given, secret
  <2>. QED BY <1>5, <1>7, <2>1
<1>9. ASSUME Cardinality(given) = 1
      PROVE  AllGet(read, result[2])
  <2>1. PICK f \in names : given = {f}
    <3>1. \A f : given = {f} => f \in names
      OBVIOUS
    <3>. QED BY <1>6, <1>9, <3>1
  <2>2. c.ok # Undefined <=> f = "ok"
    BY <2>1
  <2>3. c.outerFail # Undefined <=> f = "outerFail"
    BY <2>1
  <2> HIDE DEF given, secret
  <2>4. CASE f = "outerFail"
    <3>1. result[2] = CborBytes(OuterFailure(c.outerFail)) /\ read = Undefined
      <4> HIDE DEF result
      <4>. QED BY <1>5, <1>7, <1>9, <2>2, <2>3, <2>4
    <3> HIDE DEF result, read
    <3>2. AllGet(Undefined, CborBytes(OuterFailure(c.outerFail)))
      BY FailureRead DEF OuterFailure
    <3>. QED BY <3>1, <3>2
  <2>5. CASE f = "innerFail"
    <3>1. result[2] = CborBytes(InnerFailure(secret, c.innerFail)) /\ read = Undefined
      <4> HIDE DEF result
      <4>. QED BY <1>5, <1>7, <1>9, <2>2, <2>3, <2>5
    <3> HIDE DEF result, read
    <3> DEFINE inner == [fail |-> c.innerFail]
               fields == [ok |-> Aead(secret, MapItem(inner))]
    <3>2. DOMAIN inner = {"fail"} /\ DOMAIN fields = {"ok"} /\ "fail" \in ResultFields
      BY DEF ResultFields
    <3>3. fields["ok"] = Aead(SharedSecret(ClientKey, RuntimeKey(c.epoch)), MapItem(inner))
      BY DEF secret
    <3> HIDE DEF inner, fields
    <3>4. AllGet(Undefined, CborBytes(MapItem(fields)))
      BY <1>2, <3>2, <3>3, SealedRead DEF AllGet, ReadIf
    <3>. QED BY <3>1, <3>4 DEF InnerFailure, inner, fields
  <2>6. CASE f = "ok"
    <3>1. result[2] = CborBytes(AnswerItem(secret, bytes)) /\ c.ok = U8(bytes)
      <4> HIDE DEF result
      <4>. QED BY <1>1, <1>4, <1>5, <1>7, <1>9, <2>2, <2>3, <2>6
    <3>2. read = ReadIf(c.epoch = 7, bytes)
      BY <3>1 DEF ReadIf
    <3> HIDE DEF result, read
    <3> DEFINE inner == [ok |-> BytesItem(bytes)]
               fields == [ok |-> Aead(secret, MapItem(inner))]
    <3>3. DOMAIN inner = {"ok"} /\ DOMAIN fields = {"ok"} /\ "ok" \in ResultFields
      BY DEF ResultFields
    <3>4. /\ fields["ok"] = Aead(SharedSecret(ClientKey, RuntimeKey(c.epoch)), MapItem(inner))
          /\ inner["ok"] = BytesItem(bytes)
      BY DEF secret
    <3> HIDE DEF inner, fields
    <3>5. AllGet(ReadIf(c.epoch = 7, bytes), CborBytes(MapItem(fields)))
      BY <1>2, <3>3, <3>4, SealedRead DEF AllGet, ReadIf
    <3>. QED BY <3>1, <3>2, <3>5 DEF AnswerItem, inner, fields
  <2>. QED BY <2>4, <2>5, <2>6
<1>10. c.ok # Undefined => CallReadsBack(c.ok, c.epoch)
  BY <1>1, <1>2, CallsReadBack
<1> HIDE DEF result, given, read
<1>. QED BY <1>8, <1>9, <1>10 DEF EncryptedResultRead, result, given, read

\* The results of a run are among them: the three ciphers understand each other's calls,
\* and of the results each reads those that it knows the form of, and no other
\* (cipher.ts, cipher.go, envelope.py).
ResultInput ==
  /\ Given("cipherResult") => IsEncryptedResult(input)
  /\ Given("runtimeResult") => IsRuntimeResult(input)

THEOREM CiphersUnderstood == Spec => []CiphersAgree
<1>1. Init => ResultInput
  BY DEF Init, ResultInput, Given
<1>2. ASSUME ResultInput, [Next]_<<input, host, enclave>>
      PROVE  ResultInput'
  <2>1. CASE input' = input
    BY <1>2, <2>1 DEF ResultInput, Given
  <2>2. CASE ChooseClientCall
    <3>1. PICK c \in ClientCalls \cup CipherResults \cup SignedRequests : input' = c
      BY <2>2 DEF ChooseClientCall
    <3>2. c \in ClientCalls => c.alg = "clientCall"
      BY DEF ClientCalls, ClientRequests
    <3>3. c \in EncryptedResults => c.alg = "cipherResult" /\ IsEncryptedResult(c)
      BY DEF EncryptedResults, IsEncryptedResult
    <3>5. c \in RuntimeResults => c.alg = "runtimeResult" /\ IsRuntimeResult(c)
      BY DEF RuntimeResults, IsRuntimeResult
    <3>4. c \in SignedRequests => c.alg = "signedCall"
      BY DEF SignedRequests
    <3>. QED BY <3>1, <3>2, <3>3, <3>4, <3>5 DEF ResultInput, Given, CipherResults
  <2>3. CASE (ChooseInput \/ NextDay) /\ ~ ChooseClientCall
    <3>1. input'.alg \notin {"cipherResult", "runtimeResult"}
      BY <2>3, ChosenKinds DEF ChooseInput
    <3>. QED BY <3>1 DEF ResultInput, Given
  <2>. QED BY <1>2, <2>1, <2>2, <2>3, InputStays
<1>3. ResultInput => CiphersAgree
  BY EveryResultRead, EveryEncryptedResultAlike DEF ResultInput, CiphersAgree
<1>. QED BY <1>1, <1>2, <1>3, PTL DEF Spec

-----------------------------------------------------------------------------
(***************************************************************************)
(* Integers and byte strings in CBOR, of every value.                      *)
(***************************************************************************)

\* What stands between other bytes is found at its offset.
LEMMA PartBetween ==
  ASSUME NEW before \in Seq(Nat), NEW part \in Seq(Nat), NEW after \in Seq(Nat)
  PROVE  LET all == before \o part \o after
         IN  /\ all \in Seq(Nat) /\ Len(all) = Len(before) + Len(part) + Len(after)
             /\ Slice(all, Len(before), Len(part)) = part
             /\ \A i \in 1..Len(part) : all[Len(before) + i] = part[i]
<1> DEFINE front == before \o part
           all == front \o after
           slice == SubSeq(all, Len(before) + 1, Len(before) + Len(part))
<1>1. /\ Len(before) \in Nat /\ Len(part) \in Nat /\ Len(after) \in Nat
      /\ front \in Seq(Nat) /\ Len(front) = Len(before) + Len(part)
      /\ \A i \in 1..Len(part) : front[Len(before) + i] = part[i]
  BY Joined
<1> HIDE DEF front
<1>2. /\ all \in Seq(Nat) /\ Len(all) = Len(front) + Len(after)
      /\ \A i \in 1..Len(front) : all[i] = front[i]
  BY <1>1, Joined
<1> HIDE DEF all
<1>3. ASSUME NEW i \in 1..Len(part) PROVE all[Len(before) + i] = part[i]
  <2>1. Len(before) + i \in 1..Len(front)
    BY <1>1
  <2>. QED BY <1>1, <1>2, <2>1
<1>4. /\ slice \in Seq(Nat) /\ Len(slice) = Len(part)
      /\ \A i \in 1..Len(part) : slice[i] = all[Len(before) + i]
  <2>1. Len(before) + Len(part) <= Len(all)
    BY <1>1, <1>2
  <2>. QED BY <1>1, <1>2, <2>1, PartOf, ZenonT(30)
<1> HIDE DEF slice
<1>5. slice = part
  BY <1>3, <1>4, SameBytes
<1>. QED BY <1>1, <1>2, <1>3, <1>5 DEF Slice, slice, all, front

\* A word in a fixed width is the same word.
LEMMA PaddedWord ==
  ASSUME NEW word, Canonical(word), NEW n \in Nat, Len(word) <= n
  PROVE  /\ Padded(word, n) \in Seq(Nat) /\ Len(Padded(word, n)) = n
         /\ Word(Padded(word, n)) = word
         /\ n = Len(word) => Padded(word, n) = word
<1> DEFINE zeros == Filled(n - Len(word), 0)
<1>1. word \in Seq(Nat) /\ Len(word) \in Nat /\ n - Len(word) \in Nat
  BY DEF Canonical
<1>2. zeros \in Seq(Nat) /\ Len(zeros) = n - Len(word) /\ \A i \in 1..Len(zeros) : zeros[i] = 0
  BY <1>1, FilledBytes
<1>3. Padded(word, n) = zeros \o word
  BY DEF Padded
<1> HIDE DEF zeros
<1>4. Padded(word, n) \in Seq(Nat) /\ Len(Padded(word, n)) = n
  BY <1>1, <1>2, <1>3, Joined
<1>5. Word(Padded(word, n)) = word
  BY <1>2, <1>3, WordPadded
<1>6. ASSUME n = Len(word) PROVE Padded(word, n) = word
  <2>1. Len(zeros) = 0
    BY <1>1, <1>2, <1>6
  <2>2. \A i \in 1..Len(word) : (zeros \o word)[i] = word[i]
    BY <1>1, <1>2, <2>1, Joined
  <2>. QED BY <1>1, <1>3, <1>4, <1>6, <2>2, SameBytes
<1>. QED BY <1>4, <1>5, <1>6

\* Small words.
LEMMA SmallWords ==
  ASSUME NEW b \in Nat
  PROVE  /\ Word(<<b>>) = (IF b = 0 THEN << >> ELSE <<b>>) /\ Canonical(Word(<<b>>))
         /\ Canonical(<< >>)
<1>1. <<b>> \in Seq(Nat) /\ Len(<<b>>) = 1 /\ <<b>>[1] = b /\ << >> \in Seq(Nat)
  OBVIOUS
<1>2. Canonical(<< >>)
  BY <1>1 DEF Canonical
<1>3. CASE b = 0
  <2>1. \A first \in 1..Len(<<b>>) : <<b>>[first] = 0
    BY <1>1, <1>3
  <2>. QED BY <1>1, <1>2, <1>3, <2>1, WordCuts
<1>4. CASE b # 0
  <2>1. Canonical(<<b>>)
    BY <1>1, <1>4 DEF Canonical
  <2>. QED BY <1>2, <1>4, <2>1, WordOfWord
<1>. QED BY <1>3, <1>4

\* The value of words of up to two bytes.
LEMMA ValueOfNone == Value(<< >>) = 0
<1> DEFINE word == << >>
           UpTo0(f) == f = [n \in 0..Len(word) |-> IF n = 0 THEN 0 ELSE 256 * f[n - 1] + word[n]]
           upTo == CHOOSE f : UpTo0(f)
           witness == [n \in 0..0 |-> 0]
<1>1. Len(word) = 0
  OBVIOUS
<1>2. Value(word) = upTo[Len(word)]
  BY DEF Value
<1> HIDE DEF word
<1>3. UpTo0(witness)
  BY <1>1
<1>4. UpTo0(upTo)
  <2> HIDE DEF UpTo0, witness
  <2>. QED BY <1>3
<1> HIDE DEF upTo
<1>5. upTo[0] = 0
  BY <1>1, <1>4
<1>. QED BY <1>1, <1>2, <1>5 DEF word

LEMMA ValueOfOne ==
  ASSUME NEW a \in Nat
  PROVE  Value(<<a>>) = a
<1> DEFINE word == <<a>>
           UpTo1(f) == f = [n \in 0..Len(word) |-> IF n = 0 THEN 0 ELSE 256 * f[n - 1] + word[n]]
           upTo == CHOOSE f : UpTo1(f)
           witness == [n \in 0..1 |-> IF n = 0 THEN 0 ELSE a]
<1>1. Len(word) = 1 /\ word[1] = a
  OBVIOUS
<1>2. Value(word) = upTo[Len(word)]
  BY DEF Value
<1> HIDE DEF word
<1>3. UpTo1(witness)
  <2>1. \A n \in 0..1 : witness[n] = IF n = 0 THEN 0 ELSE 256 * witness[n - 1] + word[n]
    <3>1. witness[0] = 0 /\ witness[1] = a
      OBVIOUS
    <3>2. witness[1] = 256 * witness[1 - 1] + word[1]
      BY <1>1, <3>1
    <3>. QED BY <3>1, <3>2
  <2>. QED BY <1>1, <2>1
<1>4. UpTo1(upTo)
  <2> HIDE DEF UpTo1, witness
  <2>. QED BY <1>3
<1> HIDE DEF upTo
<1>5. /\ upTo[0] = 0
      /\ upTo[1] = 256 * upTo[1 - 1] + word[1]
  BY <1>1, <1>4
<1>6. upTo[1] = a
  BY <1>1, <1>5
<1>. QED BY <1>1, <1>2, <1>6 DEF word

LEMMA ValueOfTwo ==
  ASSUME NEW a \in Nat, NEW b \in Nat
  PROVE  Value(<<a, b>>) = 256 * a + b
<1> DEFINE word == <<a, b>>
           UpTo2(f) == f = [n \in 0..Len(word) |-> IF n = 0 THEN 0 ELSE 256 * f[n - 1] + word[n]]
           upTo == CHOOSE f : UpTo2(f)
           witness == [n \in 0..2 |-> IF n = 0 THEN 0 ELSE IF n = 1 THEN a ELSE 256 * a + b]
<1>1. Len(word) = 2 /\ word[1] = a /\ word[2] = b
  OBVIOUS
<1>2. Value(word) = upTo[Len(word)]
  BY DEF Value
<1> HIDE DEF word
<1>3. UpTo2(witness)
  <2>1. \A n \in 0..2 : witness[n] = IF n = 0 THEN 0 ELSE 256 * witness[n - 1] + word[n]
    <3>1. witness[0] = 0 /\ witness[1] = a /\ witness[2] = 256 * a + b
      OBVIOUS
    <3>2. witness[1] = 256 * witness[1 - 1] + word[1] /\ witness[2] = 256 * witness[2 - 1] + word[2]
      BY <1>1, <3>1
    <3>. QED BY <3>1, <3>2
  <2>. QED BY <1>1, <2>1
<1>4. UpTo2(upTo)
  <2> HIDE DEF UpTo2, witness
  <2>. QED BY <1>3
<1> HIDE DEF upTo
<1>5. /\ upTo[0] = 0
      /\ upTo[1] = 256 * upTo[1 - 1] + word[1]
      /\ upTo[2] = 256 * upTo[2 - 1] + word[2]
  BY <1>1, <1>4
<1>6. upTo[2] = 256 * a + b
  BY <1>1, <1>5
<1>. QED BY <1>1, <1>2, <1>6 DEF word

\* The three forms of an integer: in the first byte, after a prefix that says how
\* wide it is, and beyond 64 bits as a string of 16 bytes.
Prefixed(prefix, bytes) == <<prefix>> \o bytes
Among(before, bytes, after) == before \o bytes \o after

InFirstByte(word, bytes) == \E b \in Nat : b <= 23 /\ bytes = <<b>> /\ word = Word(<<b>>)
AfterPrefix(word, bytes) ==
  \E i \in 1..4 :
    LET width == <<1, 2, 4, 8>>[i]
    IN  Len(word) <= width /\ Shortest(word, width) /\ bytes = Prefixed(23 + i, Padded(word, width))
AsString(word, bytes) == Len(word) \in 9..16 /\ bytes = Prefixed(80, Padded(word, 16))

LEMMA Widths ==
  /\ <<1, 2, 4, 8>>[1] = 1 /\ <<1, 2, 4, 8>>[2] = 2 /\ <<1, 2, 4, 8>>[3] = 4 /\ <<1, 2, 4, 8>>[4] = 8
OBVIOUS

LEMMA Encoded ==
  ASSUME NEW word, Canonical(word), Len(word) <= 16
  PROVE  LET bytes == encodeUint(word)
         IN  InFirstByte(word, bytes) \/ AfterPrefix(word, bytes) \/ AsString(word, bytes)
<1> DEFINE n == Len(word)
           bytes == encodeUint(word)
<1>1. word \in Seq(Nat) /\ n \in Nat /\ n <= 16
  BY DEF Canonical
<1>2. word = << >> <=> n = 0
  BY <1>1
<1>3. n >= 1 => word[1] \in Nat /\ word[1] # 0
  BY <1>1, <1>2 DEF Canonical
<1>4. n = 1 => word = <<word[1]>>
  BY <1>1
<1>5. \A width \in Nat : n <= width =>
        /\ Padded(word, width) \in Seq(Nat) /\ Len(Padded(word, width)) = width
        /\ Word(Padded(word, width)) = word
        /\ width = n => Padded(word, width) = word
  BY <1>1, PaddedWord
<1>6. bytes = IF n = 0 \/ (n = 1 /\ word[1] < 24) THEN Padded(word, 1)
              ELSE IF n <= 2 THEN <<23 + n>> \o word
              ELSE IF n <= 4 THEN <<26>> \o Padded(word, 4)
              ELSE IF n <= 8 THEN <<27>> \o Padded(word, 8)
              ELSE IF n <= 16 THEN <<80>> \o Padded(word, 16)
              ELSE <<88>> \o Padded(<<32>>, 32) \o Padded(word, 32)
  BY DEF encodeUint
<1>7. /\ Shortest(word, 1) <=> word # << >> /\ (n > 1 \/ word[1] >= 24)
      /\ Shortest(word, 2) <=> n > 1
      /\ Shortest(word, 4) <=> n > 2
      /\ Shortest(word, 8) <=> n > 4
  BY DEF Shortest
<1> SUFFICES InFirstByte(word, bytes) \/ AfterPrefix(word, bytes) \/ AsString(word, bytes)
  OBVIOUS
<1> HIDE DEF n, bytes
<1>8. ASSUME NEW i \in 1..4, n <= <<1, 2, 4, 8>>[i], Shortest(word, <<1, 2, 4, 8>>[i]),
             bytes = <<23 + i>> \o Padded(word, <<1, 2, 4, 8>>[i])
      PROVE  AfterPrefix(word, bytes)
  BY <1>8 DEF AfterPrefix, n, Prefixed
<1>9. CASE n = 0
  <2>1. bytes = Padded(word, 1)
    BY <1>2, <1>6, <1>9
  <2>2. Padded(word, 1) \in Seq(Nat) /\ Len(Padded(word, 1)) = 1 /\ Word(Padded(word, 1)) = word
    <3>1. 1 \in Nat /\ n <= 1
      BY <1>9
    <3>. QED BY <1>5, <3>1
  <2>3. Padded(word, 1)[1] = 0
    <3>1. /\ Filled(1, 0) \in Seq(Nat) /\ Len(Filled(1, 0)) = 1
          /\ \A i \in 1..1 : Filled(1, 0)[i] = 0
      BY FilledBytes
    <3>2. (Filled(1, 0) \o word)[1] = Filled(1, 0)[1]
      BY <1>1, <3>1, Joined
    <3>3. Padded(word, 1) = Filled(1, 0) \o word
      BY <1>9 DEF Padded, n
    <3>. QED BY <3>1, <3>2, <3>3
  <2>4. Padded(word, 1) = <<0>>
    <3>1. <<0>> \in Seq(Nat) /\ Len(<<0>>) = 1 /\ <<0>>[1] = 0
      OBVIOUS
    <3>. QED BY <2>2, <2>3, <3>1, SameBytes
  <2>5. 0 \in Nat /\ 0 <= 23 /\ bytes = <<0>> /\ word = Word(<<0>>)
    BY <2>1, <2>2, <2>4
  <2>. QED BY <2>5 DEF InFirstByte
<1>10. CASE n = 1 /\ word[1] < 24
  <2>1. bytes = Padded(word, 1)
    BY <1>6, <1>10
  <2>2. Padded(word, 1) = word /\ Word(word) = word
    BY <1>5, <1>10, WordOfWord
  <2>3. word[1] \in Nat /\ word[1] <= 23
    <3>1. PICK b \in Nat : b = word[1]
      BY <1>3, <1>10
    <3>2. b <= 23
      BY <1>10, <3>1
    <3>. QED BY <3>1, <3>2
  <2>. QED BY <1>4, <1>10, <2>1, <2>2, <2>3 DEF InFirstByte
<1>11. CASE n = 1 /\ ~ (word[1] < 24)
  <2>1. word[1] \in Nat /\ word[1] >= 24 /\ word # << >>
    BY <1>2, <1>3, <1>11
  <2>2. bytes = <<24>> \o word
    <3>1. 23 + n = 24 /\ n <= 2 /\ n # 0
      BY <1>11
    <3>. QED BY <1>6, <1>11, <3>1
  <2>3. Padded(word, 1) = word
    BY <1>5, <1>11
  <2>4. Shortest(word, 1)
    BY <1>7, <2>1
  <2>. QED BY <1>8, <1>11, <2>2, <2>3, <2>4, Widths, SMTT(30)
<1>12. CASE n = 2
  <2>1. word # << >>
    BY <1>2, <1>12
  <2>2. bytes = <<25>> \o word
    <3>1. 23 + n = 25 /\ n <= 2 /\ n # 0 /\ n # 1
      BY <1>12
    <3>. QED BY <1>6, <3>1
  <2>3. Padded(word, 2) = word
    BY <1>5, <1>12
  <2>4. Shortest(word, 2)
    BY <1>7, <1>12
  <2>. QED BY <1>8, <1>12, <2>2, <2>3, <2>4, Widths
<1>13. CASE n \in 3..4
  <2>1. word # << >> /\ n # 1 /\ n # 2
    BY <1>2, <1>13
  <2>2. bytes = <<26>> \o Padded(word, 4)
    BY <1>6, <1>13, <2>1
  <2>3. Shortest(word, 4) /\ n <= 4
    BY <1>7, <1>13
  <2>. QED BY <1>8, <2>2, <2>3, Widths
<1>14. CASE n \in 5..8
  <2>1. word # << >> /\ n # 1 /\ n # 2 /\ n \notin 3..4
    BY <1>2, <1>14
  <2>2. bytes = <<27>> \o Padded(word, 8)
    BY <1>6, <1>14, <2>1
  <2>3. Shortest(word, 8) /\ n <= 8
    BY <1>7, <1>14
  <2>. QED BY <1>8, <2>2, <2>3, Widths
<1>15. CASE n \in 9..16
  <2>1. word # << >> /\ n # 1 /\ n # 2 /\ n \notin 3..4 /\ n \notin 5..8
    BY <1>2, <1>15
  <2>2. bytes = <<80>> \o Padded(word, 16)
    BY <1>6, <1>15, <2>1
  <2>. QED BY <1>15, <2>2 DEF AsString, n, Prefixed
<1>16. n = 0 \/ n = 1 \/ n = 2 \/ n \in 3..4 \/ n \in 5..8 \/ n \in 9..16
  BY <1>1
<1>. QED BY <1>9, <1>10, <1>11, <1>12, <1>13, <1>14, <1>15, <1>16

\* A prefix and what follows it.
LEMMA ByteBefore ==
  ASSUME NEW x \in Nat, NEW s \in Seq(Nat)
  PROVE  LET all == <<x>> \o s
         IN  /\ all \in Seq(Nat) /\ Len(all) = Len(s) + 1 /\ all[1] = x
             /\ \A k \in 1..Len(s) : all[1 + k] = s[k]
             /\ Slice(all, 1, Len(s)) = s
<1> DEFINE t == <<x>>
           all == t \o s
           slice == SubSeq(all, 1 + 1, 1 + Len(s))
<1>1. t \in Seq(Nat) /\ Len(t) = 1 /\ t[1] = x
  OBVIOUS
<1> HIDE DEF t
<1>2. /\ all \in Seq(Nat) /\ Len(all) = Len(s) + 1 /\ all[1] = x /\ Len(s) \in Nat
      /\ \A k \in 1..Len(s) : all[1 + k] = s[k]
  <2>1. /\ all \in Seq(Nat) /\ Len(all) = Len(t) + Len(s) /\ Len(s) \in Nat
        /\ \A i \in 1..Len(t) : all[i] = t[i]
        /\ \A i \in 1..Len(s) : all[Len(t) + i] = s[i]
    BY <1>1, Joined
  <2> HIDE DEF all
  <2>2. 1 \in 1..Len(t)
    BY <1>1
  <2>. QED BY <1>1, <2>1, <2>2
<1> HIDE DEF all
<1>3. /\ slice \in Seq(Nat) /\ Len(slice) = Len(s)
      /\ \A i \in 1..Len(s) : slice[i] = all[1 + i]
  BY <1>2, PartOf
<1> HIDE DEF slice
<1>4. slice = s
  BY <1>2, <1>3, SameBytes
<1>. QED BY <1>2, <1>4 DEF Slice, slice, all, t

\* parseUint reads a word of fixed width after its prefix, among other bytes.
LEMMA ParsedAfter ==
  ASSUME NEW before \in Seq(Nat), NEW after \in Seq(Nat), NEW prefix \in Nat,
         NEW word, Canonical(word), NEW n \in Nat, n <= 32, Len(word) <= n
  PROVE  LET item == Prefixed(prefix, Padded(word, n))
             data == Among(before, item, after)
         IN  /\ item \in Seq(Nat) /\ Len(item) = n + 1
             /\ Len(before) < Len(data) /\ data[Len(before) + 1] = prefix
             /\ parseWord(data, Len(before) + 1, n) = Parsed(Len(before) + 1 + n, word)
<1> DEFINE padded == Padded(word, n)
           item == Prefixed(prefix, padded)
           data == before \o item \o after
           offset == Len(before)
<1>1. padded \in Seq(Nat) /\ Len(padded) = n /\ Word(padded) = word
  BY PaddedWord
<1>2. /\ item \in Seq(Nat) /\ Len(item) = n + 1 /\ item[1] = prefix
      /\ \A k \in 1..n : item[1 + k] = padded[k]
  <2>1. item = <<prefix>> \o padded
    BY DEF Prefixed
  <2> HIDE DEF padded
  <2>2. LET all == <<prefix>> \o padded
        IN  /\ all \in Seq(Nat) /\ Len(all) = Len(padded) + 1 /\ all[1] = prefix
            /\ \A k \in 1..Len(padded) : all[1 + k] = padded[k]
    BY <1>1, ByteBefore
  <2>. QED BY <1>1, <2>1, <2>2
<1> HIDE DEF padded, item
<1>3. /\ data \in Seq(Nat) /\ Len(data) = offset + (n + 1) + Len(after)
      /\ \A i \in 1..(n + 1) : data[offset + i] = item[i]
      /\ offset \in Nat /\ Len(after) \in Nat
  <2>1. /\ data \in Seq(Nat) /\ Len(data) = offset + Len(item) + Len(after)
        /\ \A i \in 1..Len(item) : data[offset + i] = item[i]
    BY <1>2, PartBetween
  <2>2. offset \in Nat /\ Len(after) \in Nat
    OBVIOUS
  <2> HIDE DEF data, offset
  <2>. QED BY <1>2, <2>1, <2>2
<1> HIDE DEF data, offset
<1>4. offset < Len(data) /\ data[offset + 1] = prefix
  BY <1>2, <1>3
<1>5. Slice(data, offset + 1, n) = padded
  <2> DEFINE slice == SubSeq(data, offset + 1 + 1, offset + 1 + n)
  <2>1. /\ slice \in Seq(Nat) /\ Len(slice) = n
        /\ \A i \in 1..n : slice[i] = data[offset + 1 + i]
    <3> DEFINE from == offset + 1
    <3>1. from \in Nat /\ from + n <= Len(data)
      BY <1>3
    <3> HIDE DEF from
    <3>2. /\ SubSeq(data, from + 1, from + n) \in Seq(Nat)
          /\ Len(SubSeq(data, from + 1, from + n)) = n
          /\ \A i \in 1..n : SubSeq(data, from + 1, from + n)[i] = data[from + i]
      BY <1>3, <3>1, PartOf
    <3>. QED BY <3>2 DEF from
  <2>2. \A i \in 1..n : data[offset + 1 + i] = padded[i]
    <3> SUFFICES ASSUME NEW i \in 1..n PROVE data[offset + 1 + i] = padded[i]
      OBVIOUS
    <3>1. 1 + i \in 1..(n + 1) /\ offset + (1 + i) = offset + 1 + i
      BY <1>3
    <3>. QED BY <1>2, <1>3, <3>1
  <2> HIDE DEF slice
  <2>3. slice = padded
    BY <1>1, <2>1, <2>2, SameBytes
  <2>. QED BY <2>3 DEF Slice, slice
<1>6. parseWord(data, offset + 1, n) = Parsed(offset + 1 + n, word)
  <2>1. ~ (n > 32 \/ offset + 1 + n > Len(data))
    BY <1>3
  <2>. QED BY <1>1, <1>5, <2>1 DEF parseWord
<1>. QED BY <1>2, <1>4, <1>6 DEF data, offset, Among, item, padded

\* parseUint reads back what encodeUint writes of up to 128 bits, among other bytes.
LEMMA UintReadsBack ==
  ASSUME NEW word, Canonical(word), Len(word) <= 16, NEW before \in Seq(Nat), NEW after \in Seq(Nat)
  PROVE  LET bytes == before \o encodeUint(word)
         IN  parseUint(bytes \o after, Len(before)) = Parsed(Len(bytes), word)
<1> DEFINE item == encodeUint(word)
           data == before \o item \o after
           offset == Len(before)
<1>0. offset \in Nat
  OBVIOUS
<1> SUFFICES parseUint(data, offset) = Parsed(Len(before \o item), word)
  OBVIOUS
<1>1. InFirstByte(word, item) \/ AfterPrefix(word, item) \/ AsString(word, item)
  BY Encoded
<1> HIDE DEF item
<1>2. item \in Seq(Nat) => /\ data \in Seq(Nat) /\ Len(data) = offset + Len(item) + Len(after)
                           /\ \A i \in 1..Len(item) : data[offset + i] = item[i]
                           /\ Len(before \o item) = offset + Len(item)
                           /\ Len(after) \in Nat
  BY PartBetween, Joined
<1>3. ASSUME NEW prefix \in Nat, NEW n \in Nat, n <= 32, Len(word) <= n,
             item = Prefixed(prefix, Padded(word, n)), prefix > 23, prefix # 88,
             \/ HasBit(prefix, 64) /\ n = prefix - 64
             \/ ~ HasBit(prefix, 64) /\ prefix \in 24..27 /\ n = uintLength(prefix)
      PROVE  parseUint(data, offset) = Parsed(Len(before \o item), word)
  <2>1. /\ offset < Len(data) /\ data[offset + 1] = prefix
        /\ parseWord(data, offset + 1, n) = Parsed(offset + 1 + n, word)
        /\ item \in Seq(Nat) /\ Len(item) = n + 1
    <3>0. n <= 32 /\ Len(word) <= n
      BY <1>3
    <3>1. item = Prefixed(prefix, Padded(word, n))
      BY <1>3
    <3> DEFINE it == Prefixed(prefix, Padded(word, n))
               all == Among(before, it, after)
    <3>2. it \in Seq(Nat) /\ Len(it) = n + 1
      <4>1. it \in Seq(Nat)
        BY <3>0, ParsedAfter
      <4>2. Len(it) = n + 1
        BY <3>0, ParsedAfter
      <4>. QED BY <4>1, <4>2
    <3>5. /\ Len(before) < Len(all) /\ all[Len(before) + 1] = prefix
          /\ parseWord(all, Len(before) + 1, n) = Parsed(Len(before) + 1 + n, word)
      <4>1. Len(before) < Len(all)
        BY <3>0, ParsedAfter
      <4>2. all[Len(before) + 1] = prefix
        BY <3>0, ParsedAfter
      <4>3. parseWord(all, Len(before) + 1, n) = Parsed(Len(before) + 1 + n, word)
        BY <3>0, ParsedAfter
      <4>. QED BY <4>1, <4>2, <4>3
    <3>3. it = item
      BY <3>1
    <3> HIDE DEF it
    <3>4. all = data
      BY <3>3 DEF Among
    <3> HIDE DEF all, data
    <3>. QED BY <3>2, <3>3, <3>4, <3>5
  <2>2. Len(before \o item) = offset + 1 + n
    BY <1>0, <1>2, <2>1
  <2> HIDE DEF data, offset
  <2>3. ~ (offset >= Len(data)) /\ ~ (prefix <= 23)
    <3>1. Len(data) \in Nat
      BY <1>2, <2>1 DEF data, offset
    <3>. QED BY <1>0, <1>3, <2>1, <3>1
  <2>4. parseUint(data, offset) = parseWord(data, offset + 1, n)
    BY <1>3, <2>1, <2>3 DEF parseUint
  <2>. QED BY <2>1, <2>2, <2>4
<1>4. CASE InFirstByte(word, item)
  <2>1. PICK b \in Nat : b <= 23 /\ item = <<b>> /\ word = Word(<<b>>)
    BY <1>4 DEF InFirstByte
  <2>2. item \in Seq(Nat) /\ Len(item) = 1 /\ item[1] = b
    BY <2>1
  <2>3. /\ Len(data) = offset + 1 + Len(after) /\ data[offset + 1] = b
        /\ Len(before \o item) = offset + 1 /\ Len(after) \in Nat
    BY <1>2, <2>2
  <2> HIDE DEF data, offset
  <2>4. ~ (offset >= Len(data)) /\ b <= 23
    BY <1>0, <2>1, <2>3
  <2>5. parseUint(data, offset) = Parsed(offset + 1, Word(<<b>>))
    BY <2>3, <2>4 DEF parseUint
  <2>. QED BY <2>1, <2>3, <2>5
<1>5. CASE AfterPrefix(word, item)
  <2>1. PICK i \in 1..4 : LET width == <<1, 2, 4, 8>>[i] IN
               Len(word) <= width /\ item = Prefixed(23 + i, Padded(word, width))
    BY <1>5 DEF AfterPrefix
  <2>2. <<1, 2, 4, 8>>[i] \in Nat /\ <<1, 2, 4, 8>>[i] <= 32
    BY Widths
  <2>3. uintLength(23 + i) = <<1, 2, 4, 8>>[i]
    <3>1. 23 + i - 23 = i
      OBVIOUS
    <3>. QED BY <3>1 DEF uintLength
  <2>4. /\ 23 + i \in 24..27 /\ ~ HasBit(23 + i, 64) /\ 23 + i \in Nat
        /\ 23 + i > 23 /\ 23 + i # 88
    BY DEF HasBit
  <2> DEFINE width == <<1, 2, 4, 8>>[i]
             prefix == 23 + i
  <2> HIDE DEF data, offset, width, prefix
  <2>. QED BY <1>3, <2>1, <2>2, <2>3, <2>4 DEF width, prefix
<1>6. CASE AsString(word, item)
  <2>1. item = Prefixed(80, Padded(word, 16)) /\ Len(word) <= 16
    BY <1>6 DEF AsString
  <2>2. HasBit(80, 64) /\ 16 = 80 - 64 /\ 80 > 23 /\ 80 # 88 /\ 80 \in Nat /\ 16 \in Nat /\ 16 <= 32
    BY DEF HasBit
  <2> HIDE DEF data, offset
  <2>. QED BY <1>3, <2>1, <2>2
<1>. QED BY <1>1, <1>4, <1>5, <1>6

LEMMA PrefixedBytes ==
  ASSUME NEW x \in Nat, NEW s \in Seq(Nat), NEW all, all = Prefixed(x, s)
  PROVE  /\ all \in Seq(Nat) /\ Len(all) = Len(s) + 1 /\ all[1] = x
         /\ Slice(all, 1, Len(s)) = s
BY ByteBefore DEF Prefixed

\* A head with the number after its first byte.
HeadWidth(i) == <<1, 2, 4, 8>>[i]

\* The integers and the lengths of a run are such.
Encodable ==
  /\ Given("uint") => Canonical(input.word) /\ input.before \in Seq(Nat) /\ input.after \in Seq(Nat)
  /\ Given("length") => input.len \in Nat

LEMMA WordOfIsCanonical ==
  ASSUME NEW first \in Nat, first # 0, NEW len \in Nat, len # 0, NEW rest \in Nat
  PROVE  Canonical(WordOf(first, len, rest)) /\ Len(WordOf(first, len, rest)) = len
<1> DEFINE w == WordOf(first, len, rest)
           tail == Filled(len - 1, rest)
<1>1. tail \in Seq(Nat) /\ Len(tail) = len - 1
  <2>1. len - 1 \in Nat
    OBVIOUS
  <2>. QED BY <2>1, FilledBytes
<1>2. w = Prefixed(first, tail)
  BY DEF WordOf, Prefixed
<1> HIDE DEF tail, w
<1>3. w \in Seq(Nat) /\ Len(w) = Len(tail) + 1 /\ w[1] = first
  BY <1>1, <1>2, PrefixedBytes, ZenonT(30)
<1>4. Canonical(w) /\ Len(w) = len
  BY <1>1, <1>3 DEF Canonical
<1>. QED BY <1>4 DEF w

LEMMA WordsAreCanonical ==
  ASSUME NEW n \in Nat, NEW w \in Words(n)
  PROVE  Canonical(w) /\ Len(w) <= n
<1>1. CASE w = << >>
  BY <1>1, SmallWords DEF Canonical
<1>2. CASE w # << >>
  <2>1. PICK first \in {1, 23, 24, 128, 255}, len \in 1..n, rest \in {0, 255} :
          w = WordOf(first, len, rest)
    BY <1>2 DEF Words
  <2>2. /\ first \in Nat /\ first # 0 /\ len \in Nat /\ len # 0 /\ len <= n /\ rest \in Nat
    OBVIOUS
  <2>3. Canonical(WordOf(first, len, rest)) /\ Len(WordOf(first, len, rest)) = len
    BY <2>2, WordOfIsCanonical
  <2>. QED BY <2>1, <2>2, <2>3
<1>. QED BY <1>1, <1>2

-----------------------------------------------------------------------------
(***************************************************************************)
(* Receipts of every integer, whole and cut short.                         *)
(***************************************************************************)

\* Part stands in data at an offset; or data ends within it.
Holds(data, offset, part) ==
  /\ offset + Len(part) <= Len(data)
  /\ \A i \in 1..Len(part) : data[offset + i] = part[i]
Cut(data, offset, part) ==
  /\ offset <= Len(data) /\ Len(data) < offset + Len(part)
  /\ \A i \in 1..(Len(data) - offset) : data[offset + i] = part[i]

\* What is left of a part when data is cut short.
LEMMA CutShort ==
  ASSUME NEW data \in Seq(Nat), NEW n \in 0..Len(data), NEW offset \in Nat, NEW part \in Seq(Nat),
         Holds(data, offset, part)
  PROVE  LET short == SubSeq(data, 1, n)
         IN  /\ short \in Seq(Nat) /\ Len(short) = n
             /\ offset + Len(part) <= n => Holds(short, offset, part)
             /\ offset <= n /\ n < offset + Len(part) => Cut(short, offset, part)
<1> DEFINE short == SubSeq(data, 1, n)
<1>1. n \in Nat /\ Len(data) \in Nat /\ Len(part) \in Nat /\ n <= Len(data)
  OBVIOUS
<1>2. short \in Seq(Nat) /\ Len(short) = n /\ \A i \in 1..n : short[i] = data[i]
  <2>1. 0 + n <= Len(data) /\ 0 \in Nat
    BY <1>1
  <2>2. /\ SubSeq(data, 0 + 1, 0 + n) \in Seq(Nat) /\ Len(SubSeq(data, 0 + 1, 0 + n)) = n
        /\ \A i \in 1..n : SubSeq(data, 0 + 1, 0 + n)[i] = data[0 + i]
    BY <1>1, <2>1, PartOf
  <2>3. 0 + 1 = 1 /\ 0 + n = n /\ \A i \in 1..n : 0 + i = i
    BY <1>1
  <2>. QED BY <2>2, <2>3
<1> HIDE DEF short
<1>3. ASSUME offset + Len(part) <= n
      PROVE  Holds(short, offset, part)
  <2>1. ASSUME NEW i \in 1..Len(part) PROVE short[offset + i] = part[i]
    <3>1. offset + i \in 1..n
      BY <1>1, <1>3
    <3>. QED BY <1>2, <3>1 DEF Holds
  <2>. QED BY <1>2, <1>3, <2>1 DEF Holds
<1>4. ASSUME offset <= n, n < offset + Len(part)
      PROVE  Cut(short, offset, part)
  <2>1. ASSUME NEW i \in 1..(n - offset) PROVE short[offset + i] = part[i]
    <3>1. offset + i \in 1..n /\ i \in 1..Len(part)
      BY <1>1, <1>4
    <3>. QED BY <1>2, <3>1 DEF Holds
  <2>. QED BY <1>2, <1>4, <2>1 DEF Cut
<1>. QED BY <1>2, <1>3, <1>4 DEF short

\* The parts of a concatenation stand in it, and so do those of its parts.
LEMMA HoldsBoth ==
  ASSUME NEW s \in Seq(Nat), NEW t \in Seq(Nat)
  PROVE  Holds(s \o t, 0, s) /\ Holds(s \o t, Len(s), t)
<1> DEFINE all == s \o t
<1>1. /\ all \in Seq(Nat) /\ Len(all) = Len(s) + Len(t) /\ Len(s) \in Nat /\ Len(t) \in Nat
      /\ \A i \in 1..Len(s) : all[i] = s[i]
      /\ \A i \in 1..Len(t) : all[Len(s) + i] = t[i]
  BY Joined
<1> HIDE DEF all
<1>2. 0 + Len(s) <= Len(all) /\ \A i \in 1..Len(s) : all[0 + i] = s[i]
  <2>1. \A i \in 1..Len(s) : 0 + i = i
    BY <1>1
  <2>. QED BY <1>1, <2>1
<1>. QED BY <1>1, <1>2 DEF Holds, all

LEMMA HoldsWithin ==
  ASSUME NEW data \in Seq(Nat), NEW offset \in Nat, NEW part \in Seq(Nat), Holds(data, offset, part),
         NEW within \in Nat, NEW inner \in Seq(Nat), Holds(part, within, inner)
  PROVE  Holds(data, offset + within, inner)
<1>1. Len(data) \in Nat /\ Len(part) \in Nat /\ Len(inner) \in Nat
  OBVIOUS
<1>2. offset + Len(part) <= Len(data) /\ within + Len(inner) <= Len(part)
  BY DEF Holds
<1>3. ASSUME NEW i \in 1..Len(inner) PROVE data[offset + within + i] = inner[i]
  <2>1. within + i \in 1..Len(part) /\ offset + (within + i) = offset + within + i
    BY <1>1, <1>2
  <2>2. data[offset + (within + i)] = part[within + i] /\ part[within + i] = inner[i]
    BY <2>1 DEF Holds
  <2>. QED BY <2>1, <2>2
<1>4. offset + within + Len(inner) <= Len(data)
  BY <1>1, <1>2
<1>. QED BY <1>3, <1>4 DEF Holds

\* An integer as the runtime writes it: in the first byte, or after a prefix that tells
\* its width.
Announces(prefix, n) == (prefix \in 24..27 /\ n = uintLength(prefix)) \/ prefix = 64 + n
Integer(form, word) ==
  \/ InFirstByte(word, form)
  \/ \E prefix, n \in Nat : /\ n <= 16 /\ Len(word) <= n /\ Announces(prefix, n)
                            /\ form = Prefixed(prefix, Padded(word, n))

LEMMA PrefixTells ==
  ASSUME NEW prefix \in Nat, NEW n \in Nat, n <= 16, Announces(prefix, n)
  PROVE  /\ prefix > 23 /\ prefix <= 80 /\ prefix # 88
         /\ HasBit(prefix, 64) => n = prefix - 64
         /\ ~ HasBit(prefix, 64) => prefix \in 24..27 /\ n = uintLength(prefix)
<1>1. CASE prefix \in 24..27 /\ n = uintLength(prefix)
  <2>1. prefix > 23 /\ prefix <= 80 /\ prefix # 88 /\ ~ HasBit(prefix, 64)
    BY <1>1 DEF HasBit
  <2>. QED BY <1>1, <2>1
<1>2. CASE prefix = 64 + n
  <2>1. prefix > 23 /\ prefix <= 80 /\ prefix # 88 /\ HasBit(prefix, 64) /\ n = prefix - 64
    BY <1>2 DEF HasBit
  <2>. QED BY <2>1
<1>. QED BY <1>1, <1>2 DEF Announces

\* parseUint reads it wherever it stands, and not if it is cut short.
LEMMA IntegerRead ==
  ASSUME NEW form, NEW word, Canonical(word), Integer(form, word), NEW data \in Seq(Nat), NEW offset \in Nat
  PROVE  /\ form \in Seq(Nat) /\ Len(form) >= 1 /\ form[1] <= 80
         /\ Holds(data, offset, form) => parseUint(data, offset) = Parsed(offset + Len(form), word)
         /\ Cut(data, offset, form) => parseUint(data, offset) = Reverted
<1>0. Len(data) \in Nat
  OBVIOUS
<1>1. CASE InFirstByte(word, form)
  <2>1. PICK b \in Nat : b <= 23 /\ form = <<b>> /\ word = Word(<<b>>)
    BY <1>1 DEF InFirstByte
  <2>2. form \in Seq(Nat) /\ Len(form) = 1 /\ form[1] = b /\ b <= 23 /\ word = Word(<<b>>)
    BY <2>1
  <2>3. ASSUME Holds(data, offset, form)
        PROVE  parseUint(data, offset) = Parsed(offset + Len(form), word)
    <3>1. ~ (offset >= Len(data)) /\ data[offset + 1] = b
      BY <1>0, <2>2, <2>3 DEF Holds
    <3>. QED BY <2>2, <3>1 DEF parseUint
  <2>4. ASSUME Cut(data, offset, form)
        PROVE  parseUint(data, offset) = Reverted
    <3>1. offset >= Len(data)
      BY <1>0, <2>2, <2>4 DEF Cut
    <3>. QED BY <3>1 DEF parseUint
  <2>. QED BY <2>2, <2>3, <2>4
<1>2. CASE ~ InFirstByte(word, form)
  <2>1. PICK prefix \in Nat, n \in Nat : /\ n <= 16 /\ Len(word) <= n /\ Announces(prefix, n)
                                         /\ form = Prefixed(prefix, Padded(word, n))
    BY <1>2 DEF Integer
  <2> DEFINE padded == Padded(word, n)
  <2>2. padded \in Seq(Nat) /\ Len(padded) = n /\ Word(padded) = word
    BY <2>1, PaddedWord
  <2>3. form = Prefixed(prefix, padded)
    BY <2>1
  <2> HIDE DEF padded
  <2>4. form \in Seq(Nat) /\ Len(form) = n + 1 /\ form[1] = prefix
    BY <2>2, <2>3, PrefixedBytes
  <2>5. \A i \in 1..n : form[1 + i] = padded[i]
    <3> DEFINE first == <<prefix>>
    <3>1. first \in Seq(Nat) /\ Len(first) = 1
      OBVIOUS
    <3>2. form = first \o padded
      BY <2>3 DEF Prefixed
    <3> HIDE DEF first
    <3>3. \A i \in 1..Len(padded) : (first \o padded)[Len(first) + i] = padded[i]
      BY <2>2, <3>1, Joined
    <3>. QED BY <2>2, <3>1, <3>2, <3>3
  <2>6. /\ prefix > 23 /\ prefix <= 80 /\ prefix # 88
        /\ HasBit(prefix, 64) => n = prefix - 64
        /\ ~ HasBit(prefix, 64) => prefix \in 24..27 /\ n = uintLength(prefix)
    <3>1. n <= 16 /\ Announces(prefix, n)
      BY <2>1
    <3>. QED BY <3>1, PrefixTells
  <2>7. ASSUME offset < Len(data), data[offset + 1] = prefix
        PROVE  parseUint(data, offset) = parseWord(data, offset + 1, n)
    <3>1. ~ (offset >= Len(data)) /\ ~ (prefix <= 23)
      BY <1>0, <2>6, <2>7
    <3>. QED BY <2>6, <2>7, <3>1 DEF parseUint
  <2>8. ASSUME Holds(data, offset, form)
        PROVE  parseUint(data, offset) = Parsed(offset + Len(form), word)
    <3>1. offset + 1 + n <= Len(data) /\ offset < Len(data) /\ data[offset + 1] = prefix
      BY <1>0, <2>4, <2>8 DEF Holds
    <3> DEFINE from == offset + 1
               slice == SubSeq(data, from + 1, from + n)
    <3>2. from \in Nat /\ from + n <= Len(data)
      BY <3>1
    <3> HIDE DEF from
    <3>3. slice \in Seq(Nat) /\ Len(slice) = n /\ \A i \in 1..n : slice[i] = data[from + i]
      BY <3>2, PartOf
    <3> HIDE DEF slice
    <3>4. \A i \in 1..n : data[from + i] = padded[i]
      <4> SUFFICES ASSUME NEW i \in 1..n PROVE data[from + i] = padded[i]
        OBVIOUS
      <4>1. 1 + i \in 1..Len(form) /\ offset + (1 + i) = from + i
        BY <2>4 DEF from
      <4>2. data[offset + (1 + i)] = form[1 + i]
        BY <2>8, <4>1 DEF Holds
      <4>. QED BY <2>5, <4>1, <4>2
    <3>5. slice = padded
      BY <2>2, <3>3, <3>4, SameBytes
    <3>6. parseWord(data, from, n) = Parsed(from + n, word)
      <4>1. ~ (n > 32 \/ from + n > Len(data))
        BY <1>0, <2>1, <3>2
      <4>2. Slice(data, from, n) = padded
        BY <3>5 DEF slice, Slice
      <4>. QED BY <2>2, <4>1, <4>2 DEF parseWord
    <3>7. from + n = offset + Len(form)
      BY <2>4 DEF from
    <3>. QED BY <2>7, <3>1, <3>6, <3>7 DEF from
  <2>9. ASSUME Cut(data, offset, form)
        PROVE  parseUint(data, offset) = Reverted
    <3>1. CASE offset >= Len(data)
      BY <3>1 DEF parseUint
    <3>2. CASE ~ (offset >= Len(data))
      <4>1. offset < Len(data) /\ offset + 1 + n > Len(data)
        BY <1>0, <2>4, <2>9, <3>2 DEF Cut
      <4>2. data[offset + 1] = prefix
        <5>1. 1 \in 1..(Len(data) - offset)
          BY <1>0, <4>1
        <5>. QED BY <2>4, <2>9, <5>1 DEF Cut
      <4>3. parseWord(data, offset + 1, n) = Reverted
        BY <4>1 DEF parseWord
      <4>. QED BY <2>7, <4>1, <4>2, <4>3
    <3>. QED BY <3>1, <3>2
  <2>. QED BY <2>4, <2>6, <2>8, <2>9
<1>. QED BY <1>1, <1>2

\* So are the forms of a run.
LEMMA FormsAreIntegers ==
  ASSUME NEW word, Canonical(word), NEW width \in Nat, width <= 16, Len(word) <= width,
         NEW form \in Forms(word, width)
  PROVE  Integer(form, word)
<1>0. Len(word) \in Nat
  BY DEF Canonical
<1>1. CASE Len(word) <= 8 /\ form = encodeUint(word)
  <2>1. InFirstByte(word, form) \/ AfterPrefix(word, form)
    <3>1. InFirstByte(word, form) \/ AfterPrefix(word, form) \/ AsString(word, form)
      BY <1>0, <1>1, Encoded
    <3>2. ~ AsString(word, form)
      <4> DEFINE n == Len(word)
      <4>1. n <= 8 /\ n \in Nat
        BY <1>0, <1>1
      <4> HIDE DEF n
      <4>2. n \notin 9..16
        BY <4>1
      <4>. QED BY <4>2 DEF n, AsString
    <3>. QED BY <3>1, <3>2
  <2>2. ASSUME AfterPrefix(word, form)
        PROVE  \E prefix, n \in Nat : /\ n <= 16 /\ Len(word) <= n /\ Announces(prefix, n)
                                      /\ form = Prefixed(prefix, Padded(word, n))
    <3>1. PICK i \in 1..4 : Len(word) <= HeadWidth(i)
                            /\ form = Prefixed(23 + i, Padded(word, HeadWidth(i)))
      BY <2>2 DEF AfterPrefix, HeadWidth
    <3>2. HeadWidth(i) \in Nat /\ HeadWidth(i) <= 16
      BY Widths DEF HeadWidth
    <3>3. 23 + i \in 24..27 /\ 23 + i \in Nat
      OBVIOUS
    <3>4. uintLength(23 + i) = HeadWidth(i)
      <4>1. 23 + i - 23 = i
        OBVIOUS
      <4>. QED BY <4>1 DEF uintLength, HeadWidth
    <3>. QED BY <3>1, <3>2, <3>3, <3>4 DEF Announces
  <2>. QED BY <2>1, <2>2 DEF Integer
<1>2. CASE \E n \in {Len(word), width} : form = <<64 + n>> \o Padded(word, n)
  <2>1. PICK n \in {Len(word), width} : form = Prefixed(64 + n, Padded(word, n))
    BY <1>2 DEF Prefixed
  <2>2. n \in Nat /\ n <= 16 /\ Len(word) <= n /\ 64 + n \in Nat
    BY <1>0
  <2>. QED BY <2>1, <2>2 DEF Integer, Announces
<1>3. \/ Len(word) <= 8 /\ form = encodeUint(word)
      \/ \E n \in {Len(word), width} : form = <<64 + n>> \o Padded(word, n)
  <2>1. \/ form \in (IF Len(word) <= 8 THEN {encodeUint(word)} ELSE {})
        \/ form \in {<<64 + n>> \o Padded(word, n) : n \in {Len(word), width}}
    BY DEF Forms
  <2>. QED BY <2>1
<1>. QED BY <1>1, <1>2, <1>3

LEMMA ReadsBoth ==
  ASSUME NEW s \in Seq(Nat), NEW t \in Seq(Nat), NEW all, all = s \o t
  PROVE  /\ all \in Seq(Nat) /\ Len(all) = Len(s) + Len(t)
         /\ \A i \in 1..Len(s) : all[i] = s[i]
         /\ \A i \in 1..Len(t) : all[Len(s) + i] = t[i]
BY Joined

\* What is read at the end of data: beyond it, whatever memory holds.
ReadFrom(data, from, len) == Slice(data \o Filled(len, Beyond), from, len)
Reads(data, from, len, read) ==
  /\ read \in Seq(Nat) /\ Len(read) = len
  /\ \A i \in 1..len : read[i] = IF from + i <= Len(data) THEN data[from + i] ELSE 255

LEMMA ReadBeyond ==
  ASSUME NEW data \in Seq(Nat), NEW from \in Nat, from <= Len(data), NEW len \in Nat
  PROVE  Reads(data, from, len, ReadFrom(data, from, len))
<1> DEFINE beyond == Filled(len, Beyond)
           all == data \o beyond
           key == SubSeq(all, from + 1, from + len)
<1>0. ReadFrom(data, from, len) = key
  BY DEF ReadFrom, Slice
<1>1. Len(data) \in Nat
  OBVIOUS
<1>2. beyond \in Seq(Nat) /\ Len(beyond) = len /\ \A i \in 1..len : beyond[i] = 255
  <2>1. Beyond \in Nat /\ Beyond = 255
    BY DEF Beyond
  <2>. QED BY <2>1, FilledBytes
<1> HIDE DEF beyond
<1>3. /\ all \in Seq(Nat) /\ Len(all) = Len(data) + len
      /\ \A i \in 1..Len(data) : all[i] = data[i]
      /\ \A i \in 1..len : all[Len(data) + i] = 255
  <2>1. beyond \in Seq(Nat)
    BY <1>2
  <2>2. /\ all \in Seq(Nat) /\ Len(all) = Len(data) + Len(beyond)
        /\ \A i \in 1..Len(data) : all[i] = data[i]
        /\ \A i \in 1..Len(beyond) : all[Len(data) + i] = beyond[i]
    BY <2>1, ReadsBoth
  <2> HIDE DEF all
  <2>3. Len(beyond) = len /\ \A i \in 1..len : beyond[i] = 255
    BY <1>2
  <2>4. Len(all) = Len(data) + len
    BY <2>2, <2>3
  <2>5. ASSUME NEW i \in 1..len PROVE all[Len(data) + i] = 255
    <3>1. all[Len(data) + i] = beyond[i]
      BY <2>2, <2>3
    <3>2. beyond[i] = 255
      BY <2>3
    <3>. QED BY <3>1, <3>2
  <2>. QED BY <2>2, <2>4, <2>5
<1> HIDE DEF all
<1>4. key \in Seq(Nat) /\ Len(key) = len /\ \A i \in 1..len : key[i] = all[from + i]
  <2>1. from + len <= Len(all)
    BY <1>1, <1>3
  <2>. QED BY <1>3, <2>1, PartOf
<1> HIDE DEF key
<1>5. ASSUME NEW i \in 1..len
      PROVE  key[i] = IF from + i <= Len(data) THEN data[from + i] ELSE 255
  <2>1. CASE from + i <= Len(data)
    <3>1. from + i \in 1..Len(data)
      BY <1>1, <2>1
    <3>2. all[from + i] = data[from + i]
      BY <1>3, <3>1
    <3>3. key[i] = all[from + i]
      BY <1>4
    <3>. QED BY <2>1, <3>2, <3>3
  <2>2. CASE ~ (from + i <= Len(data))
    <3>1. from + i - Len(data) \in 1..len /\ Len(data) + (from + i - Len(data)) = from + i
      BY <1>1, <2>2
    <3>2. all[Len(data) + (from + i - Len(data))] = 255
      BY <1>3, <3>1
    <3>. QED BY <1>4, <2>2, <3>1, <3>2
  <2>. QED BY <2>1, <2>2
<1>. QED BY <1>0, <1>4, <1>5 DEF Reads

\* What parseKey makes of a key's length: as many characters.
LEMMA KeyParsed ==
  ASSUME NEW data \in Seq(Nat), NEW offset \in Nat, offset < Len(data),
         NEW len \in Nat, len <= 31, data[offset + 1] = 96 + len
  PROVE  /\ parseKey(data, offset) = Parsed(offset + 1 + len, ReadFrom(data, offset + 1, len))
         /\ Reads(data, offset + 1, len, ReadFrom(data, offset + 1, len))
<1>1. offset + 1 \in Nat /\ offset + 1 <= Len(data) /\ ~ (offset >= Len(data))
  OBVIOUS
<1>2. HasBit(96 + len, 64) /\ HasBit(96 + len, 32) /\ 96 + len - 96 = len
  BY DEF HasBit
<1>3. parseKey(data, offset) = Parsed(offset + 1 + len, ReadFrom(data, offset + 1, len))
  BY <1>1, <1>2 DEF parseKey, ReadFrom
<1>4. Reads(data, offset + 1, len, ReadFrom(data, offset + 1, len))
  <2> DEFINE from == offset + 1
  <2>1. from \in Nat /\ from <= Len(data)
    BY <1>1
  <2> HIDE DEF from
  <2>2. Reads(data, from, len, ReadFrom(data, from, len))
    BY <2>1, ReadBeyond
  <2>. QED BY <2>2 DEF from
<1>. QED BY <1>3, <1>4

LEMMA TextShape ==
  ASSUME NEW len \in Nat, NEW letter \in Nat
  PROVE  LET text == Text(Key(len, letter))
         IN  /\ text \in Seq(Nat) /\ Len(text) = len + 1 /\ text[1] = 96 + len
             /\ \A i \in 1..len : text[1 + i] = letter
<1> DEFINE key == Key(len, letter)
           text == Text(key)
<1>1. key \in Seq(Nat) /\ Len(key) = len /\ \A i \in 1..len : key[i] = letter
  BY FilledBytes DEF Key
<1> HIDE DEF key
<1> DEFINE first == <<96 + Len(key)>>
<1>2. first \in Seq(Nat) /\ Len(first) = 1 /\ first[1] = 96 + len
  BY <1>1
<1>3. text = first \o key
  BY DEF Text
<1> HIDE DEF first, text
<1>4. /\ text \in Seq(Nat) /\ Len(text) = len + 1
      /\ \A i \in 1..1 : text[i] = first[i]
      /\ \A i \in 1..len : text[1 + i] = letter
  <2>1. /\ text \in Seq(Nat) /\ Len(text) = Len(first) + Len(key)
        /\ \A i \in 1..Len(first) : text[i] = first[i]
        /\ \A i \in 1..Len(key) : text[Len(first) + i] = key[i]
    BY <1>1, <1>2, <1>3, Joined
  <2>2. Len(first) = 1 /\ Len(key) = len /\ Len(text) = len + 1
    BY <1>1, <1>2, <2>1
  <2>3. \A i \in 1..len : text[1 + i] = letter
    BY <1>1, <2>1, <2>2
  <2>. QED BY <2>1, <2>2, <2>3
<1>5. text[1] = 96 + len
  BY <1>2, <1>4
<1>. QED BY <1>4, <1>5 DEF text, key

\* A key is read wherever it stands; one cut short is not taken for any key.
LEMMA KeyRead ==
  ASSUME NEW data \in Seq(Nat), NEW offset \in Nat, NEW len \in Nat, len <= 31, NEW letter \in Nat,
         Holds(data, offset, Text(Key(len, letter)))
  PROVE  parseKey(data, offset) = Parsed(offset + 1 + len, Key(len, letter))
<1> DEFINE text == Text(Key(len, letter))
<1>1. /\ text \in Seq(Nat) /\ Len(text) = len + 1 /\ text[1] = 96 + len
      /\ \A i \in 1..len : text[1 + i] = letter
  BY TextShape
<1>2. Holds(data, offset, text)
  OBVIOUS
<1> HIDE DEF text
<1>3. /\ Len(data) \in Nat /\ offset + 1 + len <= Len(data)
      /\ \A i \in 1..(len + 1) : data[offset + i] = text[i]
  BY <1>1, <1>2 DEF Holds
<1>4. offset < Len(data) /\ data[offset + 1] = 96 + len
  <2>1. 1 \in 1..(len + 1)
    OBVIOUS
  <2>2. data[offset + 1] = text[1]
    BY <1>3, <2>1
  <2>. QED BY <1>1, <1>3, <2>2
<1> DEFINE key == ReadFrom(data, offset + 1, len)
<1>5. /\ parseKey(data, offset) = Parsed(offset + 1 + len, key)
      /\ key \in Seq(Nat) /\ Len(key) = len
      /\ \A i \in 1..len : key[i] = IF offset + 1 + i <= Len(data) THEN data[offset + 1 + i] ELSE 255
  BY <1>4, KeyParsed DEF Reads
<1> HIDE DEF key
<1>6. ASSUME NEW i \in 1..len PROVE key[i] = letter
  <2>1. offset + 1 + i <= Len(data) /\ 1 + i \in 1..(len + 1) /\ offset + 1 + i = offset + (1 + i)
    BY <1>3
  <2>2. data[offset + (1 + i)] = text[1 + i]
    BY <1>3, <2>1
  <2>3. key[i] = data[offset + 1 + i]
    BY <1>5, <2>1
  <2>4. text[1 + i] = letter
    BY <1>1
  <2>. QED BY <2>1, <2>2, <2>3, <2>4
<1>7. key = Key(len, letter)
  <2> DEFINE other == Key(len, letter)
  <2>1. other \in Seq(Nat) /\ Len(other) = len /\ \A i \in 1..len : other[i] = letter
    BY FilledBytes DEF Key
  <2> HIDE DEF other
  <2>2. key = other
    BY <1>5, <1>6, <2>1, SameBytes
  <2>. QED BY <2>2 DEF other
<1>. QED BY <1>5, <1>7

LEMMA KeyCut ==
  ASSUME NEW data \in Seq(Nat), NEW offset \in Nat, NEW len \in Nat, len >= 1, len <= 31, NEW letter \in Nat,
         Cut(data, offset, Text(Key(len, letter)))
  PROVE  \/ offset = Len(data)
         \/ \E key \in Seq(Nat) : /\ parseKey(data, offset) = Parsed(offset + 1 + len, key)
                                  /\ offset + 1 + len > Len(data)
                                  /\ Len(key) >= 1 /\ key[Len(key)] = 255
<1> DEFINE text == Text(Key(len, letter))
<1>1. /\ text \in Seq(Nat) /\ Len(text) = len + 1 /\ text[1] = 96 + len
      /\ \A i \in 1..len : text[1 + i] = letter
  BY TextShape
<1>2. Cut(data, offset, text)
  OBVIOUS
<1> HIDE DEF text
<1>3. /\ Len(data) \in Nat /\ offset <= Len(data) /\ offset + 1 + len > Len(data)
      /\ \A i \in 1..(Len(data) - offset) : data[offset + i] = text[i]
  BY <1>1, <1>2 DEF Cut
<1>4. CASE offset < Len(data)
  <2>1. data[offset + 1] = 96 + len
    <3>1. 1 \in 1..(Len(data) - offset)
      BY <1>3, <1>4
    <3>. QED BY <1>1, <1>3, <3>1
  <2> DEFINE key == ReadFrom(data, offset + 1, len)
  <2>2. /\ parseKey(data, offset) = Parsed(offset + 1 + len, key)
        /\ key \in Seq(Nat) /\ Len(key) = len
        /\ \A i \in 1..len : key[i] = IF offset + 1 + i <= Len(data) THEN data[offset + 1 + i] ELSE 255
    BY <1>4, <2>1, KeyParsed DEF Reads
  <2> HIDE DEF key
  <2>3. len \in 1..len /\ ~ (offset + 1 + len <= Len(data))
    BY <1>3
  <2>4. key[len] = 255
    BY <2>2, <2>3
  <2>. QED BY <1>3, <2>2, <2>4
<1>. QED BY <1>3, <1>4

-----------------------------------------------------------------------------
(***************************************************************************)
(* The pairs of a receipt, found from each offset on.                      *)
(***************************************************************************)

\* What is read ends after it began.
Ahead(parsed, offset) == parsed = Reverted \/ (parsed.newOffset \in Nat /\ parsed.newOffset > offset)

LEMMA KeyAhead ==
  ASSUME NEW data \in Seq(Nat), NEW offset \in Nat
  PROVE  Ahead(parseKey(data, offset), offset)
<1>1. CASE offset >= Len(data)
  BY <1>1 DEF parseKey, Ahead
<1>2. CASE ~ (offset >= Len(data))
  <2> DEFINE prefix == data[offset + 1]
             key == Slice(data \o Filled(prefix - 96, Beyond), offset + 1, prefix - 96)
  <2>1. prefix \in Nat
    BY <1>2
  <2>2. parseKey(data, offset) = IF ~ (HasBit(prefix, 64) /\ HasBit(prefix, 32)) THEN Reverted
                                 ELSE Parsed(offset + 1 + (prefix - 96), key)
    BY <1>2 DEF parseKey
  <2> HIDE DEF prefix, key
  <2>3. CASE ~ (HasBit(prefix, 64) /\ HasBit(prefix, 32))
    BY <2>2, <2>3 DEF Ahead
  <2>4. CASE HasBit(prefix, 64) /\ HasBit(prefix, 32)
    <3>1. prefix >= 96
      BY <2>1, <2>4 DEF HasBit
    <3>2. parseKey(data, offset).newOffset = offset + 1 + (prefix - 96)
      BY <2>2, <2>4 DEF Parsed
    <3>. QED BY <2>1, <3>1, <3>2 DEF Ahead
  <2>. QED BY <2>3, <2>4
<1>. QED BY <1>1, <1>2

LEMMA WordAhead ==
  ASSUME NEW data, NEW offset \in Nat, NEW from \in Nat, from > offset, NEW len \in Nat
  PROVE  Ahead(parseWord(data, from, len), offset)
<1>1. parseWord(data, from, len) = Reverted \/ parseWord(data, from, len).newOffset = from + len
  BY DEF parseWord, Parsed
<1>. QED BY <1>1 DEF Ahead

LEMMA UintAhead ==
  ASSUME NEW data \in Seq(Nat), NEW offset \in Nat
  PROVE  Ahead(parseUint(data, offset), offset)
<1>1. CASE offset >= Len(data)
  BY <1>1 DEF parseUint, Ahead
<1>2. CASE ~ (offset >= Len(data))
  <2> DEFINE prefix == data[offset + 1]
             uint == parseUint(data, offset)
  <2>1. prefix \in Nat /\ offset + 1 \in Nat /\ offset + 1 > offset /\ offset + 2 \in Nat /\ offset + 2 > offset
    BY <1>2
  <2>2. uint = IF prefix <= 23 THEN Parsed(offset + 1, Word(<<prefix>>))
               ELSE IF prefix = 88 THEN IF offset + 1 >= Len(data) THEN Reverted
                                        ELSE parseWord(data, offset + 2, data[offset + 2])
               ELSE IF HasBit(prefix, 64) THEN parseWord(data, offset + 1, prefix - 64)
               ELSE IF prefix \in 24..27 THEN parseWord(data, offset + 1, uintLength(prefix))
               ELSE Reverted
    BY <1>2 DEF parseUint
  <2> HIDE DEF uint
  <2>3. CASE prefix <= 23
    <3>1. uint.newOffset = offset + 1
      BY <2>2, <2>3 DEF Parsed
    <3>. QED BY <2>1, <3>1 DEF Ahead, uint
  <2>4. CASE ~ (prefix <= 23) /\ prefix = 88
    <3>1. CASE offset + 1 >= Len(data)
      BY <2>2, <2>4, <3>1 DEF Ahead, uint
    <3>2. CASE ~ (offset + 1 >= Len(data))
      <4>1. data[offset + 2] \in Nat
        BY <3>2
      <4>2. uint = parseWord(data, offset + 2, data[offset + 2])
        BY <2>2, <2>4, <3>2
      <4>3. Ahead(parseWord(data, offset + 2, data[offset + 2]), offset)
        BY <2>1, <4>1, WordAhead
      <4>. QED BY <4>2, <4>3 DEF uint
    <3>. QED BY <3>1, <3>2
  <2>5. CASE ~ (prefix <= 23) /\ prefix # 88 /\ HasBit(prefix, 64)
    <3>1. prefix - 64 \in Nat
      <4> HIDE DEF prefix
      <4>. QED BY <2>1, <2>5 DEF HasBit
    <3>2. uint = parseWord(data, offset + 1, prefix - 64)
      BY <2>2, <2>5
    <3> HIDE DEF prefix
    <3>3. Ahead(parseWord(data, offset + 1, prefix - 64), offset)
      BY <2>1, <3>1, WordAhead
    <3>. QED BY <3>2, <3>3 DEF uint
  <2>6. CASE ~ (prefix <= 23) /\ prefix # 88 /\ ~ HasBit(prefix, 64) /\ prefix \in 24..27
    <3> HIDE DEF prefix
    <3>1. prefix - 23 \in 1..4
      BY <2>6
    <3>2. uintLength(prefix) \in Nat
      <4> DEFINE i == prefix - 23
      <4>1. uintLength(prefix) = HeadWidth(i)
        BY DEF uintLength, HeadWidth
      <4>2. i \in 1..4
        BY <3>1
      <4> HIDE DEF i
      <4>3. HeadWidth(i) \in Nat
        BY <4>2, Widths DEF HeadWidth
      <4>. QED BY <4>1, <4>3
    <3>3. uint = parseWord(data, offset + 1, uintLength(prefix))
      BY <2>2, <2>6
    <3>4. Ahead(parseWord(data, offset + 1, uintLength(prefix)), offset)
      BY <2>1, <3>2, WordAhead
    <3>. QED BY <3>3, <3>4 DEF uint
  <2>7. CASE ~ (prefix <= 23) /\ prefix # 88 /\ ~ HasBit(prefix, 64) /\ prefix \notin 24..27
    <3>1. uint = Reverted
      BY <2>2, <2>7
    <3>. QED BY <3>1 DEF Ahead, uint
  <2>. QED BY <2>3, <2>4, <2>5, <2>6, <2>7
<1>. QED BY <1>1, <1>2

LEMMA NumberAhead ==
  ASSUME NEW data \in Seq(Nat), NEW offset \in Nat, NEW width
  PROVE  Ahead(parseUintUpTo(data, offset, width), offset)
<1>1. parseUintUpTo(data, offset, width) \in {Reverted, parseUint(data, offset)}
  BY DEF parseUintUpTo
<1>. QED BY <1>1, UintAhead DEF Ahead

\* So a pair of a receipt depends on what follows it, and no more.
LEMMA LooksAhead ==
  ASSUME NEW data \in Seq(Nat), NEW offset \in Nat, NEW keys, NEW width, NEW f, NEW g,
         \A n \in Nat : n > offset => f[n] = g[n]
  PROVE  ReceiptPair(data, parseKey(data, offset), keys, width, f) =
           ReceiptPair(data, parseKey(data, offset), keys, width, g)
<1> DEFINE key == parseKey(data, offset)
           number == parseUintUpTo(data, key.newOffset, width)
<1>1. Ahead(key, offset)
  BY KeyAhead
<1>2. CASE key = Reverted
  BY <1>2 DEF ReceiptPair
<1>3. CASE key # Reverted
  <2>1. key.newOffset \in Nat /\ key.newOffset > offset
    BY <1>1, <1>3 DEF Ahead
  <2>2. f[key.newOffset] = g[key.newOffset]
    BY <2>1
  <2>3. Ahead(number, key.newOffset)
    BY <2>1, NumberAhead
  <2> HIDE DEF key, number
  <2>4. number # Reverted => f[number.newOffset] = g[number.newOffset]
    <3> SUFFICES ASSUME number # Reverted PROVE f[number.newOffset] = g[number.newOffset]
      OBVIOUS
    <3>1. number.newOffset \in Nat /\ number.newOffset > offset
      BY <2>1, <2>3 DEF Ahead
    <3>. QED BY <3>1
  <2>5. ReceiptValue(key.value, number, f) = ReceiptValue(key.value, number, g)
    BY <2>4 DEF ReceiptValue
  <2>. QED BY <1>3, <2>2, <2>5 DEF ReceiptPair, key, number
<1>. QED BY <1>2, <1>3

\* What is found from every offset on, as far back as an offset.
FoundFrom(data, keys, width, f, first) ==
  \A offset \in Nat : offset >= first =>
    f[offset] = IF offset >= Len(data) THEN << >>
                ELSE ReceiptPair(data, parseKey(data, offset), keys, width, f)

LEMMA PairsExist ==
  ASSUME NEW data \in Seq(Nat), NEW keys, NEW width
  PROVE  \E f : DOMAIN f = Nat /\ f = [n \in Nat |-> f[n]] /\ FoundFrom(data, keys, width, f, 0)
<1> DEFINE Known(m) == \E f : DOMAIN f = Nat /\ f = [n \in Nat |-> f[n]] /\ FoundFrom(data, keys, width, f, m)
           known == {m \in Nat : Known(m)}
<1>1. Len(data) \in known
  <2> DEFINE f == [n \in Nat |-> << >>]
  <2>1. FoundFrom(data, keys, width, f, Len(data))
    BY DEF FoundFrom
  <2>2. DOMAIN f = Nat /\ f = [n \in Nat |-> f[n]]
    OBVIOUS
  <2>3. Len(data) \in Nat
    OBVIOUS
  <2> HIDE DEF f
  <2>. QED BY <2>1, <2>2, <2>3
<1>2. ASSUME NEW m \in Nat, m > 0, Known(m)
      PROVE  Known(m - 1)
  <2>1. PICK f : DOMAIN f = Nat /\ f = [n \in Nat |-> f[n]] /\ FoundFrom(data, keys, width, f, m)
    BY <1>2
  <2> DEFINE p == m - 1
             pair == ReceiptPair(data, parseKey(data, p), keys, width, f)
             g == [n \in Nat |-> IF n = p THEN (IF p >= Len(data) THEN << >> ELSE pair) ELSE f[n]]
  <2>2. p \in Nat /\ \A n \in Nat : n >= p => n = p \/ n >= m
    BY <1>2
  <2>3. \A n \in Nat : n > p => f[n] = g[n]
    <3> HIDE DEF pair, p
    <3>. QED BY <2>2
  <2>4. DOMAIN g = Nat /\ g = [n \in Nat |-> g[n]]
    <3> HIDE DEF pair, p
    <3>. QED OBVIOUS
  <2>5. g[p] = IF p >= Len(data) THEN << >> ELSE pair
    <3> HIDE DEF pair, p
    <3>. QED BY <2>2
  <2> HIDE DEF g
  <2>6. ASSUME NEW offset \in Nat, offset >= p
        PROVE  g[offset] = IF offset >= Len(data) THEN << >>
                           ELSE ReceiptPair(data, parseKey(data, offset), keys, width, g)
    <3> HIDE DEF p
    <3>1. \A n \in Nat : n > offset => f[n] = g[n]
      BY <2>2, <2>3, <2>6
    <3>2. ReceiptPair(data, parseKey(data, offset), keys, width, f) =
            ReceiptPair(data, parseKey(data, offset), keys, width, g)
      BY <3>1, LooksAhead
    <3>3. CASE offset = p
      BY <2>5, <3>2, <3>3
    <3>4. CASE offset # p
      <4>1. offset > p /\ offset >= m
        BY <2>2, <2>6, <3>4
      <4>2. f[offset] = IF offset >= Len(data) THEN << >>
                        ELSE ReceiptPair(data, parseKey(data, offset), keys, width, f)
        BY <2>1, <4>1 DEF FoundFrom
      <4>3. g[offset] = f[offset]
        BY <2>3, <4>1
      <4>. QED BY <3>2, <4>2, <4>3
    <3>. QED BY <3>3, <3>4
  <2>7. FoundFrom(data, keys, width, g, p)
    BY <2>6 DEF FoundFrom
  <2>. QED BY <2>4, <2>7
<1>3. Known(0)
  <2> HIDE DEF Known
  <2>1. PICK least \in known : \A m \in known : least <= m
    BY <1>1, Smallest
  <2>2. least \in Nat /\ Known(least)
    BY <2>1
  <2>3. ASSUME least # 0 PROVE FALSE
    <3>1. least - 1 \in Nat /\ least > 0 /\ ~ (least <= least - 1)
      BY <2>2, <2>3
    <3>2. Known(least - 1)
      BY <1>2, <2>2, <3>1
    <3>. QED BY <2>1, <3>1, <3>2
  <2>. QED BY <2>2, <2>3
<1>. QED BY <1>3

\* The pairs of a receipt are what is found from its second byte on.
LEMMA PairsFound ==
  ASSUME NEW data \in Seq(Nat), NEW keys, NEW width
  PROVE  \E f : ReceiptPairs(data, keys, width) = f[1] /\ FoundFrom(data, keys, width, f, 0)
<1> DEFINE Is(f) == f = [offset \in Nat |-> IF offset >= Len(data) THEN << >>
                           ELSE ReceiptPair(data, parseKey(data, offset), keys, width, f)]
           found == CHOOSE f : Is(f)
<1>1. ReceiptPairs(data, keys, width) = found[1]
  BY DEF ReceiptPairs
<1>2. \E f : Is(f)
  <2>1. PICK f : DOMAIN f = Nat /\ f = [n \in Nat |-> f[n]] /\ FoundFrom(data, keys, width, f, 0)
    BY PairsExist
  <2>2. \A n \in Nat : f[n] = IF n >= Len(data) THEN << >>
                              ELSE ReceiptPair(data, parseKey(data, n), keys, width, f)
    <3>1. \A n \in Nat : n >= 0
      OBVIOUS
    <3>. QED BY <2>1, <3>1 DEF FoundFrom
  <2>3. f = [n \in Nat |-> IF n >= Len(data) THEN << >>
                           ELSE ReceiptPair(data, parseKey(data, n), keys, width, f)]
    BY <2>1, <2>2
  <2>. QED BY <2>3
<1>3. Is(found)
  <2> HIDE DEF Is
  <2>. QED BY <1>2
<1> HIDE DEF found
<1>4. FoundFrom(data, keys, width, found, 0)
  <2>1. \A n \in Nat : found[n] = IF n >= Len(data) THEN << >>
                                  ELSE ReceiptPair(data, parseKey(data, n), keys, width, found)
    BY <1>3
  <2>. QED BY <2>1 DEF FoundFrom
<1>. QED BY <1>1, <1>4

\* What is parsed is no revert.
LEMMA ParsedIs ==
  ASSUME NEW n \in Nat, NEW v \in Seq(Nat)
  PROVE  Parsed(n, v) # Reverted /\ Parsed(n, v).newOffset = n /\ Parsed(n, v).value = v
BY ParsedAssumption DEF Parsed

LEMMA KeyIsBytes ==
  ASSUME NEW len \in Nat, NEW letter \in Nat
  PROVE  Key(len, letter) \in Seq(Nat) /\ Len(Key(len, letter)) = len
         /\ \A i \in 1..len : Key(len, letter)[i] = letter
BY FilledBytes DEF Key

\* The keys of the receipts, none of which ends like memory beyond the data.
ReceiptKeys == {EpochKey, ReceiptKey, AmountKey}

LEMMA KeysEnd ==
  /\ \A key \in ReceiptKeys : key \in Seq(Nat) /\ Len(key) >= 1 /\ key[Len(key)] # 255
  /\ EpochKey # ReceiptKey /\ EpochKey # AmountKey /\ SharesKey # AmountKey
<1>1. EpochKey \in Seq(Nat) /\ Len(EpochKey) = 5 /\ \A i \in 1..5 : EpochKey[i] = 101
  BY KeyIsBytes, ZenonT(30) DEF EpochKey
<1>2. ReceiptKey \in Seq(Nat) /\ Len(ReceiptKey) = 7 /\ \A i \in 1..7 : ReceiptKey[i] = 114
  BY KeyIsBytes, ZenonT(30) DEF ReceiptKey
<1>3. AmountKey \in Seq(Nat) /\ Len(AmountKey) = 6 /\ \A i \in 1..6 : AmountKey[i] = 97
  BY KeyIsBytes, ZenonT(30) DEF AmountKey
<1>4. SharesKey \in Seq(Nat) /\ Len(SharesKey) = 6 /\ \A i \in 1..6 : SharesKey[i] = 115
  BY KeyIsBytes, ZenonT(30) DEF SharesKey
<1>5. 5 \in 1..5 /\ 6 \in 1..6 /\ 7 \in 1..7
  OBVIOUS
<1>6. EpochKey[5] # 255 /\ ReceiptKey[7] # 255 /\ AmountKey[6] # 255 /\ AmountKey[6] # SharesKey[6]
  BY <1>1, <1>2, <1>3, <1>4, <1>5
<1>7. SharesKey # AmountKey
  BY <1>6
<1>8. EpochKey # ReceiptKey /\ EpochKey # AmountKey
  BY <1>1, <1>2, <1>3
<1>9. ASSUME NEW key \in ReceiptKeys
      PROVE  key \in Seq(Nat) /\ Len(key) >= 1 /\ key[Len(key)] # 255
  <2>1. CASE key = EpochKey
    BY <2>1, <1>1, <1>6
  <2>2. CASE key = ReceiptKey
    BY <2>2, <1>2, <1>6
  <2>3. CASE key = AmountKey
    BY <2>3, <1>3, <1>6
  <2>. QED BY <2>1, <2>2, <2>3 DEF ReceiptKeys
<1>. QED BY <1>7, <1>8, <1>9

\* One pair of a receipt after the other: past the end,
LEMMA NoPairLeft ==
  ASSUME NEW data \in Seq(Nat), NEW keys, NEW width, NEW f, FoundFrom(data, keys, width, f, 0),
         NEW offset \in Nat, offset >= Len(data)
  PROVE  f[offset] = << >>
<1>1. offset >= 0
  OBVIOUS
<1>. QED BY <1>1 DEF FoundFrom

\* at a key that is asked for,
LEMMA PairOfKey ==
  ASSUME NEW data \in Seq(Nat), NEW keys, NEW width, NEW f, FoundFrom(data, keys, width, f, 0),
         NEW offset \in Nat, NEW len \in Nat, len <= 31, NEW letter \in Nat,
         Holds(data, offset, Text(Key(len, letter)))
  PROVE  f[offset] = IF Key(len, letter) \in keys
                     THEN ReceiptValue(Key(len, letter), parseUintUpTo(data, offset + 1 + len, width), f)
                     ELSE f[offset + 1 + len]
<1> DEFINE key == Key(len, letter)
           next == offset + 1 + len
<1>1. offset >= 0 /\ next \in Nat
  OBVIOUS
<1>2. ~ (offset >= Len(data))
  <2>1. Len(Text(key)) = len + 1
    BY TextShape
  <2> HIDE DEF key
  <2>2. offset + Len(Text(key)) <= Len(data)
    BY DEF Holds, key
  <2>. QED BY <2>1, <2>2
<1>3. parseKey(data, offset) = Parsed(next, key)
  BY KeyRead
<1>4. key \in Seq(Nat)
  BY KeyIsBytes
<1> HIDE DEF key, next
<1>5. Parsed(next, key) # Reverted /\ Parsed(next, key).newOffset = next /\ Parsed(next, key).value = key
  BY <1>1, <1>4, ParsedIs
<1>6. f[offset] = ReceiptPair(data, Parsed(next, key), keys, width, f)
  BY <1>1, <1>2, <1>3 DEF FoundFrom
<1>7. f[offset] = IF key \in keys THEN ReceiptValue(key, parseUintUpTo(data, next, width), f) ELSE f[next]
  BY <1>5, <1>6 DEF ReceiptPair
<1>. QED BY <1>7 DEF key, next

\* with its integer,
LEMMA PairOfInteger ==
  ASSUME NEW data \in Seq(Nat), NEW width \in Nat, NEW f, NEW key, NEW at \in Nat,
         NEW word, Canonical(word), Len(word) <= width, NEW form, Integer(form, word)
  PROVE  /\ Holds(data, at, form) =>
              LET rest == f[at + Len(form)]
              IN  ReceiptValue(key, parseUintUpTo(data, at, width), f) =
                    IF rest = Reverted THEN Reverted ELSE Stored(key, word, rest)
         /\ Cut(data, at, form) => ReceiptValue(key, parseUintUpTo(data, at, width), f) = Reverted
<1>1. form \in Seq(Nat) /\ Len(form) \in Nat
  BY IntegerRead
<1>2. ASSUME Holds(data, at, form)
      PROVE  parseUintUpTo(data, at, width) = Parsed(at + Len(form), word)
             /\ Parsed(at + Len(form), word) # Reverted
             /\ Parsed(at + Len(form), word).newOffset = at + Len(form)
             /\ Parsed(at + Len(form), word).value = word
  <2>1. parseUint(data, at) = Parsed(at + Len(form), word)
    BY <1>2, IntegerRead
  <2>2. at + Len(form) \in Nat /\ word \in Seq(Nat)
    BY <1>1 DEF Canonical
  <2>3. /\ Parsed(at + Len(form), word) # Reverted
        /\ Parsed(at + Len(form), word).newOffset = at + Len(form)
        /\ Parsed(at + Len(form), word).value = word
    BY <2>2, ParsedIs
  <2>4. ~ (Len(word) > width)
    BY <2>2
  <2>. QED BY <2>1, <2>3, <2>4 DEF parseUintUpTo
<1>3. ASSUME Cut(data, at, form)
      PROVE  parseUintUpTo(data, at, width) = Reverted
  <2>1. parseUint(data, at) = Reverted
    BY <1>3, IntegerRead
  <2>. QED BY <2>1 DEF parseUintUpTo
<1>. QED BY <1>2, <1>3 DEF ReceiptValue

\* at a key that is cut short,
LEMMA PairCutShort ==
  ASSUME NEW data \in Seq(Nat), NEW keys \in SUBSET ReceiptKeys, NEW width, NEW f,
         FoundFrom(data, keys, width, f, 0),
         NEW offset \in Nat, NEW len \in Nat, len >= 1, len <= 31, NEW letter \in Nat,
         Cut(data, offset, Text(Key(len, letter)))
  PROVE  f[offset] = << >>
<1>0. offset >= 0 /\ Len(data) \in Nat /\ offset + 1 + len \in Nat
  OBVIOUS
<1>1. CASE offset >= Len(data)
  BY <1>1, NoPairLeft
<1>2. CASE ~ (offset >= Len(data))
  <2>1. offset # Len(data)
    BY <1>0, <1>2
  <2>2. PICK key \in Seq(Nat) : /\ parseKey(data, offset) = Parsed(offset + 1 + len, key)
                                /\ offset + 1 + len > Len(data)
                                /\ Len(key) >= 1 /\ key[Len(key)] = 255
    BY <2>1, KeyCut
  <2> DEFINE next == offset + 1 + len
  <2>3. next \in Nat /\ next >= Len(data)
    BY <1>0, <2>2
  <2>4. parseKey(data, offset) = Parsed(next, key)
    BY <2>2
  <2> HIDE DEF next
  <2>5. key \notin keys
    BY <2>2, KeysEnd
  <2>6. Parsed(next, key) # Reverted /\ Parsed(next, key).newOffset = next /\ Parsed(next, key).value = key
    BY <2>3, ParsedIs
  <2>7. f[offset] = ReceiptPair(data, Parsed(next, key), keys, width, f)
    BY <1>0, <1>2, <2>4 DEF FoundFrom
  <2>8. f[offset] = f[next]
    BY <2>5, <2>6, <2>7 DEF ReceiptPair
  <2>9. f[next] = << >>
    BY <2>3, NoPairLeft
  <2>. QED BY <2>8, <2>9
<1>. QED BY <1>1, <1>2

\* and at what is no key.
LEMMA NoKey ==
  ASSUME NEW data \in Seq(Nat), NEW keys, NEW width, NEW f, FoundFrom(data, keys, width, f, 0),
         NEW offset \in Nat, offset < Len(data), data[offset + 1] <= 80 \/ data[offset + 1] = 162
  PROVE  f[offset] = Reverted
<1> DEFINE prefix == data[offset + 1]
<1>1. prefix \in Nat /\ ~ (offset >= Len(data)) /\ offset >= 0
  OBVIOUS
<1>2. ~ (HasBit(prefix, 64) /\ HasBit(prefix, 32))
  <2>1. prefix <= 80 \/ prefix = 162
    OBVIOUS
  <2> HIDE DEF prefix
  <2>. QED BY <1>1, <2>1 DEF HasBit
<1>3. parseKey(data, offset) = Reverted
  BY <1>1, <1>2 DEF parseKey
<1>4. f[offset] = ReceiptPair(data, Reverted, keys, width, f)
  BY <1>1, <1>3 DEF FoundFrom
<1>. QED BY <1>4 DEF ReceiptPair

-----------------------------------------------------------------------------
(***************************************************************************)
(* Receipts of one pair and of two, and their beginnings.                  *)
(***************************************************************************)

\* A receipt of one pair, that of an error, and one of two.
OnePair(data, len, letter, form) ==
  /\ data \in Seq(Nat) /\ Len(data) = len + 2 + Len(form) /\ data[1] = 161
  /\ Holds(data, 1, Text(Key(len, letter))) /\ Holds(data, len + 2, form)
ErrorPair(data) ==
  /\ data \in Seq(Nat) /\ Len(data) >= 8 /\ data[1] = 161
  /\ Holds(data, 1, Text(EpochKey)) /\ data[8] = 162
TwoPairs(data, len1, letter1, form1, len2, letter2, form2) ==
  LET next == len1 + 2 + Len(form1)
  IN  /\ data \in Seq(Nat) /\ Len(data) = next + len2 + 1 + Len(form2) /\ data[1] = 162
      /\ Holds(data, 1, Text(Key(len1, letter1))) /\ Holds(data, len1 + 2, form1)
      /\ Holds(data, next, Text(Key(len2, letter2))) /\ Holds(data, next + len2 + 1, form2)

\* The beginning of data, up to all of it.
LEMMA Beginning ==
  ASSUME NEW data \in Seq(Nat), NEW n \in 0..Len(data)
  PROVE  LET short == SubSeq(data, 1, n)
         IN  /\ short \in Seq(Nat) /\ Len(short) = n
             /\ \A i \in 1..n : short[i] = data[i]
             /\ n = Len(data) => short = data
             /\ n = 0 => short = << >>
<1> DEFINE short == SubSeq(data, 1, n)
<1>1. n \in Nat /\ 0 + n <= Len(data) /\ 0 + 1 = 1 /\ 0 + n = n /\ \A i \in 1..n : 0 + i = i
  OBVIOUS
<1>2. /\ SubSeq(data, 0 + 1, 0 + n) \in Seq(Nat) /\ Len(SubSeq(data, 0 + 1, 0 + n)) = n
      /\ \A i \in 1..n : SubSeq(data, 0 + 1, 0 + n)[i] = data[0 + i]
  BY <1>1, PartOf
<1>3. short \in Seq(Nat) /\ Len(short) = n /\ \A i \in 1..n : short[i] = data[i]
  BY <1>1, <1>2
<1> HIDE DEF short
<1>4. n = Len(data) => short = data
  BY <1>3, SameBytes
<1>5. n = 0 => short = << >>
  BY <1>3
<1>. QED BY <1>3, <1>4, <1>5 DEF short

\* What a decoder makes of the pairs.
LEMMA WhatIsDecoded ==
  ASSUME NEW data \in Seq(Nat), data # << >>, NEW header, NEW keys, NEW width
  PROVE  /\ data[1] # header => decodeReceipt(data, header, keys, width) = Reverted
         /\ data[1] = header =>
              decodeReceipt(data, header, keys, width) =
                IF ReceiptPairs(data, keys, width) = Reverted \/ DOMAIN ReceiptPairs(data, keys, width) # keys
                THEN Reverted ELSE ReceiptPairs(data, keys, width)
<1>1. Head(data) = data[1]
  OBVIOUS
<1>. QED BY <1>1 DEF decodeReceipt

LEMMA NothingDecoded ==
  /\ decodeReceiptUndelegateStart(<< >>) = Reverted
  /\ decodeReceiptUndelegateDone(<< >>) = Reverted
  /\ decodeReceiptDelegate(<< >>) = Reverted
<1>1. \A header, keys, width : decodeReceipt(<< >>, header, keys, width) = Reverted
  BY DEF decodeReceipt
<1>. QED BY <1>1 DEF decodeReceiptUndelegateStart, decodeReceiptUndelegateDone, decodeReceiptDelegate

\* Of a receipt with another header they make nothing.
LEMMA OtherHeader ==
  ASSUME NEW data \in Seq(Nat), data # << >>
  PROVE  /\ data[1] # 162 => decodeReceiptUndelegateStart(data) = Reverted
         /\ data[1] # 161 => decodeReceiptUndelegateDone(data) = Reverted
         /\ data[1] # 161 => decodeReceiptDelegate(data) = Reverted
         /\ Len(data) >= 3 /\ (data[2] # 102 \/ data[3] # 115) => decodeReceiptDelegate(data) = Reverted
         /\ Len(data) < 3 => decodeReceiptDelegate(data) = Reverted
BY WhatIsDecoded DEF decodeReceiptUndelegateStart, decodeReceiptUndelegateDone, decodeReceiptDelegate

\* The pairs that end a receipt: none is << >>, one adds its key.
LEMMA Added ==
  ASSUME NEW key \in ReceiptKeys, NEW word \in Seq(Nat)
  PROVE  LET one == Stored(key, word, << >>)
         IN  one # Reverted /\ DOMAIN one = {key} /\ one[key] = word /\ << >> # Reverted
<1> DEFINE one == Stored(key, word, << >>)
<1>1. one = [k \in {key} |-> word]
  BY DEF Stored
<1> HIDE DEF one
<1>2. {key} \in SUBSET {EpochKey, ReceiptKey, AmountKey}
  BY DEF ReceiptKeys
<1>3. one \in [{key} -> Seq(Nat)]
  BY <1>1
<1>4. one # Reverted
  BY <1>2, <1>3, ReceiptAssumption
<1>5. << >> # Reverted
  <2>1. << >> \in Seq(Nat)
    OBVIOUS
  <2>. QED BY <2>1, RevertedAssumption
<1>. QED BY <1>1, <1>4, <1>5 DEF one

TwoStored(two, key, word, key2, word2) ==
  two # Reverted /\ DOMAIN two = {key, key2} /\ two[key] = word /\ two[key2] = word2

LEMMA AddedTwo ==
  ASSUME NEW key \in ReceiptKeys, NEW word \in Seq(Nat), NEW key2 \in ReceiptKeys, NEW word2 \in Seq(Nat),
         key # key2, NEW one, one = Stored(key2, word2, << >>), NEW two, two = Stored(key, word, one)
  PROVE  TwoStored(two, key, word, key2, word2)
<1>1. one = [k \in {key2} |-> word2]
  BY DEF Stored
<1>2. two = [k \in {key, key2} |-> IF k = key2 THEN word2 ELSE word]
  BY <1>1 DEF Stored
<1>3. {key, key2} \in SUBSET {EpochKey, ReceiptKey, AmountKey}
  BY DEF ReceiptKeys
<1>4. two \in [{key, key2} -> Seq(Nat)]
  BY <1>2
<1>5. two # Reverted
  BY <1>3, <1>4, ReceiptAssumption
<1>. QED BY <1>2, <1>5 DEF TwoStored

\* What is left of one pair when a receipt is cut short.
LEMMA ShortPair ==
  ASSUME NEW data, NEW len \in Nat, NEW letter \in Nat, NEW form \in Seq(Nat), OnePair(data, len, letter, form),
         NEW n \in 1..Len(data)
  PROVE  LET short == SubSeq(data, 1, n)
         IN  /\ short \in Seq(Nat) /\ Len(short) = n /\ short # << >> /\ short[1] = 161
             /\ n < len + 2 => Cut(short, 1, Text(Key(len, letter)))
             /\ n >= len + 2 => Holds(short, 1, Text(Key(len, letter)))
             /\ n >= len + 2 /\ n < Len(data) => Cut(short, len + 2, form)
<1> DEFINE short == SubSeq(data, 1, n)
           text == Text(Key(len, letter))
<1>0. data \in Seq(Nat) /\ n \in 0..Len(data) /\ 1 \in 1..n /\ 1 \in Nat /\ len + 2 \in Nat
  BY DEF OnePair
<1>1. /\ Len(data) = len + 2 + Len(form) /\ data[1] = 161
      /\ Holds(data, 1, text) /\ Holds(data, len + 2, form)
  BY DEF OnePair
<1>2. text \in Seq(Nat) /\ Len(text) = len + 1
  BY TextShape
<1> HIDE DEF text
<1>3. /\ short \in Seq(Nat) /\ Len(short) = n /\ \A i \in 1..n : short[i] = data[i]
  BY <1>0, Beginning
<1>4. /\ 1 + Len(text) <= n => Holds(short, 1, text)
      /\ 1 <= n /\ n < 1 + Len(text) => Cut(short, 1, text)
  <2> DEFINE at == 1
  <2>1. at \in Nat /\ Holds(data, at, text)
    BY <1>1
  <2> HIDE DEF at
  <2>2. /\ at + Len(text) <= n => Holds(short, at, text)
        /\ at <= n /\ n < at + Len(text) => Cut(short, at, text)
    BY <1>0, <1>2, <2>1, CutShort
  <2>. QED BY <2>2 DEF at
<1>5. len + 2 <= n /\ n < len + 2 + Len(form) => Cut(short, len + 2, form)
  <2> DEFINE at == len + 2
  <2>1. at \in Nat /\ Holds(data, at, form)
    BY <1>0, <1>1
  <2> HIDE DEF at
  <2>2. at <= n /\ n < at + Len(form) => Cut(short, at, form)
    BY <1>0, <2>1, CutShort
  <2>. QED BY <2>2 DEF at
<1> HIDE DEF short
<1>6. short # << >> /\ short[1] = 161
  BY <1>0, <1>1, <1>3
<1>7. /\ n < len + 2 => Cut(short, 1, text)
      /\ n >= len + 2 => Holds(short, 1, text)
      /\ n >= len + 2 /\ n < Len(data) => Cut(short, len + 2, form)
  BY <1>1, <1>2, <1>4, <1>5
<1>. QED BY <1>3, <1>6, <1>7 DEF short, text

LEMMA FormShape ==
  ASSUME NEW form, NEW word, Canonical(word), Integer(form, word)
  PROVE  form \in Seq(Nat) /\ Len(form) \in Nat /\ Len(form) >= 1 /\ form[1] <= 80
<1>1. << >> \in Seq(Nat) /\ 0 \in Nat
  OBVIOUS
<1>2. form \in Seq(Nat) /\ Len(form) >= 1 /\ form[1] <= 80
  BY <1>1, IntegerRead
<1>3. Len(form) \in Nat
  BY <1>2
<1>. QED BY <1>2, <1>3

\* The first two bytes of a key in second place.
LEMMA KeyStarts ==
  ASSUME NEW data \in Seq(Nat), NEW len \in Nat, len >= 1, NEW letter \in Nat,
         Holds(data, 1, Text(Key(len, letter)))
  PROVE  data[2] = 96 + len /\ data[3] = letter
<1> DEFINE text == Text(Key(len, letter))
<1>1. /\ text \in Seq(Nat) /\ Len(text) = len + 1 /\ text[1] = 96 + len
      /\ \A i \in 1..len : text[1 + i] = letter
  BY TextShape
<1>2. Holds(data, 1, text)
  OBVIOUS
<1> HIDE DEF text
<1>3. 1 \in 1..len /\ 1 \in 1..(len + 1) /\ 2 \in 1..(len + 1) /\ 1 + 1 = 2 /\ 1 + 2 = 3
  OBVIOUS
<1>4. text[2] = letter
  BY <1>1, <1>3
<1>5. \A i \in 1..(len + 1) : data[1 + i] = text[i]
  BY <1>1, <1>2 DEF Holds
<1>6. data[1 + 1] = text[1] /\ data[1 + 2] = text[2]
  BY <1>3, <1>5
<1>. QED BY <1>1, <1>3, <1>4, <1>6

\* What the decoders of the two kinds with pairs make of what is found.
LEMMA DoneFound ==
  ASSUME NEW data \in Seq(Nat), data # << >>, data[1] = 161
  PROVE  \E f : /\ FoundFrom(data, {AmountKey}, 16, f, 0)
                /\ decodeReceiptUndelegateDone(data) =
                     IF f[1] = Reverted \/ DOMAIN f[1] # {AmountKey} THEN Reverted ELSE f[1][AmountKey]
<1>1. PICK f : ReceiptPairs(data, {AmountKey}, 16) = f[1] /\ FoundFrom(data, {AmountKey}, 16, f, 0)
  BY PairsFound
<1>2. decodeReceipt(data, 161, {AmountKey}, 16) =
        IF f[1] = Reverted \/ DOMAIN f[1] # {AmountKey} THEN Reverted ELSE f[1]
  <2> DEFINE keys == {AmountKey}
             pairs == ReceiptPairs(data, keys, 16)
  <2>1. pairs = f[1]
    BY <1>1
  <2> HIDE DEF keys
  <2>2. decodeReceipt(data, 161, keys, 16) =
          IF pairs = Reverted \/ DOMAIN pairs # keys THEN Reverted ELSE pairs
    BY WhatIsDecoded
  <2> HIDE DEF pairs
  <2>. QED BY <2>1, <2>2 DEF keys
<1>3. decodeReceiptUndelegateDone(data) =
        IF f[1] = Reverted \/ DOMAIN f[1] # {AmountKey} THEN Reverted ELSE f[1][AmountKey]
  BY <1>2 DEF decodeReceiptUndelegateDone
<1>. QED BY <1>1, <1>3

NotAll(found, keys) == found = Reverted \/ DOMAIN found # keys
StartFinds(data, keys, f) ==
  /\ FoundFrom(data, keys, 8, f, 0)
  /\ decodeReceiptUndelegateStart(data) = IF NotAll(f[1], keys) THEN Reverted ELSE f[1]

LEMMA StartFound ==
  ASSUME NEW data \in Seq(Nat), data # << >>, data[1] = 162, NEW keys, keys = {EpochKey, ReceiptKey}
  PROVE  \E f : StartFinds(data, keys, f)
<1>1. PICK f : ReceiptPairs(data, keys, 8) = f[1] /\ FoundFrom(data, keys, 8, f, 0)
  BY PairsFound
<1> DEFINE pairs == ReceiptPairs(data, keys, 8)
<1>2. decodeReceipt(data, 162, keys, 8) = IF pairs = Reverted \/ DOMAIN pairs # keys THEN Reverted ELSE pairs
  BY WhatIsDecoded
<1>3. decodeReceiptUndelegateStart(data) = decodeReceipt(data, 162, keys, 8)
  BY DEF decodeReceiptUndelegateStart
<1>4. pairs = f[1]
  BY <1>1
<1> HIDE DEF pairs
<1>5. decodeReceiptUndelegateStart(data) = IF f[1] = Reverted \/ DOMAIN f[1] # keys THEN Reverted ELSE f[1]
  BY <1>2, <1>3, <1>4
<1>. QED BY <1>1, <1>5 DEF StartFinds, NotAll

\* Nothing is found of a key cut short, nor of another key that no key follows.
LEMMA DoneCutKey ==
  ASSUME NEW data \in Seq(Nat), data # << >>, data[1] = 161,
         NEW len \in Nat, len >= 1, len <= 31, NEW letter \in Nat, Cut(data, 1, Text(Key(len, letter)))
  PROVE  decodeReceiptUndelegateDone(data) = Reverted
<1>1. PICK f : /\ FoundFrom(data, {AmountKey}, 16, f, 0)
               /\ decodeReceiptUndelegateDone(data) =
                    IF f[1] = Reverted \/ DOMAIN f[1] # {AmountKey} THEN Reverted ELSE f[1][AmountKey]
  BY DoneFound
<1>2. {AmountKey} \in SUBSET ReceiptKeys
  BY DEF ReceiptKeys
<1>3. f[1] = << >>
  <2> DEFINE offset == 1
  <2>1. offset \in Nat /\ Cut(data, offset, Text(Key(len, letter)))
    OBVIOUS
  <2> HIDE DEF offset
  <2>2. f[offset] = << >>
    BY <1>1, <1>2, <2>1, PairCutShort
  <2>. QED BY <2>2 DEF offset
<1>4. DOMAIN << >> # {AmountKey}
  OBVIOUS
<1>. QED BY <1>1, <1>3, <1>4

LEMMA DoneOtherKey ==
  ASSUME NEW data \in Seq(Nat), data # << >>, data[1] = 161,
         NEW len \in Nat, len <= 31, NEW letter \in Nat, Holds(data, 1, Text(Key(len, letter))),
         Key(len, letter) # AmountKey,
         len + 2 < Len(data) => data[len + 3] <= 80 \/ data[len + 3] = 162
  PROVE  decodeReceiptUndelegateDone(data) = Reverted
<1>1. PICK f : /\ FoundFrom(data, {AmountKey}, 16, f, 0)
               /\ decodeReceiptUndelegateDone(data) =
                    IF f[1] = Reverted \/ DOMAIN f[1] # {AmountKey} THEN Reverted ELSE f[1][AmountKey]
  BY DoneFound
<1> DEFINE next == len + 2
<1>2. next \in Nat /\ 1 + 1 + len = next /\ next + 1 = len + 3 /\ Len(data) \in Nat
  OBVIOUS
<1>3. f[1] = f[next]
  <2> DEFINE offset == 1
  <2>1. offset \in Nat /\ Holds(data, offset, Text(Key(len, letter))) /\ offset + 1 + len = next
    BY <1>2
  <2> HIDE DEF offset, next
  <2>2. f[offset] = f[offset + 1 + len]
    BY <1>1, <2>1, PairOfKey
  <2>. QED BY <2>1, <2>2 DEF offset
<1>4. next < Len(data) => data[next + 1] <= 80 \/ data[next + 1] = 162
  BY <1>2
<1> HIDE DEF next
<1>5. CASE next < Len(data)
  <2> DEFINE keys == {AmountKey}
  <2>1. data[next + 1] <= 80 \/ data[next + 1] = 162
    BY <1>4, <1>5
  <2>2. FoundFrom(data, keys, 16, f, 0)
    BY <1>1
  <2> HIDE DEF keys
  <2>3. f[next] = Reverted
    BY <1>2, <1>5, <2>1, <2>2, NoKey
  <2>. QED BY <1>1, <1>3, <2>3
<1>6. CASE ~ (next < Len(data))
  <2>1. next >= Len(data)
    BY <1>2, <1>6
  <2>2. f[next] = << >>
    BY <1>1, <1>2, <2>1, NoPairLeft
  <2>3. DOMAIN << >> # {AmountKey}
    OBVIOUS
  <2>. QED BY <1>1, <1>3, <2>2, <2>3
<1>. QED BY <1>5, <1>6

\* The receipt of an undelegation that is done: its amount, and nothing else.
LEMMA DoneReceipt ==
  ASSUME NEW data, NEW form, NEW word, Canonical(word), Len(word) <= 16, Integer(form, word),
         OnePair(data, 6, 97, form), NEW n \in 0..Len(data)
  PROVE  LET short == SubSeq(data, 1, n)
         IN  /\ decodeReceiptUndelegateDone(short) = IF n = Len(data) THEN word ELSE Reverted
             /\ decodeReceiptUndelegateStart(short) = Reverted
             /\ decodeReceiptDelegate(short) = Reverted
<1> DEFINE short == SubSeq(data, 1, n)
<1>1. form \in Seq(Nat) /\ Len(form) >= 1 /\ Len(form) \in Nat
  BY FormShape
<1>2. data \in Seq(Nat) /\ Len(data) = 8 + Len(form) /\ Len(data) \in Nat
  <2>1. data \in Seq(Nat) /\ Len(data) = 6 + 2 + Len(form)
    BY DEF OnePair
  <2>. QED BY <1>1, <2>1
<1>3. CASE n = 0
  <2>1. short = << >>
    BY <1>2, <1>3, Beginning
  <2>2. n # Len(data)
    BY <1>1, <1>2, <1>3
  <2>. QED BY <2>1, <2>2, NothingDecoded
<1>4. CASE n # 0
  <2>1. n \in 1..Len(data)
    BY <1>4
  <2>2. /\ short \in Seq(Nat) /\ Len(short) = n /\ short # << >> /\ short[1] = 161
        /\ n < 6 + 2 => Cut(short, 1, Text(Key(6, 97)))
        /\ n >= 6 + 2 => Holds(short, 1, Text(Key(6, 97)))
        /\ n >= 6 + 2 /\ n < Len(data) => Cut(short, 6 + 2, form)
    BY <1>1, <2>1, ShortPair, SMTT(30)
  <2>3. n = Len(data) => short = data
    BY <1>2, Beginning
  <2>4. \A i \in 1..n : short[i] = data[i]
    BY <1>2, Beginning
  <2> HIDE DEF short
  <2>5. decodeReceiptUndelegateStart(short) = Reverted
    BY <2>2, OtherHeader
  <2>6. decodeReceiptDelegate(short) = Reverted
    <3>1. CASE n < 3
      BY <2>2, <3>1, OtherHeader
    <3>2. CASE ~ (n < 3)
      <4>1. data[3] = 97
        <5>1. Holds(data, 1, Text(Key(6, 97)))
          BY DEF OnePair
        <5>. QED BY <1>2, <5>1, KeyStarts
      <4>2. short[3] # 115 /\ Len(short) >= 3
        BY <2>2, <2>4, <3>2, <4>1
      <4>. QED BY <2>2, <4>2, OtherHeader
    <3>. QED BY <3>1, <3>2
  <2>7. CASE n < 8
    <3>1. Cut(short, 1, Text(Key(6, 97))) /\ n # Len(data)
      BY <1>1, <1>2, <2>2, <2>7
    <3>2. decodeReceiptUndelegateDone(short) = Reverted
      BY <2>2, <3>1, DoneCutKey
    <3>. QED BY <2>5, <2>6, <3>1, <3>2 DEF short
  <2>8. CASE ~ (n < 8)
    <3>1. PICK f : /\ FoundFrom(short, {AmountKey}, 16, f, 0)
                   /\ decodeReceiptUndelegateDone(short) =
                        IF f[1] = Reverted \/ DOMAIN f[1] # {AmountKey} THEN Reverted ELSE f[1][AmountKey]
      BY <2>2, DoneFound
    <3> DEFINE number == parseUintUpTo(short, 8, 16)
    <3>2. f[1] = ReceiptValue(AmountKey, number, f)
      <4> DEFINE offset == 1
      <4>1. offset \in Nat /\ offset + 1 + 6 = 8
        OBVIOUS
      <4>2. Holds(short, offset, Text(Key(6, 97))) /\ Key(6, 97) \in {AmountKey}
        BY <2>2, <2>8 DEF AmountKey
      <4> HIDE DEF offset
      <4>3. f[offset] = ReceiptValue(Key(6, 97), parseUintUpTo(short, offset + 1 + 6, 16), f)
        BY <2>2, <3>1, <4>1, <4>2, PairOfKey
      <4>. QED BY <4>1, <4>3 DEF offset, AmountKey
    <3>3. CASE n = Len(data)
      <4>1. Holds(short, 8, form)
        <5>1. Holds(data, 6 + 2, form)
          BY DEF OnePair
        <5>. QED BY <2>3, <3>3, <5>1
      <4>2. f[8 + Len(form)] = << >>
        <5> DEFINE end == 8 + Len(form)
        <5>1. end \in Nat /\ end >= Len(short)
          BY <1>1, <1>2, <2>2, <3>3
        <5> HIDE DEF end
        <5>2. f[end] = << >>
          BY <2>2, <3>1, <5>1, NoPairLeft
        <5>. QED BY <5>2 DEF end
      <4>3. word \in Seq(Nat) /\ AmountKey \in ReceiptKeys
        BY DEF Canonical, ReceiptKeys
      <4> DEFINE one == Stored(AmountKey, word, << >>)
      <4>4. one # Reverted /\ DOMAIN one = {AmountKey} /\ one[AmountKey] = word /\ << >> # Reverted
        BY <4>3, Added
      <4> HIDE DEF one
      <4>5. ReceiptValue(AmountKey, number, f) = IF << >> = Reverted THEN Reverted ELSE one
        BY <2>2, <4>1, <4>2, PairOfInteger DEF one
      <4>6. f[1] = one
        BY <3>2, <4>4, <4>5
      <4>7. decodeReceiptUndelegateDone(short) = word
        BY <3>1, <4>4, <4>6
      <4>. QED BY <2>5, <2>6, <3>3, <4>7 DEF short
    <3>4. CASE n # Len(data)
      <4>1. Cut(short, 8, form)
        BY <1>2, <2>2, <2>8, <3>4
      <4>2. ReceiptValue(AmountKey, number, f) = Reverted
        BY <2>2, <4>1, PairOfInteger
      <4>3. decodeReceiptUndelegateDone(short) = Reverted
        BY <3>1, <3>2, <4>2
      <4>. QED BY <2>5, <2>6, <3>4, <4>3 DEF short
    <3>. QED BY <3>3, <3>4
  <2>. QED BY <2>7, <2>8
<1>. QED BY <1>3, <1>4

\* The receipt of a delegation: its shares, and nothing else.
LEMMA DelegateReceipt ==
  ASSUME NEW data, NEW form, NEW word, Canonical(word), Len(word) <= 16, Integer(form, word),
         OnePair(data, 6, 115, form), NEW n \in 0..Len(data)
  PROVE  LET short == SubSeq(data, 1, n)
         IN  /\ decodeReceiptDelegate(short) = IF n = Len(data) THEN word ELSE Reverted
             /\ decodeReceiptUndelegateStart(short) = Reverted
             /\ decodeReceiptUndelegateDone(short) = Reverted
<1> DEFINE short == SubSeq(data, 1, n)
<1>1. form \in Seq(Nat) /\ Len(form) >= 1 /\ Len(form) \in Nat /\ form[1] <= 80
  BY FormShape
<1>2. /\ data \in Seq(Nat) /\ Len(data) = 8 + Len(form) /\ Len(data) \in Nat /\ data[1] = 161
      /\ Holds(data, 8, form) /\ Holds(data, 1, Text(Key(6, 115)))
  <2>1. /\ data \in Seq(Nat) /\ Len(data) = 6 + 2 + Len(form) /\ data[1] = 161
        /\ Holds(data, 6 + 2, form) /\ Holds(data, 1, Text(Key(6, 115)))
    BY DEF OnePair
  <2>. QED BY <1>1, <2>1
<1>3. data[2] = 102 /\ data[3] = 115 /\ data[8 + 1] <= 80
  <2>1. data[2] = 96 + 6 /\ data[3] = 115
    BY <1>2, KeyStarts, SMTT(30)
  <2>2. data[8 + 1] = form[1]
    BY <1>1, <1>2 DEF Holds
  <2>. QED BY <1>1, <2>1, <2>2
<1>4. CASE n = 0
  <2>1. short = << >>
    BY <1>2, <1>4, Beginning
  <2>2. n # Len(data)
    BY <1>1, <1>2, <1>4
  <2>. QED BY <2>1, <2>2, NothingDecoded
<1>5. CASE n # 0
  <2>1. n \in 1..Len(data)
    BY <1>5
  <2>2. /\ short \in Seq(Nat) /\ Len(short) = n /\ short # << >> /\ short[1] = 161
        /\ n < 6 + 2 => Cut(short, 1, Text(Key(6, 115)))
        /\ n >= 6 + 2 => Holds(short, 1, Text(Key(6, 115)))
        /\ n >= 6 + 2 /\ n < Len(data) => Cut(short, 6 + 2, form)
    <3>1. form \in Seq(Nat)
      BY <1>1
    <3>. QED BY <2>1, <3>1, ShortPair, SMTT(30)
  <2>3. n = Len(data) => short = data
    BY <1>2, Beginning
  <2>4. \A i \in 1..n : short[i] = data[i]
    BY <1>2, Beginning
  <2> HIDE DEF short
  <2>5. decodeReceiptUndelegateStart(short) = Reverted
    BY <2>2, OtherHeader
  <2>6. decodeReceiptUndelegateDone(short) = Reverted
    <3>1. CASE n < 8
      BY <2>2, <3>1, DoneCutKey
    <3>2. CASE ~ (n < 8)
      <4>1. Holds(short, 1, Text(Key(6, 115)))
        BY <2>2, <3>2
      <4>2. 6 + 2 < Len(short) => short[6 + 3] <= 80 \/ short[6 + 3] = 162
        <5> SUFFICES ASSUME 6 + 2 < Len(short) PROVE short[9] <= 80
          OBVIOUS
        <5>1. 9 \in 1..n
          BY <2>2
        <5>. QED BY <1>3, <2>4, <5>1
      <4>3. Key(6, 115) # AmountKey
        BY KeysEnd DEF SharesKey
      <4> DEFINE len == 6
      <4>4. /\ len \in Nat /\ len <= 31 /\ Holds(short, 1, Text(Key(len, 115))) /\ Key(len, 115) # AmountKey
            /\ len + 2 < Len(short) => short[len + 3] <= 80 \/ short[len + 3] = 162
        BY <4>1, <4>2, <4>3
      <4> HIDE DEF len
      <4>. QED BY <2>2, <4>4, DoneOtherKey
    <3>. QED BY <3>1, <3>2
  <2> DEFINE shares == parseUintUpTo(short, 8, 16)
  <2>7. CASE n < 3
    <3>1. n # Len(data)
      BY <1>1, <1>2, <2>7
    <3>2. decodeReceiptDelegate(short) = Reverted
      BY <2>2, <2>7, OtherHeader
    <3>. QED BY <2>5, <2>6, <3>1, <3>2 DEF short
  <2>8. CASE ~ (n < 3)
    <3>1. 2 \in 1..n /\ 3 \in 1..n /\ ~ (Len(short) < 3)
      BY <2>1, <2>2, <2>8
    <3>2. short[1] = 161 /\ short[2] = 102 /\ short[3] = 115
      BY <1>3, <2>2, <2>4, <3>1
    <3>3. decodeReceiptDelegate(short) =
            IF shares = Reverted THEN Reverted
            ELSE IF shares.newOffset # Len(short) THEN Reverted ELSE shares.value
      BY <3>1, <3>2 DEF decodeReceiptDelegate
    <3>4. CASE n = Len(data)
      <4>1. parseUint(short, 8) = Parsed(8 + Len(form), word)
        <5>1. Holds(short, 8, form)
          BY <1>2, <2>3, <3>4
        <5>. QED BY <2>2, <5>1, IntegerRead
      <4>2. 8 + Len(form) \in Nat /\ word \in Seq(Nat) /\ 8 + Len(form) = Len(short)
        BY <1>1, <1>2, <2>2, <3>4 DEF Canonical
      <4>3. /\ Parsed(8 + Len(form), word) # Reverted
            /\ Parsed(8 + Len(form), word).newOffset = 8 + Len(form)
            /\ Parsed(8 + Len(form), word).value = word
        BY <4>2, ParsedIs
      <4>4. ~ (Len(word) > 16)
        BY <4>2
      <4>5. shares = Parsed(8 + Len(form), word)
        BY <4>1, <4>3, <4>4 DEF parseUintUpTo
      <4> HIDE DEF shares
      <4>6. decodeReceiptDelegate(short) = word
        BY <3>3, <4>2, <4>3, <4>5
      <4>. QED BY <2>5, <2>6, <3>4, <4>6 DEF short
    <3>5. CASE n # Len(data)
      <4>1. parseUint(short, 8) = Reverted
        <5>1. CASE n < 8
          <6>1. 8 >= Len(short)
            BY <2>2, <5>1
          <6>. QED BY <6>1 DEF parseUint
        <5>2. CASE ~ (n < 8)
          <6>1. Cut(short, 8, form)
            BY <1>2, <2>2, <5>2, <3>5
          <6>. QED BY <2>2, <6>1, IntegerRead
        <5>. QED BY <5>1, <5>2
      <4>2. shares = Reverted
        BY <4>1 DEF parseUintUpTo
      <4>. QED BY <2>5, <2>6, <3>3, <3>5, <4>2 DEF short
    <3>. QED BY <3>4, <3>5
  <2>. QED BY <2>7, <2>8
<1>. QED BY <1>4, <1>5

\* In an error there is nothing to decode.
LEMMA ErrorReceipt ==
  ASSUME NEW data, ErrorPair(data), NEW n \in 0..Len(data)
  PROVE  LET short == SubSeq(data, 1, n)
         IN  /\ decodeReceiptDelegate(short) = Reverted
             /\ decodeReceiptUndelegateStart(short) = Reverted
             /\ decodeReceiptUndelegateDone(short) = Reverted
<1> DEFINE short == SubSeq(data, 1, n)
           text == Text(Key(5, 101))
<1>1. /\ data \in Seq(Nat) /\ Len(data) >= 8 /\ Len(data) \in Nat /\ data[1] = 161
      /\ Holds(data, 1, text) /\ data[8] = 162
  BY DEF ErrorPair, EpochKey
<1>2. data[2] = 96 + 5
  BY <1>1, KeyStarts
<1>3. CASE n = 0
  BY <1>1, <1>3, Beginning, NothingDecoded
<1>4. CASE n # 0
  <2>1. /\ short \in Seq(Nat) /\ Len(short) = n /\ \A i \in 1..n : short[i] = data[i]
    BY <1>1, Beginning
  <2>2. /\ 1 + Len(text) <= n => Holds(short, 1, text)
        /\ 1 <= n /\ n < 1 + Len(text) => Cut(short, 1, text)
        /\ text \in Seq(Nat) /\ Len(text) = 5 + 1
    <3> DEFINE len == 5
               at == 1
               letter == 101
               other == Text(Key(len, letter))
    <3>1. len \in Nat /\ at \in Nat /\ letter \in Nat
      OBVIOUS
    <3>2. Holds(data, at, other)
      BY <1>1
    <3> HIDE DEF len, at, letter
    <3>3. other \in Seq(Nat) /\ Len(other) = len + 1
      BY <3>1, TextShape
    <3> HIDE DEF other
    <3>4. /\ at + Len(other) <= n => Holds(short, at, other)
          /\ at <= n /\ n < at + Len(other) => Cut(short, at, other)
      BY <1>1, <3>1, <3>2, <3>3, CutShort
    <3>. QED BY <3>3, <3>4 DEF other, at, len, letter
  <2> HIDE DEF short, text
  <2>3. short # << >> /\ short[1] = 161 /\ n >= 1 /\ n \in Nat
    <3>1. n >= 1 /\ n \in Nat /\ 1 \in 1..n
      BY <1>4
    <3>2. short[1] = 161
      BY <1>1, <2>1, <3>1
    <3>3. short # << >>
      BY <2>1, <3>1
    <3>. QED BY <3>1, <3>2, <3>3
  <2>4. decodeReceiptUndelegateStart(short) = Reverted
    BY <2>1, <2>3, OtherHeader
  <2>5. decodeReceiptDelegate(short) = Reverted
    <3>1. CASE n < 3
      BY <2>1, <2>3, <3>1, OtherHeader
    <3>2. CASE ~ (n < 3)
      <4>1. 2 \in 1..n /\ Len(short) >= 3
        BY <2>1, <2>3, <3>2
      <4>2. short[2] # 102
        BY <1>2, <2>1, <4>1
      <4>. QED BY <2>1, <2>3, <4>1, <4>2, OtherHeader
    <3>. QED BY <3>1, <3>2
  <2>6. decodeReceiptUndelegateDone(short) = Reverted
    <3>1. CASE n < 7
      <4>1. Cut(short, 1, text)
        BY <2>2, <2>3, <3>1
      <4>. QED BY <2>1, <2>3, <4>1, DoneCutKey DEF text
    <3>2. CASE ~ (n < 7)
      <4>1. Holds(short, 1, text)
        BY <2>2, <2>3, <3>2
      <4>2. 5 + 2 < Len(short) => short[8] = 162
        <5> SUFFICES ASSUME 5 + 2 < Len(short) PROVE short[8] = 162
          OBVIOUS
        <5>1. 8 \in 1..n
          BY <2>1
        <5>. QED BY <1>1, <2>1, <5>1
      <4>3. Key(5, 101) # AmountKey
        BY KeysEnd DEF EpochKey
      <4> DEFINE len == 5
      <4>4. /\ len \in Nat /\ len <= 31 /\ Holds(short, 1, Text(Key(len, 101))) /\ Key(len, 101) # AmountKey
            /\ len + 2 < Len(short) => short[len + 3] <= 80 \/ short[len + 3] = 162
        BY <4>1, <4>2, <4>3 DEF text
      <4> HIDE DEF len
      <4>. QED BY <2>1, <2>3, <4>4, DoneOtherKey
    <3>. QED BY <3>1, <3>2
  <2>. QED BY <2>4, <2>5, <2>6 DEF short
<1>. QED BY <1>3, <1>4

\* The parts of a receipt of two pairs, and what is left of each of them.
LEMMA ShortPart ==
  ASSUME NEW data \in Seq(Nat), NEW n \in 1..Len(data), NEW at \in Nat, NEW part \in Seq(Nat),
         Holds(data, at, part), NEW next, next = at + Len(part),
         NEW short, short = SubSeq(data, 1, n)
  PROVE  /\ next <= n => Holds(short, at, part)
         /\ at <= n /\ n < next => Cut(short, at, part)
<1>1. n \in 0..Len(data)
  OBVIOUS
<1>. QED BY <1>1, CutShort

LEMMA TextLength ==
  ASSUME NEW len \in Nat, NEW letter \in Nat, NEW at \in Nat
  PROVE  Text(Key(len, letter)) \in Seq(Nat) /\ at + 1 + len = at + Len(Text(Key(len, letter)))
<1> DEFINE text == Text(Key(len, letter))
<1>1. text \in Seq(Nat) /\ Len(text) = len + 1
  BY TextShape
<1> HIDE DEF text
<1>2. at + 1 + len = at + Len(text)
  BY <1>1
<1>. QED BY <1>1, <1>2 DEF text

LEMMA KeyLength ==
  ASSUME NEW len \in 1..31
  PROVE  len \in Nat /\ len >= 1 /\ len <= 31
OBVIOUS

LEMMA TwoOfTwo ==
  ASSUME NEW a, NEW b, NEW c \in {a, b}, NEW d \in {a, b}, c # d
  PROVE  {a, b} = {c, d}
OBVIOUS

HasBoth(found, key1, word1, key2, word2) == found[key1] = word1 /\ found[key2] = word2

\* What is found of two pairs, each a text and a form, by what is left of them.
PairsTell(data, found, keys, offset, text1, at1, form1, next, text2, at2, form2, both) ==
  /\ Cut(data, offset, text1) => NotAll(found, keys)
  /\ Holds(data, offset, text1) =>
       /\ Cut(data, at1, form1) => NotAll(found, keys)
       /\ Holds(data, at1, form1) =>
            /\ Cut(data, next, text2) => NotAll(found, keys)
            /\ Holds(data, next, text2) =>
                 /\ Cut(data, at2, form2) => NotAll(found, keys)
                 /\ Holds(data, at2, form2) /\ Len(data) = at2 + Len(form2) =>
                      ~ NotAll(found, keys) /\ both

\* A pair that is asked for; and where its parts are.
Entry(keys, len, letter, word, form) ==
  /\ len \in 1..31 /\ letter \in Nat /\ Key(len, letter) \in keys
  /\ Canonical(word) /\ Len(word) <= 8 /\ Integer(form, word)
Laid(offset, len, at, form, next) ==
  /\ offset \in Nat /\ at \in Nat /\ next \in Nat
  /\ offset + 1 + len = at /\ at + Len(form) = next

\* What _decodeReceiptUndelegateStart finds of the pairs of two keys it asks for, in
\* either order: both when they are there, else not both.
LEMMA BothFound ==
  ASSUME NEW data \in Seq(Nat), NEW f, NEW keys, keys = {EpochKey, ReceiptKey},
         FoundFrom(data, keys, 8, f, 0),
         NEW len1, NEW letter1, NEW word1, NEW form1, Entry(keys, len1, letter1, word1, form1),
         NEW len2, NEW letter2, NEW word2, NEW form2, Entry(keys, len2, letter2, word2, form2),
         Key(len1, letter1) # Key(len2, letter2),
         NEW offset, NEW at1, NEW next, NEW at2, Laid(offset, len1, at1, form1, next),
         Laid(next, len2, at2, form2, at2 + Len(form2))
  PROVE  PairsTell(data, f[offset], keys, offset, Text(Key(len1, letter1)), at1, form1,
                   next, Text(Key(len2, letter2)), at2, form2,
                   HasBoth(f[offset], Key(len1, letter1), word1, Key(len2, letter2), word2))
<1> DEFINE key1 == Key(len1, letter1)
           key2 == Key(len2, letter2)
           text1 == Text(key1)
           text2 == Text(key2)
           Missed == f[offset] = Reverted \/ DOMAIN f[offset] # keys
<1> DEFINE end == at2 + Len(form2)
<1>0. /\ len1 \in 1..31 /\ letter1 \in Nat /\ Canonical(word1) /\ Len(word1) <= 8 /\ Integer(form1, word1)
      /\ len2 \in 1..31 /\ letter2 \in Nat /\ Canonical(word2) /\ Len(word2) <= 8 /\ Integer(form2, word2)
      /\ Key(len1, letter1) \in keys /\ Key(len2, letter2) \in keys
      /\ offset \in Nat /\ at1 \in Nat /\ next \in Nat /\ at2 \in Nat /\ end \in Nat
      /\ offset + 1 + len1 = at1 /\ at1 + Len(form1) = next /\ next + 1 + len2 = at2
  BY DEF Entry, Laid
<1>1. /\ len1 \in Nat /\ len1 >= 1 /\ len1 <= 31 /\ len2 \in Nat /\ len2 >= 1 /\ len2 <= 31
      /\ keys \in SUBSET ReceiptKeys
  <2>1. keys \in SUBSET ReceiptKeys
    BY DEF ReceiptKeys
  <2>2. len1 \in Nat /\ len1 >= 1 /\ len1 <= 31 /\ len2 \in Nat /\ len2 >= 1 /\ len2 <= 31
    BY <1>0, KeyLength
  <2>. QED BY <2>1, <2>2
<1>2. /\ key1 \in ReceiptKeys /\ key2 \in ReceiptKeys /\ key1 # key2 /\ keys = {key1, key2}
      /\ key1 \in keys /\ key2 \in keys
  <2>1. key1 \in keys /\ key2 \in keys /\ key1 # key2
    BY <1>0
  <2> HIDE DEF key1, key2
  <2>2. key1 \in {EpochKey, ReceiptKey} /\ key2 \in {EpochKey, ReceiptKey}
    BY <2>1
  <2>3. keys = {key1, key2}
    BY <2>1, <2>2, TwoOfTwo
  <2>. QED BY <1>1, <2>1, <2>3
<1>3. word1 \in Seq(Nat) /\ word2 \in Seq(Nat) /\ << >> # Reverted
  BY Added, <1>0, <1>2 DEF Canonical
<1>4. ASSUME Cut(data, offset, text1) PROVE Missed
  <2>1. f[offset] = << >>
    BY <1>0, <1>1, <1>4, PairCutShort
  <2> HIDE DEF key1, key2
  <2>2. DOMAIN << >> # keys
    BY <1>2
  <2>. QED BY <2>1, <2>2
<1>5. ASSUME Holds(data, offset, text1)
      PROVE  f[offset] = ReceiptValue(key1, parseUintUpTo(data, at1, 8), f)
  <2>1. f[offset] = IF key1 \in keys
                    THEN ReceiptValue(key1, parseUintUpTo(data, offset + 1 + len1, 8), f)
                    ELSE f[offset + 1 + len1]
    BY <1>0, <1>1, <1>5, PairOfKey
  <2> HIDE DEF key1
  <2>. QED BY <1>0, <1>2, <2>1
<1>6. ASSUME Holds(data, next, text2)
      PROVE  f[next] = ReceiptValue(key2, parseUintUpTo(data, at2, 8), f)
  <2>1. f[next] = IF key2 \in keys
                  THEN ReceiptValue(key2, parseUintUpTo(data, next + 1 + len2, 8), f)
                  ELSE f[next + 1 + len2]
    BY <1>0, <1>1, <1>6, PairOfKey
  <2> HIDE DEF key2
  <2>. QED BY <1>0, <1>2, <2>1
<1> HIDE DEF text1, text2, key1, key2
<1>7. ASSUME Cut(data, at1, form1)
      PROVE  ReceiptValue(key1, parseUintUpTo(data, at1, 8), f) = Reverted
  BY <1>0, <1>7, PairOfInteger
<1>8. ASSUME Holds(data, at1, form1)
      PROVE  ReceiptValue(key1, parseUintUpTo(data, at1, 8), f) =
               IF f[next] = Reverted THEN Reverted ELSE Stored(key1, word1, f[next])
  <2>1. LET rest == f[at1 + Len(form1)]
        IN  ReceiptValue(key1, parseUintUpTo(data, at1, 8), f) =
              IF rest = Reverted THEN Reverted ELSE Stored(key1, word1, rest)
    BY <1>0, <1>8, PairOfInteger
  <2>. QED BY <1>0, <2>1
<1>9. ASSUME Cut(data, at2, form2)
      PROVE  ReceiptValue(key2, parseUintUpTo(data, at2, 8), f) = Reverted
  BY <1>0, <1>9, PairOfInteger
<1>10. ASSUME Holds(data, at2, form2), Len(data) = end
       PROVE  ReceiptValue(key2, parseUintUpTo(data, at2, 8), f) = Stored(key2, word2, << >>)
  <2>1. LET rest == f[at2 + Len(form2)]
        IN  ReceiptValue(key2, parseUintUpTo(data, at2, 8), f) =
              IF rest = Reverted THEN Reverted ELSE Stored(key2, word2, rest)
    BY <1>0, <1>10, PairOfInteger, SMTT(30)
  <2>2. end >= Len(data)
    BY <1>0, <1>10
  <2>3. f[end] = << >>
    BY <1>0, <2>2, NoPairLeft
  <2>. QED BY <1>3, <2>1, <2>3
<1>11. ASSUME Holds(data, offset, text1), Cut(data, at1, form1) PROVE Missed
  BY <1>5, <1>7, <1>11
<1>12. ASSUME Holds(data, offset, text1), Holds(data, at1, form1), Cut(data, next, text2) PROVE Missed
  <2>1. f[next] = << >>
    BY <1>0, <1>1, <1>12, PairCutShort DEF text2, key2
  <2>2. f[offset] = Stored(key1, word1, << >>)
    BY <1>3, <1>5, <1>8, <1>12, <2>1
  <2>3. DOMAIN Stored(key1, word1, << >>) = {key1}
    BY <1>2, <1>3, Added
  <2>4. {key1} # keys
    <3>1. key2 \in keys /\ key2 \notin {key1}
      BY <1>2, Zenon
    <3>. QED BY <3>1, Zenon
  <2>. QED BY <2>2, <2>3, <2>4
<1>13. ASSUME Holds(data, offset, text1), Holds(data, at1, form1), Holds(data, next, text2), Cut(data, at2, form2)
       PROVE  Missed
  <2>1. f[next] = Reverted
    BY <1>6, <1>9, <1>13
  <2>2. f[offset] = Reverted
    BY <1>5, <1>8, <1>13, <2>1
  <2>. QED BY <2>2
<1>14. ASSUME Holds(data, offset, text1), Holds(data, at1, form1), Holds(data, next, text2),
              Holds(data, at2, form2), Len(data) = end
       PROVE  ~ Missed /\ f[offset][key1] = word1 /\ f[offset][key2] = word2
  <2>1. f[next] = Stored(key2, word2, << >>)
    BY <1>6, <1>10, <1>14
  <2>2. Stored(key2, word2, << >>) # Reverted
    BY <1>2, <1>3, Added
  <2>3. f[offset] = Stored(key1, word1, Stored(key2, word2, << >>))
    BY <1>5, <1>8, <1>14, <2>1, <2>2
  <2> DEFINE two == Stored(key1, word1, Stored(key2, word2, << >>))
  <2>4. two # Reverted /\ DOMAIN two = {key1, key2} /\ two[key1] = word1 /\ two[key2] = word2
    <3>1. key1 \in ReceiptKeys /\ key2 \in ReceiptKeys /\ key1 # key2
      BY <1>2
    <3>2. word1 \in Seq(Nat) /\ word2 \in Seq(Nat)
      BY <1>3
    <3> DEFINE one == Stored(key2, word2, << >>)
    <3>3. two = Stored(key1, word1, one)
      OBVIOUS
    <3> HIDE DEF two
    <3>4. one = Stored(key2, word2, << >>)
      OBVIOUS
    <3> HIDE DEF one
    <3>5. TwoStored(two, key1, word1, key2, word2)
      BY <3>1, <3>2, <3>3, <3>4, AddedTwo
    <3>. QED BY <3>5 DEF TwoStored
  <2> HIDE DEF two
  <2>5. f[offset] = two
    BY <2>3 DEF two
  <2>. QED BY <1>2, <2>4, <2>5
<1>15. PairsTell(data, f[offset], keys, offset, text1, at1, form1, next, text2, at2, form2,
                 HasBoth(f[offset], key1, word1, key2, word2))
  BY <1>4, <1>11, <1>12, <1>13, <1>14 DEF PairsTell, NotAll, HasBoth
<1>. QED BY <1>15 DEF text1, text2, key1, key2

\* The receipt of an undelegation that has begun: both its numbers, and nothing else.
LEMMA StartReceipt ==
  ASSUME NEW data, NEW keys, keys = {EpochKey, ReceiptKey},
         NEW len1 \in 1..31, NEW letter1 \in Nat, NEW len2 \in 1..31, NEW letter2 \in Nat,
         Key(len1, letter1) \in keys, Key(len2, letter2) \in keys, Key(len1, letter1) # Key(len2, letter2),
         NEW word1, Canonical(word1), Len(word1) <= 8, NEW word2, Canonical(word2), Len(word2) <= 8,
         NEW form1, Integer(form1, word1), NEW form2, Integer(form2, word2),
         TwoPairs(data, len1, letter1, form1, len2, letter2, form2), NEW n \in 0..Len(data)
  PROVE  LET short == SubSeq(data, 1, n)
             got == decodeReceiptUndelegateStart(short)
         IN  /\ n # Len(data) => got = Reverted
             /\ n = Len(data) => got # Reverted /\ got[Key(len1, letter1)] = word1
                                                /\ got[Key(len2, letter2)] = word2
             /\ decodeReceiptUndelegateDone(short) = Reverted
             /\ decodeReceiptDelegate(short) = Reverted
<1> DEFINE short == SubSeq(data, 1, n)
           got == decodeReceiptUndelegateStart(short)
           key1 == Key(len1, letter1)
           key2 == Key(len2, letter2)
           text1 == Text(key1)
           text2 == Text(key2)
           at1 == len1 + 2
           next == at1 + Len(form1)
           at2 == next + len2 + 1
           end == at2 + Len(form2)
<1>1. /\ form1 \in Seq(Nat) /\ Len(form1) \in Nat /\ Len(form1) >= 1
      /\ form2 \in Seq(Nat) /\ Len(form2) \in Nat /\ Len(form2) >= 1
  BY FormShape
<1>2. /\ len1 \in Nat /\ len1 >= 1 /\ len1 <= 31 /\ len2 \in Nat /\ len2 >= 1 /\ len2 <= 31
  BY KeyLength
<1>3. /\ data \in Seq(Nat) /\ Len(data) = end /\ data[1] = 162
      /\ Holds(data, 1, text1) /\ Holds(data, at1, form1)
      /\ Holds(data, next, text2) /\ Holds(data, at2, form2)
  BY DEF TwoPairs
<1>4. /\ at1 \in Nat /\ next \in Nat /\ at2 \in Nat /\ end \in Nat
      /\ 1 + 1 + len1 = at1 /\ at1 + Len(form1) = next /\ next + 1 + len2 = at2 /\ at2 + Len(form2) = end
      /\ at1 < next /\ next < at2 /\ at2 < end /\ end \in Nat /\ at1 > 1
  <2> DEFINE l1 == Len(form1)
             l2 == Len(form2)
  <2>1. l1 \in Nat /\ l1 >= 1 /\ l2 \in Nat /\ l2 >= 1
    BY <1>1
  <2> HIDE DEF l1, l2
  <2>2. /\ len1 + 2 \in Nat /\ len1 + 2 + l1 \in Nat /\ len1 + 2 + l1 + len2 + 1 \in Nat
        /\ len1 + 2 + l1 + len2 + 1 + l2 \in Nat
        /\ 1 + 1 + len1 = len1 + 2 /\ len1 + 2 + l1 + 1 + len2 = len1 + 2 + l1 + len2 + 1
        /\ len1 + 2 < len1 + 2 + l1 /\ len1 + 2 + l1 < len1 + 2 + l1 + len2 + 1
        /\ len1 + 2 + l1 + len2 + 1 < len1 + 2 + l1 + len2 + 1 + l2 /\ len1 + 2 > 1
    BY <1>2, <2>1
  <2>. QED BY <2>2 DEF l1, l2
<1>5. /\ text1 \in Seq(Nat) /\ at1 = 1 + Len(text1)
      /\ text2 \in Seq(Nat) /\ at2 = next + Len(text2)
  <2>1. text1 \in Seq(Nat) /\ 1 + 1 + len1 = 1 + Len(text1)
    BY <1>2, TextLength
  <2>2. text2 \in Seq(Nat) /\ next + 1 + len2 = next + Len(text2)
    <3>1. next \in Nat
      BY <1>4
    <3> HIDE DEF next
    <3>. QED BY <1>2, <3>1, TextLength
  <2> HIDE DEF text1, text2, at1, at2, next
  <2>. QED BY <1>4, <2>1, <2>2
<1> HIDE DEF text1, text2, at1, next, at2, end
<1>6. CASE n = 0
  <2>1. short = << >>
    BY <1>3, <1>6, Beginning
  <2>2. n # Len(data)
    BY <1>3, <1>4, <1>6
  <2>. QED BY <2>1, <2>2, NothingDecoded
<1>7. CASE n # 0
  <2>1. n \in 1..Len(data) /\ n \in Nat /\ n <= end /\ n >= 1
    BY <1>3, <1>4, <1>7
  <2>2. short \in Seq(Nat) /\ Len(short) = n /\ \A i \in 1..n : short[i] = data[i]
    BY <1>3, Beginning
  <2>3. /\ at1 <= n => Holds(short, 1, text1)
        /\ n < at1 => Cut(short, 1, text1)
    <3> DEFINE one == 1
    <3>1. one \in Nat /\ Holds(data, one, text1) /\ at1 = one + Len(text1)
      BY <1>3, <1>5
    <3> HIDE DEF one
    <3>2. /\ at1 <= n => Holds(short, one, text1)
          /\ one <= n /\ n < at1 => Cut(short, one, text1)
      BY <1>3, <1>5, <2>1, <3>1, ShortPart
    <3>. QED BY <2>1, <3>2 DEF one
  <2>4. /\ next <= n => Holds(short, at1, form1)
        /\ at1 <= n /\ n < next => Cut(short, at1, form1)
    <3>1. at1 \in Nat /\ form1 \in Seq(Nat)
      BY <1>1, <1>4
    <3>2. Holds(data, at1, form1) /\ next = at1 + Len(form1)
      BY <1>3, <1>4, <1>5
    <3>3. data \in Seq(Nat)
      BY <1>3
    <3> HIDE DEF short
    <3>4. short = SubSeq(data, 1, n)
      BY DEF short
    <3>. QED BY <2>1, <3>1, <3>2, <3>3, <3>4, ShortPart
  <2>5. /\ at2 <= n => Holds(short, next, text2)
        /\ next <= n /\ n < at2 => Cut(short, next, text2)
    <3>1. next \in Nat /\ text2 \in Seq(Nat)
      BY <1>4, <1>5
    <3>2. Holds(data, next, text2) /\ at2 = next + Len(text2)
      BY <1>3, <1>4, <1>5
    <3>3. data \in Seq(Nat)
      BY <1>3
    <3> HIDE DEF short
    <3>4. short = SubSeq(data, 1, n)
      BY DEF short
    <3>. QED BY <2>1, <3>1, <3>2, <3>3, <3>4, ShortPart
  <2>6. /\ end <= n => Holds(short, at2, form2)
        /\ at2 <= n /\ n < end => Cut(short, at2, form2)
    <3>1. at2 \in Nat /\ form2 \in Seq(Nat)
      BY <1>1, <1>4
    <3>2. Holds(data, at2, form2) /\ end = at2 + Len(form2)
      BY <1>3, <1>4, <1>5
    <3>3. data \in Seq(Nat)
      BY <1>3
    <3> HIDE DEF short
    <3>4. short = SubSeq(data, 1, n)
      BY DEF short
    <3>. QED BY <2>1, <3>1, <3>2, <3>3, <3>4, ShortPart
  <2> HIDE DEF short
  <2>7. short # << >> /\ short[1] = 162
    <3>1. 1 \in 1..n
      BY <2>1
    <3>2. short[1] = 162
      BY <1>3, <2>2, <3>1
    <3>3. short # << >>
      BY <2>1, <2>2
    <3>. QED BY <3>2, <3>3
  <2>8. decodeReceiptUndelegateDone(short) = Reverted /\ decodeReceiptDelegate(short) = Reverted
    BY <2>2, <2>7, OtherHeader
  <2>9. PICK f : StartFinds(short, keys, f)
    BY <2>2, <2>7, StartFound
  <2> DEFINE Missed == NotAll(f[1], keys)
  <2>10. got = IF Missed THEN Reverted ELSE f[1]
    BY <2>9 DEF StartFinds
  <2>11. PairsTell(short, f[1], keys, 1, text1, at1, form1, next, text2, at2, form2,
                   HasBoth(f[1], key1, word1, key2, word2))
    <3> DEFINE offset == 1
    <3>1. offset \in Nat /\ offset + 1 + len1 = at1
      BY <1>4
    <3>2. FoundFrom(short, keys, 8, f, 0)
      BY <2>9 DEF StartFinds
    <3> HIDE DEF offset
    <3>3. at1 \in Nat /\ next \in Nat /\ at2 \in Nat /\ end \in Nat /\ offset \in Nat
      BY <1>4, <3>1
    <3>4. /\ offset + 1 + len1 = at1 /\ at1 + Len(form1) = next /\ next + 1 + len2 = at2
          /\ at2 + Len(form2) = end
      BY <1>4, <3>1
    <3>5. short \in Seq(Nat)
      BY <2>2
    <3>6. PairsTell(short, f[offset], keys, offset, Text(Key(len1, letter1)), at1, form1,
                    next, Text(Key(len2, letter2)), at2, form2,
                    HasBoth(f[offset], Key(len1, letter1), word1, Key(len2, letter2), word2))
      <4>1. Entry(keys, len1, letter1, word1, form1) /\ Entry(keys, len2, letter2, word2, form2)
        BY DEF Entry
      <4>2. Laid(offset, len1, at1, form1, next) /\ Laid(next, len2, at2, form2, at2 + Len(form2))
        BY <3>3, <3>4 DEF Laid
      <4>. QED BY <3>2, <3>5, <4>1, <4>2, BothFound
    <3>. QED BY <3>6 DEF offset, text1, text2
  <2> HIDE DEF Missed, got
  <2>12. CASE n = Len(data)
    <3>1. n = end /\ at1 <= n /\ next <= n /\ at2 <= n /\ end <= n /\ Len(short) = at2 + Len(form2)
      BY <1>3, <1>4, <2>2, <2>12
    <3>2. ~ Missed /\ f[1][key1] = word1 /\ f[1][key2] = word2
      BY <2>3, <2>4, <2>5, <2>6, <2>11, <3>1 DEF HasBoth, PairsTell, Missed
    <3>3. got = f[1] /\ got # Reverted
      BY <2>10, <3>2 DEF Missed, NotAll
    <3>. QED BY <2>8, <2>12, <3>2, <3>3 DEF short, got
  <2>13. CASE n # Len(data)
    <3>1. n < end
      BY <1>3, <1>4, <2>1, <2>13
    <3>2. CASE n < at1
      BY <2>3, <2>8, <2>10, <2>11, <2>13, <3>2 DEF short, got, PairsTell, Missed
    <3>3. CASE at1 <= n /\ n < next
      BY <2>3, <2>4, <2>8, <2>10, <2>11, <2>13, <3>3 DEF short, got, PairsTell, Missed
    <3>4. CASE next <= n /\ n < at2
      <4>1. at1 <= n
        BY <1>4, <2>1, <3>4
      <4>. QED BY <2>3, <2>4, <2>5, <2>8, <2>10, <2>11, <2>13, <3>4, <4>1 DEF short, got, PairsTell, Missed
    <3>5. CASE at2 <= n
      <4>1. at1 <= n /\ next <= n
        BY <1>4, <2>1, <3>5
      <4>. QED BY <2>3, <2>4, <2>5, <2>6, <2>8, <2>10, <2>11, <2>13, <3>1, <3>5, <4>1 DEF short, got, PairsTell, Missed
    <3>6. n < at1 \/ (at1 <= n /\ n < next) \/ (next <= n /\ n < at2) \/ at2 <= n
      BY <1>4, <2>1
    <3>. QED BY <3>2, <3>3, <3>4, <3>5, <3>6
  <2>. QED BY <2>12, <2>13
<1>. QED BY <1>6, <1>7

-----------------------------------------------------------------------------
(***************************************************************************)
(* The receipts of a run, and what the decoders find in them.              *)
(***************************************************************************)

\* The receipts that the runtime writes have these shapes.
LEMMA HoldsAt ==
  ASSUME NEW data \in Seq(Nat), NEW offset \in Nat, NEW part \in Seq(Nat), Holds(data, offset, part),
         NEW within \in Nat, NEW inner \in Seq(Nat), Holds(part, within, inner),
         NEW at, at = offset + within
  PROVE  Holds(data, at, inner)
BY HoldsWithin

LEMMA HoldsFirst ==
  ASSUME NEW data \in Seq(Nat), NEW offset \in Nat, NEW part \in Seq(Nat), Holds(data, offset, part),
         NEW inner \in Seq(Nat), Holds(part, 0, inner)
  PROVE  Holds(data, offset, inner)
<1>1. 0 \in Nat /\ offset = offset + 0
  OBVIOUS
<1>. QED BY <1>1, HoldsAt

LEMMA TwoParts ==
  ASSUME NEW s \in Seq(Nat), NEW t \in Seq(Nat), NEW all, all = s \o t
  PROVE  /\ all \in Seq(Nat) /\ Len(all) = Len(s) + Len(t)
         /\ Holds(all, 0, s) /\ Holds(all, Len(s), t)
BY Joined, HoldsBoth

LEMMA ThreeParts ==
  ASSUME NEW s \in Seq(Nat), NEW t \in Seq(Nat), NEW u \in Seq(Nat), NEW all, all = s \o t \o u
  PROVE  /\ all \in Seq(Nat) /\ Len(all) = Len(s) + Len(t) + Len(u)
         /\ Holds(all, 0, s) /\ Holds(all, Len(s), t) /\ Holds(all, Len(s) + Len(t), u)
<1> DEFINE front == s \o t
<1>1. /\ front \in Seq(Nat) /\ Len(front) = Len(s) + Len(t) /\ Len(s) \in Nat /\ Len(t) \in Nat
      /\ Holds(front, 0, s) /\ Holds(front, Len(s), t)
  BY Joined, HoldsBoth
<1>2. all = front \o u
  OBVIOUS
<1> HIDE DEF front
<1>3. /\ all \in Seq(Nat) /\ Len(all) = Len(front) + Len(u)
      /\ Holds(all, 0, front) /\ Holds(all, Len(front), u)
  BY <1>1, <1>2, Joined, HoldsBoth, ZenonT(30)
<1>4. 0 + 0 = 0 /\ 0 + Len(s) = Len(s) /\ 0 \in Nat
  BY <1>1
<1>5. Holds(all, 0, s)
  BY <1>1, <1>3, <1>4, HoldsAt
<1>6. Holds(all, Len(s), t)
  BY <1>1, <1>3, <1>4, HoldsAt
<1>. QED BY <1>1, <1>3, <1>5, <1>6

LEMMA FirstByte ==
  ASSUME NEW byte \in Nat
  PROVE  <<byte>> \in Seq(Nat) /\ Len(<<byte>>) = 1 /\ <<byte>>[1] = byte
OBVIOUS

PairWritten(len, letter, form) == <<161>> \o Text(Key(len, letter)) \o form

LEMMA OnePairWritten ==
  ASSUME NEW len \in Nat, NEW letter \in Nat, NEW form \in Seq(Nat),
         NEW data, data = PairWritten(len, letter, form)
  PROVE  OnePair(data, len, letter, form)
<1> DEFINE first == <<161>>
           text == Text(Key(len, letter))
<1>1. first \in Seq(Nat) /\ Len(first) = 1 /\ first[1] = 161
  BY FirstByte
<1>2. text \in Seq(Nat) /\ Len(text) = len + 1
  BY TextShape
<1>3. data = first \o text \o form
  BY DEF PairWritten
<1> HIDE DEF first, text
<1>4. /\ data \in Seq(Nat) /\ Len(data) = Len(first) + Len(text) + Len(form)
      /\ Holds(data, 0, first) /\ Holds(data, Len(first), text) /\ Holds(data, Len(first) + Len(text), form)
  BY <1>1, <1>2, <1>3, ThreeParts
<1>5. Len(first) + Len(text) = len + 2 /\ Len(form) \in Nat
  BY <1>1, <1>2
<1>6. data[1] = 161
  <2>1. 1 \in 1..Len(first) /\ 0 + 1 = 1
    BY <1>1
  <2>2. data[0 + 1] = first[1]
    BY <1>4, <2>1 DEF Holds
  <2>. QED BY <1>1, <2>1, <2>2
<1>7. Len(data) = len + 2 + Len(form) /\ Holds(data, 1, text) /\ Holds(data, len + 2, form)
  BY <1>1, <1>4, <1>5
<1>. QED BY <1>4, <1>6, <1>7 DEF OnePair, text

PairsWritten(len1, letter1, form1, len2, letter2, form2) ==
  <<162>> \o ((Text(Key(len1, letter1)) \o form1) \o (Text(Key(len2, letter2)) \o form2))

LEMMA TwoPairsWritten ==
  ASSUME NEW len1 \in Nat, NEW letter1 \in Nat, NEW form1 \in Seq(Nat),
         NEW len2 \in Nat, NEW letter2 \in Nat, NEW form2 \in Seq(Nat),
         NEW data, data = PairsWritten(len1, letter1, form1, len2, letter2, form2)
  PROVE  TwoPairs(data, len1, letter1, form1, len2, letter2, form2)
<1> DEFINE first == <<162>>
           text1 == Text(Key(len1, letter1))
           text2 == Text(Key(len2, letter2))
           pair1 == text1 \o form1
           pair2 == text2 \o form2
           pairs == pair1 \o pair2
<1>1. first \in Seq(Nat) /\ Len(first) = 1 /\ first[1] = 162
  BY FirstByte
<1>2. text1 \in Seq(Nat) /\ Len(text1) = len1 + 1 /\ text2 \in Seq(Nat) /\ Len(text2) = len2 + 1
  BY TextShape
<1>3. data = first \o pairs /\ Len(form1) \in Nat /\ Len(form2) \in Nat
  BY DEF PairsWritten
<1> HIDE DEF first, text1, text2
<1>4. /\ pair1 \in Seq(Nat) /\ Len(pair1) = Len(text1) + Len(form1)
      /\ Holds(pair1, 0, text1) /\ Holds(pair1, Len(text1), form1)
  BY <1>2, Joined, HoldsBoth
<1>5. /\ pair2 \in Seq(Nat) /\ Len(pair2) = Len(text2) + Len(form2)
      /\ Holds(pair2, 0, text2) /\ Holds(pair2, Len(text2), form2)
  BY <1>2, Joined, HoldsBoth
<1> HIDE DEF pair1, pair2
<1>6. /\ pairs \in Seq(Nat) /\ Len(pairs) = Len(pair1) + Len(pair2)
      /\ Holds(pairs, 0, pair1) /\ Holds(pairs, Len(pair1), pair2)
  BY <1>4, <1>5, Joined, HoldsBoth
<1> HIDE DEF pairs
<1>7. /\ data \in Seq(Nat) /\ Len(data) = Len(first) + Len(pairs)
      /\ Holds(data, 0, first) /\ Holds(data, Len(first), pairs)
  BY <1>1, <1>3, <1>6, TwoParts
<1>8. data[1] = 162
  <2>1. 1 \in 1..Len(first) /\ 0 + 1 = 1
    BY <1>1
  <2>2. data[0 + 1] = first[1]
    BY <1>7, <2>1 DEF Holds
  <2>. QED BY <1>1, <2>1, <2>2
<1> DEFINE next == len1 + 2 + Len(form1)
<1>9. /\ next \in Nat /\ 1 \in Nat /\ 0 \in Nat /\ 1 + 0 = 1 /\ next + 0 = next
      /\ 1 + Len(pair1) = next /\ 1 + Len(text1) = len1 + 2 /\ next + Len(text2) = next + len2 + 1
      /\ Len(text1) \in Nat /\ Len(text2) \in Nat /\ Len(pair1) \in Nat
      /\ Len(data) = next + len2 + 1 + Len(form2)
  BY <1>1, <1>2, <1>3, <1>4, <1>5, <1>6, <1>7
<1> HIDE DEF next
<1>10. Holds(data, 1, pairs)
  BY <1>1, <1>7
<1>11. Holds(data, 1, pair1)
  <2>1. 1 \in Nat
    OBVIOUS
  <2>. QED BY <1>4, <1>6, <1>7, <1>10, <2>1, HoldsFirst
<1>12. Holds(data, next, pair2)
  BY <1>5, <1>6, <1>7, <1>9, <1>10, HoldsAt
<1>13. Holds(data, 1, text1)
  <2>1. 1 \in Nat
    OBVIOUS
  <2>. QED BY <1>2, <1>4, <1>7, <1>11, <2>1, HoldsFirst
<1>14. Holds(data, len1 + 2, form1)
  <2>1. 1 \in Nat /\ Len(text1) \in Nat /\ len1 + 2 = 1 + Len(text1)
    BY <1>9
  <2> DEFINE at == len1 + 2
  <2>2. at = 1 + Len(text1)
    BY <2>1
  <2> HIDE DEF at
  <2>3. Holds(data, at, form1)
    BY <1>4, <1>7, <1>11, <2>1, <2>2, HoldsAt
  <2>. QED BY <2>3 DEF at
<1>15. Holds(data, next, text2)
  <2>1. next \in Nat
    BY <1>9
  <2>. QED BY <1>2, <1>5, <1>7, <1>12, <2>1, HoldsFirst
<1>16. Holds(data, next + len2 + 1, form2)
  <2>1. next \in Nat /\ Len(text2) \in Nat /\ next + len2 + 1 = next + Len(text2)
    BY <1>9
  <2> DEFINE at == next + len2 + 1
  <2>2. at = next + Len(text2)
    BY <2>1
  <2> HIDE DEF at
  <2>3. Holds(data, at, form2)
    BY <1>5, <1>7, <1>12, <2>1, <2>2, HoldsAt
  <2>. QED BY <2>3 DEF at
<1>. QED BY <1>7, <1>8, <1>9, <1>13, <1>14, <1>15, <1>16 DEF TwoPairs, next, text1, text2

ErrorBytes(s, t, u, v) == <<161>> \o Text(Key(5, 101)) \o <<162>> \o s \o t \o u \o v

LEMMA ErrorWritten ==
  ASSUME NEW s \in Seq(Nat), NEW t \in Seq(Nat), NEW u \in Seq(Nat), NEW v \in Seq(Nat),
         NEW data, data = ErrorBytes(s, t, u, v)
  PROVE  ErrorPair(data)
<1> DEFINE form == <<162>>
           front == <<161>> \o Text(Key(5, 101)) \o form
           data1 == front \o s
           data2 == data1 \o t
           data3 == data2 \o u
<1>1. form \in Seq(Nat) /\ Len(form) = 1 /\ form[1] = 162
  BY FirstByte
<1>2. data = data3 \o v
  BY DEF ErrorBytes
<1> HIDE DEF form
<1>3. OnePair(front, 5, 101, form)
  <2> DEFINE len == 5
             letter == 101
             other == PairWritten(len, letter, form)
  <2>1. len \in Nat /\ letter \in Nat /\ other = front
    BY DEF PairWritten
  <2> HIDE DEF len, letter, front
  <2>2. OnePair(other, len, letter, form)
    BY <1>1, <2>1, OnePairWritten
  <2> HIDE DEF other
  <2>. QED BY <2>1, <2>2 DEF len, letter
<1>4. /\ front \in Seq(Nat) /\ Len(front) = 5 + 2 + Len(form) /\ front[1] = 161
      /\ Holds(front, 1, Text(Key(5, 101))) /\ Holds(front, 5 + 2, form)
  BY <1>3 DEF OnePair
<1> HIDE DEF front
<1>5. Len(front) = 8 /\ front[8] = 162
  <2>1. 1 \in 1..Len(form) /\ 5 + 2 + 1 = 8
    BY <1>1
  <2>2. front[5 + 2 + 1] = form[1]
    BY <1>4, <2>1 DEF Holds
  <2>. QED BY <1>1, <1>4, <2>1, <2>2
<1>6. data1 \in Seq(Nat) /\ Holds(data1, 0, front)
  BY <1>4, Joined, HoldsBoth
<1> HIDE DEF data1
<1>7. 0 \in Nat /\ 0 + 0 = 0
  OBVIOUS
<1>8. data2 \in Seq(Nat) /\ Holds(data2, 0, front)
  <2>1. data2 \in Seq(Nat) /\ Holds(data2, 0, data1)
    BY <1>6, Joined, HoldsBoth
  <2> HIDE DEF data2
  <2>. QED BY <1>4, <1>6, <1>7, <2>1, HoldsAt
<1> HIDE DEF data2
<1>9. data3 \in Seq(Nat) /\ Holds(data3, 0, front)
  <2>1. data3 \in Seq(Nat) /\ Holds(data3, 0, data2)
    BY <1>8, Joined, HoldsBoth
  <2> HIDE DEF data3
  <2>. QED BY <1>4, <1>7, <1>8, <2>1, HoldsAt
<1> HIDE DEF data3
<1>10. data \in Seq(Nat) /\ Holds(data, 0, front)
  <2>1. data \in Seq(Nat) /\ Holds(data, 0, data3)
    BY <1>2, <1>9, TwoParts
  <2>. QED BY <1>4, <1>7, <1>9, <2>1, HoldsAt
<1>11. Len(data) >= 8 /\ \A i \in 1..8 : data[i] = front[i]
  <2>1. 0 + Len(front) <= Len(data) /\ \A i \in 1..Len(front) : data[0 + i] = front[i]
    BY <1>10 DEF Holds
  <2>2. Len(data) \in Nat
    BY <1>10
  <2>3. 0 + 8 <= Len(data) /\ \A i \in 1..8 : data[0 + i] = front[i]
    BY <1>5, <2>1
  <2>4. ASSUME NEW i \in 1..8 PROVE data[i] = front[i]
    <3>1. 0 + i = i
      OBVIOUS
    <3>. QED BY <2>3, <3>1
  <2>5. Len(data) >= 8
    <3> DEFINE n == Len(data)
    <3>1. n \in Nat /\ 0 + 8 <= n
      BY <2>2, <2>3
    <3> HIDE DEF n
    <3>2. n >= 8
      BY <3>1
    <3>. QED BY <3>2 DEF n
  <2>. QED BY <2>4, <2>5, Zenon
<1>12. data[1] = 161 /\ data[8] = 162
  <2>1. 1 \in 1..8 /\ 8 \in 1..8
    OBVIOUS
  <2>2. front[1] = 161 /\ front[8] = 162
    BY <1>4, <1>5
  <2>3. data[1] = front[1] /\ data[8] = front[8]
    BY <1>11, <2>1
  <2>. QED BY <2>2, <2>3, SMTT(30)
<1>13. Holds(data, 1, Text(EpochKey))
  <2> DEFINE text == Text(Key(5, 101))
  <2>1. text \in Seq(Nat)
    BY TextShape
  <2>2. Holds(front, 1, text)
    BY <1>4
  <2> HIDE DEF text
  <2> DEFINE one == 1
  <2>3. one \in Nat /\ one = 0 + one
    OBVIOUS
  <2>4. Holds(front, one, text)
    BY <2>2
  <2>5. front \in Seq(Nat)
    BY <1>4
  <2> HIDE DEF one
  <2>6. Holds(data, one, text)
    BY <1>7, <1>10, <2>1, <2>3, <2>4, <2>5, HoldsAt
  <2>. QED BY <2>6 DEF text, EpochKey, one
<1>. QED BY <1>10, <1>11, <1>12, <1>13 DEF ErrorPair

\* The receipts of a run are such.
OfPair(data, len, letter, word) ==
  /\ Canonical(word) /\ Len(word) <= 16
  /\ \E form : Integer(form, word) /\ OnePair(data, len, letter, form)
OfPairs(data, len1, letter1, word1, len2, letter2, word2) ==
  /\ Canonical(word1) /\ Len(word1) <= 8 /\ Canonical(word2) /\ Len(word2) <= 8
  /\ \E form1, form2 : /\ Integer(form1, word1) /\ Integer(form2, word2)
                       /\ TwoPairs(data, len1, letter1, form1, len2, letter2, form2)
ReceiptInput ==
  /\ Given("delegate") => OfPair(input.data, 6, 115, input.shares)
  /\ Given("delegateError") => ErrorPair(input.data)
  /\ Given("undelegateDone") => OfPair(input.data, 6, 97, input.amount)
  /\ Given("undelegateStart") =>
       \/ OfPairs(input.data, 5, 101, input.epoch, 7, 114, input.receipt)
       \/ OfPairs(input.data, 7, 114, input.receipt, 5, 101, input.epoch)

LEMMA WordsUpTo ==
  ASSUME NEW n, NEW word \in UpTo(n)
  PROVE  Canonical(word) /\ Len(word) <= n
<1>1. word \in Words(16) /\ Len(word) <= n /\ 16 \in Nat
  BY DEF UpTo
<1>. QED BY <1>1, WordsAreCanonical

LEMMA TextIsBytes ==
  ASSUME NEW len \in Nat, NEW letter \in Nat
  PROVE  Text(Key(len, letter)) \in Seq(Nat)
BY TextShape

LEMMA WholeReceipt ==
  ASSUME NEW word \in UpTo(16), NEW form \in Forms(word, 16), NEW len \in Nat, NEW letter \in Nat,
         NEW data, data = PairWritten(len, letter, form)
  PROVE  OfPair(data, len, letter, word)
<1>1. Canonical(word) /\ Len(word) <= 16 /\ 16 \in Nat
  BY WordsUpTo
<1>2. Integer(form, word)
  BY <1>1, FormsAreIntegers
<1>3. form \in Seq(Nat)
  BY <1>1, <1>2, FormShape
<1>4. OnePair(data, len, letter, form)
  BY <1>3, OnePairWritten
<1>. QED BY <1>1, <1>2, <1>4 DEF OfPair

LEMMA WholeReceipts ==
  ASSUME NEW word1 \in UpTo(8), NEW form1 \in Forms(word1, 8), NEW len1 \in Nat, NEW letter1 \in Nat,
         NEW word2 \in UpTo(8), NEW form2 \in Forms(word2, 8), NEW len2 \in Nat, NEW letter2 \in Nat,
         NEW data, data = PairsWritten(len1, letter1, form1, len2, letter2, form2)
  PROVE  OfPairs(data, len1, letter1, word1, len2, letter2, word2)
<1>1. Canonical(word1) /\ Len(word1) <= 8 /\ Canonical(word2) /\ Len(word2) <= 8 /\ 8 \in Nat /\ 8 <= 16
  BY WordsUpTo
<1>2. Integer(form1, word1) /\ Integer(form2, word2)
  BY <1>1, FormsAreIntegers
<1>3. form1 \in Seq(Nat) /\ form2 \in Seq(Nat)
  BY <1>1, <1>2, FormShape
<1>4. TwoPairs(data, len1, letter1, form1, len2, letter2, form2)
  BY <1>3, TwoPairsWritten
<1>. QED BY <1>1, <1>2, <1>4 DEF OfPairs

LEMMA ReceiptsWritten == Spec => []ReceiptInput
<1>1. Init => ReceiptInput
  BY DEF Init, ReceiptInput, Given
<1>2. ASSUME ReceiptInput, [Next]_<<input, host, enclave>>
      PROVE  ReceiptInput'
  <2>1. CASE input' = input
    BY <1>2, <2>1 DEF ReceiptInput, Given
  <2>2. CASE ChooseDelegate
    <3>1. PICK shares \in UpTo(16) : \E form \in Forms(shares, 16) :
            input' = [alg |-> "delegate", shares |-> shares,
                      data |-> <<161>> \o Text(SharesKey) \o form]
      BY <2>2 DEF ChooseDelegate
    <3>2. PICK form \in Forms(shares, 16) :
            input' = [alg |-> "delegate", shares |-> shares,
                      data |-> <<161>> \o Text(SharesKey) \o form]
      BY <3>1
    <3> DEFINE data == <<161>> \o Text(SharesKey) \o form
    <3>3. OfPair(data, 6, 115, shares)
      <4>1. data = PairWritten(6, 115, form)
        BY DEF SharesKey, PairWritten
      <4> HIDE DEF data
      <4>. QED BY <4>1, WholeReceipt
    <3>4. input'.alg = "delegate" /\ input'.shares = shares /\ input'.data = data
      BY <3>2
    <3> HIDE DEF data
    <3>. QED BY <3>3, <3>4 DEF ReceiptInput, Given
  <2>3. CASE ChooseDelegateError
    <3>1. PICK code \in UpTo(1) :
            input' = [alg |-> "delegateError",
                      data |-> <<161>> \o Text(Key(5, 101)) \o <<162>> \o Text(Key(6, 109))
                                 \o Text(Key(9, 99)) \o Text(Key(4, 99)) \o encodeUint(code)]
      BY <2>3 DEF ChooseDelegateError
    <3> DEFINE data == <<161>> \o Text(Key(5, 101)) \o <<162>> \o Text(Key(6, 109))
                         \o Text(Key(9, 99)) \o Text(Key(4, 99)) \o encodeUint(code)
    <3>2. encodeUint(code) \in Seq(Nat)
      <4>1. Canonical(code) /\ Len(code) <= 1
        BY WordsUpTo
      <4>2. Len(code) <= 8 /\ 8 \in Nat /\ 8 <= 16
        <5>1. Len(code) \in Nat
          BY <4>1 DEF Canonical
        <5>. QED BY <4>1, <5>1
      <4>3. encodeUint(code) \in Forms(code, 8)
        BY <4>2 DEF Forms
      <4>4. Integer(encodeUint(code), code)
        BY <4>1, <4>2, <4>3, FormsAreIntegers
      <4>. QED BY <4>1, <4>4, FormShape
    <3>3. Text(Key(6, 109)) \in Seq(Nat) /\ Text(Key(9, 99)) \in Seq(Nat) /\ Text(Key(4, 99)) \in Seq(Nat)
      BY TextIsBytes
    <3>4. ErrorPair(data)
      <4> DEFINE s == Text(Key(6, 109))
                 t == Text(Key(9, 99))
                 u == Text(Key(4, 99))
                 v == encodeUint(code)
      <4>1. s \in Seq(Nat) /\ t \in Seq(Nat) /\ u \in Seq(Nat) /\ v \in Seq(Nat)
        BY <3>2, <3>3
      <4>2. data = ErrorBytes(s, t, u, v)
        BY DEF ErrorBytes
      <4> HIDE DEF s, t, u, v, data
      <4>. QED BY <4>1, <4>2, ErrorWritten
    <3>5. input'.alg = "delegateError" /\ input'.data = data
      BY <3>1
    <3> HIDE DEF data
    <3>. QED BY <3>4, <3>5 DEF ReceiptInput, Given
  <2>4. CASE ChooseUndelegateStart
    <3>1. PICK epoch \in UpTo(8), receipt \in UpTo(8) : \E e \in Forms(epoch, 8), r \in Forms(receipt, 8) :
            LET epochPair == Text(EpochKey) \o e
                receiptPair == Text(ReceiptKey) \o r
            IN  \E pairs \in {epochPair \o receiptPair, receiptPair \o epochPair} :
                  /\ Len(epoch) \in {0, 1, 8} /\ Len(receipt) \in {1, 5, 8}
                  /\ input' = [alg |-> "undelegateStart", epoch |-> epoch, receipt |-> receipt,
                               data |-> <<162>> \o pairs]
      BY <2>4, Zenon DEF ChooseUndelegateStart
    <3>2. PICK e \in Forms(epoch, 8), r \in Forms(receipt, 8) :
            LET epochPair == Text(EpochKey) \o e
                receiptPair == Text(ReceiptKey) \o r
            IN  \E pairs \in {epochPair \o receiptPair, receiptPair \o epochPair} :
                  /\ Len(epoch) \in {0, 1, 8} /\ Len(receipt) \in {1, 5, 8}
                  /\ input' = [alg |-> "undelegateStart", epoch |-> epoch, receipt |-> receipt,
                               data |-> <<162>> \o pairs]
      BY <3>1
    <3> DEFINE epochPair == Text(EpochKey) \o e
               receiptPair == Text(ReceiptKey) \o r
    <3>3. PICK pairs \in {epochPair \o receiptPair, receiptPair \o epochPair} :
            input' = [alg |-> "undelegateStart", epoch |-> epoch, receipt |-> receipt,
                      data |-> <<162>> \o pairs]
      BY <3>2
    <3> DEFINE data == <<162>> \o pairs
    <3>4. /\ input'.alg = "undelegateStart" /\ input'.epoch = epoch /\ input'.receipt = receipt
          /\ input'.data = data
      BY <3>3
    <3>5. CASE pairs = epochPair \o receiptPair
      <4>1. data = PairsWritten(5, 101, e, 7, 114, r)
        BY <3>5 DEF EpochKey, ReceiptKey, PairsWritten
      <4> HIDE DEF data
      <4>2. OfPairs(data, 5, 101, epoch, 7, 114, receipt)
        BY <4>1, WholeReceipts
      <4>. QED BY <3>4, <4>2 DEF ReceiptInput, Given
    <3>6. CASE pairs = receiptPair \o epochPair
      <4>1. data = PairsWritten(7, 114, r, 5, 101, e)
        BY <3>6 DEF EpochKey, ReceiptKey, PairsWritten
      <4> HIDE DEF data
      <4>2. OfPairs(data, 7, 114, receipt, 5, 101, epoch)
        BY <4>1, WholeReceipts
      <4>. QED BY <3>4, <4>2 DEF ReceiptInput, Given
    <3>. QED BY <3>5, <3>6
  <2>5. CASE ChooseUndelegateDone
    <3>1. PICK amount \in UpTo(16) : \E form \in Forms(amount, 16) :
            input' = [alg |-> "undelegateDone", amount |-> amount,
                      data |-> <<161>> \o Text(AmountKey) \o form]
      BY <2>5 DEF ChooseUndelegateDone
    <3>2. PICK form \in Forms(amount, 16) :
            input' = [alg |-> "undelegateDone", amount |-> amount,
                      data |-> <<161>> \o Text(AmountKey) \o form]
      BY <3>1
    <3> DEFINE data == <<161>> \o Text(AmountKey) \o form
    <3>3. OfPair(data, 6, 97, amount)
      <4>1. data = PairWritten(6, 97, form)
        BY DEF AmountKey, PairWritten
      <4> HIDE DEF data
      <4>. QED BY <4>1, WholeReceipt
    <3>4. input'.alg = "undelegateDone" /\ input'.amount = amount /\ input'.data = data
      BY <3>2
    <3> HIDE DEF data
    <3>. QED BY <3>3, <3>4 DEF ReceiptInput, Given
  <2>6. CASE /\ ChooseInput \/ NextDay
             /\ ~ ChooseDelegate /\ ~ ChooseDelegateError
             /\ ~ ChooseUndelegateStart /\ ~ ChooseUndelegateDone
    <3>1. input'.alg \notin {"delegate", "delegateError", "undelegateStart", "undelegateDone"}
      BY <2>6, ChosenKinds DEF ChooseInput
    <3>. QED BY <3>1 DEF ReceiptInput, Given
  <2>. QED BY <1>2, <2>1, <2>2, <2>3, <2>4, <2>5, <2>6, InputStays
<1>. QED BY <1>1, <1>2, PTL DEF Spec

\* What the three decoders make of the bytes: only that of this kind may find any.
Finds(data, alg) ==
  /\ alg = "delegate" \/ decodeReceiptDelegate(data) = Reverted
  /\ alg = "undelegateStart" \/ decodeReceiptUndelegateStart(data) = Reverted
  /\ alg = "undelegateDone" \/ decodeReceiptUndelegateDone(data) = Reverted

\* In the beginnings of a receipt no decoder finds anything; in all of it one.
OnlyWhole(data, alg) ==
  \A n \in 0..Len(data) :
    LET short == SubSeq(data, 1, n)
    IN  IF n = Len(data) THEN Finds(short, alg) ELSE Finds(short, "none")

\* All of a sequence is its beginning of that length.
LEMMA AllOfIt ==
  ASSUME NEW data \in Seq(Nat)
  PROVE  Len(data) \in 0..Len(data) /\ SubSeq(data, 1, Len(data)) = data
<1>1. Len(data) \in Nat
  OBVIOUS
<1>2. Len(data) \in 0..Len(data)
  BY <1>1
<1>. QED BY <1>1, <1>2, Beginning

\* The receipt of a delegation, and the other two, each by its own decoder.
LEMMA DelegateWhole ==
  ASSUME NEW data, NEW word, OfPair(data, 6, 115, word)
  PROVE  decodeReceiptDelegate(data) = word /\ OnlyWhole(data, "delegate")
<1>1. PICK form : Integer(form, word) /\ OnePair(data, 6, 115, form)
  BY DEF OfPair
<1>2. Canonical(word) /\ Len(word) <= 16
  BY DEF OfPair
<1>3. data \in Seq(Nat)
  BY <1>1 DEF OnePair
<1>4. ASSUME NEW n \in 0..Len(data)
      PROVE  /\ decodeReceiptDelegate(SubSeq(data, 1, n)) = IF n = Len(data) THEN word ELSE Reverted
             /\ decodeReceiptUndelegateStart(SubSeq(data, 1, n)) = Reverted
             /\ decodeReceiptUndelegateDone(SubSeq(data, 1, n)) = Reverted
  BY <1>1, <1>2, DelegateReceipt
<1>5. OnlyWhole(data, "delegate")
  BY <1>4 DEF OnlyWhole, Finds
<1>6. decodeReceiptDelegate(data) = word
  BY <1>3, <1>4, AllOfIt
<1>. QED BY <1>5, <1>6

LEMMA DoneWhole ==
  ASSUME NEW data, NEW word, OfPair(data, 6, 97, word)
  PROVE  decodeReceiptUndelegateDone(data) = word /\ OnlyWhole(data, "undelegateDone")
<1>1. PICK form : Integer(form, word) /\ OnePair(data, 6, 97, form)
  BY DEF OfPair
<1>2. Canonical(word) /\ Len(word) <= 16
  BY DEF OfPair
<1>3. data \in Seq(Nat)
  BY <1>1 DEF OnePair
<1>4. ASSUME NEW n \in 0..Len(data)
      PROVE  /\ decodeReceiptUndelegateDone(SubSeq(data, 1, n)) = IF n = Len(data) THEN word ELSE Reverted
             /\ decodeReceiptUndelegateStart(SubSeq(data, 1, n)) = Reverted
             /\ decodeReceiptDelegate(SubSeq(data, 1, n)) = Reverted
  BY <1>1, <1>2, DoneReceipt
<1>5. OnlyWhole(data, "undelegateDone")
  BY <1>4 DEF OnlyWhole, Finds
<1>6. decodeReceiptUndelegateDone(data) = word
  BY <1>3, <1>4, AllOfIt
<1>. QED BY <1>5, <1>6

LEMMA ErrorNever ==
  ASSUME NEW data, ErrorPair(data)
  PROVE  OnlyWhole(data, "none")
<1>1. ASSUME NEW n \in 0..Len(data)
      PROVE  /\ decodeReceiptDelegate(SubSeq(data, 1, n)) = Reverted
             /\ decodeReceiptUndelegateStart(SubSeq(data, 1, n)) = Reverted
             /\ decodeReceiptUndelegateDone(SubSeq(data, 1, n)) = Reverted
  BY ErrorReceipt
<1>. QED BY <1>1 DEF OnlyWhole, Finds

LEMMA StartWhole ==
  ASSUME NEW data, NEW keys, keys = {EpochKey, ReceiptKey},
         NEW len1 \in 1..31, NEW letter1 \in Nat, NEW len2 \in 1..31, NEW letter2 \in Nat,
         Key(len1, letter1) \in keys, Key(len2, letter2) \in keys, Key(len1, letter1) # Key(len2, letter2),
         NEW word1, NEW word2, OfPairs(data, len1, letter1, word1, len2, letter2, word2)
  PROVE  /\ decodeReceiptUndelegateStart(data) # Reverted
         /\ decodeReceiptUndelegateStart(data)[Key(len1, letter1)] = word1
         /\ decodeReceiptUndelegateStart(data)[Key(len2, letter2)] = word2
         /\ OnlyWhole(data, "undelegateStart")
<1> DEFINE key1 == Key(len1, letter1)
           key2 == Key(len2, letter2)
<1>1. PICK form1, form2 : /\ Integer(form1, word1) /\ Integer(form2, word2)
                          /\ TwoPairs(data, len1, letter1, form1, len2, letter2, form2)
  BY DEF OfPairs
<1>2. Canonical(word1) /\ Len(word1) <= 8 /\ Canonical(word2) /\ Len(word2) <= 8
  BY DEF OfPairs
<1>3. data \in Seq(Nat)
  BY <1>1 DEF TwoPairs
<1>4. ASSUME NEW n \in 0..Len(data)
      PROVE  LET short == SubSeq(data, 1, n)
                 got == decodeReceiptUndelegateStart(short)
             IN  /\ n # Len(data) => got = Reverted
                 /\ n = Len(data) => got # Reverted /\ got[key1] = word1 /\ got[key2] = word2
                 /\ decodeReceiptUndelegateDone(short) = Reverted
                 /\ decodeReceiptDelegate(short) = Reverted
  <2>1. /\ key1 \in keys /\ key2 \in keys /\ key1 # key2
    OBVIOUS
  <2>. QED BY <1>1, <1>2, <2>1, StartReceipt, Zenon
<1> HIDE DEF key1, key2
<1>5. OnlyWhole(data, "undelegateStart")
  BY <1>4 DEF OnlyWhole, Finds
<1>6. /\ decodeReceiptUndelegateStart(data) # Reverted
      /\ decodeReceiptUndelegateStart(data)[key1] = word1
      /\ decodeReceiptUndelegateStart(data)[key2] = word2
  BY <1>3, <1>4, AllOfIt
<1>. QED BY <1>5, <1>6 DEF key1, key2

\* What the property says of a receipt, said of the kind that it is.
LEMMA NothingElse ==
  ASSUME NEW alg \in {"delegate", "delegateError", "undelegateStart", "undelegateDone"}, Given(alg),
         OnlyWhole(input.data, IF alg = "delegateError" THEN "none" ELSE alg)
  PROVE  OnlyWholeReceipts
<1>1. HasReceipt
  BY DEF HasReceipt
<1>2. SUFFICES ASSUME NEW n \in 0..Len(input.data)
               PROVE  LET data == SubSeq(input.data, 1, n)
                          whole(kind) == n = Len(input.data) /\ Given(kind)
                      IN  /\ whole("delegate") \/ decodeReceiptDelegate(data) = Reverted
                          /\ whole("undelegateStart") \/ decodeReceiptUndelegateStart(data) = Reverted
                          /\ whole("undelegateDone") \/ decodeReceiptUndelegateDone(data) = Reverted
  BY <1>1, Zenon DEF OnlyWholeReceipts
<1> DEFINE short == SubSeq(input.data, 1, n)
<1>3. IF n = Len(input.data) THEN Finds(short, IF alg = "delegateError" THEN "none" ELSE alg)
                             ELSE Finds(short, "none")
  BY DEF OnlyWhole
<1> HIDE DEF short
<1>4. CASE n # Len(input.data)
  <2>1. Finds(short, "none")
    BY <1>3, <1>4
  <2>. QED BY <2>1 DEF Finds, short
<1>5. CASE n = Len(input.data)
  <2>1. Finds(short, IF alg = "delegateError" THEN "none" ELSE alg)
    BY <1>3, <1>5
  <2>2. /\ Given("delegate") \/ decodeReceiptDelegate(short) = Reverted
        /\ Given("undelegateStart") \/ decodeReceiptUndelegateStart(short) = Reverted
        /\ Given("undelegateDone") \/ decodeReceiptUndelegateDone(short) = Reverted
    BY <2>1 DEF Finds
  <2>. QED BY <1>5, <2>2 DEF short
<1>. QED BY <1>4, <1>5

LEMMA ReceiptsOfAnyKind ==
  ASSUME ReceiptInput
  PROVE  ReceiptsDecode
<1>1. CASE Given("delegate")
  <2>1. OfPair(input.data, 6, 115, input.shares)
    BY <1>1 DEF ReceiptInput
  <2>2. decodeReceiptDelegate(input.data) = input.shares /\ OnlyWhole(input.data, "delegate")
    BY <2>1, DelegateWhole
  <2>3. OnlyWholeReceipts
    BY <1>1, <2>2, NothingElse
  <2>4. ~ Given("undelegateStart") /\ ~ Given("undelegateDone")
    BY <1>1 DEF Given
  <2>. QED BY <2>2, <2>3, <2>4 DEF ReceiptsDecode, ReceiptsFound
<1>2. CASE Given("undelegateDone")
  <2>1. OfPair(input.data, 6, 97, input.amount)
    BY <1>2 DEF ReceiptInput
  <2>2. decodeReceiptUndelegateDone(input.data) = input.amount /\ OnlyWhole(input.data, "undelegateDone")
    BY <2>1, DoneWhole
  <2>3. OnlyWholeReceipts
    BY <1>2, <2>2, NothingElse
  <2>4. ~ Given("undelegateStart") /\ ~ Given("delegate")
    BY <1>2 DEF Given
  <2>. QED BY <2>2, <2>3, <2>4 DEF ReceiptsDecode, ReceiptsFound
<1>3. CASE Given("delegateError")
  <2>1. ErrorPair(input.data)
    BY <1>3 DEF ReceiptInput
  <2>2. OnlyWhole(input.data, "none")
    BY <2>1, ErrorNever
  <2>3. OnlyWholeReceipts
    BY <1>3, <2>2, NothingElse
  <2>4. ~ Given("undelegateStart") /\ ~ Given("undelegateDone") /\ ~ Given("delegate")
    BY <1>3 DEF Given
  <2>. QED BY <2>3, <2>4 DEF ReceiptsDecode, ReceiptsFound
<1>4. CASE Given("undelegateStart")
  <2> DEFINE keys == {EpochKey, ReceiptKey}
             got == decodeReceiptUndelegateStart(input.data)
  <2>1. Key(5, 101) = EpochKey /\ Key(7, 114) = ReceiptKey /\ EpochKey # ReceiptKey
    BY KeysEnd DEF EpochKey, ReceiptKey
  <2>2. Key(5, 101) \in keys /\ Key(7, 114) \in keys /\ Key(5, 101) # Key(7, 114)
    BY <2>1
  <2> HIDE DEF keys
  <2>3. /\ got # Reverted /\ got[Key(5, 101)] = input.epoch /\ got[Key(7, 114)] = input.receipt
        /\ OnlyWhole(input.data, "undelegateStart")
    <3> DEFINE five == 5
               seven == 7
               e == 101
               r == 114
               data == input.data
               epoch == input.epoch
               receipt == input.receipt
    <3>1. five \in 1..31 /\ seven \in 1..31 /\ e \in Nat /\ r \in Nat
      OBVIOUS
    <3>2. keys = {EpochKey, ReceiptKey}
      BY DEF keys
    <3>3. Key(five, e) \in keys /\ Key(seven, r) \in keys
      BY <2>2
    <3>4. Key(five, e) # Key(seven, r) /\ Key(seven, r) # Key(five, e)
      BY <2>2
    <3>5. \/ OfPairs(data, five, e, epoch, seven, r, receipt)
          \/ OfPairs(data, seven, r, receipt, five, e, epoch)
      BY <1>4 DEF ReceiptInput
    <3> HIDE DEF five, seven, e, r, data, epoch, receipt
    <3>6. CASE OfPairs(data, five, e, epoch, seven, r, receipt)
      <4>1. /\ decodeReceiptUndelegateStart(data) # Reverted
            /\ decodeReceiptUndelegateStart(data)[Key(five, e)] = epoch
            /\ decodeReceiptUndelegateStart(data)[Key(seven, r)] = receipt
            /\ OnlyWhole(data, "undelegateStart")
        BY <3>1, <3>2, <3>3, <3>4, <3>6, StartWhole
      <4>. QED BY <4>1, SMTT(30) DEF five, seven, e, r, data, epoch, receipt
    <3>7. CASE OfPairs(data, seven, r, receipt, five, e, epoch)
      <4>1. /\ decodeReceiptUndelegateStart(data) # Reverted
            /\ decodeReceiptUndelegateStart(data)[Key(five, e)] = epoch
            /\ decodeReceiptUndelegateStart(data)[Key(seven, r)] = receipt
            /\ OnlyWhole(data, "undelegateStart")
        BY <3>1, <3>2, <3>3, <3>4, <3>7, StartWhole, ZenonT(30)
      <4>. QED BY <4>1 DEF five, seven, e, r, data, epoch, receipt
    <3>. QED BY <3>5, <3>6, <3>7
  <2>4. got[EpochKey] = input.epoch /\ got[ReceiptKey] = input.receipt
    BY <2>1, <2>3
  <2>5. OnlyWholeReceipts
    BY <1>4, <2>3, NothingElse
  <2>6. ~ Given("delegate") /\ ~ Given("undelegateDone")
    BY <1>4 DEF Given
  <2>. QED BY <2>3, <2>4, <2>5, <2>6 DEF ReceiptsDecode, ReceiptsFound
<1>5. CASE ~ HasReceipt
  <2>1. ~ Given("delegate") /\ ~ Given("undelegateStart") /\ ~ Given("undelegateDone")
    BY <1>5 DEF HasReceipt
  <2>2. OnlyWholeReceipts
    BY <1>5 DEF OnlyWholeReceipts
  <2>. QED BY <2>1, <2>2 DEF ReceiptsDecode, ReceiptsFound
<1>. QED BY <1>1, <1>2, <1>3, <1>4, <1>5 DEF HasReceipt

\* The receipts of subcalls are decoded: of every delegation and undelegation
\* the decoder of its kind finds the numbers, whatever their widths and the
\* order of the two keys, and no decoder finds any in a receipt that is cut
\* short, in an error or in a receipt of another kind (Subcall.sol:226-309).
THEOREM ReceiptsFoundWhole == Spec => []ReceiptsDecode
<1>1. ReceiptInput => ReceiptsDecode
  BY ReceiptsOfAnyKind
<1>. QED BY <1>1, ReceiptsWritten, PTL
=============================================================================
