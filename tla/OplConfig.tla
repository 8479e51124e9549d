----------------------------- MODULE OplConfig -----------------------------
(***************************************************************************)
(* How an OPL deployment configures itself (Endpoint.sol:165-279): the     *)
(* chain tables, autoswitch, and the checks of the constructors of Host    *)
(* and Enclave.  A state is a pair of contracts deployed, in either order, *)
(* each on a chain, each told the name of the other's network.             *)
(***************************************************************************)
EXTENDS Naturals

CONSTANTS UnknownChain,   \* a chain id the tables do not list
          NoContract,     \* not deployed yet
          Unavailable     \* AutoConfigUnavailable

Sapphire == 23294
SapphireTestnet == 23295
LocalChains == {1337, 31337}

\* _chainName2ChainId; a name outside its domain is mapped to 0.
ChainIds ==
  [ethereum |-> 1, optimism |-> 10, bsc |-> 56, bsc_testnet |-> 97, polygon |-> 137,
   fantom |-> 250, fantom_testnet |-> 4002, moonriver |-> 1285, arbitrum_one |-> 42161,
   arbitrum_nova |-> 42170, sapphire |-> Sapphire, sapphire_testnet |-> SapphireTestnet,
   avalanche |-> 43114, avalanche_fuji |-> 43113]

chainName2ChainId(name) == IF name \in DOMAIN ChainIds THEN ChainIds[name] ELSE 0

\* _getChainConfig: the chains it has a message bus for, and its isTestnet.
ConfiguredChains == {1, 10, 56, 97, 137, 250, 4002, 1285, 23294, 23295, 42161, 42170, 43113, 43114}
isTestnet(chain) == chain \in {97, 4002, 23295, 43113}

\* Mutant: autoswitch forgets that Sapphire has a testnet.
TestnetOfButSapphire == [bsc |-> "bsc_testnet", fantom |-> "fantom_testnet",
                         sapphire |-> "sapphire", avalanche |-> "avalanche_fuji"]

\* autoswitch on each kind of chain.
TestnetOf == [bsc |-> "bsc_testnet", fantom |-> "fantom_testnet",
              sapphire |-> "sapphire_testnet", avalanche |-> "avalanche_fuji"]

autoswitch(chain, protocol) ==
  CASE chain \in LocalChains -> "local"
    [] chain \notin LocalChains \cup ConfiguredChains -> Unavailable
    [] chain \in ConfiguredChains /\ isTestnet(chain) ->
         IF protocol \in DOMAIN TestnetOf THEN TestnetOf[protocol] ELSE Unavailable
    [] OTHER ->
         IF chainName2ChainId(protocol) = 0 THEN Unavailable ELSE protocol

getRemoteChainId(chain, name) == IF name = "local" THEN chain ELSE chainName2ChainId(name)

\* Whether _getBus finds a bus: the remote contract itself on a local
\* network, and otherwise the one configured for this chain.
hasBus(chain, name) == name = "local" \/ chain \in ConfiguredChains

\* The constant for no network is the name of none.
ASSUME ConfigAssumption == Unavailable \notin DOMAIN ChainIds \cup {"local"}

Chains == ConfiguredChains \cup LocalChains \cup {UnknownChain}
Protocols == DOMAIN ChainIds \cup {"unlisted"}

VARIABLES host, enclave   \* the deployed contracts: their chain and their remoteChainId

\* The constructor of BaseEndpoint, called by Endpoint's.
Deployable(chain, name) ==
  /\ name # Unavailable
  /\ hasBus(chain, name)
  /\ getRemoteChainId(chain, name) # 0
  /\ name # "local" => getRemoteChainId(chain, name) # chain

Contract(chain, name) == [chain |-> chain, remote |-> getRemoteChainId(chain, name)]

ConfigInit == host = NoContract /\ enclave = NoContract

\* Host(_enclave) always names the network autoswitch("sapphire").
DeployHost ==
  /\ host = NoContract
  /\ \E chain \in Chains :
       /\ Deployable(chain, autoswitch(chain, "sapphire"))
       /\ host' = Contract(chain, autoswitch(chain, "sapphire"))
  /\ UNCHANGED enclave

\* Enclave(_host, _hostChain), deployed with autoswitch(protocol).
DeployEnclave ==
  /\ enclave = NoContract
  /\ \E chain \in {Sapphire, SapphireTestnet} \cup LocalChains, protocol \in Protocols :
       /\ Deployable(chain, autoswitch(chain, protocol))
       /\ enclave' = Contract(chain, autoswitch(chain, protocol))
  /\ UNCHANGED host

ConfigNext == DeployHost \/ DeployEnclave
-----------------------------------------------------------------------------
\* Deployments fit together (Endpoint.sol:185-197, 213-229).  A host points at
\* the Sapphire network of its own kind, mainnet or testnet, whose tables can
\* name the host's chain, so that an enclave able to answer it can exist.  An
\* enclave points at a chain with a bus; one on the testnet never at a mainnet.
DeploymentsPair ==
  /\ host # NoContract /\ host.chain \notin LocalChains =>
       /\ host.remote = IF isTestnet(host.chain) THEN SapphireTestnet ELSE Sapphire
       /\ \E protocol \in Protocols :
            LET name == autoswitch(host.remote, protocol) IN
              /\ Deployable(host.remote, name)
              /\ getRemoteChainId(host.remote, name) = host.chain
  /\ enclave # NoContract /\ enclave.chain \notin LocalChains =>
       /\ enclave.remote \in ConfiguredChains
       /\ isTestnet(enclave.chain) => isTestnet(enclave.remote)
=============================================================================
