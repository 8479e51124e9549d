------------------------- MODULE SapphireConnectors -------------------------
(***************************************************************************)
(* injectedWithSapphire and wrapConnectorWithSapphire of the wagmi         *)
(* integrations (integrations/wagmi-v2 and wagmi-v3, src/index.ts).  wagmi *)
(* asks a connector for its provider before it uses it; calls interleave,  *)
(* and the wallet may switch chains, at each of the awaits.                *)
(***************************************************************************)
EXTENDS Naturals

CONSTANTS Uses   \* bound: calls that ask for a provider at a time

\* What a page may be configured with: the injected wallet, an EIP-1193
\* connector wrapped by either version, WalletConnect wrapped by either (the
\* two agree there), and the injected connector wrapped once more.
Connectors == {"injected", "wrapped-v2", "wrapped-v3", "walletConnect", "rewrapped"}

\* Those that take envelopes, and the list the connectors have of them.
SapphireChains == {"sapphire", "pontus-x"}
WalletChains == SapphireChains \cup {"elsewhere"}

\* Mutant: the list lacks the networks added last.
SAPPHIRE_CHAIN_IDS_OASIS == {"sapphire"}

SAPPHIRE_CHAIN_IDS == SapphireChains
Unknown == "unknown"     \* chainId is null, or a number nobody meant

\* A provider: which wrapper of the wallet it is, and how many envelopes it
\* makes; the wallet's own makes none.
Raw == [wrapper |-> 0, layers |-> 0]

VARIABLES walletChain,  \* external
          connector, \* the one the user picked
          wrappers,  \* by connector: how often wrapEthereumProvider was called
          cache,     \* by connector: the provider cached, Raw if none
          use        \* by call: how far it is, and what it knows

connectorVars == <<walletChain, connector, wrappers, cache, use>>

\* learnt: the chain id it goes by; switched: the wallet has moved since; sent:
\* the chain it was used on.
Unused == [step |-> "idle", learnt |-> Unknown, provider |-> Raw,
           switched |-> FALSE, sent |-> Unknown]

ConnectorInit == /\ walletChain \in WalletChains
                 /\ connector \in Connectors
                 /\ wrappers = [c \in Connectors |-> 0]
                 /\ cache = [c \in Connectors |-> Raw]
                 /\ use = [u \in Uses |-> Unused]

Continue(u, r) == use' = [use EXCEPT ![u] = r]
NothingCached == UNCHANGED <<wrappers, cache>>
-----------------------------------------------------------------------------
isWrappedEthereumProvider(p) == p.layers > 0

\* Take the cached wrapper of connector c's provider, or make and keep one,
\* in a single turn of the event loop.
CachedWrapper(c, base) == IF cache[c] # Raw THEN cache[c]
                   ELSE [wrapper |-> wrappers[c] + 1, layers |-> base.layers + 1]

\* Mutant: the cache is never filled.
RememberNothing(c, p) == /\ cache' = cache
                         /\ wrappers' = [wrappers EXCEPT ![c] = @ + 1]

Remember(c, p) == /\ cache' = [cache EXCEPT ![c] = p]
                  /\ wrappers' = [wrappers EXCEPT ![c] =
                                    IF cache[c] = p THEN @ ELSE @ + 1]

\* injectedWithSapphire: no await, and no look at the chain.  A connector over
\* it asks for its provider first.
Injected(u) == LET p == CachedWrapper("injected", Raw) IN
  /\ connector \in {"injected", "rewrapped"}
  /\ Remember("injected", p)
  /\ Continue(u, [Unused EXCEPT !.provider = p,
                   !.step = IF connector = "injected" THEN "have" ELSE "provider"])

Asked(u) == /\ connector \notin {"injected", "rewrapped"}
            /\ Continue(u, [Unused EXCEPT !.step = "provider"])
            /\ NothingCached

GetProvider(u) == /\ use[u].step = "idle"
                  /\ Injected(u) \/ Asked(u)
                  /\ UNCHANGED <<walletChain, connector>>

\* The rest of getProvider once the chain id is learnt, without an await.
Conclude(u, id) ==
  LET r == [use[u] EXCEPT !.step = "have", !.learnt = id, !.switched = FALSE]
  IN IF id \notin SAPPHIRE_CHAIN_IDS \/ isWrappedEthereumProvider(r.provider)
     THEN Continue(u, r) /\ NothingCached
     ELSE LET p == CachedWrapper(connector, r.provider) IN
          Continue(u, [r EXCEPT !.provider = p]) /\ Remember(connector, p)

\* originalGetProvider has answered.  WalletConnect knows its chain, if its
\* session is up; others are asked.
ProviderArrives(u) ==
  /\ use[u].step = "provider"
  /\ IF connector = "walletConnect"
     THEN \E connected \in BOOLEAN : Conclude(u, IF connected THEN walletChain ELSE Unknown)
     ELSE Continue(u, [use[u] EXCEPT !.step = "chainId"]) /\ NothingCached
  /\ UNCHANGED <<walletChain, connector>>

\* eth_chainId answers in hexadecimal, or some wallets with a number, which
\* version 2 parses as if it were hexadecimal.
ChainIdArrives(u) ==
  /\ use[u].step = "chainId"
  /\ \E form \in {"hex", "number"} :
       Conclude(u, IF form = "number" /\ connector = "wrapped-v2"
                   THEN Unknown ELSE walletChain)
  /\ UNCHANGED <<walletChain, connector>>

\* Version 3 goes on without the chain id, version 2 rejects.
ChainIdFails(u) ==
  /\ use[u].step = "chainId"
  /\ IF connector = "wrapped-v2"
     THEN Continue(u, Unused) /\ NothingCached
     ELSE Conclude(u, Unknown)
  /\ UNCHANGED <<walletChain, connector>>

\* wagmi uses what it was handed.
Send(u) == /\ use[u].step = "have"
           /\ Continue(u, [use[u] EXCEPT !.step = "sent", !.sent = walletChain])
           /\ NothingCached
           /\ UNCHANGED <<walletChain, connector>>

Return(u) == /\ use[u].step = "sent"
             /\ Continue(u, Unused)
             /\ NothingCached
             /\ UNCHANGED <<walletChain, connector>>

\* External: the user switches networks, in the wallet or on the page.
SwitchWallet == /\ walletChain' \in WalletChains \ {walletChain}
               /\ use' = [u \in Uses |->
                            [use[u] EXCEPT !.switched = @ \/ use[u].step = "have"]]
               /\ NothingCached
               /\ UNCHANGED connector

ConnectorNext == \/ \E u \in Uses : \/ GetProvider(u) \/ ProviderArrives(u)
                                    \/ ChainIdArrives(u) \/ ChainIdFails(u)
                                    \/ Send(u) \/ Return(u)
                 \/ SwitchWallet

ConnectorSpec == ConnectorInit /\ [][ConnectorNext]_connectorVars
-----------------------------------------------------------------------------
ConnectorTypeOK ==
  /\ walletChain \in WalletChains
  /\ wrappers \in [Connectors -> Nat]
  /\ connector \in Connectors

\* However calls interleave, every call that gets a wrapper gets the same one,
\* and no provider makes two envelopes (wagmi-v3 index.ts:53-55: caching
\* "prevents sapphire wrapper being called multiple times").
OneWrapperPerProvider ==
  /\ \A c \in Connectors : wrappers[c] <= 1
  /\ \A u \in Uses : use[u].provider.layers <= 1

\* "provide encrypted transactions and calldata to any connector type": what
\* reaches Sapphire in the clear does so because the chain id was not learnt or
\* has changed since (wagmi-v3 index.ts:90-93, 155-181).
EncryptedOnSapphire ==
  \A u \in Uses :
    (use[u].step = "sent" /\ use[u].sent \in SapphireChains) =>
      \/ use[u].provider.layers = 1
      \/ use[u].switched
      \/ use[u].learnt = Unknown

\* The inductive invariant behind the two: there is one wrapper, and what a call
\* has learnt is so until the wallet moves.
Wrapped == [wrapper |-> 1, layers |-> 1]

CacheOK == \A c \in Connectors : \/ wrappers[c] = 0 /\ cache[c] = Raw
                                 \/ wrappers[c] = 1 /\ cache[c] = Wrapped

UseOK(r) ==
  /\ r.provider \in {Raw, Wrapped}
  /\ connector \in {"injected", "rewrapped"} /\ r.step # "idle" => r.provider = Wrapped
  /\ r.step = "have" /\ r.provider = Raw =>
       r.switched \/ r.learnt = Unknown \/ walletChain \notin SapphireChains
  /\ r.step = "sent" /\ r.provider = Raw =>
       r.switched \/ r.learnt = Unknown \/ r.sent \notin SapphireChains

Use == [step: {"idle", "provider", "chainId", "have", "sent"},
        learnt: WalletChains \cup {Unknown}, provider: {Raw, Wrapped},
        switched: BOOLEAN, sent: WalletChains \cup {Unknown}]

ConnectorIInv == /\ ConnectorTypeOK
                 /\ use \in [Uses -> Use]
                 /\ cache \in [Connectors -> {Raw, Wrapped}]
                 /\ CacheOK
                 /\ \A u \in Uses : UseOK(use[u])
=============================================================================
