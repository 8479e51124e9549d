----------------------------- MODULE Frontends -----------------------------
(***************************************************************************)
(* The integrations and pages that end users run, checked in one run: they *)
(* share no state, so a behaviour is one of them alone.                    *)
(***************************************************************************)
EXTENDS ViemSerializer, ViemClient, SapphireConnectors, TokenDapp, WagmiApp

VARIABLE part   \* whose behaviour it is

Parts == {"serializer", "client", "connectors", "dapp", "app"}

frontVars == <<part, vars, viemVars, connectorVars, dappVars, appVars>>

FrontInit == /\ part \in Parts
             /\ Init /\ ViemInit /\ ConnectorInit /\ DappInit /\ AppInit
             \* The others do nothing: one initial state of theirs is enough.
             /\ part # "connectors" => walletChain = "elsewhere" /\ connector = "injected"
             /\ part # "dapp" => network = "testnet"
             /\ part # "app" => stored = NoContract

SerializerRuns == /\ part = "serializer" /\ Next
                  /\ UNCHANGED <<viemVars, connectorVars, dappVars, appVars>>
ClientRuns     == /\ part = "client" /\ ViemNext
                  /\ UNCHANGED <<vars, connectorVars, dappVars, appVars>>
ConnectorsRun  == /\ part = "connectors" /\ ConnectorNext
                  /\ UNCHANGED <<vars, viemVars, dappVars, appVars>>
DappRuns       == /\ part = "dapp" /\ DappNext
                  /\ UNCHANGED <<vars, viemVars, connectorVars, appVars>>
AppRuns        == /\ part = "app" /\ AppNext
                  /\ UNCHANGED <<vars, viemVars, connectorVars, dappVars>>

FrontNext == /\ \/ SerializerRuns \/ ClientRuns \/ ConnectorsRun
                \/ DappRuns \/ AppRuns
             /\ UNCHANGED part

FrontSpec == FrontInit /\ [][FrontNext]_frontVars

\* A part that does not run enables none of these.
FairFrontSpec == FrontSpec /\ DappFairness /\ AppFairness
=============================================================================
