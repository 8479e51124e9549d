----------------------------- MODULE TokenDapp -----------------------------
(***************************************************************************)
(* The Dapp component (examples/hardhat-boilerplate/frontend/src/          *)
(* components/Dapp.js): one page, whose callbacks interleave at every      *)
(* await.  The page is rendered in React's legacy mode, so setState is     *)
(* immediate there.  account and network are the wallet's as the page      *)
(* last heard of them: answers and events arrive over one stream, in order.*)
(***************************************************************************)
EXTENDS Naturals, FiniteSets

CONSTANTS Accounts,      \* of the wallet
          Holders,       \* those of them with tokens
          None,          \* undefined
          Transfers,     \* bound: transfers at a time
          MaxConnects,   \* bound: calls to _connectWallet
          MaxQueries     \* bound: balanceOf calls on their way, per account

ASSUME DappAssumption == /\ None \notin Accounts
                         /\ None \notin Transfers
                         /\ Holders \subseteq Accounts
                         /\ MaxConnects \in Nat
                         /\ MaxQueries \in Nat

VARIABLES account, network,  \* external: the wallet
          asked,             \* eth_requestAccounts not answered yet
          handlers,          \* pairs of event handlers registered with it
          state,             \* this.state
          timer, lost,       \* _pollDataInterval is set; intervals no
                             \* handle is left of
          queries,           \* balanceOf calls on their way, by account
          reading,           \* the awaits of _getTokenData that calls are at
          transfers          \* the _transferTokens calls

dappVars == <<account, network, asked, handlers, state, timer, lost, queries,
              reading, transfers>>

Maybe(S) == S \cup {None}

initialState == [tokenData        |-> FALSE,
                 selectedAddress  |-> None,
                 balance          |-> None,    \* whose it is
                 txBeingSent      |-> None,
                 transactionError |-> FALSE,
                 networkError     |-> FALSE]

NoTransfer == [step |-> "idle", of |-> None]

DappInit == /\ account = None
            /\ network \in {"testnet", "other"}
            /\ asked = 0 /\ handlers = 0
            /\ state = initialState
            /\ timer = FALSE /\ lost = 0
            /\ queries = [a \in Accounts |-> 0]
            /\ reading = {}
            /\ transfers = [t \in Transfers |-> NoTransfer]
-----------------------------------------------------------------------------
\* render: which of the pages is shown.
ConnectShown == state.selectedAddress = None
FormShown    == /\ ~ConnectShown
                /\ state.tokenData
                /\ state.balance \in Holders

\* Mutant: the balance is read once and not polled.
initializeUnpolled(a, s, n) ==
  /\ state' = [s EXCEPT !.selectedAddress = a]
  /\ queries[a] + n <= MaxQueries
  /\ queries' = [queries EXCEPT ![a] = @ + n]
  /\ reading' = reading \cup {"name"}
  /\ timer' = timer

\* _initialize, called n times in a row: each call starts a poll, of which
\* all but the last are stopped again; each reads the token and the balance.
initialize(a, s, n) ==
  /\ state' = [s EXCEPT !.selectedAddress = a]
  /\ queries[a] + n <= MaxQueries
  /\ queries' = [queries EXCEPT ![a] = @ + n]
  /\ reading' = reading \cup {"name"}
  /\ timer' = TRUE

ConnectWallet == /\ ConnectShown
                 /\ asked + handlers < MaxConnects
                 /\ asked' = asked + 1
                 /\ UNCHANGED <<account, network, handlers, state, timer, lost,
                                queries, reading, transfers>>

\* The user picks an account, or has picked one, and _checkNetwork agrees.
\* A poll already going on loses its handle.
Connected(a) == /\ asked > 0
                /\ account \in {None, a}
                /\ network = "testnet"
                /\ initialize(a, state, 1)
                /\ lost' = IF timer THEN lost + 1 ELSE lost
                /\ asked' = asked - 1
                /\ handlers' = handlers + 1
                /\ account' = a
                /\ UNCHANGED <<network, transfers>>

WrongNetwork(a) == /\ asked > 0
                   /\ account \in {None, a}
                   /\ network # "testnet"
                   /\ state' = [state EXCEPT !.networkError = TRUE]
                   /\ asked' = asked - 1
                   /\ account' = a
                   /\ UNCHANGED <<network, handlers, timer, lost, queries, reading,
                                  transfers>>

ConnectRefused == /\ asked > 0
                  /\ asked' = asked - 1
                  /\ UNCHANGED <<account, network, handlers, state, timer, lost,
                                 queries, reading, transfers>>

\* Every pair of handlers gets the event: stop polling and start again.
AccountsChanged(a) ==
  /\ account' = a
  /\ IF handlers = 0
     THEN UNCHANGED <<state, timer, queries, reading>>
     ELSE initialize(a, state, handlers)
  /\ UNCHANGED <<network, asked, handlers, lost, transfers>>

\* Mutant: the handlers do not stop the poll.
resetPolling == IF handlers = 0 THEN UNCHANGED <<state, timer>>
                                ELSE state' = initialState /\ timer' = timer

\* _stopPollingData, _resetState.
reset == IF handlers = 0 THEN UNCHANGED <<state, timer>>
                         ELSE state' = initialState /\ timer' = FALSE

Disconnected == /\ account' = None
                /\ reset
                /\ UNCHANGED <<network, asked, handlers, lost, queries, reading,
                               transfers>>

ChainChanged == /\ network' \in {"testnet", "other"} \ {network}
                /\ reset
                /\ UNCHANGED <<account, asked, handlers, lost, queries, reading,
                               transfers>>
-----------------------------------------------------------------------------
\* An interval fires; without an address balanceOf rejects and nothing happens.
PollFires == /\ timer \/ lost > 0
             /\ ~ConnectShown
             /\ queries[state.selectedAddress] < MaxQueries
             /\ queries' = [queries EXCEPT ![state.selectedAddress] = @ + 1]
             /\ UNCHANGED <<account, network, asked, handlers, state, timer, lost,
                            reading, transfers>>

Answered(a) == /\ queries[a] > 0
               /\ queries' = [queries EXCEPT ![a] = @ - 1]
               /\ UNCHANGED <<account, network, asked, handlers, timer, lost,
                              reading, transfers>>

\* _updateBalance after its await: whatever account is selected by now.
BalanceArrives(a) == Answered(a) /\ state' = [state EXCEPT !.balance = a]

QueryFails(a) == Answered(a) /\ UNCHANGED state

\* _getTokenData: calls at the same await are told apart by nobody.
TokenDataArrives ==
  /\ \/ /\ "name" \in reading
        /\ reading' = {"symbol"}
        /\ UNCHANGED state
     \/ /\ "symbol" \in reading
        /\ reading' = reading \ {"symbol"}
        /\ state' = [state EXCEPT !.tokenData = TRUE]
  /\ UNCHANGED <<account, network, asked, handlers, timer, lost, queries, transfers>>

TokenDataFails == /\ reading # {}
                  /\ \E r \in reading : reading' = reading \ {r}
                  /\ UNCHANGED <<account, network, asked, handlers, state, timer,
                                 lost, queries, transfers>>
-----------------------------------------------------------------------------
\* _transferTokens, in the steps its awaits cut it into.
TransferGoes(t, step, of) == transfers' = [transfers EXCEPT ![t] = [step |-> step, of |-> of]]
OnlyTransfers == UNCHANGED <<account, network, asked, handlers, timer, lost,
                             queries, reading>>

Transfer(t) == /\ FormShown
               /\ transfers[t] = NoTransfer
               /\ TransferGoes(t, "sent", None)
               /\ state' = [state EXCEPT !.transactionError = FALSE]
               /\ OnlyTransfers

HashArrives(t) == /\ transfers[t].step = "sent"
                  /\ TransferGoes(t, "mined", None)
                  /\ state' = [state EXCEPT !.txBeingSent = t]
                  /\ OnlyTransfers

\* Mined with success: the balance is read once more.
TransferMined(t) == /\ transfers[t].step = "mined"
            /\ ~ConnectShown
            /\ TransferGoes(t, "updated", state.selectedAddress)
            /\ UNCHANGED state
            /\ OnlyTransfers

Updated(t) == /\ transfers[t].step = "updated"
              /\ TransferGoes(t, "idle", None)
              /\ state' = [state EXCEPT !.balance = transfers[t].of,
                                        !.txBeingSent = None]
              /\ OnlyTransfers

\* The catch clause keeps every error but the user's refusal; finally.
TransferFails(t) == /\ transfers[t].step \in {"sent", "mined", "updated"}
                    /\ TransferGoes(t, "idle", None)
                    /\ \E rejected \in {FALSE} \cup {transfers[t].step = "sent"} :
                         state' = [state EXCEPT
                           !.transactionError = @ \/ ~rejected,
                           !.txBeingSent = None]
                    /\ OnlyTransfers

Dismiss == /\ \/ state' = [state EXCEPT !.transactionError = FALSE]
              \/ state' = [state EXCEPT !.networkError = FALSE]
           /\ UNCHANGED transfers
           /\ OnlyTransfers

DappNext == \/ ConnectWallet \/ ConnectRefused
            \/ \E a \in Accounts : \/ Connected(a) \/ WrongNetwork(a)
                                   \/ AccountsChanged(a)
                                   \/ BalanceArrives(a) \/ QueryFails(a)
            \/ Disconnected \/ ChainChanged
            \/ PollFires \/ TokenDataArrives \/ TokenDataFails
            \/ \E t \in Transfers : \/ Transfer(t) \/ HashArrives(t) \/ TransferMined(t)
                                    \/ Updated(t) \/ TransferFails(t)
            \/ Dismiss

DappSpec == DappInit /\ [][DappNext]_dappVars

\* The interval keeps firing; every call is answered or fails, and a node asked
\* again and again does answer; a transfer is mined or fails.
DappFairness ==
  /\ WF_dappVars(PollFires)
  /\ \A a \in Accounts : /\ WF_dappVars(BalanceArrives(a) \/ QueryFails(a))
                         /\ SF_dappVars(BalanceArrives(a))
  /\ \A t \in Transfers : WF_dappVars(\/ HashArrives(t) \/ TransferMined(t)
                                      \/ Updated(t) \/ TransferFails(t))
-----------------------------------------------------------------------------
State == [tokenData: BOOLEAN, selectedAddress: Maybe(Accounts),
          balance: Maybe(Accounts), txBeingSent: Maybe(Transfers),
          transactionError: BOOLEAN, networkError: BOOLEAN]

TransferState == [step: {"idle", "sent", "mined", "updated"}, of: Maybe(Accounts)]

DappTypeOK ==
  /\ account \in Maybe(Accounts) /\ network \in {"testnet", "other"}
  /\ asked \in Nat /\ handlers \in Nat
  /\ state \in State
  /\ timer \in BOOLEAN /\ lost \in Nat
  /\ queries \in [Accounts -> 0..MaxQueries]
  /\ reading \subseteq {"name", "symbol"}
  /\ transfers \in [Transfers -> TransferState]

\* The balance is polled exactly while an account is selected, and an interval
\* can be lost only to a second connect that was under way (Dapp.js:168-169:
\* "We poll the user's balance, so we have to stop doing that").
PollingMatchesSelection ==
  /\ timer <=> state.selectedAddress # None
  /\ lost > 0 => lost < handlers

\* The inductive invariant behind it.
DappIInv == /\ DappTypeOK
            /\ timer => handlers > 0
            /\ PollingMatchesSelection

\* The balance of a former account may arrive late and be shown beside the
\* address of the present one, but not for ever: the poll sets it right
\* (Dapp.js:35 "Polls the user balance to keep it updated").
BalanceSettles ==
  \A a \in Accounts :
    <>[](state.selectedAddress = a) => <>[](state.balance = a)
=============================================================================
