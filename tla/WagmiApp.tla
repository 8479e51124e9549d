------------------------------ MODULE WagmiApp ------------------------------
(***************************************************************************)
(* The page of the wagmi examples (examples/wagmi-v2 and wagmi-v3,         *)
(* src/App.tsx, the same file twice): sections with hooks of their own     *)
(* that share the address of a deployed contract through localStorage,     *)
(* with other tabs too.  An action is what one event does, with the        *)
(* effects React runs after it.  Of wagmi's hooks it has what the page     *)
(* sees: a mutation shows the last call only, reset() forgets it.          *)
(***************************************************************************)
CONSTANTS Contracts,   \* addresses of deployed contracts
          NoContract   \* undefined

ASSUME WagmiAppAssumption == NoContract \notin Contracts

VARIABLES stored,      \* localStorage.contractAddress
          storageEvent,\* another tab changed it, the event is on its way
          shown,       \* App's contractAddress
          connected,   \* account.status
          deploy,      \* DeploySection: its own address, and its deployment
          write,       \* WriteSection
          read         \* ReadSection: the result's contract, calls on their way

appVars == <<stored, storageEvent, shown, connected, deploy, write, read>>

Stored == Contracts \cup {NoContract}

\* A section that is not on the page keeps nothing.
NoDeploy == [address |-> NoContract, step |-> "none"]
NoWrite  == [address |-> NoContract, step |-> "none", to |-> NoContract]
NoRead   == [result |-> NoContract, calls |-> {}]

AppInit == /\ stored \in Stored
           /\ storageEvent = FALSE
           /\ shown = stored
           /\ connected = FALSE
           /\ deploy = NoDeploy /\ write = NoWrite /\ read = NoRead
-----------------------------------------------------------------------------
\* The effect of DeploySection: what it has goes to localStorage.
Store(d) == stored' = IF d.address # NoContract /\ d.address # deploy.address
                      THEN d.address ELSE stored

Connect == /\ ~connected
           /\ connected' = TRUE
           /\ deploy' = [NoDeploy EXCEPT !.address = stored]
           /\ UNCHANGED <<stored, storageEvent, shown, write, read>>

Disconnect == /\ connected
              /\ connected' = FALSE
              /\ deploy' = NoDeploy
              /\ UNCHANGED <<stored, storageEvent, shown, write, read>>

isDeploying == deploy.step = "pending"

DeployGoes(d) == /\ connected
                 /\ deploy' = d
                 /\ Store(d)
                 /\ UNCHANGED <<storageEvent, shown, connected, write, read>>

handleDeploy == ~isDeploying /\ DeployGoes([deploy EXCEPT !.step = "pending"])

DeploySent == isDeploying /\ DeployGoes([deploy EXCEPT !.step = "sent"])

\* The address is a new one.
DeployReceipt(c) == /\ deploy.step = "sent"
                    /\ c \notin {stored, shown, deploy.address}
                    /\ DeployGoes([address |-> c, step |-> "mined"])

\* The wallet or the chain refuses; the error is shown.
DeployFails == /\ deploy.step \in {"pending", "sent"}
               /\ DeployGoes([deploy EXCEPT !.step = "failed"])
-----------------------------------------------------------------------------
HasHash(w) == w.step \in {"sent", "mined", "found"}

\* Mutant: it only notices when the hash arrives.
SettledAtHash(c, w) == IF w.step = "sent" /\ c # w.address THEN NoWrite ELSE w

\* The effect of WriteSection: a transaction to another contract is forgotten.
Settled(c, w) == IF HasHash(w) /\ c # w.address THEN NoWrite ELSE w

\* setContractAddress: without one the two sections go.
Show(c) == /\ shown' = c
           /\ write' = IF c = NoContract THEN NoWrite ELSE Settled(c, write)
           /\ read' = IF c = NoContract THEN NoRead ELSE read

\* Mutant: the poll compares with nothing but the empty address it began with.
PollOnce == /\ shown = NoContract
            /\ stored # shown
            /\ Show(stored)
            /\ UNCHANGED <<stored, storageEvent, connected, deploy>>

\* The 100 ms poll, for what this tab has stored itself.
Poll == /\ stored # shown
        /\ Show(stored)
        /\ UNCHANGED <<stored, storageEvent, connected, deploy>>

handleStorageChange == /\ storageEvent
                       /\ storageEvent' = FALSE
                       /\ Show(stored)
                       /\ UNCHANGED <<stored, connected, deploy>>

\* External: another tab of the page deploys, or its storage is cleared.
OtherTab(c) == /\ stored' = c
               /\ storageEvent' = TRUE
               /\ UNCHANGED <<shown, connected, deploy, write, read>>

isWriting == write.step \in {"pending", "sent", "mined"}

WriteGoes(w) == /\ write' = Settled(shown, w)
                /\ UNCHANGED <<stored, storageEvent, shown, connected, deploy, read>>

handleWrite == /\ shown # NoContract
               /\ ~isWriting
               /\ WriteGoes([address |-> shown, step |-> "pending", to |-> shown])

\* useWriteContract has the hash, useWaitForTransactionReceipt its receipt, and
\* only then useTransaction looks for what was mined.
WriteGoesOn == \/ write.step = "pending" /\ WriteGoes([write EXCEPT !.step = "sent"])
               \/ write.step = "sent" /\ WriteGoes([write EXCEPT !.step = "mined"])
               \/ write.step = "mined" /\ WriteGoes([write EXCEPT !.step = "found"])

WriteRejected == /\ write.step = "pending"
                 /\ WriteGoes([write EXCEPT !.step = "none", !.to = NoContract])
-----------------------------------------------------------------------------
handleRead == /\ shown # NoContract
              /\ read' = [read EXCEPT !.calls = @ \cup {shown}]
              /\ UNCHANGED <<stored, storageEvent, shown, connected, deploy, write>>

ReadArrives(c) == /\ c \in read.calls
                  /\ \/ read' = [result |-> c, calls |-> read.calls \ {c}]
                     \/ read' = [read EXCEPT !.calls = @ \ {c}]
                  /\ UNCHANGED <<stored, storageEvent, shown, connected, deploy, write>>

AppNext == \/ Connect \/ Disconnect
           \/ handleDeploy \/ DeploySent \/ DeployFails
           \/ Poll \/ handleStorageChange
           \/ handleWrite \/ WriteGoesOn \/ WriteRejected
           \/ handleRead
           \/ \E c \in Contracts : DeployReceipt(c) \/ ReadArrives(c)
           \/ \E c \in Stored : OtherTab(c)

AppSpec == AppInit /\ [][AppNext]_appVars

\* An interval that is never cleared without being set anew.
AppFairness == WF_appVars(Poll)
-----------------------------------------------------------------------------
Write == [address: Stored, to: Stored,
          step: {"none", "pending", "sent", "mined", "found"}]

AppTypeOK ==
  /\ {stored, shown} \subseteq Stored
  /\ {storageEvent, connected} \subseteq BOOLEAN
  /\ deploy \in [address: Stored, step: {"none", "pending", "sent", "mined", "failed"}]
  /\ write \in Write
  /\ read \in [result: Stored, calls: SUBSET Contracts]

\* The transaction shown under a contract was sent to that contract, although
\* the contract may change while the wallet is still asking (App.tsx:225-230).
ShownWriteIsOfShownContract == HasHash(write) => write.to = shown

\* The inductive invariant behind it.
WriteIInv ==
  /\ AppTypeOK
  /\ write.step # "none" => write.to = write.address
  /\ HasHash(write) => write.address = shown

\* A contract deployed here or in another tab becomes the one in use, although
\* "localStorage events don't fire in the same tab" (App.tsx:365).
StoredContractIsShown ==
  \A c \in Stored : <>[](stored = c) => <>[](shown = c)
=============================================================================
