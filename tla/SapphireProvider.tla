-------------------------- MODULE SapphireProvider --------------------------
(***************************************************************************)
(* The wrapped send of the JavaScript clients (hookEthersSend in           *)
(* integrations/ethers-v6, makeSapphireRequestFn in clients/js): take a    *)
(* key from the fetcher, encrypt, send, and, when the MetaMask snap is     *)
(* installed, fetch a key once more to tell the snap how to decrypt.       *)
(*                                                                         *)
(* The snap is looked for between the two fetches, as the signer does; the *)
(* provider looks before both, which is the case where that takes no time. *)
(***************************************************************************)
EXTENDS KeyFetcher

CONSTANT Nothing   \* no envelope to explain to the snap

Envelope == [key : Key, at : Nat]

ASSUME ProviderAssumption ==
  Nothing \notin [key : [chain : Chains, issued : Nat], at : Nat]

VARIABLE untold   \* untold[c]: c's envelope, until the snap is told of its keys

sendVars == <<keyVars, untold>>

SendInit == KeyInit /\ untold = [c \in Callers |-> Nothing]

-----------------------------------------------------------------------------
\* cipher.encryptCall and the send.  With the snap enabled and installed, c
\* now awaits detectSapphireSnap; its next fetch is notifySapphireSnap's.
EncryptAndSend(c) ==
  /\ task[c].step = "ready"
  /\ untold[c] = Nothing
  /\ Goto(c, Idle)
  /\ \/ UNCHANGED untold
     \/ untold' = [untold EXCEPT ![c] = [key |-> task[c].key, at |-> now]]
  /\ UNCHANGED <<now, chain, switched, pubkey>>

\* Mutant: the envelope is not forgotten once the snap was told.
NotifySnapAgain(c) ==
  /\ task[c].step = "ready"
  /\ untold[c] # Nothing
  /\ Goto(c, Idle)
  /\ UNCHANGED <<now, chain, switched, pubkey, untold>>

\* setTransactionDecryptKeys: the peer key is what the second fetch returned.
NotifySnap(c) ==
  /\ task[c].step = "ready"
  /\ untold[c] # Nothing
  /\ untold' = [untold EXCEPT ![c] = Nothing]
  /\ Goto(c, Idle)
  /\ UNCHANGED <<now, chain, switched, pubkey>>

\* The send, or the background notification, is abandoned with the error.
Fail(c) == FetchFails(c) /\ untold' = [untold EXCEPT ![c] = Nothing]

\* Detecting the snap takes no longer than a fetch.
SendTick ==
  /\ \A c \in Callers : untold[c] # Nothing /\ task[c] = Idle
                          => now < untold[c].at + MaxLatency
  /\ ClockTick
  /\ UNCHANGED untold

SendNext ==
  \/ \E c \in Callers :
       \/ Fetch(c) /\ UNCHANGED untold
       \/ EncryptAndSend(c)
       \/ NotifySnap(c)
       \/ Fail(c)
  \/ SwitchChain /\ UNCHANGED untold
  \/ SendTick

SendSpec == SendInit /\ [][SendNext]_sendVars
-----------------------------------------------------------------------------
Telling(c) == untold[c] # Nothing /\ task[c].step = "ready"

\* "This sends the encryption key on a per-transaction basis"
\* (provider.ts:134), but fetches it anew: the peer key the snap gets is at
\* most one fetch older, and one cache lifetime with its awaits newer, than the
\* envelope's, however other callers overwrite the cache between the two
\* fetches (provider.ts:168).
SnapKeyIsClose ==
  \A c \in Callers :
    Telling(c) => task[c].key.issued - untold[c].key.issued
                    \in -MaxLatency .. MaxAge + 2 * MaxLatency

\* What it rests on.  A key in hand was read before the cached one was stamped,
\* so the cache can go back by the time of one fetch only; the snap's key is
\* fetched after the envelope was made, and within MaxLatency of it.
KeyInHand(k) == pubkey # NoKey /\ k.issued <= pubkey.fetched

Told(t, e) ==
  /\ KeyInHand(e.key)
  /\ e.key.issued <= e.at /\ e.at <= e.key.issued + MaxAge
  /\ IF t.step = "idle" THEN e.at <= now /\ now <= e.at + MaxLatency
                        ELSE e.at <= t.began /\ t.began <= e.at + MaxLatency
  /\ t.step = "ready" => e.key.issued <= t.key.issued + MaxLatency

SnapIInv ==
  /\ KeyIInv
  /\ untold \in [Callers -> Envelope \cup {Nothing}]
  /\ \A c \in Callers : /\ task[c].step = "ready" => KeyInHand(task[c].key)
                        /\ untold[c] # Nothing => Told(task[c], untold[c])
=============================================================================
