-------------------------- MODULE FrontendsProofs --------------------------
(***************************************************************************)
(* The wrapped provider and its key cache, the token page, the wagmi       *)
(* connectors, viem's wallet clients and the wagmi page, for any number of *)
(* callers, accounts, calls, clients and contracts; and every behaviour of *)
(* Frontends is one of each of its parts, so what is proved of a part      *)
(* holds in the run that checks them together.                             *)
(***************************************************************************)
EXTENDS Frontends, SapphireProvider, SequenceTheorems, TLAPS

(***************************************************************************)
(* KeyIInv is kept by every step of the fetcher, for every set of callers  *)
(* and chains and for every timeout and latency; KeyAge and                *)
(* WrongChainIsTransient follow from it by arithmetic.  So the age bounds  *)
(* hold of every wrapped send, with the snap or without it.  The viem      *)
(* serializer, which composes the fetcher too, cites the lemmas of this    *)
(* part.                                                                   *)
(***************************************************************************)

\* KeyUsed: a caller takes the key fetch returned and is done with it.
KeyUsed(c) == /\ task[c].step = "ready"
          /\ Goto(c, Idle)
          /\ UNCHANGED <<now, chain, switched, pubkey>>

KeyStep == \/ \E c \in Callers : Fetch(c) \/ FetchFails(c) \/ KeyUsed(c)
           \/ SwitchChain
           \/ ClockTick
           \/ UNCHANGED keyVars

\* A cached record holds a key.
LEMMA CachedKey ==
  ASSUME KeyTypeOK, pubkey # NoKey
  PROVE  pubkey \in CallDataPublicKey /\ pubkey.key \in Key
                /\ pubkey.key.issued \in Nat /\ pubkey.fetched \in Nat
BY DEF KeyTypeOK, CallDataPublicKey, Key

\* What each step of a task carries.
LEMMA TaskFields ==
  ASSUME KeyTypeOK, NEW c \in Callers
  PROVE  /\ task[c] \in Task
         /\ task[c].step \in {"idle", "chainId", "key", "answered", "ready"}
         /\ task[c].step # "idle" => task[c].began \in Nat
         /\ task[c].step \in {"answered", "ready"} =>
              task[c].key \in Key /\ task[c].key.issued \in Nat
BY DEF KeyTypeOK, Task, Key

\* The timeliness of one caller's task.
Timely(t) ==
  /\ t.step # "idle" => t.began <= now /\ now <= t.began + MaxLatency
  /\ t.step = "answered" => t.began <= t.key.issued
  /\ t.step = "ready" => t.began <= t.key.issued + Timeout + MaxLatency
  /\ t.step \in {"answered", "ready"} => t.key.issued <= now /\ Foreign(t.key)

\* A step that only moves one caller's task keeps every task timely if the
\* new one is.
LEMMA OneTaskMoves ==
  ASSUME KeyIInv, NEW c \in Callers, NEW t \in Task, Timely(t),
         Goto(c, t), UNCHANGED <<now, chain, switched>>
  PROVE  TasksTimely' /\ task' \in [Callers -> Task]
<1>1. task' \in [Callers -> Task]
  BY DEF KeyIInv, KeyTypeOK, Goto
<1>2. ASSUME NEW d \in Callers PROVE Timely(task'[d])
  BY <1>2 DEF KeyIInv, KeyTypeOK, TasksTimely, Timely, Goto
<1>3. TasksTimely'
  BY <1>2 DEF TasksTimely, Timely, Foreign
<1> QED BY <1>1, <1>3

\* Every step of the fetcher, and the use of a key, keeps KeyIInv.
LEMMA KeyStepKeepsIInv == KeyIInv /\ KeyStep => KeyIInv'
<1> SUFFICES ASSUME KeyIInv, KeyStep PROVE KeyIInv'
  OBVIOUS
<1> USE KeyFetcherAssumption
<1>t. KeyTypeOK /\ TasksTimely /\ CacheTimely
  BY DEF KeyIInv
<1>i. Idle \in Task /\ Timely(Idle)
  BY DEF Idle, Task, Timely
<1>1. ASSUME NEW c \in Callers, FetchCached(c) PROVE KeyIInv'
  <2> DEFINE t == [step |-> "ready", began |-> now, key |-> pubkey.key]
  <2>1. t \in Task
    BY <1>1, <1>t, CachedKey DEF FetchCached, Cached, Task, KeyTypeOK
  <2>2. Timely(t)
    BY <1>1, <1>t, CachedKey DEF FetchCached, Cached, Timely, CacheTimely, KeyTypeOK, Foreign
  <2>3. TasksTimely' /\ task' \in [Callers -> Task]
    BY <1>1, <2>1, <2>2, OneTaskMoves DEF FetchCached
  <2> QED BY <1>1, <1>t, <2>3 DEF FetchCached, KeyIInv, KeyTypeOK, CacheTimely, Foreign
<1>2. ASSUME NEW c \in Callers, FetchFresh(c) PROVE KeyIInv'
  <2> DEFINE t == [step |-> "chainId", began |-> now]
  <2>1. t \in Task /\ Timely(t)
    BY <1>t DEF Task, Timely, KeyTypeOK
  <2>3. TasksTimely' /\ task' \in [Callers -> Task]
    BY <1>2, <2>1, OneTaskMoves DEF FetchFresh
  <2> QED BY <1>2, <1>t, <2>3 DEF FetchFresh, KeyIInv, KeyTypeOK, CacheTimely, Foreign
<1>3. ASSUME NEW c \in Callers, ChainIdAnswered(c) PROVE KeyIInv'
  <2> DEFINE t == [step |-> "key", began |-> task[c].began]
  <2>1. t \in Task /\ Timely(t)
    BY <1>3, <1>t, TaskFields DEF ChainIdAnswered, Task, Timely, TasksTimely, KeyTypeOK
  <2>3. TasksTimely' /\ task' \in [Callers -> Task]
    BY <1>3, <2>1, OneTaskMoves DEF ChainIdAnswered
  <2> QED BY <1>3, <1>t, <2>3 DEF ChainIdAnswered, KeyIInv, KeyTypeOK, CacheTimely, Foreign
<1>4. ASSUME NEW c \in Callers, KeyAnswered(c) PROVE KeyIInv'
  <2> DEFINE t == [step |-> "answered", began |-> task[c].began,
                   key |-> [chain |-> chain, issued |-> now]]
  <2>1. t \in Task
    BY <1>4, <1>t, TaskFields DEF KeyAnswered, Task, Key, KeyTypeOK
  <2>2. Timely(t)
    BY <1>4, <1>t, TaskFields DEF KeyAnswered, Timely, TasksTimely, KeyTypeOK, Foreign
  <2>3. TasksTimely' /\ task' \in [Callers -> Task]
    BY <1>4, <2>1, <2>2, OneTaskMoves DEF KeyAnswered
  <2> QED BY <1>4, <1>t, <2>3 DEF KeyAnswered, KeyIInv, KeyTypeOK, CacheTimely, Foreign
<1>5. ASSUME NEW c \in Callers, KeyArrives(c) PROVE KeyIInv'
  <2> DEFINE t == [step |-> "ready", began |-> task[c].began, key |-> task[c].key]
  <2>f. task[c].step = "answered" /\ task[c].began \in Nat /\ task[c].key \in Key
          /\ task[c].key.issued \in Nat /\ now \in Nat
    BY <1>5, <1>t, TaskFields DEF KeyArrives, KeyTypeOK
  <2>1. t \in Task
    BY <2>f DEF Task
  <2>2. Timely(t)
    BY <2>f, <1>t DEF Timely, TasksTimely, Foreign
  <2>3. TasksTimely' /\ task' \in [Callers -> Task]
    BY <1>5, <2>1, <2>2, OneTaskMoves DEF KeyArrives
  <2>4. pubkey' \in CallDataPublicKey
    BY <1>5, <2>f DEF KeyArrives, CallDataPublicKey
  <2>5. CacheTimely'
    <3>1. /\ task[c].began <= task[c].key.issued /\ task[c].key.issued <= now
          /\ now <= task[c].began + MaxLatency /\ Foreign(task[c].key)
      BY <2>f, <1>t DEF TasksTimely
    <3>2. now <= task[c].key.issued + MaxLatency
      BY <3>1, <2>f
    <3> QED BY <1>5, <2>f, <3>1, <3>2 DEF KeyArrives, CacheTimely, Foreign
  <2> QED BY <1>5, <1>t, <2>3, <2>4, <2>5 DEF KeyArrives, KeyIInv, KeyTypeOK
<1>6. ASSUME NEW c \in Callers, FetchFails(c) \/ KeyUsed(c) PROVE KeyIInv'
  <2>1. TasksTimely' /\ task' \in [Callers -> Task]
    BY <1>6, <1>i, OneTaskMoves DEF FetchFails, KeyUsed
  <2> QED BY <1>6, <1>t, <2>1 DEF FetchFails, KeyUsed, KeyIInv, KeyTypeOK, CacheTimely, Foreign
<1>7. CASE SwitchChain
  <2>1. KeyTypeOK'
    BY <1>7, <1>t DEF SwitchChain, KeyTypeOK
  <2>2. TasksTimely'
    BY <1>7, <1>t, TaskFields DEF SwitchChain, TasksTimely, KeyTypeOK, Foreign
  <2>3. CacheTimely'
    BY <1>7, <1>t, CachedKey DEF SwitchChain, CacheTimely, KeyTypeOK, Foreign
  <2> QED BY <2>1, <2>2, <2>3 DEF KeyIInv
<1>8. CASE ClockTick
  <2>1. KeyTypeOK'
    BY <1>8, <1>t DEF ClockTick, KeyTypeOK
  <2>2. TasksTimely'
    BY <1>8, <1>t, TaskFields DEF ClockTick, TasksTimely, KeyTypeOK, Foreign
  <2>3. CacheTimely'
    BY <1>8, <1>t, CachedKey DEF ClockTick, CacheTimely, KeyTypeOK, Foreign
  <2> QED BY <2>1, <2>2, <2>3 DEF KeyIInv
<1>9. CASE UNCHANGED keyVars
  BY <1>9, <1>t DEF keyVars, KeyIInv, KeyTypeOK, TasksTimely, CacheTimely, Foreign
<1> QED BY <1>1, <1>2, <1>3, <1>4, <1>5, <1>6, <1>7, <1>8, <1>9 DEF KeyStep, Fetch

\* The fetcher starts in KeyIInv.
LEMMA KeyInitIInv == KeyInit => KeyIInv
BY KeyFetcherAssumption
   DEF KeyInit, KeyIInv, KeyTypeOK, TasksTimely, CacheTimely, Idle, Task

\* The age of a key in hand, and of one foreign to the chain.
LEMMA KeyBounds == KeyIInv => KeyAge /\ WrongChainIsTransient
<1> SUFFICES ASSUME KeyIInv, NEW c \in Callers, task[c].step = "ready"
             PROVE  /\ now - task[c].key.issued <= MaxAge
                    /\ task[c].key.chain # chain => now - switched <= MaxAge
  BY DEF KeyAge, WrongChainIsTransient
<1>1. /\ task[c].began \in Nat /\ task[c].key.issued \in Nat
      /\ now \in Nat /\ switched \in Nat
  BY TaskFields DEF KeyIInv, KeyTypeOK
<1>2. /\ now <= task[c].began + MaxLatency
      /\ task[c].began <= task[c].key.issued + Timeout + MaxLatency
      /\ Foreign(task[c].key)
  BY DEF KeyIInv, TasksTimely
<1> QED BY <1>1, <1>2, KeyFetcherAssumption DEF MaxAge, Foreign

\* A step changes the cached key only for one read MaxLatency ago at most.
LEMMA KeyStepRegress ==
  KeyIInv /\ KeyStep /\ pubkey' # pubkey /\ pubkey # NoKey
    => pubkey'.key.issued >= pubkey.key.issued - MaxLatency
<1> SUFFICES ASSUME KeyIInv, KeyStep, pubkey' # pubkey, pubkey # NoKey
             PROVE  pubkey'.key.issued >= pubkey.key.issued - MaxLatency
  OBVIOUS
<1>1. PICK c \in Callers : KeyArrives(c)
  BY DEF KeyStep, Fetch, FetchCached, FetchFresh, ChainIdAnswered, KeyAnswered,
         FetchFails, KeyUsed, SwitchChain, ClockTick, keyVars
<1>2. /\ task[c].began \in Nat /\ task[c].key.issued \in Nat /\ now \in Nat
      /\ task[c].began <= task[c].key.issued /\ now <= task[c].began + MaxLatency
  BY <1>1, TaskFields DEF KeyArrives, KeyIInv, KeyTypeOK, TasksTimely
<1>3. /\ pubkey.key.issued \in Nat /\ pubkey.fetched \in Nat
      /\ pubkey.key.issued <= now
  BY CachedKey, <1>2 DEF KeyIInv, CacheTimely
<1>4. pubkey'.key.issued = task[c].key.issued
  BY <1>1 DEF KeyArrives
<1> QED BY <1>2, <1>3, <1>4, KeyFetcherAssumption

-----------------------------------------------------------------------------
\* A step of the wrapped send is, for the fetcher, one of its steps or the
\* use of a key.
LEMMA SendIsKeyStep == [SendNext]_sendVars => KeyStep
<1> SUFFICES ASSUME [SendNext]_sendVars PROVE KeyStep
  OBVIOUS
<1>1. ASSUME NEW c \in Callers,
             EncryptAndSend(c) \/ NotifySnap(c)
      PROVE  KeyUsed(c)
  BY <1>1 DEF EncryptAndSend, NotifySnap, KeyUsed
<1>2. ASSUME NEW c \in Callers, Fail(c) PROVE FetchFails(c)
  BY <1>2 DEF Fail
<1> QED BY <1>1, <1>2 DEF SendNext, sendVars, SendTick, KeyStep

\* KeyIInv is an invariant of the wrapped send.
THEOREM KeyInvariance == SendSpec => []KeyIInv
<1>1. SendInit => KeyIInv
  BY KeyInitIInv DEF SendInit
<1>2. KeyIInv /\ [SendNext]_sendVars => KeyIInv'
  BY SendIsKeyStep, KeyStepKeepsIInv
<1> QED BY <1>1, <1>2, PTL DEF SendSpec

\* Whatever is encrypted, and whatever the snap is told, uses a key read at
\* most MaxAge ago.
THEOREM KeysAreRecent == SendSpec => []KeyAge
BY KeyInvariance, KeyBounds, PTL

\* And one of another chain only within MaxAge of a switch.
THEOREM ForeignKeysAreTransient == SendSpec => []WrongChainIsTransient
BY KeyInvariance, KeyBounds, PTL

\* The cache never falls back by more than the time of one fetch.
THEOREM CacheRegressBounded == SendSpec => RegressBounded
<1>1. KeyIInv /\ [SendNext]_sendVars
        => [pubkey # NoKey
              => pubkey'.key.issued >= pubkey.key.issued - MaxLatency]_pubkey
  BY SendIsKeyStep, KeyStepRegress
<1>2. SendSpec => []KeyIInv
  BY KeyInvariance
<1> QED BY <1>1, <1>2, PTL DEF SendSpec, RegressBounded

\* What SnapIInv says of one caller, at t and with the envelope e.
SnapOK(t, e) == /\ t.step = "ready" => KeyInHand(t.key)
                /\ e # Nothing => Told(t, e)

\* What is known of a caller and its envelope.
LEMMA SnapFields ==
  ASSUME SnapIInv, NEW c \in Callers
  PROVE  /\ KeyIInv /\ KeyTypeOK /\ now \in Nat
         /\ task[c] \in Task
         /\ untold[c] \in Envelope \cup {Nothing}
         /\ untold[c] # Nothing => untold[c].key.issued \in Nat /\ untold[c].at \in Nat
         /\ SnapOK(task[c], untold[c])
BY TaskFields DEF SnapIInv, KeyIInv, KeyTypeOK, SnapOK, Envelope, Key

\* A step that moves one caller and keeps the cache and the clock.
LEMMA SnapMoves ==
  ASSUME SnapIInv, NEW c \in Callers, NEW t, NEW e \in Envelope \cup {Nothing},
         SnapOK(t, e), Goto(c, t), untold' = [untold EXCEPT ![c] = e],
         UNCHANGED <<now, pubkey>>, KeyIInv'
  PROVE  SnapIInv'
<1>1. untold' \in [Callers -> Envelope \cup {Nothing}]
  BY DEF SnapIInv
<1>2. ASSUME NEW d \in Callers PROVE SnapOK(task'[d], untold'[d])
  <2>1. /\ task'[d] = IF d = c THEN t ELSE task[d]
        /\ untold'[d] = IF d = c THEN e ELSE untold[d]
    BY DEF SnapIInv, KeyIInv, KeyTypeOK, Goto
  <2> QED BY <2>1, SnapFields
<1>3. ASSUME NEW d \in Callers
      PROVE  /\ task'[d].step = "ready" => KeyInHand(task[d].key)'
             /\ untold'[d] # Nothing => Told(task[d], untold[d])'
  BY <1>2 DEF SnapOK, Told, KeyInHand
<1> QED BY <1>1, <1>3 DEF SnapIInv

\* The steps of fetch before its answer arrives, for the send or for the snap.
LEMMA FetchKeepsSnap ==
  ASSUME SnapIInv, KeyIInv', NEW c \in Callers, UNCHANGED untold,
         FetchCached(c) \/ FetchFresh(c) \/ ChainIdAnswered(c) \/ KeyAnswered(c)
  PROVE  SnapIInv'
<1> USE KeyFetcherAssumption
<1> DEFINE e == untold[c]
<1>1. /\ KeyTypeOK /\ now \in Nat /\ SnapOK(task[c], e) /\ e \in Envelope \cup {Nothing}
      /\ e # Nothing => e.key.issued \in Nat /\ e.at \in Nat
  BY SnapFields
<1>2. untold' = [untold EXCEPT ![c] = e]
  BY DEF SnapIInv
<1>3. CASE FetchCached(c)
  <2> DEFINE t == [step |-> "ready", began |-> now, key |-> pubkey.key]
  <2>1. /\ pubkey # NoKey /\ pubkey.key.issued \in Nat /\ pubkey.fetched \in Nat
        /\ pubkey.key.issued <= pubkey.fetched
        /\ pubkey.fetched <= pubkey.key.issued + MaxLatency
    BY <1>1, <1>3, CachedKey DEF FetchCached, Cached, SnapIInv, KeyIInv, CacheTimely
  <2>2. KeyInHand(t.key)
    BY <2>1 DEF KeyInHand
  <2>3. ASSUME e # Nothing PROVE Told(t, e)
    <3>1. Told(task[c], e) /\ task[c].step = "idle"
      BY <1>1, <1>3, <2>3 DEF SnapOK, FetchCached
    <3> QED BY <1>1, <2>1, <2>3, <3>1 DEF Told, KeyInHand
  <2>4. SnapOK(t, e)
    BY <2>2, <2>3 DEF SnapOK
  <2> QED BY <1>1, <1>2, <1>3, <2>4, SnapMoves DEF FetchCached
<1>4. CASE FetchFresh(c)
  <2> DEFINE t == [step |-> "chainId", began |-> now]
  <2>1. SnapOK(t, e)
    BY <1>1, <1>4 DEF SnapOK, Told, FetchFresh
  <2> QED BY <1>1, <1>2, <1>4, <2>1, SnapMoves DEF FetchFresh
<1>5. CASE ChainIdAnswered(c)
  <2> DEFINE t == [step |-> "key", began |-> task[c].began]
  <2>1. SnapOK(t, e)
    BY <1>1, <1>5 DEF SnapOK, Told, ChainIdAnswered
  <2> QED BY <1>1, <1>2, <1>5, <2>1, SnapMoves DEF ChainIdAnswered
<1>6. CASE KeyAnswered(c)
  <2> DEFINE t == [step |-> "answered", began |-> task[c].began,
                   key |-> [chain |-> chain, issued |-> now]]
  <2>1. SnapOK(t, e)
    BY <1>1, <1>6 DEF SnapOK, Told, KeyAnswered
  <2> QED BY <1>1, <1>2, <1>6, <2>1, SnapMoves DEF KeyAnswered
<1> QED BY <1>3, <1>4, <1>5, <1>6

\* An answer that arrives stamps the cache anew, for every caller.
LEMMA ArrivalKeepsSnap ==
  ASSUME SnapIInv, KeyIInv', NEW c \in Callers, UNCHANGED untold, KeyArrives(c)
  PROVE  SnapIInv'
<1> USE KeyFetcherAssumption
<1>1. /\ KeyTypeOK /\ now \in Nat /\ task[c].step = "answered"
      /\ task[c].began \in Nat /\ task[c].key \in Key /\ task[c].key.issued \in Nat
  BY SnapFields, TaskFields DEF KeyArrives
<1>2. pubkey' = [key |-> task[c].key, fetched |-> now] /\ pubkey' # NoKey /\ now' = now
  BY <1>1 DEF KeyArrives, Key
<1>3. ASSUME NEW k \in Key, KeyInHand(k)
      PROVE  pubkey' # NoKey /\ k.issued <= pubkey'.fetched
  <2>1. k.issued \in Nat /\ pubkey.fetched \in Nat
    BY <1>1, <1>3, CachedKey DEF Key, KeyInHand
  <2>2. k.issued <= pubkey.fetched /\ pubkey.fetched <= now
    BY <1>3 DEF KeyInHand, SnapIInv, KeyIInv, CacheTimely
  <2> QED BY <1>1, <1>2, <2>1, <2>2
<1>4. task[c].began <= task[c].key.issued /\ task[c].key.issued <= now
  BY <1>1 DEF SnapIInv, KeyIInv, TasksTimely
<1>5. ASSUME NEW d \in Callers
      PROVE  /\ task'[d].step = "ready" => KeyInHand(task[d].key)'
             /\ untold'[d] # Nothing => Told(task[d], untold[d])'
  <2> DEFINE e == untold[d]
  <2>1. /\ SnapOK(task[d], e) /\ untold' = untold
        /\ e # Nothing => e.key \in Key /\ e.key.issued \in Nat /\ e.at \in Nat
    BY SnapFields DEF Envelope
  <2>2. CASE d = c
    <3>1. task'[d] = [step |-> "ready", began |-> task[c].began, key |-> task[c].key]
      BY <1>1, <2>2 DEF KeyArrives, Goto, KeyTypeOK
    <3>2. KeyInHand(task[d].key)'
      BY <1>1, <1>2, <1>4, <3>1 DEF KeyInHand
    <3>3. ASSUME e # Nothing PROVE Told(task[d], e)'
      <4>1. /\ KeyInHand(e.key) /\ e.key.issued <= e.at /\ e.at <= e.key.issued + MaxAge
            /\ e.at <= task[c].began /\ task[c].began <= e.at + MaxLatency
        BY <1>1, <2>1, <2>2, <3>3 DEF SnapOK, Told
      <4>2. e.key.issued <= task[c].key.issued + MaxLatency
        BY <1>1, <1>4, <2>1, <3>3, <4>1
      <4> QED BY <1>3, <2>1, <3>1, <3>3, <4>1, <4>2 DEF Told, KeyInHand
    <3> QED BY <2>1, <3>2, <3>3
  <2>3. CASE d # c
    <3>1. task'[d] = task[d]
      BY <1>1, <2>3 DEF KeyArrives, Goto, KeyTypeOK
    <3>2. task[d].step = "ready" => task[d].key \in Key
      BY <1>1, TaskFields
    <3>3. task'[d].step = "ready" => KeyInHand(task[d].key)'
      BY <1>3, <2>1, <3>1, <3>2 DEF SnapOK, KeyInHand
    <3>4. untold'[d] # Nothing => Told(task[d], e)'
      BY <1>2, <1>3, <2>1, <3>1 DEF SnapOK, Told, KeyInHand
    <3> QED BY <2>1, <3>3, <3>4
  <2> QED BY <2>2, <2>3
<1> QED BY <1>5 DEF SnapIInv

\* The caller is done with the key, for the send, for the snap or for good.
LEMMA DoneKeepsSnap ==
  ASSUME SnapIInv, KeyIInv', NEW c \in Callers,
         EncryptAndSend(c) \/ NotifySnap(c) \/ Fail(c)
  PROVE  SnapIInv'
<1>1. /\ KeyTypeOK /\ now \in Nat /\ SnapOK(task[c], untold[c])
  BY SnapFields
<1>2. SnapOK(Idle, Nothing) /\ Nothing \in Envelope \cup {Nothing}
  BY DEF SnapOK, Idle
<1>3. CASE EncryptAndSend(c)
  <2> DEFINE e == [key |-> task[c].key, at |-> now]
  <2>1. CASE UNCHANGED untold
    <3>1. untold' = [untold EXCEPT ![c] = Nothing]
      BY <1>3, <2>1 DEF EncryptAndSend, SnapIInv
    <3> QED BY <1>2, <1>3, <3>1, SnapMoves DEF EncryptAndSend
  <2>2. CASE untold' = [untold EXCEPT ![c] = e]
    <3>1. task[c].step = "ready" /\ task[c].key \in Key /\ task[c].key.issued \in Nat
      BY <1>1, <1>3, TaskFields DEF EncryptAndSend
    <3>2. e \in Envelope
      BY <1>1, <3>1 DEF Envelope
    <3>3. /\ KeyInHand(e.key) /\ e.key.issued <= e.at
          /\ e.at - e.key.issued <= MaxAge
      BY <1>1, <3>1, KeyBounds DEF SnapOK, SnapIInv, KeyIInv, TasksTimely, KeyAge
    <3>4. SnapOK(Idle, e)
      BY <1>1, <3>1, <3>3, KeyFetcherAssumption DEF SnapOK, Told, Idle, MaxAge
    <3> QED BY <1>3, <2>2, <3>2, <3>4, SnapMoves DEF EncryptAndSend
  <2> QED BY <1>3, <2>1, <2>2 DEF EncryptAndSend
<1>4. CASE NotifySnap(c)
  BY <1>2, <1>4, SnapMoves DEF NotifySnap
<1>5. CASE Fail(c)
  BY <1>2, <1>5, SnapMoves DEF Fail, FetchFails
<1> QED BY <1>3, <1>4, <1>5

\* Time passes: nobody waits longer than MaxLatency for the snap.
LEMMA TickKeepsSnap == SnapIInv /\ KeyIInv' /\ SendTick => SnapIInv'
<1> SUFFICES ASSUME SnapIInv, KeyIInv', SendTick PROVE SnapIInv'
  OBVIOUS
<1>1. now' = now + 1 /\ UNCHANGED <<chain, switched, pubkey, task, untold>>
  BY DEF SendTick, ClockTick
<1>2. ASSUME NEW c \in Callers
      PROVE  /\ task[c].step = "ready" => KeyInHand(task[c].key)'
             /\ untold[c] # Nothing => Told(task[c], untold[c])'
  <2>1. /\ SnapOK(task[c], untold[c]) /\ now \in Nat /\ task[c] \in Task
        /\ untold[c] # Nothing => untold[c].at \in Nat
    BY SnapFields
  <2>2. task[c].step = "idle" => task[c] = Idle
    BY <2>1 DEF Task, Idle
  <2>3. untold[c] # Nothing /\ task[c].step = "idle" => now < untold[c].at + MaxLatency
    BY <2>2 DEF SendTick
  <2> QED BY <1>1, <2>1, <2>3, KeyFetcherAssumption DEF SnapOK, Told, KeyInHand
<1> QED BY <1>1, <1>2 DEF SnapIInv

\* The inductive invariant of the send and of what the snap is told after it
\* (provider.ts:168-187).
THEOREM SnapInvariance == SendSpec => []SnapIInv
<1>1. SendInit => SnapIInv
  BY KeyInitIInv DEF SendInit, SnapIInv, KeyInit, Idle
<1>2. SnapIInv /\ [SendNext]_sendVars => SnapIInv'
  <2> SUFFICES ASSUME SnapIInv, [SendNext]_sendVars PROVE SnapIInv'
    OBVIOUS
  <2>1. KeyIInv'
    BY SendIsKeyStep, KeyStepKeepsIInv DEF SnapIInv
  <2>2. ASSUME NEW c \in Callers, Fetch(c), UNCHANGED untold PROVE SnapIInv'
    BY <2>1, <2>2, FetchKeepsSnap, ArrivalKeepsSnap DEF Fetch
  <2>3. CASE (SwitchChain /\ UNCHANGED untold) \/ UNCHANGED sendVars
    BY <2>1, <2>3
       DEF SwitchChain, sendVars, keyVars, SnapIInv, Told, KeyInHand
  <2> QED BY <2>1, <2>2, <2>3, DoneKeepsSnap, TickKeepsSnap DEF SendNext
<1> QED BY <1>1, <1>2, PTL DEF SendSpec

\* The peer key that the snap is told is close to the envelope's.
THEOREM SnapIsToldACloseKey == SendSpec => []SnapKeyIsClose
<1>1. SnapIInv => SnapKeyIsClose
  <2> SUFFICES ASSUME SnapIInv, NEW c \in Callers, Telling(c)
               PROVE  task[c].key.issued - untold[c].key.issued
                        \in -MaxLatency .. MaxAge + 2 * MaxLatency
    BY DEF SnapKeyIsClose
  <2>1. /\ task[c].step = "ready" /\ Told(task[c], untold[c]) /\ now \in Nat
        /\ task[c].began \in Nat /\ task[c].key.issued \in Nat
        /\ untold[c].at \in Nat /\ untold[c].key.issued \in Nat
    BY SnapFields, TaskFields DEF Telling, SnapOK
  <2>2. task[c].key.issued <= now /\ now <= task[c].began + MaxLatency
    BY <2>1 DEF SnapIInv, KeyIInv, TasksTimely
  <2> QED BY <2>1, <2>2, KeyFetcherAssumption DEF Told, MaxAge
<1> QED BY <1>1, SnapInvariance, PTL

-----------------------------------------------------------------------------
(***************************************************************************)
(* The token page, whatever the accounts, the transfers and the bounds.    *)
(***************************************************************************)

\* A page that has not connected satisfies the invariant.
LEMMA DappInitially == DappInit => DappIInv
<1> SUFFICES ASSUME DappInit PROVE DappIInv
  OBVIOUS
<1>1. state \in State /\ state.selectedAddress = None
  BY DEF DappInit, State, initialState, Maybe
<1>2. transfers \in [Transfers -> TransferState]
  BY DEF DappInit, TransferState, NoTransfer, Maybe
<1>3. queries \in [Accounts -> 0..MaxQueries]
  BY DappAssumption DEF DappInit
<1>. QED
  BY <1>1, <1>2, <1>3
    DEF DappInit, DappIInv, DappTypeOK, PollingMatchesSelection, Maybe

\* _initialize keeps the types, and selects and polls.
LEMMA InitializeKeeps ==
  ASSUME DappTypeOK, NEW a \in Accounts, NEW n \in Nat, initialize(a, state, n)
  PROVE  /\ state' \in State /\ state'.selectedAddress = a /\ a # None
         /\ timer' = TRUE
         /\ queries' \in [Accounts -> 0..MaxQueries]
         /\ reading' \subseteq {"name", "symbol"}
BY DappAssumption DEF initialize, DappTypeOK, State, Maybe

\* A step of the wallet: connecting, and its events.
LEMMA WalletStepKeeps ==
  ASSUME DappIInv,
         \/ ConnectWallet \/ ConnectRefused
         \/ \E a \in Accounts : Connected(a) \/ WrongNetwork(a) \/ AccountsChanged(a)
         \/ Disconnected \/ ChainChanged
  PROVE  DappIInv'
<1>1. CASE ConnectWallet \/ ConnectRefused
  <2>1. asked' \in Nat
    BY <1>1 DEF ConnectWallet, ConnectRefused, DappIInv, DappTypeOK
  <2>2. UNCHANGED <<account, network, handlers, state, timer, lost, queries, reading,
                    transfers>>
    BY <1>1 DEF ConnectWallet, ConnectRefused
  <2>. QED
    BY <2>1, <2>2 DEF DappIInv, DappTypeOK, PollingMatchesSelection, Maybe
<1>2. ASSUME NEW a \in Accounts, Connected(a) PROVE DappIInv'
  <2>1. /\ state' \in State /\ state'.selectedAddress = a /\ a # None
        /\ timer' = TRUE
        /\ queries' \in [Accounts -> 0..MaxQueries]
        /\ reading' \subseteq {"name", "symbol"}
    BY <1>2, InitializeKeeps DEF Connected, DappIInv
  <2>. QED
    BY <1>2, <2>1 DEF Connected, DappIInv, DappTypeOK, PollingMatchesSelection, Maybe
<1>3. ASSUME NEW a \in Accounts, WrongNetwork(a) PROVE DappIInv'
  <2>1. state' \in State /\ state'.selectedAddress = state.selectedAddress
    BY <1>3 DEF WrongNetwork, DappIInv, DappTypeOK, State
  <2>. QED
    BY <1>3, <2>1 DEF WrongNetwork, DappIInv, DappTypeOK, PollingMatchesSelection, Maybe
<1>4. ASSUME NEW a \in Accounts, AccountsChanged(a) PROVE DappIInv'
  <2>1. CASE handlers = 0
    BY <1>4, <2>1
      DEF AccountsChanged, DappIInv, DappTypeOK, PollingMatchesSelection, Maybe
  <2>2. CASE handlers # 0
    <3>1. handlers \in Nat
      BY DEF DappIInv, DappTypeOK
    <3>2. /\ state' \in State /\ state'.selectedAddress = a /\ a # None
          /\ timer' = TRUE
          /\ queries' \in [Accounts -> 0..MaxQueries]
          /\ reading' \subseteq {"name", "symbol"}
      BY <1>4, <2>2, <3>1, InitializeKeeps DEF AccountsChanged, DappIInv
    <3>. QED
      BY <1>4, <2>2, <3>1, <3>2
        DEF AccountsChanged, DappIInv, DappTypeOK, PollingMatchesSelection, Maybe
  <2>. QED BY <2>1, <2>2
<1>5. CASE Disconnected \/ ChainChanged
  <2>1. initialState \in State /\ initialState.selectedAddress = None
    BY DEF initialState, State, Maybe
  <2>2. CASE handlers = 0
    <3>1. state' = state /\ timer' = timer
      BY <1>5, <2>2 DEF Disconnected, ChainChanged, reset
    <3>. QED
      BY <1>5, <3>1
        DEF Disconnected, ChainChanged, DappIInv, DappTypeOK, PollingMatchesSelection, Maybe
  <2>3. CASE handlers # 0
    <3>1. state' = initialState /\ timer' = FALSE
      BY <1>5, <2>3 DEF Disconnected, ChainChanged, reset
    <3>. QED
      BY <1>5, <2>1, <3>1
        DEF Disconnected, ChainChanged, DappIInv, DappTypeOK, PollingMatchesSelection, Maybe
  <2>. QED BY <2>2, <2>3
<1>. QED BY <1>1, <1>2, <1>3, <1>4, <1>5

\* An answer of the chain, or a poll, changes what is shown and nothing else.
LEMMA ReadStepKeeps ==
  ASSUME DappIInv,
         \/ PollFires \/ TokenDataArrives \/ TokenDataFails
         \/ \E a \in Accounts : BalanceArrives(a) \/ QueryFails(a)
  PROVE  DappIInv'
<1>1. CASE PollFires
  <2>1. state.selectedAddress \in Accounts
    BY <1>1 DEF PollFires, ConnectShown, DappIInv, DappTypeOK, State, Maybe
  <2>. QED
    BY <1>1, <2>1, DappAssumption DEF PollFires, DappIInv, DappTypeOK, PollingMatchesSelection
<1>2. CASE TokenDataArrives \/ TokenDataFails
  <2>1. state' \in State /\ state'.selectedAddress = state.selectedAddress
    BY <1>2 DEF TokenDataArrives, TokenDataFails, DappIInv, DappTypeOK, State
  <2>. QED
    BY <1>2, <2>1
      DEF TokenDataArrives, TokenDataFails, DappIInv, DappTypeOK, PollingMatchesSelection
<1>3. ASSUME NEW a \in Accounts, BalanceArrives(a) \/ QueryFails(a) PROVE DappIInv'
  <2>1. state' \in State /\ state'.selectedAddress = state.selectedAddress
    BY <1>3 DEF BalanceArrives, QueryFails, DappIInv, DappTypeOK, State, Maybe
  <2>2. queries' \in [Accounts -> 0..MaxQueries]
    BY <1>3, DappAssumption
      DEF BalanceArrives, QueryFails, Answered, DappIInv, DappTypeOK
  <2>. QED
    BY <1>3, <2>1, <2>2
      DEF BalanceArrives, QueryFails, Answered, DappIInv, DappTypeOK, PollingMatchesSelection
<1>. QED BY <1>1, <1>2, <1>3

\* A step of a transfer leaves the account selected and the poll alone.
LEMMA TransferStepKeeps ==
  ASSUME DappIInv,
         \/ Dismiss
         \/ \E t \in Transfers : \/ Transfer(t) \/ HashArrives(t) \/ TransferMined(t)
                                 \/ Updated(t) \/ TransferFails(t)
  PROVE  DappIInv'
<1>1. CASE Dismiss
  <2>1. state' \in State /\ state'.selectedAddress = state.selectedAddress
    BY <1>1 DEF Dismiss, DappIInv, DappTypeOK, State
  <2>. QED
    BY <1>1, <2>1 DEF Dismiss, OnlyTransfers, DappIInv, DappTypeOK, PollingMatchesSelection
<1>2. ASSUME NEW t \in Transfers,
             \/ Transfer(t) \/ HashArrives(t) \/ TransferMined(t)
             \/ Updated(t) \/ TransferFails(t)
      PROVE  DappIInv'
  <2>1. state \in State /\ transfers \in [Transfers -> TransferState]
    BY DEF DappIInv, DappTypeOK
  <2>2. PICK step \in {"idle", "sent", "mined", "updated"}, of \in Maybe(Accounts) :
          TransferGoes(t, step, of)
    BY <1>2, <2>1
      DEF Transfer, HashArrives, TransferMined, Updated, TransferFails, ConnectShown,
          State, Maybe
  <2>3. transfers' \in [Transfers -> TransferState]
    BY <2>1, <2>2 DEF TransferGoes, TransferState
  <2>4. transfers[t].of \in Maybe(Accounts)
    BY <2>1 DEF TransferState
  <2>5. state' \in State /\ state'.selectedAddress = state.selectedAddress
    BY <1>2, <2>1, <2>4
      DEF Transfer, HashArrives, TransferMined, Updated, TransferFails, State, Maybe
  <2>6. OnlyTransfers
    BY <1>2 DEF Transfer, HashArrives, TransferMined, Updated, TransferFails
  <2>. QED
    BY <2>3, <2>5, <2>6
      DEF OnlyTransfers, DappIInv, DappTypeOK, PollingMatchesSelection, Maybe
<1>. QED BY <1>1, <1>2

\* The inductive invariant of the page (Dapp.js).
THEOREM DappInvariance == DappSpec => []DappIInv
<1>1. DappIInv /\ [DappNext]_dappVars => DappIInv'
  <2>1. CASE DappIInv /\ DappNext
    BY <2>1, WalletStepKeeps, ReadStepKeeps, TransferStepKeeps DEF DappNext
  <2>2. CASE DappIInv /\ UNCHANGED dappVars
    BY <2>2 DEF dappVars, DappIInv, DappTypeOK, PollingMatchesSelection
  <2>. QED BY <2>1, <2>2
<1>. QED BY <1>1, DappInitially, PTL DEF DappSpec

\* The balance is polled exactly while an account is selected, and no more
\* intervals are lost than connects overlapped.
THEOREM PollingIsKept == DappSpec => []PollingMatchesSelection
BY DappInvariance, PTL DEF DappIInv
-----------------------------------------------------------------------------
(***************************************************************************)
(* The wagmi connectors, for any number of calls at a time.                *)
(***************************************************************************)

\* Nothing is wrapped and nobody has asked.
LEMMA ConnectorInitially == ConnectorInit => ConnectorIInv
<1> SUFFICES ASSUME ConnectorInit PROVE ConnectorIInv
  OBVIOUS
<1>1. Unused \in Use /\ UseOK(Unused)
  BY DEF Unused, Use, UseOK, Raw, Wrapped, Unknown, WalletChains
<1>2. use \in [Uses -> Use] /\ \A u \in Uses : use[u] = Unused
  BY <1>1 DEF ConnectorInit
<1>3. cache \in [Connectors -> {Raw, Wrapped}] /\ CacheOK
  BY DEF ConnectorInit, CacheOK
<1>4. ConnectorTypeOK
  BY DEF ConnectorInit, ConnectorTypeOK
<1>. QED BY <1>1, <1>2, <1>3, <1>4 DEF ConnectorIInv

\* A step that changes one call, to a state of its own that is as it should be,
\* and leaves the cache in order.
LEMMA OneUseChanges ==
  ASSUME ConnectorIInv, NEW u \in Uses, NEW r \in Use,
         Continue(u, r), UseOK(r),
         UNCHANGED <<walletChain, connector>>,
         wrappers' \in [Connectors -> Nat],
         cache' \in [Connectors -> {Raw, Wrapped}], CacheOK'
  PROVE  ConnectorIInv'
<1>1. use' \in [Uses -> Use] /\ \A v \in Uses : use'[v] = IF v = u THEN r ELSE use[v]
  BY DEF Continue, ConnectorIInv
<1>2. \A v \in Uses : UseOK(use'[v])
  BY <1>1 DEF ConnectorIInv
<1>3. \A v \in Uses : UseOK(use[v])'
  BY <1>2 DEF UseOK
<1>. QED BY <1>1, <1>3 DEF ConnectorIInv, ConnectorTypeOK

\* The cached wrapper of a provider that makes no envelope is the one there is.
LEMMA CachedIsWrapped ==
  ASSUME ConnectorIInv, NEW c \in Connectors
  PROVE  CachedWrapper(c, Raw) = Wrapped
BY DEF ConnectorIInv, CacheOK, CachedWrapper, Raw, Wrapped

\* Remembering it leaves the cache in order.
LEMMA RememberKeeps ==
  ASSUME ConnectorIInv, NEW c \in Connectors, Remember(c, Wrapped)
  PROVE  /\ wrappers' \in [Connectors -> Nat]
         /\ cache' \in [Connectors -> {Raw, Wrapped}] /\ CacheOK'
<1>1. wrappers \in [Connectors -> Nat] /\ cache \in [Connectors -> {Raw, Wrapped}] /\ CacheOK
  BY DEF ConnectorIInv, ConnectorTypeOK
<1>2. Raw # Wrapped
  BY DEF Raw, Wrapped
<1>. QED BY <1>1, <1>2 DEF Remember, CacheOK

\* So does leaving it alone.
LEMMA NothingCachedKeeps ==
  ASSUME ConnectorIInv, NothingCached
  PROVE  /\ wrappers' \in [Connectors -> Nat]
         /\ cache' \in [Connectors -> {Raw, Wrapped}] /\ CacheOK'
BY DEF ConnectorIInv, ConnectorTypeOK, NothingCached, CacheOK

\* The end of getProvider, whatever it learnt of the chain.
LEMMA ConcludeKeeps ==
  ASSUME ConnectorIInv, NEW u \in Uses, NEW id \in {walletChain, Unknown},
         use[u].step # "idle",
         Conclude(u, id), UNCHANGED <<walletChain, connector>>
  PROVE  ConnectorIInv'
<1> DEFINE r == [use[u] EXCEPT !.step = "have", !.learnt = id, !.switched = FALSE]
<1>1. use[u] \in Use /\ UseOK(use[u]) /\ walletChain \in WalletChains /\ connector \in Connectors
  BY DEF ConnectorIInv, ConnectorTypeOK
<1>2. r \in Use /\ r.provider = use[u].provider /\ r.step = "have" /\ r.learnt = id
  BY <1>1 DEF Use
<1>3. CASE id \notin SAPPHIRE_CHAIN_IDS \/ isWrappedEthereumProvider(r.provider)
  <2>1. Continue(u, r) /\ NothingCached
    BY <1>3 DEF Conclude
  <2>2. r.provider = Raw => ~isWrappedEthereumProvider(r.provider)
    BY DEF isWrappedEthereumProvider, Raw
  <2>3. UseOK(r)
    BY <1>1, <1>2, <1>3, <2>2 DEF UseOK, SAPPHIRE_CHAIN_IDS
  <2>. QED BY <1>2, <2>1, <2>3, OneUseChanges, NothingCachedKeeps
<1>4. CASE id \in SAPPHIRE_CHAIN_IDS /\ ~isWrappedEthereumProvider(r.provider)
  <2>1. r.provider = Raw
    BY <1>1, <1>2, <1>4 DEF Use, isWrappedEthereumProvider, Wrapped
  <2>2. Continue(u, [r EXCEPT !.provider = Wrapped]) /\ Remember(connector, Wrapped)
    BY <1>1, <1>4, <2>1, CachedIsWrapped DEF Conclude
  <2>3. [r EXCEPT !.provider = Wrapped] \in Use
    <3> HIDE DEF r
    <3>. QED BY <1>2 DEF Use
  <2>4. UseOK([r EXCEPT !.provider = Wrapped])
    <3> HIDE DEF r
    <3>. QED BY <1>2 DEF Use, UseOK, Raw, Wrapped
  <2>. QED BY <1>1, <2>2, <2>3, <2>4, OneUseChanges, RememberKeeps
<1>. QED BY <1>3, <1>4

\* A call that asks for its connector's provider.
LEMMA GetProviderKeeps ==
  ASSUME ConnectorIInv, NEW u \in Uses, GetProvider(u) PROVE ConnectorIInv'
<1>1. UNCHANGED <<walletChain, connector>> /\ connector \in Connectors
  BY DEF GetProvider, ConnectorIInv, ConnectorTypeOK
<1>2. CASE Injected(u)
  <2> DEFINE r == [Unused EXCEPT !.provider = Wrapped,
                    !.step = IF connector = "injected" THEN "have" ELSE "provider"]
  <2>1. CachedWrapper("injected", Raw) = Wrapped
    BY CachedIsWrapped DEF Connectors
  <2>2. Continue(u, r) /\ Remember("injected", Wrapped)
    BY <1>2, <2>1 DEF Injected
  <2>3. r \in Use /\ UseOK(r)
    BY DEF Unused, Use, UseOK, Raw, Wrapped, Unknown
  <2>4. "injected" \in Connectors
    BY DEF Connectors
  <2>. QED BY <1>1, <2>2, <2>3, <2>4, OneUseChanges, RememberKeeps
<1>3. CASE Asked(u)
  <2>1. Continue(u, [Unused EXCEPT !.step = "provider"]) /\ NothingCached
        /\ connector \notin {"injected", "rewrapped"}
    BY <1>3 DEF Asked
  <2>2. [Unused EXCEPT !.step = "provider"] \in Use
        /\ UseOK([Unused EXCEPT !.step = "provider"])
    BY <2>1 DEF Unused, Use, UseOK, Raw, Wrapped, Unknown
  <2>. QED BY <1>1, <2>1, <2>2, OneUseChanges, NothingCachedKeeps
<1>. QED BY <1>2, <1>3 DEF GetProvider

\* The awaits of getProvider, and the use of what it returned.
LEMMA UseGoesOn ==
  ASSUME ConnectorIInv, NEW u \in Uses,
         ProviderArrives(u) \/ ChainIdArrives(u) \/ ChainIdFails(u) \/ Send(u) \/ Return(u)
  PROVE  ConnectorIInv'
<1>1. /\ use[u] \in Use /\ UseOK(use[u]) /\ walletChain \in WalletChains
      /\ UNCHANGED <<walletChain, connector>>
  BY DEF ConnectorIInv, ConnectorTypeOK, ProviderArrives, ChainIdArrives, ChainIdFails,
         Send, Return
<1>2. Unused \in Use /\ UseOK(Unused)
  BY DEF Unused, Use, UseOK, Raw, Wrapped, Unknown
<1>3. CASE ProviderArrives(u)
  <2>1. CASE connector = "walletConnect"
    BY <1>1, <1>3, <2>1, ConcludeKeeps DEF ProviderArrives
  <2>2. CASE connector # "walletConnect"
    <3>1. Continue(u, [use[u] EXCEPT !.step = "chainId"]) /\ NothingCached
          /\ use[u].step = "provider"
      BY <1>3, <2>2 DEF ProviderArrives
    <3>2. [use[u] EXCEPT !.step = "chainId"] \in Use
          /\ UseOK([use[u] EXCEPT !.step = "chainId"])
      BY <1>1, <3>1 DEF Use, UseOK
    <3>. QED BY <1>1, <3>1, <3>2, OneUseChanges, NothingCachedKeeps
  <2>. QED BY <2>1, <2>2
<1>4. CASE ChainIdArrives(u)
  BY <1>1, <1>4, ConcludeKeeps DEF ChainIdArrives
<1>5. CASE ChainIdFails(u)
  <2>1. CASE connector = "wrapped-v2"
    <3>1. Continue(u, Unused) /\ NothingCached
      BY <1>5, <2>1 DEF ChainIdFails
    <3>. QED BY <1>1, <1>2, <3>1, OneUseChanges, NothingCachedKeeps
  <2>2. CASE connector # "wrapped-v2"
    BY <1>1, <1>5, <2>2, ConcludeKeeps DEF ChainIdFails
  <2>. QED BY <2>1, <2>2
<1>6. CASE Send(u)
  <2>1. Continue(u, [use[u] EXCEPT !.step = "sent", !.sent = walletChain]) /\ NothingCached
        /\ use[u].step = "have"
    BY <1>6 DEF Send
  <2>2. [use[u] EXCEPT !.step = "sent", !.sent = walletChain] \in Use
        /\ UseOK([use[u] EXCEPT !.step = "sent", !.sent = walletChain])
    BY <1>1, <2>1 DEF Use, UseOK
  <2>. QED BY <1>1, <2>1, <2>2, OneUseChanges, NothingCachedKeeps
<1>7. CASE Return(u)
  <2>1. Continue(u, Unused) /\ NothingCached
    BY <1>7 DEF Return
  <2>. QED BY <1>1, <1>2, <2>1, OneUseChanges, NothingCachedKeeps
<1>. QED BY <1>3, <1>4, <1>5, <1>6, <1>7

\* The wallet moves: calls that have a provider know less from then on.
LEMMA SwitchKeeps == ASSUME ConnectorIInv, SwitchWallet PROVE ConnectorIInv'
<1>1. /\ walletChain' \in WalletChains /\ connector' = connector /\ NothingCached
      /\ use \in [Uses -> Use] /\ \A u \in Uses : UseOK(use[u])
  BY DEF SwitchWallet, ConnectorIInv
<1>2. use' = [u \in Uses |-> [use[u] EXCEPT !.switched = @ \/ use[u].step = "have"]]
  BY DEF SwitchWallet
<1>3. ASSUME NEW u \in Uses PROVE use'[u] \in Use /\ UseOK(use[u])'
  <2>1. use'[u] = [use[u] EXCEPT !.switched = @ \/ use[u].step = "have"] /\ use[u] \in Use
    BY <1>1, <1>2
  <2>2. /\ use'[u] \in Use
        /\ use'[u].provider = use[u].provider /\ use'[u].step = use[u].step
        /\ use'[u].learnt = use[u].learnt /\ use'[u].sent = use[u].sent
        /\ use[u].step = "have" => use'[u].switched
        /\ use[u].switched => use'[u].switched
    BY <2>1 DEF Use
  <2>. QED BY <1>1, <2>2 DEF UseOK
<1>4. use' \in [Uses -> Use]
  BY <1>2, <1>3
<1>. QED BY <1>1, <1>3, <1>4, NothingCachedKeeps DEF ConnectorIInv, ConnectorTypeOK

\* The inductive invariant of the connectors (wagmi-v2 and wagmi-v3 index.ts).
THEOREM ConnectorInvariance == ConnectorSpec => []ConnectorIInv
<1>1. ConnectorIInv /\ [ConnectorNext]_connectorVars => ConnectorIInv'
  <2>1. CASE ConnectorIInv /\ ConnectorNext
    BY <2>1, GetProviderKeeps, UseGoesOn, SwitchKeeps DEF ConnectorNext
  <2>2. CASE ConnectorIInv /\ UNCHANGED connectorVars
    <3>1. \A u \in Uses : UseOK(use[u])'
      BY <2>2 DEF connectorVars, ConnectorIInv, UseOK
    <3>. QED
      BY <2>2, <3>1 DEF connectorVars, ConnectorIInv, ConnectorTypeOK, CacheOK
  <2>. QED BY <2>1, <2>2
<1>. QED BY <1>1, ConnectorInitially, PTL DEF ConnectorSpec

\* However many calls ask at once, there is one wrapper and one envelope.
THEOREM WrappersAreShared == ConnectorSpec => []OneWrapperPerProvider
<1>1. ConnectorIInv => OneWrapperPerProvider
  BY DEF ConnectorIInv, CacheOK, UseOK, OneWrapperPerProvider, Raw, Wrapped
<1>. QED BY <1>1, ConnectorInvariance, PTL

\* Plain text reaches Sapphire only if the chain id was not learnt or changed.
THEOREM EncryptionIsKept == ConnectorSpec => []EncryptedOnSapphire
<1>1. ConnectorIInv => EncryptedOnSapphire
  BY DEF ConnectorIInv, UseOK, EncryptedOnSapphire, Raw, Wrapped
<1>. QED BY <1>1, ConnectorInvariance, PTL
-----------------------------------------------------------------------------
(***************************************************************************)
(* viem's wallet clients, the wagmi page, and the parts of Frontends.      *)
(***************************************************************************)

\* A step of the serializer is, for the fetcher, one of its steps or the use
\* of a key.
LEMMA SerializerIsKeyStep == [Next]_vars => KeyStep
<1> SUFFICES ASSUME [Next]_vars PROVE KeyStep
  OBVIOUS
<1>1. ASSUME NEW c \in Callers, FirstFetch(c) \/ IntervalFires(c) \/ FetchGoesOn(c)
      PROVE  Fetch(c)
  BY <1>1 DEF FirstFetch, IntervalFires, FetchGoesOn, Fetch
<1>2. ASSUME NEW c \in Callers, FetchDone(c) PROVE Fetch(c)
  BY <1>2 DEF FetchDone, Fetch
<1>3. ASSUME NEW c \in Callers, Created(c) \/ CallbackReturns(c) PROVE KeyUsed(c)
  BY <1>3 DEF Created, CallbackReturns, KeyUsed
<1>4. ASSUME NEW c \in Callers, Failed(c) PROVE FetchFails(c)
  BY <1>4 DEF Failed
<1>. QED BY <1>1, <1>2, <1>3, <1>4 DEF Next, Serialize, vars, Tick, KeyStep

\* A failed fetch leaves the serializer's key until the next firing, a period
\* and its delay later.
LEMMA AgeGrows ==
  ASSUME NEW f \in Nat
  PROVE  /\ AgeWhenDue(f) \in Nat
         /\ AgeWhenDue(f) >= 2 * Timeout + MaxLatency
         /\ AgeWhenDue(f + 1) = AgeWhenDue(f) + Timeout + Jitter
<1> USE KeyFetcherAssumption, SerializerAssumption
<1>1. Timeout \in Nat /\ Jitter \in Nat /\ MaxLatency \in Nat
  OBVIOUS
<1>2. f * Timeout \in Nat /\ f * Jitter \in Nat
  BY <1>1
<1>3. /\ (2 + f) * Timeout = 2 * Timeout + f * Timeout
      /\ (2 + (f + 1)) * Timeout = 3 * Timeout + f * Timeout
      /\ (f + 1) * Jitter = f * Jitter + Jitter
  BY <1>1
<1>. QED BY <1>1, <1>2, <1>3 DEF AgeWhenDue

\* What SerializerIInv says, and the types that arithmetic needs.
LEMMA SerializerFacts ==
  ASSUME SerializerIInv
  PROVE  /\ KeyTypeOK /\ TasksTimely /\ CacheTimely /\ OneFetch
         /\ now \in Nat /\ due \in Nat /\ failures \in Nat
         /\ AgeWhenDue(failures) \in Nat
         /\ AgeWhenDue(failures) >= 2 * Timeout + MaxLatency
         /\ pubkey # NoKey => pubkey.key.issued \in Nat /\ pubkey.fetched \in Nat
         /\ due # 0 => /\ pubkey # NoKey
                       /\ now <= due + Jitter
                       /\ Fetching => due - pubkey.key.issued
                                        <= AgeWhenDue(failures) + Timeout + Jitter
                       /\ ~Fetching => due - pubkey.key.issued <= AgeWhenDue(failures)
BY AgeGrows, CachedKey DEF SerializerIInv, KeyIInv, KeyTypeOK

\* The one task that is under way moves to t.
LEMMA OnlyOneMoves ==
  ASSUME KeyTypeOK, NEW c \in Callers, NEW t, Goto(c, t),
         \A d \in Callers : task[d].step # "idle" => d = c
  PROVE  /\ Fetching' <=> t.step \in {"chainId", "key", "answered"}
         /\ task'[c] = t
         /\ \A d \in Callers : task'[d].step # "idle" => d = c
<1>1. \A d \in Callers : task'[d] = IF d = c THEN t ELSE task[d]
  BY DEF KeyTypeOK, Goto
<1>. QED BY <1>1 DEF Fetching

\* A step before there is a timer, or the one that creates it.
LEMMA CreationKeeps ==
  ASSUME SerializerIInv, KeyIInv', NEW c \in Callers, FirstFetch(c) \/ Created(c)
  PROVE  SerializerIInv'
<1> USE KeyFetcherAssumption, SerializerAssumption
<1>1. CASE FirstFetch(c)
  <2> DEFINE t == [step |-> "chainId", began |-> now]
  <2>1. \A d \in Callers : task[d].step # "idle" => d = c
    BY <1>1 DEF FirstFetch, Idle
  <2>2. Goto(c, t) /\ due' = 0 /\ due = 0 /\ failures' = failures
    BY <1>1 DEF FirstFetch, FetchFresh
  <2>3. task'[c] = t /\ \A d \in Callers : task'[d].step # "idle" => d = c
    BY <2>1, <2>2, OnlyOneMoves, SerializerFacts
  <2>4. OneFetch'
    BY <2>2, <2>3 DEF OneFetch
  <2>. QED BY <2>2, <2>4 DEF SerializerIInv
<1>2. CASE Created(c)
  <2>1. /\ task[c].step = "ready" /\ due = 0 /\ due' = now + Timeout
        /\ Goto(c, Idle) /\ UNCHANGED <<now, pubkey, failures>>
    BY <1>2 DEF Created
  <2>2. \A d \in Callers : task[d].step # "idle" => d = c
    BY <2>1, SerializerFacts DEF OneFetch
  <2>3. ~Fetching' /\ \A d \in Callers : task'[d].step = "idle"
    BY <2>1, <2>2, OnlyOneMoves, SerializerFacts DEF Idle
  <2>4. /\ pubkey # NoKey /\ task[c].began <= pubkey.key.issued
        /\ now <= task[c].began + MaxLatency /\ task[c].began \in Nat
    BY <2>1, SerializerFacts, TaskFields DEF OneFetch, TasksTimely
  <2>5. failures = 0
    BY <2>1 DEF SerializerIInv
  <2>6. /\ due' \in Nat /\ due' # 0 /\ now' <= due' + Jitter
        /\ due' - pubkey'.key.issued <= AgeWhenDue(failures')
    BY <2>1, <2>4, SerializerFacts
  <2>7. OneFetch'
    BY <2>3 DEF OneFetch
  <2>. QED BY <2>1, <2>3, <2>4, <2>6, <2>7, SerializerFacts DEF SerializerIInv
<1>. QED BY <1>1, <1>2

\* When the timer fires, the fetch of the period before is over.
LEMMA NothingUnderWay ==
  ASSUME SerializerIInv, due # 0, now >= due, NEW d \in Callers
  PROVE  task[d].step = "idle"
<1> SUFFICES ASSUME task[d].step # "idle" PROVE FALSE
  OBVIOUS
<1>1. /\ task[d].began = due - Timeout /\ now <= task[d].began + MaxLatency
      /\ task[d].began \in Nat
  BY SerializerFacts, TaskFields DEF OneFetch, TasksTimely
<1>. QED BY <1>1, SerializerFacts, KeyFetcherAssumption, SerializerAssumption

\* The timer fires, with a key that is still good or a fetch that begins.
LEMMA FiringKeeps ==
  ASSUME SerializerIInv, KeyIInv', NEW c \in Callers, IntervalFires(c)
  PROVE  SerializerIInv'
<1> USE KeyFetcherAssumption, SerializerAssumption
<1>1. /\ due # 0 /\ now >= due /\ due' = now + Timeout
      /\ UNCHANGED <<now, pubkey, failures>>
  BY DEF IntervalFires, FetchCached, FetchFresh
<1>2. \A d \in Callers : task[d].step # "idle" => d = c
  BY <1>1, NothingUnderWay
<1>3. ~Fetching
  BY <1>1, NothingUnderWay DEF Fetching
<1>4. due' \in Nat /\ due' # 0 /\ now' <= due' + Jitter
  BY <1>1, SerializerFacts
<1>5. ASSUME NEW t, Goto(c, t), t.began = now PROVE OneFetch'
  <2>1. task'[c] = t /\ \A d \in Callers : task'[d].step # "idle" => d = c
    BY <1>2, <1>5, OnlyOneMoves, SerializerFacts
  <2>. QED BY <1>1, <1>4, <1>5, <2>1, SerializerFacts DEF OneFetch
<1>6. CASE FetchCached(c)
  <2> DEFINE t == [step |-> "ready", began |-> now, key |-> pubkey.key]
  <2>1. Goto(c, t)
    BY <1>6 DEF FetchCached
  <2>2. ~Fetching'
    BY <1>2, <2>1, OnlyOneMoves, SerializerFacts
  <2>3. pubkey.fetched >= now - Timeout /\ pubkey.fetched <= pubkey.key.issued + MaxLatency
    BY <1>6, SerializerFacts DEF FetchCached, Cached, CacheTimely
  <2>4. due' - pubkey'.key.issued <= AgeWhenDue(failures')
    BY <1>1, <2>3, SerializerFacts
  <2>. QED BY <1>1, <1>4, <1>5, <2>1, <2>2, <2>4, SerializerFacts DEF SerializerIInv
<1>7. CASE FetchFresh(c)
  <2> DEFINE t == [step |-> "chainId", began |-> now]
  <2>1. Goto(c, t)
    BY <1>7 DEF FetchFresh
  <2>2. Fetching'
    BY <1>2, <2>1, OnlyOneMoves, SerializerFacts
  <2>3. due' - pubkey'.key.issued <= AgeWhenDue(failures') + Timeout + Jitter
    BY <1>1, <1>3, SerializerFacts
  <2>. QED BY <1>1, <1>4, <1>5, <2>1, <2>2, <2>3, SerializerFacts DEF SerializerIInv
<1>. QED BY <1>6, <1>7 DEF IntervalFires

\* The fetch under way goes on, brings a key, fails, or its callback returns.
LEMMA FetchingKeeps ==
  ASSUME SerializerIInv, KeyIInv', NEW c \in Callers,
         FetchGoesOn(c) \/ FetchDone(c) \/ Failed(c) \/ CallbackReturns(c)
  PROVE  SerializerIInv'
<1> USE KeyFetcherAssumption, SerializerAssumption
<1>1. task[c].step # "idle" /\ task[c].began \in Nat
  BY SerializerFacts, TaskFields
     DEF FetchGoesOn, FetchDone, Failed, CallbackReturns,
         ChainIdAnswered, KeyAnswered, KeyArrives, FetchFails
<1>2. \A d \in Callers : task[d].step # "idle" => d = c
  BY <1>1, SerializerFacts DEF OneFetch
<1>3. CASE FetchGoesOn(c)
  <2> DEFINE t == [step |-> "key", began |-> task[c].began]
             u == [step |-> "answered", began |-> task[c].began,
                   key |-> [chain |-> chain, issued |-> now]]
  <2>1. (Goto(c, t) \/ Goto(c, u)) /\ UNCHANGED <<now, pubkey, due, failures>>
    BY <1>3 DEF FetchGoesOn, ChainIdAnswered, KeyAnswered
  <2>2. Fetching
    BY <1>3 DEF FetchGoesOn, ChainIdAnswered, KeyAnswered, Fetching
  <2>3. /\ Fetching' /\ task'[c].began = task[c].began /\ task'[c].step # "ready"
        /\ \A d \in Callers : task'[d].step # "idle" => d = c
    BY <1>2, <2>1, OnlyOneMoves, SerializerFacts
  <2>4. OneFetch'
    BY <1>1, <2>1, <2>3, SerializerFacts DEF OneFetch
  <2>. QED BY <2>1, <2>2, <2>3, <2>4, SerializerFacts DEF SerializerIInv
<1>4. CASE FetchDone(c)
  <2> DEFINE t == [step |-> "ready", began |-> task[c].began, key |-> task[c].key]
  <2>1. /\ task[c].step = "answered" /\ Goto(c, t)
        /\ pubkey' = [key |-> task[c].key, fetched |-> now]
        /\ UNCHANGED <<now, due>> /\ failures' = 0
    BY <1>4 DEF FetchDone, KeyArrives
  <2>2. /\ ~Fetching' /\ task'[c] = t
        /\ \A d \in Callers : task'[d].step # "idle" => d = c
    BY <1>2, <2>1, OnlyOneMoves, SerializerFacts
  <2>3. task[c].key \in Key /\ task[c].key.issued \in Nat /\ now \in Nat
    BY <2>1, TaskFields, SerializerFacts
  <2>4. pubkey' # NoKey
    BY <2>1, <2>3 DEF Key
  <2>5. pubkey'.key.issued = task[c].key.issued /\ task[c].began <= task[c].key.issued
    BY <2>1, SerializerFacts DEF TasksTimely
  <2>6. due # 0 => task[c].began = due - Timeout
    BY <1>1, SerializerFacts DEF OneFetch
  <2>7. OneFetch'
    BY <2>1, <2>2, <2>4, <2>5, <2>6 DEF OneFetch
  <2>8. AgeWhenDue(0) >= 2 * Timeout + MaxLatency /\ AgeWhenDue(0) \in Nat
    BY AgeGrows
  <2>9. due # 0 => due - pubkey'.key.issued <= AgeWhenDue(failures')
    BY <1>1, <2>1, <2>3, <2>5, <2>6, <2>8, SerializerFacts
  <2>. QED BY <2>1, <2>2, <2>4, <2>7, <2>9, SerializerFacts DEF SerializerIInv
<1>5. CASE Failed(c)
  <2>1. /\ Goto(c, Idle) /\ UNCHANGED <<now, pubkey, due>>
        /\ failures' = IF due = 0 THEN failures ELSE failures + 1
    BY <1>5 DEF Failed, FetchFails
  <2>2. Fetching
    BY <1>5 DEF Failed, FetchFails, Fetching
  <2>3. ~Fetching' /\ \A d \in Callers : task'[d].step = "idle"
    BY <1>2, <2>1, OnlyOneMoves, SerializerFacts DEF Idle
  <2>4. OneFetch'
    BY <2>3 DEF OneFetch
  <2>5. due # 0 => due - pubkey.key.issued <= AgeWhenDue(failures + 1)
    BY <2>2, AgeGrows, SerializerFacts
  <2>. QED BY <2>1, <2>3, <2>4, <2>5, SerializerFacts DEF SerializerIInv
<1>6. CASE CallbackReturns(c)
  <2>1. /\ task[c].step = "ready" /\ Goto(c, Idle)
        /\ UNCHANGED <<now, pubkey, due, failures>>
    BY <1>6 DEF CallbackReturns
  <2>2. ~Fetching
    BY <1>2, <2>1 DEF Fetching
  <2>3. ~Fetching' /\ \A d \in Callers : task'[d].step = "idle"
    BY <1>2, <2>1, OnlyOneMoves, SerializerFacts DEF Idle
  <2>4. OneFetch'
    BY <2>3 DEF OneFetch
  <2>. QED BY <2>1, <2>2, <2>3, <2>4, SerializerFacts DEF SerializerIInv
<1>. QED BY <1>3, <1>4, <1>5, <1>6

\* The inductive invariant of the serializer (viem-v2 index.ts:141-179).
THEOREM SerializerInvariance == Spec => []SerializerIInv
<1>1. Init => SerializerIInv
  BY KeyInitIInv DEF Init, KeyInit, SerializerIInv, OneFetch, Idle
<1>2. SerializerIInv /\ [Next]_vars => SerializerIInv'
  <2> SUFFICES ASSUME SerializerIInv, [Next]_vars PROVE SerializerIInv'
    OBVIOUS
  <2>1. KeyIInv'
    BY SerializerIsKeyStep, KeyStepKeepsIInv DEF SerializerIInv
  <2>2. CASE Tick
    <3>1. /\ now' = now + 1 /\ UNCHANGED <<pubkey, task, due, failures>>
          /\ due # 0 => now < due + Jitter
      BY <2>2 DEF Tick, ClockTick
    <3>2. due # 0 => now' <= due + Jitter
      BY <3>1, SerializerFacts, SerializerAssumption
    <3>. QED BY <2>1, <3>1, <3>2, SerializerFacts DEF SerializerIInv, OneFetch, Fetching
  <2>3. CASE Serialize \/ UNCHANGED vars
    <3>1. UNCHANGED <<now, pubkey, task, due, failures>>
      BY <2>3 DEF Serialize, vars, keyVars
    <3>. QED BY <2>1, <3>1, SerializerFacts DEF SerializerIInv, OneFetch, Fetching
  <2>. QED BY <2>1, <2>2, <2>3, CreationKeeps, FiringKeeps, FetchingKeeps DEF Next
<1>. QED BY <1>1, <1>2, PTL DEF Spec

\* However the fetches end, the serializer has a key, of the stated age.
THEOREM SerializerKeysAge == Spec => []SerializerKeyAge
<1>1. SerializerIInv => SerializerKeyAge
  <2> SUFFICES ASSUME SerializerIInv, due # 0
               PROVE  /\ pubkey # NoKey
                      /\ now - pubkey.key.issued
                           <= (2 + failures) * Timeout + (1 + failures) * Jitter
                                + 2 * MaxLatency
    BY DEF SerializerKeyAge, KeyRetrieved, SerializerKey
  <2> USE KeyFetcherAssumption, SerializerAssumption
  <2>1. now - pubkey.key.issued <= AgeWhenDue(failures) + Jitter + MaxLatency
    <3>1. CASE Fetching
      <4>1. PICK c \in Callers : task[c].step # "idle"
        BY <3>1 DEF Fetching
      <4>2. now <= due - Timeout + MaxLatency
        BY <4>1, SerializerFacts DEF OneFetch, TasksTimely
      <4>. QED BY <3>1, <4>2, SerializerFacts
    <3>2. CASE ~Fetching
      BY <3>2, SerializerFacts
    <3>. QED BY <3>1, <3>2
  <2>2. Jitter \in Nat /\ failures \in Nat /\ failures * Jitter \in Nat
    BY SerializerFacts
  <2>3. (1 + failures) * Jitter = failures * Jitter + Jitter
    BY <2>2
  <2>4. /\ Timeout \in Nat /\ (2 + failures) * Timeout \in Nat
    BY SerializerFacts
  <2>. QED BY <2>1, <2>2, <2>3, <2>4, SerializerFacts DEF AgeWhenDue
<1>. QED BY <1>1, SerializerInvariance, PTL

\* Appending no envelope leaves the data as it is; appending to nothing gives
\* as many envelopes as there are serializers.
LEMMA SerializedData ==
  ASSUME serializer \in {0, 1}
  PROVE  /\ \A data \in Seq(Keys) : \A d \in Serialized(data, TRUE) : d = data
         /\ \A d \in Serialized(<<>>, FALSE) : d \in Seq(Keys) /\ Len(d) = serializer
<1>1. ASSUME NEW data \in Seq(Keys), NEW d \in Serialized(data, TRUE) PROVE d = data
  <2>1. PICK k \in Keys : d = data \o [i \in 1..0 |-> k]
    BY <1>1 DEF Serialized
  <2>2. [i \in 1..0 |-> k] = <<>>
    OBVIOUS
  <2>. QED BY <2>1, <2>2
<1>2. ASSUME NEW d \in Serialized(<<>>, FALSE) PROVE d \in Seq(Keys) /\ Len(d) = serializer
  <2>1. PICK k \in Keys : d = <<>> \o [i \in 1..serializer |-> k]
    BY <1>2 DEF Serialized
  <2>2. /\ [i \in 1..serializer |-> k] \in Seq(Keys)
        /\ Len([i \in 1..serializer |-> k]) = serializer
    OBVIOUS
  <2>. QED BY <2>1, <2>2
<1>. QED BY <1>1, <1>2

\* A step of one client, to a state of its own that is as it should be.
LEMMA OneClientChanges ==
  ASSUME ViemIInv, NEW c \in Clients, NEW r \in Client, Becomes(c, r),
         serializer' \in {serializer, 1}, ClientOK(r, serializer')
  PROVE  ViemIInv'
<1>1. serializer' \in {0, 1} /\ client' \in [Clients -> Client]
  BY DEF ViemIInv, Becomes
<1>2. ASSUME NEW d \in Clients PROVE ClientOK(client'[d], serializer')
  <2>1. client'[d] = IF d = c THEN r ELSE client[d]
    BY DEF ViemIInv, Becomes
  <2>2. ClientOK(client[d], serializer)
    BY DEF ViemIInv
  <2>. QED BY <2>1, <2>2 DEF ClientOK
<1>. QED BY <1>1, <1>2 DEF ViemIInv

\* What each operation of a client leaves it in.
LEMMA ClientStep ==
  ASSUME ViemIInv, NEW c \in Clients,
         \/ Wrap(c) \/ KeyFetched(c) \/ KeyFetchFails(c)
         \/ Sign(c) \/ SendSigned(c) \/ Sent(c)
  PROVE  ViemIInv'
<1>1. client[c] \in Client /\ ClientOK(client[c], serializer) /\ serializer \in {0, 1}
  BY DEF ViemIInv
<1>2. CASE Wrap(c)
  <2>1. CASE SapphireWrapped(serializer)
    <3> DEFINE r == [client[c] EXCEPT !.wrapped = TRUE]
    <3>1. r \in Client /\ r.step = "idle" /\ r.wrapped
      BY <1>1, <1>2 DEF Client, Wrap
    <3>2. serializer = 1
      BY <1>1, <2>1 DEF SapphireWrapped
    <3>3. ClientOK(r, serializer)
      BY <3>1, <3>2 DEF ClientOK
    <3>. QED BY <1>2, <2>1, <3>1, <3>3, OneClientChanges DEF Wrap
  <2>2. CASE ~SapphireWrapped(serializer)
    <3> DEFINE r == [client[c] EXCEPT !.step = "fetching", !.original = serializer]
    <3>1. serializer = 0 /\ ~client[c].wrapped
      BY <1>1, <2>2 DEF SapphireWrapped, ClientOK
    <3>2. r \in Client /\ r.step = "fetching" /\ r.wrapped = client[c].wrapped
      BY <1>1, <3>1 DEF Client
    <3>3. ClientOK(r, serializer)
      BY <3>1, <3>2 DEF ClientOK
    <3>. QED BY <1>2, <2>2, <3>2, <3>3, OneClientChanges DEF Wrap
  <2>. QED BY <2>1, <2>2
<1>3. CASE KeyFetched(c)
  <2> DEFINE r == [client[c] EXCEPT !.step = "idle", !.wrapped = TRUE]
  <2>1. serializer' = 1
    BY <1>1, <1>3 DEF KeyFetched, createSapphireSerializer, SapphireWrapped, Client
  <2>2. r \in Client /\ ClientOK(r, serializer')
    BY <1>1, <2>1 DEF Client, ClientOK
  <2>. QED BY <1>3, <2>1, <2>2, OneClientChanges DEF KeyFetched
<1>4. CASE KeyFetchFails(c)
  <2> DEFINE r == [client[c] EXCEPT !.step = "idle"]
  <2>1. r \in Client /\ ClientOK(r, serializer)
    BY <1>1 DEF Client, ClientOK
  <2>. QED BY <1>4, <2>1, OneClientChanges DEF KeyFetchFails
<1>5. CASE Sign(c)
  <2>1. PICK d \in Serialized(<<>>, FALSE) :
          Becomes(c, [client[c] EXCEPT !.step = "signing", !.data = d,
                        !.signed = d, !.since = client[c].wrapped])
    BY <1>5 DEF Sign
  <2> DEFINE r == [client[c] EXCEPT !.step = "signing", !.data = d,
                      !.signed = d, !.since = client[c].wrapped]
  <2>2. d \in Seq(Keys) /\ Len(d) = serializer
    BY <1>1, SerializedData
  <2>3. r \in Client
    BY <1>1, <2>2 DEF Client
  <2>4. /\ r.wrapped = client[c].wrapped /\ r.since = client[c].wrapped
        /\ r.data = d /\ r.signed = d
    BY <1>1 DEF Client
  <2>5. ClientOK(r, serializer)
    BY <1>1, <2>2, <2>4 DEF ClientOK
  <2>. QED BY <1>5, <2>1, <2>3, <2>5, OneClientChanges DEF Sign
<1>6. CASE SendSigned(c)
  <2>1. PICK d \in Serialized(client[c].data, TRUE) :
          Becomes(c, [client[c] EXCEPT !.step = "sent", !.data = d])
    BY <1>6 DEF SendSigned
  <2> DEFINE r == [client[c] EXCEPT !.step = "sent", !.data = d]
  <2>2. client[c].data \in Seq(Keys) /\ d = client[c].data
    BY <1>1, SerializedData DEF Client
  <2>3. r \in Client
    BY <1>1, <2>2 DEF Client
  <2>4. /\ r.wrapped = client[c].wrapped /\ r.since = client[c].since
        /\ r.data = client[c].data /\ r.signed = client[c].signed
    BY <1>1, <2>2 DEF Client
  <2>5. ClientOK(r, serializer)
    BY <1>1, <1>6, <2>4 DEF ClientOK, SendSigned
  <2>. QED BY <1>6, <2>1, <2>3, <2>5, OneClientChanges DEF SendSigned
<1>7. CASE Sent(c)
  <2> DEFINE r == [client[c] EXCEPT !.step = "idle", !.data = <<>>, !.signed = <<>>]
  <2>. <<>> \in Seq(Keys)
    OBVIOUS
  <2>1. r \in Client /\ r.step = "idle" /\ r.wrapped = client[c].wrapped
    BY <1>1 DEF Client
  <2>2. ClientOK(r, serializer)
    BY <1>1, <2>1 DEF ClientOK
  <2>. QED BY <1>7, <2>1, <2>2, OneClientChanges DEF Sent
<1>. QED BY <1>2, <1>3, <1>4, <1>5, <1>6, <1>7

\* The inductive invariant of the wallet clients (viem-v2 index.ts:126-219).
THEOREM ViemInvariance == ViemSpec => []ViemIInv
<1>1. ViemInit => ViemIInv
  <2>1. NewClient \in Client /\ ClientOK(NewClient, 0)
    BY DEF NewClient, Client, ClientOK
  <2>. QED BY <2>1 DEF ViemInit, ViemIInv
<1>2. ViemIInv /\ [ViemNext]_viemVars => ViemIInv'
  <2>1. CASE ViemIInv /\ ViemNext
    BY <2>1, ClientStep DEF ViemNext
  <2>2. CASE ViemIInv /\ UNCHANGED viemVars
    BY <2>2 DEF viemVars, ViemIInv
  <2>. QED BY <2>1, <2>2
<1>. QED BY <1>1, <1>2, PTL DEF ViemSpec

\* What a client sends is what it signed, in one envelope once it is wrapped.
THEOREM ClientsSendWhatTheySign == ViemSpec => []SentAsSigned
<1>1. ViemIInv => SentAsSigned
  BY DEF ViemIInv, ClientOK, SentAsSigned
<1>. QED BY <1>1, ViemInvariance, PTL

\* A section or a write that is not there has nothing but its place.
LEMMA NothingThere ==
  /\ NoContract \in Stored /\ Contracts \subseteq Stored
  /\ NoDeploy \in [address: Stored, step: {"none", "pending", "sent", "mined", "failed"}]
  /\ NoWrite \in Write /\ NoWrite.step = "none"
  /\ NoRead \in [result: Stored, calls: SUBSET Contracts]
BY DEF Stored, NoDeploy, NoWrite, NoRead, Write

\* The effect of WriteSection leaves no transaction to another contract.
LEMMA SettledIsOfContract ==
  ASSUME NEW c \in Stored, NEW w \in Write, w.step # "none" => w.to = w.address
  PROVE  /\ Settled(c, w) \in Write
         /\ Settled(c, w).step # "none" => Settled(c, w).to = Settled(c, w).address
         /\ HasHash(Settled(c, w)) => Settled(c, w).address = c
BY NothingThere DEF Settled, HasHash

\* What is shown changes, and with it the sections.
LEMMA ShowKeeps ==
  ASSUME WriteIInv, NEW c \in Stored, Show(c), storageEvent' \in BOOLEAN,
         UNCHANGED <<stored, connected, deploy>>
  PROVE  WriteIInv'
<1>1. /\ shown' = c
      /\ write' \in {NoWrite, Settled(c, write)}
      /\ read' \in {NoRead, read}
  BY DEF Show
<1>2. /\ write' \in Write
      /\ write'.step # "none" => write'.to = write'.address
      /\ HasHash(write') => write'.address = c
  BY <1>1, NothingThere, SettledIsOfContract DEF WriteIInv, AppTypeOK, HasHash
<1>3. AppTypeOK'
  BY <1>1, <1>2, NothingThere DEF WriteIInv, AppTypeOK
<1>. QED BY <1>1, <1>2, <1>3 DEF WriteIInv, HasHash

\* A write becomes w, unless it is to another contract.
LEMMA WriteKeeps ==
  ASSUME WriteIInv, NEW w \in Write, WriteGoes(w), w.step # "none" => w.to = w.address
  PROVE  WriteIInv'
<1>1. write' = Settled(shown, w) /\ UNCHANGED <<stored, storageEvent, shown, connected,
                                                deploy, read>>
  BY DEF WriteGoes
<1>2. shown \in Stored
  BY DEF WriteIInv, AppTypeOK
<1>3. /\ write' \in Write
      /\ write'.step # "none" => write'.to = write'.address
      /\ HasHash(write') => write'.address = shown
  BY <1>1, <1>2, SettledIsOfContract
<1>4. AppTypeOK'
  BY <1>1, <1>3 DEF WriteIInv, AppTypeOK
<1>. QED BY <1>1, <1>3, <1>4 DEF WriteIInv, HasHash

\* Whatever else happens leaves the write and the contract in use alone.
LEMMA OthersKeep ==
  ASSUME WriteIInv, UNCHANGED <<write, shown>>, AppTypeOK' PROVE WriteIInv'
BY DEF WriteIInv, HasHash

\* A deployment becomes d.
LEMMA DeployKeeps ==
  ASSUME WriteIInv, NEW d \in [address: Stored,
                               step: {"none", "pending", "sent", "mined", "failed"}],
         DeployGoes(d)
  PROVE  WriteIInv'
<1>1. AppTypeOK' /\ UNCHANGED <<write, shown>>
  BY DEF DeployGoes, Store, WriteIInv, AppTypeOK
<1>. QED BY <1>1, OthersKeep

\* The steps of DeploySection.
LEMMA DeploySectionKeeps ==
  ASSUME WriteIInv,
         \/ handleDeploy \/ DeploySent \/ DeployFails
         \/ \E c \in Contracts : DeployReceipt(c)
  PROVE  WriteIInv'
<1> DEFINE Deploy == [address: Stored, step: {"none", "pending", "sent", "mined", "failed"}]
<1>1. deploy \in Deploy
  BY DEF WriteIInv, AppTypeOK
<1>2. \A s \in {"pending", "sent", "failed"} : [deploy EXCEPT !.step = s] \in Deploy
  BY <1>1
<1>3. \A c \in Contracts : [address |-> c, step |-> "mined"] \in Deploy
  BY NothingThere
<1>4. CASE handleDeploy
  BY <1>2, <1>4, DeployKeeps DEF handleDeploy
<1>5. CASE DeploySent
  BY <1>2, <1>5, DeployKeeps DEF DeploySent
<1>6. CASE DeployFails
  BY <1>2, <1>6, DeployKeeps DEF DeployFails
<1>7. CASE \E c \in Contracts : DeployReceipt(c)
  BY <1>3, <1>7, DeployKeeps DEF DeployReceipt
<1>. QED BY <1>4, <1>5, <1>6, <1>7

\* The steps of WriteSection.
LEMMA WriteSectionKeeps ==
  ASSUME WriteIInv, handleWrite \/ WriteGoesOn \/ WriteRejected PROVE WriteIInv'
<1>1. write \in Write /\ shown \in Stored /\ (write.step # "none" => write.to = write.address)
  BY DEF WriteIInv, AppTypeOK
<1>2. CASE handleWrite
  <2> DEFINE w == [address |-> shown, step |-> "pending", to |-> shown]
  <2>1. w \in Write /\ w.to = w.address /\ WriteGoes(w)
    BY <1>1, <1>2 DEF handleWrite, Write
  <2>. QED BY <2>1, WriteKeeps
<1>3. ASSUME NEW s \in {"sent", "mined", "found"}, write.step # "none",
             WriteGoes([write EXCEPT !.step = s])
      PROVE  WriteIInv'
  <2> DEFINE w == [write EXCEPT !.step = s]
  <2>1. w \in Write /\ w.to = write.to /\ w.address = write.address
    BY <1>1 DEF Write
  <2>. QED BY <1>1, <1>3, <2>1, WriteKeeps
<1>4. CASE WriteGoesOn
  BY <1>3, <1>4 DEF WriteGoesOn
<1>5. CASE WriteRejected
  <2> DEFINE w == [write EXCEPT !.step = "none", !.to = NoContract]
  <2>1. w \in Write /\ w.step = "none"
    BY <1>1, NothingThere DEF Write
  <2>. QED BY <1>5, <2>1, WriteKeeps DEF WriteRejected
<1>. QED BY <1>2, <1>4, <1>5

\* The inductive invariant of the page (App.tsx:126-378).
THEOREM WriteInvariance == AppSpec => []WriteIInv
<1>1. AppInit => WriteIInv
  BY NothingThere DEF AppInit, WriteIInv, AppTypeOK, HasHash, NoWrite
<1>2. WriteIInv /\ [AppNext]_appVars => WriteIInv'
  <2> SUFFICES ASSUME WriteIInv, [AppNext]_appVars PROVE WriteIInv'
    OBVIOUS
  <2>1. stored \in Stored /\ AppTypeOK
    BY DEF WriteIInv, AppTypeOK
  <2>2. CASE Poll \/ handleStorageChange
    <3>1. /\ Show(stored) /\ UNCHANGED <<stored, connected, deploy>>
          /\ storageEvent' \in BOOLEAN
      BY <2>1, <2>2 DEF Poll, handleStorageChange, AppTypeOK
    <3>. QED BY <2>1, <3>1, ShowKeeps
  <2>3. CASE Connect \/ Disconnect
    <3>1. [NoDeploy EXCEPT !.address = stored] \in
            [address: Stored, step: {"none", "pending", "sent", "mined", "failed"}]
      BY <2>1, NothingThere
    <3>2. AppTypeOK' /\ UNCHANGED <<write, shown>>
      BY <2>1, <2>3, <3>1, NothingThere DEF Connect, Disconnect, AppTypeOK
    <3>. QED BY <3>2, OthersKeep
  <2>4. CASE \/ handleDeploy \/ DeploySent \/ DeployFails
             \/ \E c \in Contracts : DeployReceipt(c)
    BY <2>4, DeploySectionKeeps
  <2>5. CASE handleWrite \/ WriteGoesOn \/ WriteRejected
    BY <2>5, WriteSectionKeeps
  <2>6. CASE handleRead \/ \E c \in Contracts : ReadArrives(c)
    <3>1. UNCHANGED <<stored, storageEvent, shown, connected, deploy, write>>
      BY <2>6 DEF handleRead, ReadArrives
    <3>2. read' \in [result: Stored, calls: SUBSET Contracts]
      BY <2>1, <2>6, NothingThere DEF handleRead, ReadArrives, AppTypeOK, Stored
    <3>3. AppTypeOK'
      BY <2>1, <3>1, <3>2 DEF AppTypeOK
    <3>. QED BY <3>1, <3>3, OthersKeep
  <2>7. CASE \E c \in Stored : OtherTab(c)
    <3>1. AppTypeOK' /\ UNCHANGED <<write, shown>>
      BY <2>1, <2>7 DEF OtherTab, AppTypeOK
    <3>. QED BY <3>1, OthersKeep
  <2>8. CASE UNCHANGED appVars
    <3>1. AppTypeOK' /\ UNCHANGED <<write, shown>>
      BY <2>1, <2>8 DEF appVars, AppTypeOK
    <3>. QED BY <3>1, OthersKeep
  <2>. QED BY <2>2, <2>3, <2>4, <2>5, <2>6, <2>7, <2>8 DEF AppNext
<1>. QED BY <1>1, <1>2, PTL DEF AppSpec

\* A transaction is shown only under the contract it was sent to.
THEOREM ShownWritesBelong == AppSpec => []ShownWriteIsOfShownContract
<1>1. WriteIInv => ShownWriteIsOfShownContract
  BY DEF WriteIInv, ShownWriteIsOfShownContract, HasHash
<1>. QED BY <1>1, WriteInvariance, PTL

\* A behaviour of the frontends is a behaviour of every part, which runs or
\* stutters.
THEOREM FrontendsRunTheirParts ==
  FrontSpec => Spec /\ ViemSpec /\ ConnectorSpec /\ DappSpec /\ AppSpec
<1>1. FrontInit => Init /\ ViemInit /\ ConnectorInit /\ DappInit /\ AppInit
  BY DEF FrontInit
<1>2. [FrontNext]_frontVars =>
        /\ [Next]_vars /\ [ViemNext]_viemVars /\ [ConnectorNext]_connectorVars
        /\ [DappNext]_dappVars /\ [AppNext]_appVars
  BY DEF FrontNext, SerializerRuns, ClientRuns, ConnectorsRun, DappRuns, AppRuns, frontVars
<1>. QED
  BY <1>1, <1>2, PTL DEF FrontSpec, Spec, ViemSpec, ConnectorSpec, DappSpec, AppSpec
=============================================================================
