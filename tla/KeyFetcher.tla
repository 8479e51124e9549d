----------------------------- MODULE KeyFetcher -----------------------------
(***************************************************************************)
(* KeyFetcher (clients/js/src/calldatapublickey.ts): the cached calldata   *)
(* public key and the asynchronous calls that fill it.  Every caller runs  *)
(* fetch(): it either returns the cached key or awaits two requests,       *)
(* eth_chainId and then the key query, between which other callers run,    *)
(* time passes, and the wallet may switch to another chain.                *)
(*                                                                         *)
(* A key is identified by the chain that issued it and the time at which   *)
(* the node read it; its epoch is a function of that time.  The chainId    *)
(* stored beside the key is left out: no code reads it.                    *)
(***************************************************************************)
EXTENDS Integers

CONSTANTS Callers,      \* concurrent callers of fetch
          Chains,       \* chains the provider can be connected to
          NoKey,        \* pubkey is undefined
          Timeout,      \* timeoutMilliseconds
          MaxLatency,   \* external: longest a caller takes from fetch to its use
          MaxTime       \* bound: the clock

Key == [chain : Chains, issued : Nat]
CallDataPublicKey == [key : Key, fetched : Nat]

ASSUME KeyFetcherAssumption ==
  /\ NoKey \notin [key : [chain : Chains, issued : Nat], fetched : Nat]
  /\ Timeout \in Nat
  /\ MaxLatency \in Nat
  /\ MaxTime \in Nat

VARIABLES now,        \* Date.now()
          chain,      \* the chain the provider is connected to
          switched,   \* when it was last switched (history)
          pubkey,     \* KeyFetcher.pubkey
          task        \* what each caller is doing

keyVars == <<now, chain, switched, pubkey, task>>

\* step: the await the caller is at; began: when it called fetch; key: the
\* answer on its way back, or the key fetch returned.
Task == [step : {"idle"}]
          \cup [step : {"chainId", "key"}, began : Nat]
          \cup [step : {"answered", "ready"}, began : Nat, key : Key]

Idle == [step |-> "idle"]
Goto(c, t) == task' = [task EXCEPT ![c] = t]

KeyInit == /\ now = 0
           /\ chain \in Chains
           /\ switched = 0
           /\ pubkey = NoKey
           /\ task = [c \in Callers |-> Idle]

-----------------------------------------------------------------------------
\* Mutant: the cached key never expires.
CachedForEver == pubkey # NoKey

\* fetch: "use cached key if possible".
Cached == pubkey # NoKey /\ pubkey.fetched >= now - Timeout

FetchCached(c) ==
  /\ task[c].step = "idle"
  /\ Cached
  /\ Goto(c, [step |-> "ready", began |-> now, key |-> pubkey.key])
  /\ UNCHANGED <<now, chain, switched, pubkey>>

FetchFresh(c) ==
  /\ task[c].step = "idle"
  /\ ~ Cached
  /\ Goto(c, [step |-> "chainId", began |-> now])
  /\ UNCHANGED <<now, chain, switched, pubkey>>

ChainIdAnswered(c) ==
  /\ task[c].step = "chainId"
  /\ Goto(c, [step |-> "key", began |-> task[c].began])
  /\ UNCHANGED <<now, chain, switched, pubkey>>

\* Mutant: the key is queried at a past block, not at 'latest'.
KeyAnsweredOldBlock(c) ==
  /\ task[c].step = "key"
  /\ \E block \in 0..now :
       Goto(c, [step |-> "answered", began |-> task[c].began,
                key |-> [chain |-> chain, issued |-> block]])
  /\ UNCHANGED <<now, chain, switched, pubkey>>

\* The node reads its current key; the answer is on its way back.
KeyAnswered(c) ==
  /\ task[c].step = "key"
  /\ Goto(c, [step |-> "answered", began |-> task[c].began,
              key |-> [chain |-> chain, issued |-> now]])
  /\ UNCHANGED <<now, chain, switched, pubkey>>

\* fetchRuntimePublicKey returns, stamped with the time of arrival, and
\* overwrites whatever another caller cached meanwhile.
KeyArrives(c) ==
  /\ task[c].step = "answered"
  /\ pubkey' = [key |-> task[c].key, fetched |-> now]
  /\ Goto(c, [step |-> "ready", began |-> task[c].began, key |-> task[c].key])
  /\ UNCHANGED <<now, chain, switched>>

\* A request fails, or the answer is '0x', an error status or malformed.
FetchFails(c) ==
  /\ task[c].step \in {"chainId", "key", "answered"}
  /\ Goto(c, Idle)
  /\ UNCHANGED <<now, chain, switched, pubkey>>

Fetch(c) == \/ FetchCached(c) \/ FetchFresh(c)
            \/ ChainIdAnswered(c) \/ KeyAnswered(c) \/ KeyArrives(c)

SwitchChain == /\ chain' \in Chains \ {chain}
               /\ switched' = now
               /\ UNCHANGED <<now, pubkey, task>>

\* No caller is kept waiting longer than MaxLatency.
ClockTick == /\ now < MaxTime
             /\ \A c \in Callers :
                  task[c].step # "idle" => now < task[c].began + MaxLatency
             /\ now' = now + 1
             /\ UNCHANGED <<chain, switched, pubkey, task>>
-----------------------------------------------------------------------------
KeyTypeOK ==
  /\ now \in Nat
  /\ chain \in Chains
  /\ switched \in 0..now
  /\ pubkey \in CallDataPublicKey \cup {NoKey}
  /\ task \in [Callers -> Task]

\* The oldest a key can be when it is used: cached for Timeout, on top of the
\* fetch that brought it and of the use it is put to.
MaxAge == Timeout + 2 * MaxLatency

\* A caller never holds a key its node read more than MaxAge ago, whatever the
\* callers' interleaving, although the cache is stamped on arrival and checked
\* before the awaits that precede the use (calldatapublickey.ts:136, 162-170).
KeyAge == \A c \in Callers :
            task[c].step = "ready" => now - task[c].key.issued <= MaxAge

\* "if provider switch chain, may return cached key for wrong chain": it can,
\* but only within MaxAge of the switch (calldatapublickey.ts:166).
WrongChainIsTransient ==
  \A c \in Callers :
    task[c].step = "ready" /\ task[c].key.chain # chain => now - switched <= MaxAge

\* A slow answer may put back a key older than the cached one, but never by
\* more than the time one fetch takes: no caller's key can be lost to an
\* arbitrarily late overwrite (calldatapublickey.ts:170).
RegressBounded ==
  [][pubkey # NoKey => pubkey'.key.issued >= pubkey.key.issued - MaxLatency]_pubkey

\* What the above rest on.  A key foreign to the current chain was read
\* before the last switch; a fetch has lasted MaxLatency at most; what the
\* cache holds was read and stamped within one fetch.
Foreign(k) == k.chain # chain => k.issued <= switched

TasksTimely ==
  \A c \in Callers :
    /\ task[c].step # "idle" => task[c].began <= now /\ now <= task[c].began + MaxLatency
    /\ task[c].step = "answered" => task[c].began <= task[c].key.issued
    /\ task[c].step = "ready" => task[c].began <= task[c].key.issued + Timeout + MaxLatency
    /\ task[c].step \in {"answered", "ready"} =>
         task[c].key.issued <= now /\ Foreign(task[c].key)

CacheTimely ==
  pubkey # NoKey => /\ pubkey.key.issued <= pubkey.fetched
                    /\ pubkey.fetched <= pubkey.key.issued + MaxLatency
                    /\ pubkey.fetched <= now
                    /\ Foreign(pubkey.key)

KeyIInv == KeyTypeOK /\ TasksTimely /\ CacheTimely
=============================================================================
