--------------------------- MODULE ViemSerializer ---------------------------
(***************************************************************************)
(* createSapphireSerializer (integrations/viem-v2/src/index.ts): viem's    *)
(* serializer is synchronous and cannot wait for a key, so an interval     *)
(* timer fetches one in the background every timeoutMilliseconds and the   *)
(* serializer encrypts with whatever is cached (cipherSync), fresh or not. *)
(***************************************************************************)
EXTENDS KeyFetcher

CONSTANTS Jitter,        \* external: how late the timer may fire
          MaxFailures    \* bound: background fetches that fail in a row

ASSUME SerializerAssumption ==
  /\ Jitter \in 0..MaxLatency
  /\ MaxFailures \in Nat
  /\ MaxLatency < Timeout     \* a request times out before the next period

VARIABLES due,        \* when the interval timer fires next; 0: not set yet
          failures    \* fetches that failed since the last answer (history)

vars == <<keyVars, due, failures>>

Init == KeyInit /\ due = 0 /\ failures = 0

-----------------------------------------------------------------------------
\* await fetcher.fetch(provider) before there is a serializer.
FirstFetch(c) == /\ due = 0
                 /\ \A d \in Callers : task[d] = Idle
                 /\ FetchFresh(c)
                 /\ UNCHANGED <<due, failures>>

Created(c) == /\ due = 0
              /\ task[c].step = "ready"
              /\ due' = now + Timeout
              /\ Goto(c, Idle)
              /\ UNCHANGED <<now, chain, switched, pubkey, failures>>

\* Mutant: the timer misses every other period.
IntervalSkips(c) == /\ due # 0
                    /\ now >= due
                    /\ FetchCached(c) \/ FetchFresh(c)
                    /\ due' = now + 2 * Timeout
                    /\ UNCHANGED failures

\* The timer fires, is set anew, and its callback runs up to the await.
IntervalFires(c) == /\ due # 0
                    /\ now >= due
                    /\ FetchCached(c) \/ FetchFresh(c)
                    /\ due' = now + Timeout
                    /\ UNCHANGED <<failures>>

FetchGoesOn(c) == /\ ChainIdAnswered(c) \/ KeyAnswered(c)
                  /\ UNCHANGED <<due, failures>>

FetchDone(c) == /\ KeyArrives(c)
                /\ failures' = 0
                /\ UNCHANGED due

\* Before creation the caller gets the error; after it, nobody does.
Failed(c) == /\ failures < MaxFailures
             /\ FetchFails(c)
             /\ failures' = IF due = 0 THEN failures ELSE failures + 1
             /\ UNCHANGED due

CallbackReturns(c) == /\ due # 0
                      /\ task[c].step = "ready"
                      /\ Goto(c, Idle)
                      /\ UNCHANGED <<now, chain, switched, pubkey, due, failures>>

\* wrappedSerializer of an unsigned transaction: cipherSync only reads the
\* cache, whatever the age of the key it takes.
SerializerKey == pubkey.key

Serialize == /\ due # 0
             /\ pubkey # NoKey
             /\ UNCHANGED vars

Tick == /\ due # 0 => now < due + Jitter
        /\ ClockTick
        /\ UNCHANGED <<due, failures>>

Next == \/ \E c \in Callers :
             \/ FirstFetch(c) \/ Created(c) \/ IntervalFires(c)
             \/ FetchGoesOn(c) \/ FetchDone(c) \/ Failed(c) \/ CallbackReturns(c)
        \/ Serialize
        \/ Tick

Spec == Init /\ [][Next]_vars
-----------------------------------------------------------------------------
TypeOK == /\ KeyTypeOK
          /\ due \in 0..now + Timeout
          /\ failures \in 0..MaxFailures

\* "when the serializer requests a calldata public key one will have been
\* retrieved pre-emptively" (viem-v2 index.ts:144-145), even if every
\* background fetch fails.
KeyRetrieved == due # 0 => pubkey # NoKey

\* How old the serializer's key really gets: a key stamped on arrival has not
\* expired when the timer fires next, so it lives for two periods, and for one
\* more with every fetch that fails (viem-v2 index.ts:146-148 with
\* calldatapublickey.ts:164-165).
SerializerKeyAge ==
  KeyRetrieved /\ (due # 0 =>
             now - SerializerKey.issued
               <= (2 + failures) * Timeout + (1 + failures) * Jitter + 2 * MaxLatency)

\* What it rests on.  One fetch is under way at a time, begun when the timer
\* last fired; the first one has cached its key before there is a timer; and
\* at the next firing the cached key is no older than this, a period and a
\* firing's delay more once the period's fetch has begun.
Fetching == \E c \in Callers : task[c].step \in {"chainId", "key", "answered"}

OneFetch ==
  \A c \in Callers : task[c].step # "idle" =>
    /\ \A d \in Callers : task[d].step # "idle" => d = c
    /\ due # 0 => task[c].began = due - Timeout
    /\ due = 0 /\ task[c].step = "ready" =>
         pubkey # NoKey /\ task[c].began <= pubkey.key.issued

AgeWhenDue(f) == (2 + f) * Timeout + f * Jitter + MaxLatency

SerializerIInv ==
  /\ KeyIInv /\ due \in Nat /\ failures \in Nat
  /\ due = 0 => failures = 0
  /\ OneFetch
  /\ due # 0 => /\ pubkey # NoKey
                /\ now <= due + Jitter
                /\ due - pubkey.key.issued
                     <= IF Fetching THEN AgeWhenDue(failures) + Timeout + Jitter
                                    ELSE AgeWhenDue(failures)
=============================================================================
