---------------------------- MODULE PyMiddleware ----------------------------
(***************************************************************************)
(* The Python client's middleware (clients/py/sapphirepy/sapphire.py):     *)
(* coroutines of one AsyncWeb3 share a CalldataPublicKeyManager, encrypt   *)
(* with its newest key, and fetch another and try again when the node      *)
(* finds that key's epoch too far in the past.                             *)
(*                                                                         *)
(* A key is its epoch.  The synchronous wrapper makes a manager for every  *)
(* request, so it is the case of one request and an empty manager.         *)
(***************************************************************************)
EXTENDS Integers, Sequences, FiniteSets

CONSTANTS Requests,      \* concurrent requests through the middleware
          EPOCH_LIMIT,   \* number of epochs to keep public keys for
          Window,        \* external: epochs after which the node refuses a key
          None,          \* no key
          MaxEpoch,      \* bound: the epoch
          MaxLayers      \* bound: envelopes counted around a request's data

ASSUME MiddlewareAssumption ==
  /\ EPOCH_LIMIT \in Nat \ {0} /\ Window \in Nat \ {0}
  /\ MaxEpoch \in Nat /\ MaxLayers \in Nat /\ None \notin Nat

VARIABLES epoch,   \* external: the node's epoch
          keys,    \* CalldataPublicKeyManager._keys
          req      \* each request's coroutine

vars == <<epoch, keys, req>>

\* pk: the local variable pk; layers: envelopes around params[0]["data"];
\* refused: the key the node refused this request for (history).
Idle == [step |-> "idle", pk |-> None, layers |-> 0, refused |-> None]

Init == /\ epoch = 0
        /\ keys = <<>>
        /\ req = [r \in Requests |-> Idle]

-----------------------------------------------------------------------------
Newest(ks) == IF ks = <<>> THEN None ELSE ks[Len(ks)]

\* The keys kept are those of the last epochs; place is where the i-th of them
\* comes once sorted (sorted is stable), and the last EPOCH_LIMIT stay.
TrimAndSort(ks, newest_epoch) ==
  LET kept    == {i \in DOMAIN ks : ks[i] >= newest_epoch - EPOCH_LIMIT}
      place   == [i \in kept |-> Cardinality({j \in kept :
                    ks[j] < ks[i] \/ (ks[j] = ks[i] /\ j <= i)})]
      total   == Cardinality(kept)
      dropped == IF total > EPOCH_LIMIT THEN total - EPOCH_LIMIT ELSE 0
  IN  [n \in 1..(total - dropped) |-> ks[CHOOSE i \in kept : place[i] = n + dropped]]

\* Mutant: an older key replaces a newer.
AddLatest(ks, pk) == IF ks = <<>> THEN <<pk>> ELSE <<ks[1], pk>>

Add(ks, pk) ==
  IF ks = <<>> THEN <<pk>>
  ELSE TrimAndSort(IF Newest(ks) < pk THEN Append(ks, pk) ELSE ks, pk)

\* _encrypt_tx_params replaces params[0]["data"] by its envelope.
Encrypt(q, pk) ==
  [q EXCEPT !.step = "sent", !.pk = pk,
            !.layers = IF q.layers < MaxLayers THEN q.layers + 1 ELSE MaxLayers]

\* middleware() up to its first await.
Intercept(r) ==
  /\ req[r].step = "idle"
  /\ req' = [req EXCEPT ![r] =
               IF keys = <<>> THEN [@ EXCEPT !.step = "fetching"]
                              ELSE Encrypt(@, Newest(keys))]
  /\ UNCHANGED <<epoch, keys>>

\* The node answers oasis_callDataPublicKey; the answer is on its way.
KeyAnswered(r) ==
  /\ req[r].step = "fetching"
  /\ req' = [req EXCEPT ![r].step = "answered", ![r].pk = epoch]
  /\ UNCHANGED <<epoch, keys>>

\* manager.add, then encrypt with the key fetched, not with the newest.
KeyArrives(r) ==
  /\ req[r].step = "answered"
  /\ keys' = Add(keys, req[r].pk)
  /\ req' = [req EXCEPT ![r] = Encrypt(@, @.pk)]
  /\ UNCHANGED epoch

\* The request reaches the node.
TooFarInThePast(pk) == epoch - pk > Window

NodeAnswers(r) ==
  /\ req[r].step = "sent"
  /\ req' = [req EXCEPT ![r].step =
               IF TooFarInThePast(req[r].pk) THEN "tooFar" ELSE "accepted"]
  /\ UNCHANGED <<epoch, keys>>

\* Mutant: the newest key of the manager is tried instead of a fetched one.
RetryWithNewest(r) ==
  /\ req[r].step = "tooFar"
  /\ req' = [req EXCEPT ![r] = Encrypt([@ EXCEPT !.refused = req[r].pk], Newest(keys))]
  /\ UNCHANGED <<epoch, keys>>

\* "force the re-fetch, and encrypt with new key".
Retry(r) ==
  /\ req[r].step = "tooFar"
  /\ req' = [req EXCEPT ![r] = [@ EXCEPT !.step = "fetching", !.pk = None,
                                         !.refused = req[r].pk]]
  /\ UNCHANGED <<epoch, keys>>

Return(r) ==
  /\ req[r].step = "accepted"
  /\ req' = [req EXCEPT ![r] = Idle]
  /\ UNCHANGED <<epoch, keys>>

\* No key in the answer, another error than "too far", or an exception.
Fail(r) ==
  /\ req[r].step \in {"fetching", "answered", "sent"}
  /\ req' = [req EXCEPT ![r] = Idle]
  /\ UNCHANGED <<epoch, keys>>

\* A retry is quicker than the Window epochs for which its key is good.
NextEpoch ==
  /\ epoch < MaxEpoch
  /\ \A r \in Requests :
       req[r].refused # None /\ req[r].step \in {"answered", "sent"}
         => epoch < req[r].pk + Window
  /\ epoch' = epoch + 1
  /\ UNCHANGED <<keys, req>>

Proceed(r) == Intercept(r) \/ KeyAnswered(r) \/ KeyArrives(r)
                \/ NodeAnswers(r) \/ Retry(r) \/ Return(r)

Next == (\E r \in Requests : Proceed(r) \/ Fail(r)) \/ NextEpoch

Spec == Init /\ [][Next]_vars

\* The event loop runs every coroutine, and the node answers.
FairSpec == Spec /\ \A r \in Requests : WF_vars(Proceed(r))
-----------------------------------------------------------------------------
TypeOK ==
  /\ epoch \in 0..MaxEpoch
  /\ keys \in Seq(0..epoch)
  /\ req \in [Requests ->
       [step : {"idle", "fetching", "answered", "sent", "tooFar", "accepted"},
        pk : Nat \cup {None}, layers : 0..MaxLayers, refused : Nat \cup {None}]]

\* The manager keeps at most EPOCH_LIMIT keys, one an epoch and the newest
\* last, in whatever order the coroutines' answers arrive (sapphire.py:65-83).
ManagerOK ==
  /\ Len(keys) <= EPOCH_LIMIT
  /\ \A i, j \in DOMAIN keys : i < j => keys[i] < keys[j]
  /\ keys # <<>> => keys[1] >= Newest(keys) - EPOCH_LIMIT

\* The key other coroutines encrypt with never becomes an older one, though
\* answers arrive out of order, and the list stays in order (sapphire.py:65-83).
NewestNeverRegresses ==
  [][ManagerOK' /\ (keys # <<>> => Newest(keys') >= Newest(keys))]_keys

\* A request that was refused is sent again with a key the node can accept:
\* newer by more than Window than the one it was refused for, and never one a
\* slower coroutine put in the manager meanwhile (sapphire.py:361-364).
RetryIsNewer ==
  \A r \in Requests :
    req[r].step = "sent" /\ req[r].refused # None
      => req[r].pk > req[r].refused + Window

\* What the proofs need besides: a key in use is one the node has given out, a key
\* that was refused is too old for good, and a request nobody has made was not
\* refused.
KeysOK ==
  \A r \in Requests :
    /\ req[r].step = "idle" => req[r].refused = None
    /\ req[r].step \in {"answered", "sent", "tooFar"} => req[r].pk \in 0..epoch
    /\ req[r].step = "tooFar" => epoch > req[r].pk + Window
    /\ req[r].refused # None => epoch > req[r].refused + Window
    /\ req[r].step \in {"answered", "sent"} /\ req[r].refused # None
         => req[r].pk > req[r].refused + Window

IInv == TypeOK /\ ManagerOK /\ KeysOK

\* Every request is answered: the loop ends (sapphire.py:287-364).
EventuallyAnswered ==
  \A r \in Requests : req[r].step # "idle" ~> req[r].step = "idle"

\* "Transparently encrypt the calldata" (sapphire.py:237): what the contract
\* is called with is the caller's data, encrypted once.
EncryptedOnce ==
  \A r \in Requests : req[r].step = "accepted" => req[r].layers = 1
=============================================================================
