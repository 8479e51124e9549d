----------------------------- MODULE ViemClient -----------------------------
(***************************************************************************)
(* wrapWalletClient (integrations/viem-v2/src/index.ts): wallet clients of *)
(* one chain object share its serializer, are wrapped concurrently, and    *)
(* sign through it: once without a signature, to have something to sign,   *)
(* and once with it.  How old the keys are is ViemSerializer's subject.    *)
(***************************************************************************)
EXTENDS Naturals, Sequences

CONSTANTS Clients,   \* wallet clients of the chain
          Keys       \* calldata keys the fetchers may have

VARIABLES serializer,  \* chain.serializers.transaction: how many Sapphire
                       \* serializers are around the original
          client       \* by client: what it is doing

viemVars == <<serializer, client>>

\* original: the serializer read before the await; wrapped: wrapWalletClient
\* has returned it; data: the envelopes of the transaction it signs, which is
\* one object; signed: what was signed.
NewClient == [step |-> "idle", original |-> 0, wrapped |-> FALSE,
              data |-> <<>>, signed |-> <<>>, since |-> FALSE]

ViemInit == /\ serializer = 0
            /\ client = [c \in Clients |-> NewClient]

Becomes(c, r) == client' = [client EXCEPT ![c] = r]
-----------------------------------------------------------------------------
\* Reflect.has(serializer, SAPPHIRE_WRAPPED_VIEM_SERIALIZER).
SapphireWrapped(s) == s > 0

\* Mutant: the serializer found when the key has arrived is wrapped.
createSapphireSerializerLate(original) == serializer + 1

\* createSapphireSerializer, after its await.
createSapphireSerializer(original) ==
  IF SapphireWrapped(original) THEN original ELSE original + 1

\* What a serializer makes of tx.data; with a signature it leaves it alone.
Serialized(data, signature) ==
  {data \o [i \in 1..(IF signature THEN 0 ELSE serializer) |-> k] : k \in Keys}

Wrap(c) == /\ client[c].step = "idle"
           /\ IF SapphireWrapped(serializer)
              THEN Becomes(c, [client[c] EXCEPT !.wrapped = TRUE])
              ELSE Becomes(c, [client[c] EXCEPT !.step = "fetching",
                                                !.original = serializer])
           /\ UNCHANGED serializer

KeyFetched(c) == /\ client[c].step = "fetching"
                 /\ serializer' = createSapphireSerializer(client[c].original)
                 /\ Becomes(c, [client[c] EXCEPT !.step = "idle", !.wrapped = TRUE])

\* The first fetch rejects, and with it wrapWalletClient.
KeyFetchFails(c) == /\ client[c].step = "fetching"
                    /\ Becomes(c, [client[c] EXCEPT !.step = "idle"])
                    /\ UNCHANGED serializer

\* sendTransaction: viem serializes a new transaction and signs that.
Sign(c) == /\ client[c].step = "idle"
           /\ \E d \in Serialized(<<>>, FALSE) :
                Becomes(c, [client[c] EXCEPT !.step = "signing", !.data = d,
                              !.signed = d, !.since = client[c].wrapped])
           /\ UNCHANGED serializer

\* Signed: serialized once more, and sent.
SendSigned(c) == /\ client[c].step = "signing"
                 /\ \E d \in Serialized(client[c].data, TRUE) :
                      Becomes(c, [client[c] EXCEPT !.step = "sent", !.data = d])
                 /\ UNCHANGED serializer

Sent(c) == /\ client[c].step = "sent"
            /\ Becomes(c, [client[c] EXCEPT !.step = "idle", !.data = <<>>,
                                            !.signed = <<>>])
            /\ UNCHANGED serializer

ViemNext == \E c \in Clients : \/ Wrap(c) \/ KeyFetched(c) \/ KeyFetchFails(c)
                               \/ Sign(c) \/ SendSigned(c) \/ Sent(c)

ViemSpec == ViemInit /\ [][ViemNext]_viemVars
-----------------------------------------------------------------------------
\* What is sent is what was signed, although the key may change in between, and
\* after wrapWalletClient it is encrypted, once, however many clients of the
\* chain were wrapped at the same time (viem-v2 index.ts:130 "Don't
\* double-wrap serializer", 156-161).
SentAsSigned ==
  \A c \in Clients : client[c].step = "sent" =>
    /\ client[c].data = client[c].signed
    /\ Len(client[c].data) <= 1
    /\ client[c].since => Len(client[c].data) = 1

\* The inductive invariant behind it.
Client == [step: {"idle", "fetching", "signing", "sent"}, original: {0},
           wrapped: BOOLEAN, data: Seq(Keys), signed: Seq(Keys), since: BOOLEAN]

ClientOK(r, s) ==
  /\ r.wrapped => s = 1
  /\ r.step \in {"signing", "sent"} =>
       /\ r.data = r.signed
       /\ Len(r.data) <= 1
       /\ r.since => Len(r.data) = 1

ViemIInv == /\ serializer \in {0, 1}
            /\ client \in [Clients -> Client]
            /\ \A c \in Clients : ClientOK(client[c], serializer)
=============================================================================
