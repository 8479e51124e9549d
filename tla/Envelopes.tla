----------------------------- MODULE Envelopes -----------------------------
(***************************************************************************)
(* What travels between the clients and the runtime, as terms: encryption  *)
(* is perfect, CBOR is free of ambiguity, and the nonce, which accompanies *)
(* every ciphertext, is left out.  And the runtime itself, which is not in *)
(* the repository: how it takes a call apart and wraps the answer.         *)
(***************************************************************************)
EXTENDS Integers, Sequences

\* Byte strings: of length 0, of no CBOR item, of an item, a ciphertext, and
\* what a contract returns, which tells what it was called with.
NoBytes == <<"empty">>
PlainBytes(d) == <<"plain", d>>
CborBytes(item) == <<"cbor", item>>
SealedBytes(secret, bytes) == <<"sealed", secret, bytes>>
Returned(encrypted, bytes) == <<"returned", encrypted, bytes>>

\* CBOR items.
NullItem == <<"null">>
BytesItem(bytes) == <<"bytes", bytes>>
MapItem(fields) == <<"map", fields>>

\* The field of a map, if this is a map that has it.
HasField(item, f) == item[1] = "map" /\ f \in DOMAIN item[2]
HasMap(item, f) == HasField(item, f) /\ item[2][f][1] = "map"
HasBytes(item, f) == HasField(item, f) /\ item[2][f][1] = "bytes"

\* A call's data is read as an item; anything else reads as no item.
Undecodable == <<"undecodable">>
cborDecode(bytes) == IF bytes[1] = "cbor" THEN bytes[2] ELSE Undecodable

\* X25519: both ends of a pair of keys get the same secret.
RuntimeKey(epoch) == <<"runtime", epoch>>
ClientKey == <<"client", 0>>
SharedSecret(mine, theirs) == {mine, theirs}

\* Authenticated decryption.
Forged == <<"forged">>
Unseal(secret, bytes) ==
  IF bytes[1] = "sealed" /\ bytes[2] = secret THEN bytes[3] ELSE Forged

\* The envelope of a request, CallFormat 1, and of an answer.
CallEnvelope(pk, epoch, data) ==
  MapItem([format |-> <<"number", 1>>,
           body |-> MapItem([pk |-> <<"key", pk>>, epoch |-> <<"number", epoch>>,
                             data |-> BytesItem(data)])])
InnerCall(bytes) == CborBytes(MapItem([body |-> BytesItem(bytes)]))
Aead(secret, item) == MapItem([data |-> BytesItem(SealedBytes(secret, CborBytes(item)))])
-----------------------------------------------------------------------------
\* External: the runtime.  A call is an envelope, a signed pack around one,
\* or the contract's data as it is; secret is {} when it is not encrypted.
Opened(envelope) ==
  LET body == envelope[2].body[2]
      secret == SharedSecret(body.pk[2], RuntimeKey(body.epoch[2]))
      inner == Unseal(secret, body.data[2])
  IN  IF inner = Forged THEN [ok |-> FALSE, secret |-> {}, data |-> NoBytes]
      ELSE [ok |-> TRUE, secret |-> secret, data |-> cborDecode(inner)[2].body[2]]

\* A signed query: the call, its data not encrypted, and the leash that ties it
\* to a block and to the nonce of the account.
Signature(call, leash) == <<"signature", call, leash>>

IsEnvelope(item) == HasField(item, "format") /\ HasMap(item, "body")
IsPack(item) == HasMap(item, "leash") /\ HasMap(item, "data")

Decoded(item, bytes) ==
  CASE IsEnvelope(item) -> Opened(item)
    [] IsPack(item) -> Opened(item[2].data)
    [] OTHER -> [ok |-> TRUE, secret |-> {}, data |-> bytes]
RuntimeDecodes(bytes) == Decoded(cborDecode(bytes), bytes)

\* Whether the signature is by the account for this very call, and the leash
\* still good at this block and nonce of the account.
RuntimeVerifies(call, block, nonce) ==
  LET pack == cborDecode(call.data)[2]
      leash == pack.leash[2]
  IN  /\ pack.signature = Signature([call EXCEPT !.data = Opened(pack.data).data], leash)
      /\ leash.blockHash = <<"hash", leash.blockNumber>>
      /\ block \in (leash.blockNumber + 1)..(leash.blockNumber + leash.blockRange)
      /\ leash.nonce >= nonce

\* How a call ends: the contract returns, in either form of an answer to an
\* encrypted call; it fails; or the call is refused, which is not encrypted.
Endings == {"ok", "unknown", "fail", "refused"}
Failure == <<"failure">>

\* The answer to eth_call: an error of the node, or bytes.
NodeError == <<"error">>
AnswerTo(call, ending) ==
  LET result == Returned(call.secret # {}, call.data)
      inner == IF ending = "fail" THEN MapItem([fail |-> Failure])
               ELSE MapItem([ok |-> BytesItem(result)])
      envelope == IF ending = "refused" THEN [fail |-> Failure]
                  ELSE IF ending = "unknown" THEN [unknown |-> Aead(call.secret, inner)]
                  ELSE [ok |-> Aead(call.secret, inner)]
  IN  IF ~ call.ok THEN NodeError
      ELSE IF call.secret # {} THEN CborBytes(MapItem(envelope))
      ELSE IF ending \in {"ok", "unknown"} THEN result ELSE NodeError
RuntimeAnswers(bytes, ending) == AnswerTo(RuntimeDecodes(bytes), ending)

\* What the runtime executes for a transaction or a gas estimate.
ExecutionOf(call) == IF call.ok THEN Returned(call.secret # {}, call.data) ELSE NodeError
RuntimeExecutes(bytes) == ExecutionOf(RuntimeDecodes(bytes))
-----------------------------------------------------------------------------
\* What a caller hands over and gets: bytes as a hexadecimal string or as an
\* array, nothing, something else; an exception, that nothing goes on from.
Hex(bytes) == <<"hex", bytes>>
U8(bytes) == <<"array", bytes>>
Undefined == <<"undefined">>
EmptyString == <<"string">>
NotBytes == <<"object">>
Throw(why) == <<"throw", why>>

Throws(value) == value[1] = "throw"
Then(value, Continue(_)) == IF Throws(value) THEN value ELSE Continue(value)

isBytesLike(value) == value[1] \in {"hex", "array"}
isFalsy(value) == value \in {Undefined, EmptyString}

\* External: the node answers a call with what the runtime returns, and says
\* of another request what the contract ran on.
Executed(what) == <<"executed", what>>
OrThrow(result, answer) == IF result = NodeError THEN Throw("node") ELSE answer
NodeRequest(req, ending) ==
  LET bytes == IF isFalsy(req.data) THEN NoBytes ELSE req.data[2]
      answer == RuntimeAnswers(bytes, ending)
      result == RuntimeExecutes(bytes)
  IN  IF ~ (isFalsy(req.data) \/ req.data[1] = "hex") THEN Throw("JSON")
      ELSE IF req.method = "eth_call" THEN OrThrow(answer, Hex(answer))
      ELSE IF ending \in {"fail", "refused"} THEN Throw("node")
      ELSE OrThrow(result, Executed(result))
=============================================================================
