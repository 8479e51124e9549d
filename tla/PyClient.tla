------------------------------ MODULE PyClient ------------------------------
(***************************************************************************)
(* The Python client: the cipher of envelope.py and how the middleware of  *)
(* sapphire.py takes a request, once it has a key.  The loop around it is  *)
(* PyMiddleware.  str is Hex, bytes is U8; a field that is not there is    *)
(* Undefined.                                                              *)
(***************************************************************************)
EXTENDS Envelopes

TransactionCipher(pk, epoch) ==
  [ephemeral_pubkey |-> pk, epoch |-> epoch, cipher |-> SharedSecret(pk, RuntimeKey(epoch))]

make_envelope(c, plaintext) ==
  CallEnvelope(c.ephemeral_pubkey, c.epoch, SealedBytes(c.cipher, InnerCall(plaintext)))

decode_inner(inner) ==
  IF HasBytes(inner, "ok") THEN U8(inner[2].ok[2]) ELSE Throw("CallError")
decrypt_inner(c, aead) ==
  LET plaintext == Unseal(c.cipher, aead[2].data[2])
  IN  IF plaintext = Forged THEN Throw("DecryptError") ELSE decode_inner(cborDecode(plaintext))

\* A failure is looked for as "failure", while the runtime writes "fail"; it
\* is missed there, and then lacks an "ok".
decrypt_response(c, response) ==
  LET result == cborDecode(response)
  IN  IF result = Undecodable \/ result[1] # "map" THEN Throw("EnvelopeError")
      ELSE IF HasField(result, "failure") THEN Throw("CallError")
      ELSE IF ~ HasMap(result, "ok") THEN Throw("EnvelopeError")
      ELSE decrypt_inner(c, result[2].ok)

-----------------------------------------------------------------------------
should_intercept(method, to) ==
  /\ method \in {"eth_estimateGas", "eth_sendTransaction", "eth_call"}
  /\ method # "eth_call" => to

data_bytes(data) ==
  IF data \in {Undefined, EmptyString, NotBytes} THEN Throw("TypeError") ELSE U8(data[2])

\* The fields that are signed are the request's, with the defaults that the
\* request itself is given too; value is the node's default.
DEFAULT_BLOCK_RANGE == 15
SignedCallData(blockNumber, hashOf, nonce) ==
  [nonce |-> nonce, blockNumber |-> blockNumber - 1, blockHash |-> <<"hash", hashOf>>,
   blockRange |-> DEFAULT_BLOCK_RANGE]

new_signed_call_data_pack(c, params, bytes, leash) ==
  LET full == [params EXCEPT !.gas = IF @ = 0 THEN 30 ELSE @,
                             !.gasPrice = IF @ = 0 THEN 100 ELSE @]
  IN  [full EXCEPT !.data = CborBytes(MapItem(
         [data |-> make_envelope(c, bytes), leash |-> MapItem(leash),
          signature |-> Signature([full EXCEPT !.data = bytes], leash)]))]

\* An unsigned request, whose answer only eth_call decrypts.
pyRequest(c, req) ==
  LET bytes == data_bytes(req.data)
  IN  IF ~ should_intercept(req.method, req.to) THEN req
      ELSE [req EXCEPT !.data = IF Throws(bytes) THEN bytes
                                ELSE Hex(CborBytes(make_envelope(c, bytes[2])))]
pyAnswer(c, req, res) ==
  IF req.method # "eth_call" \/ res[1] # "hex" \/ res[2] = NoBytes THEN res
  ELSE Then(decrypt_response(c, res[2]), LAMBDA decrypted : Hex(decrypted[2]))
=============================================================================
