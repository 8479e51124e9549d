------------------------------ MODULE JsCipher ------------------------------
(***************************************************************************)
(* The envelope cipher of the JavaScript client, cipher.ts, with what it   *)
(* needs of ethersutils.ts.                                                *)
(***************************************************************************)
EXTENDS Envelopes, FiniteSets

hexlify(value) == IF isBytesLike(value) THEN Hex(value[2]) ELSE Throw("not bytes")

\* Mutant: the output as it is.
asBytesLikeOutput(example, output) ==
  IF ~ isBytesLike(example) \/ ~ isBytesLike(output) THEN Throw("not bytes") ELSE output

\* The output in the form of the example.
asBytesLike(example, output) ==
  IF ~ isBytesLike(example) \/ ~ isBytesLike(output) THEN Throw("not bytes")
  ELSE IF "hex" \in {example[1], output[1]} THEN Hex(output[2]) ELSE output

\* A pair of keys and the peer's make a cipher.
Cipher(mine, epoch) ==
  [publicKey |-> mine, epoch |-> epoch, secretKey |-> SharedSecret(mine, RuntimeKey(epoch))]
encrypt(cipher, bytes) == SealedBytes(cipher.secretKey, bytes)
decrypt(cipher, bytes) == Unseal(cipher.secretKey, bytes)

encryptCall(cipher, calldata) ==
  IF calldata \in {Undefined, EmptyString, U8(NoBytes)} THEN EmptyString
  ELSE IF ~ isBytesLike(calldata) THEN Throw("non-byteslike data")
  ELSE asBytesLike(calldata,
         U8(CborBytes(CallEnvelope(cipher.publicKey, cipher.epoch,
                                   encrypt(cipher, InnerCall(calldata[2]))))))

-----------------------------------------------------------------------------
\* Whether an item has the form of an envelope; an item of another form is an
\* EnvelopeError, and null does not even have fields to look at.
EnvelopeFormat(item) ==
  IF item = NullItem THEN Throw("TypeError")
  ELSE IF ~ HasField(item, "body") \/ ~ HasField(item, "format") THEN Throw("EnvelopeError")
  ELSE IF item[2].format # <<"number", 1>> \/ ~ HasMap(item, "body") THEN Throw("EnvelopeError")
  ELSE IF ~ HasBytes(item[2].body, "data") THEN Throw("EnvelopeError")
  ELSE <<"true">>

isCalldataEnveloped(calldata) ==
  IF ~ isBytesLike(calldata) \/ cborDecode(calldata[2]) = Undecodable THEN <<"false">>
  ELSE LET ok == EnvelopeFormat(cborDecode(calldata[2]))
       IN  IF ok = Throw("TypeError") THEN <<"false">> ELSE ok

decryptCall(cipher, envelopeBytes) ==
  LET item == cborDecode(envelopeBytes[2])
      Inner(ok) == decrypt(cipher, item[2].body[2].data[2])
  IN  IF item = Undecodable THEN Throw("CBOR")
      ELSE Then(EnvelopeFormat(item), LAMBDA ok :
             IF Inner(ok) = Forged THEN Throw("forged")
             ELSE asBytesLike(envelopeBytes, U8(cborDecode(Inner(ok))[2].body[2])))

\* The answer to a call whose envelope this cipher made, encoded the way the
\* runtime does it, and decoded.  An argument that is not given is Undefined.
encryptResult(cipher, ok, innerFail, outerFail) ==
  LET inner == IF ok = Undefined THEN MapItem([fail |-> innerFail])
               ELSE MapItem([ok |-> BytesItem(ok[2])])
      Given == {f \in {"ok", "innerFail", "outerFail"} :
                  [ok |-> ok, innerFail |-> innerFail, outerFail |-> outerFail][f] # Undefined}
  IN  IF Cardinality(Given) # 1 THEN Throw("EnvelopeError")
      ELSE IF outerFail # Undefined THEN U8(CborBytes(MapItem([fail |-> outerFail])))
      ELSE U8(CborBytes(MapItem([ok |-> Aead(cipher.secretKey, inner)])))

\* What is no struct with data, as bytes in the clear, has none to decrypt.
decryptInner(cipher, callResult, aead) ==
  LET bytes == decrypt(cipher, aead[2].data[2])
      inner == cborDecode(bytes)
  IN  IF ~ HasBytes(aead, "data") THEN Throw("TypeError")
      ELSE IF bytes = Forged THEN Throw("forged")
      ELSE IF HasBytes(inner, "ok") THEN asBytesLike(callResult, U8(inner[2].ok[2]))
      ELSE Throw("call failed")

decryptResult(cipher, callResult) ==
  LET envelope == cborDecode(callResult[2])
  IN  IF ~ isBytesLike(callResult) THEN Throw("not bytes")
      ELSE IF envelope = Undecodable THEN Throw("CBOR")
      ELSE IF HasField(envelope, "fail") THEN Throw("call failed")
      ELSE IF HasBytes(envelope, "ok") THEN Throw("unencrypted envelope")
      ELSE IF HasField(envelope, "ok") THEN decryptInner(cipher, callResult, envelope[2].ok)
      ELSE IF HasField(envelope, "unknown") THEN decryptInner(cipher, callResult, envelope[2].unknown)
      ELSE Throw("TypeError")
=============================================================================
