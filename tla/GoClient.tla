------------------------------ MODULE GoClient ------------------------------
(***************************************************************************)
(* The Go client: the ciphers of cipher.go and the packing of calls and    *)
(* transactions of compat.go.  A result is bytes or an error.              *)
(***************************************************************************)
EXTENDS Envelopes

Err == <<"err">>

NewX25519DeoxysIICipher(pk, epoch) ==
  [publicKey |-> pk, epoch |-> epoch, cipher |-> SharedSecret(pk, RuntimeKey(epoch))]
Encrypt(cipher, plaintext) == SealedBytes(cipher.cipher, plaintext)
Decrypt(cipher, ciphertext) == Unseal(cipher.cipher, ciphertext)

DefaultBlockRange == 15
DefaultGasLimit == 30

\* A transaction without data is a balance transfer, and all its data public;
\* its envelope is nil, which encodes to null.
EncryptEnvelope(cipher, plaintext) ==
  IF plaintext = NoBytes THEN NullItem
  ELSE CallEnvelope(cipher.publicKey, cipher.epoch, Encrypt(cipher, InnerCall(plaintext)))
EncryptEncode(cipher, plaintext) == CborBytes(EncryptEnvelope(cipher, plaintext))

\* The first of these fields that the result has, in the order they are looked at.
FirstOf(item, names) ==
  LET has == {i \in DOMAIN names : HasField(item, names[i])}
  IN  IF has = {} THEN "none" ELSE names[CHOOSE i \in has : \A j \in has : i <= j]

DecryptInner(cipher, aead) ==
  LET decrypted == Decrypt(cipher, aead[2].data[2])
      inner == cborDecode(decrypted)
      first == FirstOf(inner, <<"unknown", "ok", "fail">>)
  IN  IF decrypted = Forged \/ first \in {"none", "fail"} THEN Err ELSE inner[2][first][2]

\* A result that is no envelope is returned raw.
DecryptCallResult(cipher, response) ==
  LET result == cborDecode(response)
      first == FirstOf(result, <<"fail", "ok", "unknown">>)
  IN  IF result = Undecodable \/ first \in {"fail", "none"} THEN Err
      ELSE IF HasMap(result, first) THEN DecryptInner(cipher, result[2][first])
      ELSE CborBytes(result[2][first])

\* The cipher that does not encrypt.
PlainDecryptCallResult(response) ==
  LET result == cborDecode(response)
      first == FirstOf(result, <<"fail", "unknown", "ok">>)
  IN  IF result = Undecodable \/ first \in {"fail", "none"} \/ ~ HasBytes(result, first) THEN Err
      ELSE result[2][first][2]

-----------------------------------------------------------------------------
\* External: what decodes as an SDK call without error: null, and maps with no
\* other fields, whichever are missing.
CallFields == {"format", "method", "body", "ro"}
DecodesAsCall(item) ==
  \/ item = NullItem
  \/ /\ item[1] = "map" /\ DOMAIN item[2] \subseteq CallFields
     /\ HasField(item, "format") => item[2].format[1] = "number"

\* What decodes is taken for packed already.
txNeedsPacking(data) == data # NoBytes /\ ~ DecodesAsCall(cborDecode(data))
PackTx(cipher, data) == IF txNeedsPacking(data) THEN EncryptEncode(cipher, data) ELSE data

\* Mutant: the latest block, with the hash of its parent.
makeLeashLatest(blockNumber, nonce) ==
  [nonce |-> nonce, blockNumber |-> blockNumber, blockHash |-> <<"hash", blockNumber - 1>>,
   blockRange |-> DefaultBlockRange]

\* A leash names the block before the latest, or before the one asked for.
makeLeash(blockNumber, nonce) ==
  [nonce |-> nonce, blockNumber |-> blockNumber - 1, blockHash |-> <<"hash", blockNumber - 1>>,
   blockRange |-> DefaultBlockRange]

\* What is signed are the message's fields, its data not encrypted.
PackSignedCall(cipher, msg, leash) ==
  LET full == [msg EXCEPT !.gas = IF @ = 0 THEN DefaultGasLimit ELSE @,
                          !.gasPrice = IF @ = 0 THEN 100 ELSE @]
  IN  [full EXCEPT !.data = CborBytes(MapItem(
         [data |-> EncryptEnvelope(cipher, msg.data), leash |-> MapItem(leash),
          signature |-> Signature(full, leash)]))]

\* CallContract, EstimateGas and, through a Transactor, SendTransaction: what
\* they send, and what they return.
goRequest(cipher, req) ==
  LET Packed(data) == IF req.method = "eth_sendTransaction" THEN PackTx(cipher, data)
                      ELSE EncryptEncode(cipher, data)
  IN  [req EXCEPT !.data = Hex(Packed(@[2]))]
goAnswer(cipher, req, res) ==
  LET got == DecryptCallResult(cipher, res[2])
  IN  IF req.method # "eth_call" \/ Throws(res) THEN res
      ELSE IF got = Err THEN Throw("call failed") ELSE Hex(got)
=============================================================================
