------------------------------ MODULE JsClients -----------------------------
(***************************************************************************)
(* The wrappers of the JavaScript clients: the EIP-1193 provider of        *)
(* provider.ts, the ethers provider and signer of sapphire-ethers-v6, the  *)
(* transport and the serializer of sapphire-viem-v2.                       *)
(*                                                                         *)
(* A provider is the sequence of its wrappers, outermost first, around the *)
(* node.  Every wrapper has a cipher of its own, told apart by its depth.  *)
(* A request is a record with a method and data; what it comes to is a     *)
(* value, or an exception.  A request whose data is an exception is one    *)
(* that is not sent.                                                       *)
(***************************************************************************)
EXTENDS JsCipher, DevProxy

CipherAt(depth) == Cipher(<<"client", depth>>, 7)

-----------------------------------------------------------------------------
EncryptedMethods == {"eth_sendTransaction", "eth_signTransaction", "eth_call", "eth_estimateGas"}

\* The request as it goes upstream, and the answer as it comes back.  The data
\* that isCallDataPublicKeyQuery looks at is an envelope by then, so that it
\* never holds.
EncryptedRequest(cipher, req) ==
  IF req.method \in EncryptedMethods /\ ~ isFalsy(req.data)
  THEN [req EXCEPT !.data = encryptCall(cipher, @)] ELSE req
DecryptedAnswer(cipher, req, res) ==
  IF req.method = "eth_call" /\ ~ isFalsy(req.data) /\ ~ Throws(res)
  THEN decryptResult(cipher, res) ELSE res

\* An envelope that the caller made is passed on, and its answer passed back.
sendUnsignedCall(cipher, req, enveloped) ==
  LET data == IF enveloped THEN req.data ELSE hexlify(encryptCall(cipher, req.data))
  IN  [req EXCEPT !.data = IF isFalsy(data) THEN Hex(NoBytes) ELSE hexlify(data)]
hookEthersCall(cipher, req) ==
  LET is == isCalldataEnveloped(req.data)
  IN  IF Throws(is) THEN [req EXCEPT !.data = is]
      ELSE sendUnsignedCall(cipher, req, is = <<"true">>)

\* Mutant: the answer to the caller's own envelope is decrypted here.
hookedAnswerAlways(cipher, req, res) == IF res[1] = "hex" THEN decryptResult(cipher, res) ELSE res

hookedAnswer(cipher, req, res) ==
  IF isCalldataEnveloped(req.data) # <<"true">> /\ res[1] = "hex"
  THEN decryptResult(cipher, res) ELSE res

hookEthersSend(cipher, tx) ==
  IF isFalsy(tx.data) THEN tx ELSE [tx EXCEPT !.data = hexlify(encryptCall(cipher, @))]

-----------------------------------------------------------------------------
\* A wrapper is not put around itself.
wrapEthereumProvider(layers) ==
  IF layers # << >> /\ Head(layers) = "eip1193" THEN layers ELSE <<"eip1193">> \o layers
wrapEthersProvider(layers) ==
  IF layers # << >> /\ Head(layers) = "ethers" THEN layers ELSE <<"ethers">> \o layers

\* What a wrapper makes of a request and of the answer.  The ethers provider
\* encrypts what is called through it, and passes on the rest.
EthersCalls == {"eth_call", "eth_estimateGas"}
Outgoing(wrapper, cipher, req) ==
  IF Throws(req.data) THEN req
  ELSE IF wrapper = "eip1193" THEN EncryptedRequest(cipher, req)
  ELSE IF req.method \in EthersCalls THEN hookEthersCall(cipher, req) ELSE req
Incoming(wrapper, cipher, req, res) ==
  IF wrapper = "eip1193" THEN DecryptedAnswer(cipher, req, res)
  ELSE IF req.method \in EthersCalls THEN hookedAnswer(cipher, req, res) ELSE res

\* A request to a provider of these wrappers: as the k outermost of them leave
\* it, and the answer that they get.
request(layers, req, ending) ==
  LET n == Len(layers)
      sent[k \in 0..n] ==
        IF k = 0 THEN req ELSE Outgoing(layers[k], CipherAt(k), sent[k - 1])
      got[k \in 0..n] ==
        IF k < n THEN Incoming(layers[k + 1], CipherAt(k + 1), sent[k], got[k + 1])
        ELSE IF Throws(sent[n].data) THEN sent[n].data
        ELSE Backend(sent[n], ending)
  IN  got[0]

\* An ethers signer: of its own keys, which can be connected to the wrapped
\* provider, or one of the node's, which cannot, or without a provider.
Signer(kind, layers) == [kind |-> kind, provider |-> layers, wrapped |-> FALSE]
wrapEthersSigner(signer) ==
  IF signer.wrapped THEN signer
  ELSE [signer EXCEPT !.wrapped = TRUE,
          !.provider = IF signer.kind = "wallet" THEN wrapEthersProvider(@) ELSE @]

RawFor(kind) == IF kind = "wallet" THEN "eth_sendRawTransaction" ELSE "eth_sendTransaction"

\* External: an ethers signer estimates the gas of what it sends.
EthersSend(signer, tx, ending) ==
  Then(request(signer.provider, [tx EXCEPT !.method = "eth_estimateGas"], ending),
       LAMBDA gas : Backend([tx EXCEPT !.method = RawFor(signer.kind)], ending))

signerRequest(signer, req, ending) ==
  LET cipher == CipherAt(9)
  IN  IF signer.kind = "detached" THEN Throw("SignerHasNoProviderError")
      ELSE IF req.method \in EthersCalls
        THEN hookedAnswer(cipher, req, request(signer.provider, hookEthersCall(cipher, req), ending))
      ELSE EthersSend(signer, hookEthersSend(cipher, req), ending)

-----------------------------------------------------------------------------
\* The viem serializer writes the envelope into the transaction it is given,
\* so that the same transaction, once signed, is serialized as it is.
wrappedSerializer(cipher, tx, sig) ==
  IF sig = << >> THEN [tx EXCEPT !.data = encryptCall(cipher, tx.data)] ELSE tx

\* External: viem signs one serialization, and sends another.
ViemSend(tx, ending) ==
  LET toSign == wrappedSerializer(CipherAt(1), tx, << >>)
      toSend == wrappedSerializer(CipherAt(2), toSign, <<"signature">>)
  IN  IF Throws(toSign.data) THEN toSign.data
      ELSE IF toSign # toSend THEN Throw("signature") ELSE Backend([toSend EXCEPT !.method = "eth_sendRawTransaction"], ending)

viemRequest(req, ending) ==
  IF req.method = "eth_sendTransaction" THEN ViemSend(req, ending)
  ELSE request(wrapEthereumProvider(<< >>), req, ending)
=============================================================================
