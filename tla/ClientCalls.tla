----------------------------- MODULE ClientCalls ----------------------------
(***************************************************************************)
(* Calls through the clients: which calls there are, what each client      *)
(* makes of them, and what the caller may expect.                          *)
(***************************************************************************)
EXTENDS JsClients, GoClient, PyClient

\* Bytes that are no CBOR, as most calldata; bytes that happen to be some, also
\* some that lack of a call most of its fields; and an envelope that the caller
\* made.
OwnEnvelope ==
  CborBytes(CallEnvelope(ClientKey, 7, SealedBytes(SharedSecret(ClientKey, RuntimeKey(7)),
                                                   InnerCall(PlainBytes(2)))))
HollowCalls == {CborBytes(NullItem), CborBytes(MapItem([format |-> <<"number", 1>>]))}
SomeCbor == HollowCalls \cup {CborBytes(BytesItem(PlainBytes(3))),
                              CborBytes(MapItem([other |-> <<"number", 1>>]))}
CallBytes == {NoBytes, PlainBytes(1), OwnEnvelope} \cup SomeCbor

EthersClients == {"provider", "wallet", "wrappedWallet", "jsonRpcSigner", "detached"}
Clients == {"eip1193", "eip1193Twice", "viem", "go", "python"} \cup EthersClients

ClientRequests ==
  [alg : {"clientCall"}, client : Clients, ending : Endings \cup {"proxy"},
   method : {"eth_call", "eth_estimateGas", "eth_sendTransaction"}, to : BOOLEAN,
   testAccount : BOOLEAN, data : {Undefined, NotBytes} \cup {Hex(b) : b \in CallBytes}, answer : {"none"}]

\* A signed query: the block and the account's nonce that the client is told,
\* the block that it asks for the hash of, and those at the time of the call.
SignedRequests ==
  [alg : {"signedCall"}, client : {"go", "python"}, block : {20}, delay : 0..16,
   nonce : 0..1, nonceAfter : 0..1, gas : {0, 5}, gasPrice : {0, 7}, value : {0, 9},
   chainId : {1}, from : {"account"}, to : {"contract"}]

-----------------------------------------------------------------------------
\* External: Go and Python sign what they send.
Signs(r) == IF r.method = "eth_sendTransaction"
            THEN [r EXCEPT !.method = "eth_sendRawTransaction"] ELSE r

\* The caller's own request, without what else the input says.
Answer(c) ==
  LET req == [method |-> c.method, data |-> c.data, to |-> c.to, testAccount |-> c.testAccount]
      Node(r) == IF Throws(r.data) THEN r.data ELSE Backend(Signs(r), c.ending)
      go == NewX25519DeoxysIICipher(ClientKey, 7)
      py == TransactionCipher(ClientKey, 7)
      eip1193 == wrapEthereumProvider(<< >>)
      ethers == wrapEthersProvider(wrapEthersProvider(<< >>))
      Asked(layers) == request(layers, req, c.ending)
      Signed(signer) == signerRequest(wrapEthersSigner(wrapEthersSigner(signer)), req, c.ending)
  IN  CASE c.client = "viem" -> viemRequest(req, c.ending)
        [] c.client = "go" -> goAnswer(go, req, Node(goRequest(go, req)))
        [] c.client = "python" -> pyAnswer(py, req, Node(pyRequest(py, req)))
        [] c.client \in {"eip1193", "eip1193Twice", "provider"} ->
             Asked(CASE c.client = "eip1193" -> eip1193
                     [] c.client = "eip1193Twice" -> wrapEthereumProvider(eip1193)
                     [] OTHER -> ethers)
        [] OTHER -> Signed(IF c.client = "wrappedWallet" THEN Signer("wallet", ethers)
                           ELSE Signer(c.client, << >>))

\* The calls that the clients are for: an ethers provider sends nothing of its
\* own, and the binding of a contract in Go always has data.
Serves(c) ==
  /\ c.client = "provider" => c.method \in EthersCalls
  /\ c.client = "go" => isBytesLike(c.data) /\ c.data # Hex(NoBytes)

\* These calls, with what they come to.
ClientCalls ==
  {[c EXCEPT !.answer = Answer(c)] : c \in {r \in ClientRequests : Serves(r)}}

BytesOf(c) == IF c.data = Undefined THEN NoBytes ELSE c.data[2]
IsEthers(c) == c.client \in EthersClients
Fails(c) == c.ending \in {"fail", "refused"}

\* What a caller cannot do: call with data that is none, or without a provider;
\* with ethers, call with data that happens to be CBOR or, but for a signer of
\* the node, without any; with Python, without the field, or to learn a result
\* in the form for calls of unknown origin.
Refuses(c) ==
  LET estimates == c.method \in EthersCalls
  IN  \/ c.data = NotBytes
      \/ c.client = "detached"
      \/ IsEthers(c) /\ estimates /\ BytesOf(c) \in SomeCbor \ {CborBytes(NullItem)}
      \/ IsEthers(c) /\ c.data = Undefined /\ (estimates \/ c.client # "jsonRpcSigner")
      \/ c.client = "python" /\ c.data = Undefined /\ should_intercept(c.method, c.to)
      \/ c.client = "python" /\ c.method = "eth_call" /\ c.ending = "unknown"

SentWithGo(c) == c.client = "go" /\ c.method = "eth_sendTransaction"

\* What is not encrypted: balance transfers, deployments with Python, and with
\* Go transactions with data that is taken for packed already and is not.
InTheClear(c) ==
  \/ c.data = Undefined
  \/ c.client = "python" /\ ~ should_intercept(c.method, c.to)
  \/ SentWithGo(c) /\ BytesOf(c) \in HollowCalls

\* Where an envelope of the caller's is taken for one.
TakesEnvelope(c) ==
  /\ BytesOf(c) = OwnEnvelope
  /\ \/ IsEthers(c) /\ c.method \in EthersCalls
     \/ SentWithGo(c)
     \/ InTheClear(c)

\* The contract was called with these bytes, and the caller told so.
Told(c, encrypted, bytes) ==
  IF c.method = "eth_call" THEN Hex(Returned(encrypted, bytes)) ELSE Executed(Returned(encrypted, bytes))

RightAnswer(c) ==
  IF ~ TakesEnvelope(c) THEN Told(c, ~ InTheClear(c), BytesOf(c))
  ELSE IF c.method = "eth_call" THEN Hex(RuntimeAnswers(OwnEnvelope, c.ending))
  ELSE Told(c, TRUE, PlainBytes(2))

CallAnswered(c) ==
  IF ~ Refuses(c) /\ (Fails(c) => TakesEnvelope(c) /\ c.method = "eth_call")
  THEN c.answer = RightAnswer(c)
  ELSE Throws(c.answer)

EthersServed(c) == IsEthers(c) /\ c.client # "detached" /\ c.data # NotBytes /\ ~ Fails(c) => ~ Throws(c.answer)

-----------------------------------------------------------------------------
\* Two requests in one batch to the proxy, of which one is this raw one.
ProxyStops(c) ==
  LET raw == [method |-> "eth_sendRawTransaction", data |-> c.data, to |-> c.to,
              testAccount |-> c.testAccount]
      other == [raw EXCEPT !.method = c.method, !.data = Hex(OwnEnvelope)]
  IN  onRequest(<<other, raw>>) /\ c.testAccount /\ c.to =>
        RuntimeDecodes(BytesOf(c)).secret # {}

ProxyTransparent(c) ==
  c.data # Undefined /\ ~ InTheClear(c) => CallAnswered([c EXCEPT !.ending = "ok"])

-----------------------------------------------------------------------------
\* The results that the JavaScript cipher encrypts, and those that the runtime
\* could send: under each of its fields, in the clear or sealed, and in the seal
\* again under each of the fields.
EncryptedResults ==
  [alg : {"cipherResult"}, ok : {Undefined, U8(NoBytes), U8(PlainBytes(1))},
   innerFail : {Undefined, Failure}, outerFail : {Undefined, Failure}, epoch : {7, 8}]
ResultFields == {"ok", "unknown", "fail"}
RuntimeResults ==
  [alg : {"runtimeResult"}, field : ResultFields, sealed : BOOLEAN, inner : ResultFields,
   bytes : {NoBytes, PlainBytes(1)}, epoch : {7, 8}]
CipherResults == EncryptedResults \cup RuntimeResults

\* What JavaScript, in the form that the result came in, Go and Python make of a
\* result: these bytes, or if Undefined an error.
JsGets(bytes, result) ==
  LET cipher == Cipher(ClientKey, 7)
      hex == decryptResult(cipher, Hex(result))
      array == decryptResult(cipher, U8(result))
  IN  IF bytes = Undefined THEN Throws(hex) /\ Throws(array) ELSE hex = Hex(bytes[2]) /\ array = bytes
GoGets(bytes, result) ==
  DecryptCallResult(NewX25519DeoxysIICipher(ClientKey, 7), result) =
    IF bytes = Undefined THEN Err ELSE bytes[2]
PyGets(bytes, result) ==
  LET answer == decrypt_response(TransactionCipher(ClientKey, 7), result)
  IN  IF bytes = Undefined THEN Throws(answer) ELSE answer = bytes

\* All make the same of it.
AllGet(bytes, result) == JsGets(bytes, result) /\ GoGets(bytes, result) /\ PyGets(bytes, result)

\* The same of the calls: either end of the cipher decrypts them.
CallReadsBack(bytes, epoch) ==
  LET cipher == Cipher(ClientKey, epoch)
      wrong == Cipher(ClientKey, epoch + 1)
      call == encryptCall(cipher, bytes)
  IN  /\ bytes # U8(NoBytes) => decryptCall(cipher, call) = bytes /\ Throws(decryptCall(wrong, call))
      /\ \A envelope \in {EncryptEnvelope(NewX25519DeoxysIICipher(ClientKey, epoch), PlainBytes(4)),
                          make_envelope(TransactionCipher(ClientKey, epoch), PlainBytes(4))} :
           decryptCall(cipher, Hex(CborBytes(envelope))) = Hex(PlainBytes(4))
      /\ PlainDecryptCallResult(CborBytes(MapItem([ok |-> BytesItem(PlainBytes(4))]))) = PlainBytes(4)
      /\ PlainDecryptCallResult(CborBytes(MapItem([fail |-> Failure]))) = Err

EncryptedResultRead(c) ==
  LET given == {f \in {"ok", "innerFail", "outerFail"} : c[f] # Undefined}
      result == encryptResult(Cipher(ClientKey, c.epoch), c.ok, c.innerFail, c.outerFail)
  IN  /\ Throws(result) <=> Cardinality(given) # 1
      /\ ~ Throws(result) =>
           AllGet(IF c.epoch = 7 THEN c.ok ELSE Undefined, result[2])
      /\ c.ok # Undefined => CallReadsBack(c.ok, c.epoch)

RuntimeResult(c) ==
  LET content == [f \in {c.inner} |-> IF f = "fail" THEN Failure ELSE BytesItem(c.bytes)]
      secret == SharedSecret(ClientKey, RuntimeKey(c.epoch))
  IN  CborBytes(MapItem([f \in {c.field} |->
        IF f = "fail" THEN Failure
        ELSE IF c.sealed THEN Aead(secret, MapItem(content)) ELSE BytesItem(c.bytes)]))

ReadIf(readable, bytes) == IF readable THEN U8(bytes) ELSE Undefined

\* What was sealed for this key under ok is read by all, wherever Python knows
\* the field around the seal; under unknown in the seal, by Go alone.  What is
\* in the clear all refuse but Go, which hands it out with the head of its CBOR.
RuntimeResultRead(c) ==
  LET result == RuntimeResult(c)
      opens == c.sealed /\ c.field # "fail" /\ c.epoch = 7
  IN  /\ JsGets(ReadIf(opens /\ c.inner = "ok", c.bytes), result)
      /\ PyGets(ReadIf(opens /\ c.inner = "ok" /\ c.field = "ok", c.bytes), result)
      /\ GoGets(IF c.sealed THEN ReadIf(opens /\ c.inner # "fail", c.bytes)
                ELSE ReadIf(c.field # "fail", CborBytes(BytesItem(c.bytes))), result)

-----------------------------------------------------------------------------
\* The query that a client signs, as the node gets it.
SignedCall(c) ==
  LET call == [from |-> c.from, to |-> c.to, gas |-> c.gas, gasPrice |-> c.gasPrice,
               value |-> c.value, chainId |-> c.chainId, data |-> PlainBytes(1)]
  IN  IF c.client = "go"
      THEN PackSignedCall(NewX25519DeoxysIICipher(ClientKey, 7), call, makeLeash(c.block, c.nonce))
      ELSE new_signed_call_data_pack(TransactionCipher(ClientKey, 7), call, PlainBytes(1),
                                     SignedCallData(c.block, c.block - 1, c.nonce))

SignedQueryVerified(c) ==
  LET call == SignedCall(c)
      answer == RuntimeAnswers(call.data, "ok")
  IN  /\ RuntimeVerifies(call, c.block + c.delay, c.nonceAfter) <=> c.delay <= 14 /\ c.nonceAfter <= c.nonce
      /\ DecryptCallResult(NewX25519DeoxysIICipher(ClientKey, 7), answer) = Returned(TRUE, PlainBytes(1))
      /\ call.gas # 0 /\ call.gasPrice # 0
=============================================================================
