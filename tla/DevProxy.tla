------------------------------ MODULE DevProxy ------------------------------
(***************************************************************************)
(* The proxy that the tests of the clients run behind, proxy.ts: it stops  *)
(* at whatever a wrapped client should have encrypted, and passes on the   *)
(* rest.                                                                   *)
(***************************************************************************)
EXTENDS Envelopes

\* What is read as data: an item, or nothing if it is no CBOR, or null.
EnvelopeOf(data) ==
  LET item == cborDecode(data) IN IF item = NullItem THEN Undecodable ELSE item

HasPk(item) == HasMap(item, "body") /\ HasField(item[2].body, "pk")

\* Mutant: whatever is no envelope passes.
handleSendRawTransactionAny(tx) ==
  LET envelope == EnvelopeOf(IF isBytesLike(tx.data) THEN tx.data[2] ELSE NoBytes)
  IN  IF envelope = Undecodable \/ HasPk(envelope) THEN <<"true">> ELSE Throw("not a struct")

\* The envelope of a transaction; without one, only deployments and senders
\* other than the test accounts may pass.
handleSendRawTransaction(tx) ==
  LET envelope == EnvelopeOf(IF isBytesLike(tx.data) THEN tx.data[2] ELSE NoBytes)
  IN  IF envelope = Undecodable
        THEN IF ~ tx.to \/ ~ tx.testAccount THEN <<"true">> ELSE Throw("NOT ENCRYPTED.TX")
      ELSE IF ~ HasField(envelope, "format") \/ envelope[2].format # <<"number", 1>>
        THEN Throw("not encrypted")
      ELSE IF HasPk(envelope) THEN <<"true">> ELSE Throw("not a struct")

\* A call or an estimate: a plain one passes, one that looks like an envelope
\* and is none does not.
handleRequestCallOrEstimate(params) ==
  LET envelope == EnvelopeOf(params.data[2])
  IN  IF ~ isBytesLike(params.data) THEN Throw("invalid BytesLike value")
      ELSE IF envelope = Undecodable THEN <<"true">>
      ELSE IF ~ (HasField(envelope, "body") /\ HasField(envelope, "format"))
        THEN Throw("Unknown envelope type!")
      ELSE IF envelope[2].format # <<"number", 1>> \/ ~ HasPk(envelope)
        THEN Throw("not encrypted")
      ELSE <<"true">>

checkBody(body) ==
  CASE body.method \in {"eth_call", "eth_estimateGas"} -> handleRequestCallOrEstimate(body)
    [] body.method = "eth_sendRawTransaction" -> handleSendRawTransaction(body)
    [] OTHER -> <<"true">>

\* Whether a batch is passed on, which it is as a whole or not at all.
onRequest(bodies) == \A i \in DOMAIN bodies : ~ Throws(checkBody(bodies[i]))

\* A node that is reached through the proxy, for one of the endings.
Backend(req, ending) ==
  IF ending # "proxy" THEN NodeRequest(req, ending)
  ELSE IF onRequest(<<req>>) THEN NodeRequest(req, "ok") ELSE Throw("proxy")
=============================================================================
