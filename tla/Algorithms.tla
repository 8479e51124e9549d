----------------------------- MODULE Algorithms -----------------------------
(***************************************************************************)
(* The pure parts of the contracts, each on a small set of inputs and      *)
(* against a reference: a decoder for each encoder, the runtime's encoder  *)
(* for each decoder, the calendar for the timestamps.                      *)
(*                                                                         *)
(* A state is one input; the dates follow each other from 1970 on.  The    *)
(* deployments of OplConfig are the states without an input.               *)
(***************************************************************************)
EXTENDS SubcallRequests, SubcallResults, EthereumUtils, TxSigners, SiweParser, OplConfig, Decoders,
        ClientCalls, EncryptedEvents, KeyAnswer

CONSTANTS Idle, LastYear

\* A date is written with four digits for the year.
ASSUME LastYearAssumption == LastYear \in Nat /\ LastYear <= 9998

VARIABLE input

\* Words of up to n bytes around the limits of every size.
WordOf(first, len, rest) == <<first>> \o Filled(len - 1, rest)
Words(n) ==
  {<< >>} \cup {WordOf(first, len, rest) :
                  first \in {1, 23, 24, 128, 255}, len \in 1..n, rest \in {0, 255}}
UpTo(bytes) == {w \in Words(16) : Len(w) <= bytes}

\* The forms the runtime may give an integer of at most width bytes: an
\* unsigned integer, or a byte string, which need not be the shortest.
Forms(word, width) ==
  (IF Len(word) <= 8 THEN {encodeUint(word)} ELSE {})
    \cup {<<64 + n>> \o Padded(word, n) : n \in {Len(word), width}}

-----------------------------------------------------------------------------
ChooseUint ==
  \E w \in Words(32), before \in {<< >>, <<24, 88>>}, after \in {<< >>, <<7>>} :
    input' = [alg |-> "uint", word |-> w, before |-> before, after |-> after]

ChooseLength ==
  \E len \in 0..300 \cup 65530..65540 : input' = [alg |-> "length", len |-> len]

ChooseDelegate ==
  \E shares \in UpTo(16) : \E form \in Forms(shares, 16) :
    input' = [alg |-> "delegate", shares |-> shares,
              data |-> <<161>> \o Text(SharesKey) \o form]

\* {error: {module, code}}, in place of the shares.
ChooseDelegateError ==
  \E code \in UpTo(1) :
    input' = [alg |-> "delegateError",
              data |-> <<161>> \o Text(Key(5, 101)) \o <<162>> \o Text(Key(6, 109))
                         \o Text(Key(9, 99)) \o Text(Key(4, 99)) \o encodeUint(code)]

ChooseUndelegateStart ==
  \E epoch, receipt \in UpTo(8) : \E e \in Forms(epoch, 8), r \in Forms(receipt, 8) :
    LET epochPair == Text(EpochKey) \o e
        receiptPair == Text(ReceiptKey) \o r
    IN  \E pairs \in {epochPair \o receiptPair, receiptPair \o epochPair} :
          /\ Len(epoch) \in {0, 1, 8} /\ Len(receipt) \in {1, 5, 8}
          /\ input' = [alg |-> "undelegateStart", epoch |-> epoch, receipt |-> receipt,
                       data |-> <<162>> \o pairs]

ChooseUndelegateDone ==
  \E amount \in UpTo(16) : \E form \in Forms(amount, 16) :
    input' = [alg |-> "undelegateDone", amount |-> amount,
              data |-> <<161>> \o Text(AmountKey) \o form]

\* A map with its keys in this order, and the calldata public key, its two maps
\* in any order.
MapOf(keys, encoded) ==
  <<160 + Len(keys)>> \o FlattenSeq([i \in DOMAIN keys |-> Text(keys[i]) \o encoded[keys[i]]])

EncodedKey(public) ==
  [key \in DOMAIN public |->
     CASE key = SignatureKey -> <<88, 64>> \o Padded(public[key][1], 32) \o Padded(public[key][2], 32)
       [] key = ExpirationKey -> encodeUint(public[key])
       [] key \in {KeyKey, ChecksumKey} -> <<88, 32>> \o Padded(public[key], 32)]

EncodedAnswer(epoch, public, outer, inner) ==
  MapOf(outer, [key \in DOMAIN NoAnswer |->
    IF key = EpochKey THEN encodeUint(epoch) ELSE MapOf(inner, EncodedKey(public))])

PublicKey(key, expiration) ==
  [field \in DOMAIN NoPublicKey |->
     CASE field = KeyKey -> key [] field = ChecksumKey -> <<5>> [] field = ExpirationKey -> expiration
       [] field = SignatureKey -> <<<<3>>, Filled(32, 4)>>]

ChoosePublicKey ==
  \E epoch, expiration \in {<< >>, <<24>>, <<1, 0>>}, key \in {<<9>>, Filled(32, 7)},
     outer \in SetToSeqs(DOMAIN NoAnswer), inner \in SetToSeqs(DOMAIN NoPublicKey) :
    input' = [alg |-> "publicKey", epoch |-> epoch, public |-> PublicKey(key, expiration),
              data |-> EncodedAnswer(epoch, PublicKey(key, expiration), outer, inner)]

\* A DER signature, the way its definition writes integers.
DerInteger(word) == IF word = << >> \/ word[1] >= 128 THEN <<0>> \o word ELSE word
DerSignature(r, s) ==
  LET body == <<2, Len(DerInteger(r))>> \o DerInteger(r)
                \o <<2, Len(DerInteger(s))>> \o DerInteger(s)
  IN  <<48, Len(body)>> \o body

ChooseSignature ==
  LET Components == UNION {[1..n -> {0, 1, 127, 128, 255}] : n \in 1..WordBytes}
  IN  \E r, s \in {Word(c) : c \in Components} :
        input' = [alg |-> "signature", r |-> r, s |-> s, der |-> DerSignature(r, s)]

\* A transaction of each type, with its calldata around the limits of lengths.
ChooseTransaction ==
  \E type \in 0..2, chainId \in {<<1>>, <<97>>, <<90, 254>>}, parity \in 0..1,
     value \in {<< >>, <<127>>, <<128>>, Filled(32, 255)},
     n \in {0, 1, 20, 54, 55, 56, 57, 255, 256}, byte \in {0, 127, 128}, keys \in 0..2 :
    /\ type = 0 => keys = 0
    /\ input' =
         [alg |-> "transaction",
          tx |-> [type |-> type, chainId |-> chainId, nonce |-> <<24>>, gasPrice |-> <<1, 0>>,
                  tip |-> << >>, gasLimit |-> <<3, 208, 144>>, to |-> Filled(20, byte),
                  value |-> value, data |-> Filled(n, byte),
                  accessList |-> IF keys = 0 THEN << >> ELSE
                    <<[addr |-> Filled(20, 1), storageKeys |-> Filled(keys, Filled(32, 2))]>>],
          sig |-> [parity |-> parity, r |-> Filled(32, 128), s |-> Filled(31, 9)]]

\* A request of the Subcall library.
ChooseRequest ==
  \E amount \in UpTo(16), receiptId \in UpTo(8), kind \in 1..3, tokenLength \in {0, 19, 20} :
    /\ Len(amount) \in {0, 1, 16}
    /\ input' = [alg |-> "request", amount |-> amount, receiptId |-> receiptId, kind |-> kind,
                 address |-> Filled(21, 6), token |-> Filled(tokenLength, 84)]

\* Calldata to encrypt, around the limits of the lengths of its envelope.
ChooseCallData ==
  \E len \in 1..40 \cup 225..260, epoch \in UpTo(8) :
    /\ Len(epoch) \in 0..3
    /\ input' = [alg |-> "calldata", data |-> Filled(len, 8), epoch |-> epoch,
                 pk |-> Filled(32, 1), nonce |-> Filled(15, 2)]

\* A call through a client, a result of a cipher, a signed query.
ChooseClientCall == \E c \in ClientCalls \cup CipherResults \cup SignedRequests : input' = c

\* A transaction of the encrypted-events example, and who reads it how.
ChooseEvents ==
  \E first \in EmitArgs, read \in ReadArgs, chain \in {Localnet, "testnet"},
     second \in {<< >>} \cup {<<e>> : e \in SecondEmits} :
    input' = [alg |-> "events", emits |-> <<first>> \o second, read |-> read, chain |-> chain]

\* A sign-in message, with and without its optional parts.
Line(name, value) == <<name, ":", " ">> \o value \o <<NewLine>>
Optional(name, value) == IF value = NoText THEN << >> ELSE Line(name, value)
Message(f) ==
  f.schemeDomain \o <<" ">> \o Filled(48, "x") \o <<NewLine>>
    \o <<"0", "x">> \o f.addr \o <<NewLine, NewLine>>
    \o (IF f.statement = NoText THEN << >> ELSE f.statement \o <<NewLine>>) \o <<NewLine>>
    \o Line("URI", f.uri) \o Line("Version", f.version) \o Line("Chain ID", f.chainId)
    \o Line("Nonce", f.nonce) \o Line("Issued At", f.issuedAt)
    \o Optional("Expiration Time", f.expirationTime) \o Optional("Not Before", f.notBefore)
    \o Optional("Request ID", f.requestId)
    \o (IF f.resources = << >> THEN << >> ELSE <<"Resources", ":", NewLine>>)
    \o FlattenSeq([k \in DOMAIN f.resources |-> <<"-", " ">> \o f.resources[k] \o <<NewLine>>])

SignInMessages ==
  LET time == <<"t", ":", "t">>
      uri == <<"h", ":", "/">>
  IN  [schemeDomain : {<<"d", ":", "1">>}, addr : {Filled(40, "a")},
       statement : {NoText, <<"I", " ", "a", ":", "b">>}, uri : {uri}, version : {<<"1">>},
       chainId : {<<"9">>}, nonce : {Filled(n, "n") : n \in 7..9}, issuedAt : {time},
       expirationTime : {NoText, time}, notBefore : {NoText, time},
       requestId : {NoText, <<"i", ":">>}, resources : {<< >>, <<uri>>, <<uri, <<"-">>, uri>>}]

ChooseMessage ==
  \E fields \in SignInMessages, lastNewLine \in BOOLEAN :
    input' = [alg |-> "message", fields |-> fields,
              text |-> IF lastNewLine THEN Message(fields) ELSE Front(Message(fields))]

\* The calendar, one day after the other.
Date(year, month, day, count) ==
  [alg |-> "date", year |-> year, month |-> month, day |-> day, count |-> count]
MonthLength(year, month) ==
  CASE month = 2 -> IF year % (IF year % 100 = 0 THEN 400 ELSE 4) = 0 THEN 29 ELSE 28
    [] month \in {4, 6, 9, 11} -> 30
    [] OTHER -> 31

FirstDay == input' = Date(1970, 1, 1, 0)
NextDay ==
  /\ input # Idle
  /\ input.alg = "date" /\ input.year <= LastYear
  /\ LET y == input.year
         m == input.month
         d == input.day
     IN  input' = IF d < MonthLength(y, m) THEN Date(y, m, d + 1, input.count + 1)
                  ELSE IF m < 12 THEN Date(y, m + 1, 1, input.count + 1)
                  ELSE Date(y + 1, 1, 1, input.count + 1)

Init == ConfigInit /\ input = Idle

ChooseInput ==
  /\ input = Idle /\ host = NoContract /\ enclave = NoContract
  /\ \/ ChooseUint
     \/ ChooseLength
     \/ ChooseDelegate
     \/ ChooseDelegateError
     \/ ChooseUndelegateStart
     \/ ChooseUndelegateDone
     \/ ChoosePublicKey
     \/ ChooseSignature
     \/ ChooseTransaction
     \/ ChooseRequest
     \/ ChooseCallData
     \/ ChooseMessage
     \/ ChooseClientCall
     \/ ChooseEvents
     \/ FirstDay

Next ==
  \/ (ChooseInput \/ NextDay) /\ UNCHANGED <<host, enclave>>
  \/ input = Idle /\ ConfigNext /\ UNCHANGED input

Spec == Init /\ [][Next]_<<input, host, enclave>>
-----------------------------------------------------------------------------
Given(alg) == input # Idle /\ input.alg = alg

ReadsBack ==
  LET bytes == input.before \o encodeUint(input.word)
  IN  parseUint(bytes \o input.after, Len(input.before)) = Parsed(Len(bytes), input.word)

\* What encodeUint and encodeBytes write is CBOR in its shortest form, an
\* unsigned integer, beyond 64 bits a byte string, or a byte string of this
\* length; and parseUint reads every such number back, among other bytes too
\* (CBOR.sol:34-73, 88-143).
EncodedIsCbor ==
  /\ Given("uint") /\ Len(input.word) <= 16 =>
       /\ ReadsBack
       /\ CborWhole(encodeUint(input.word)) =
            IF Len(input.word) <= 8 THEN AsUint(input.word) ELSE AsBytes(Padded(input.word, 16))
  /\ Given("length") =>
       IF input.len > 65535 THEN bytesHeader(input.len) = Reverted
       ELSE CborWhole(encodeBytes(Filled(input.len, 7))) = AsBytes(Filled(input.len, 7))

\* parseUint reads back what encodeUint writes for all 256 bits, which is what
\* the test of the library says of it (TestCBOR.sol, testUintRoundtrip).
AnyUintRoundTrip == Given("uint") => ReadsBack

\* The decoders find what the runtime put there.
ReceiptsFound ==
  /\ Given("delegate") => decodeReceiptDelegate(input.data) = input.shares
  /\ Given("undelegateDone") => decodeReceiptUndelegateDone(input.data) = input.amount
  /\ Given("undelegateStart") =>
       LET got == decodeReceiptUndelegateStart(input.data)
       IN  got # Reverted /\ got[EpochKey] = input.epoch /\ got[ReceiptKey] = input.receipt

\* They find nothing in a receipt cut short, an error or another kind.
HasReceipt ==
  \E alg \in {"delegate", "delegateError", "undelegateStart", "undelegateDone"} : Given(alg)

OnlyWholeReceipts ==
  \A n \in 0..(IF HasReceipt THEN Len(input.data) ELSE -1) :
    LET data == SubSeq(input.data, 1, n)
        whole(alg) == n = Len(input.data) /\ Given(alg)
    IN  /\ whole("delegate") \/ decodeReceiptDelegate(data) = Reverted
        /\ whole("undelegateStart") \/ decodeReceiptUndelegateStart(data) = Reverted
        /\ whole("undelegateDone") \/ decodeReceiptUndelegateDone(data) = Reverted

\* The decoders of the three receipts find what the runtime put there, in
\* any order of the keys and form of the integers; and none of them makes a
\* number of a receipt cut short, of an error or of a receipt of another kind
\* (Subcall.sol:226-309).
ReceiptsDecode == ReceiptsFound /\ OnlyWholeReceipts

\* The JavaScript client finds the key's CBOR in the ABI encoding of the
\* answer, and nothing in one that is cut short or has a status.
AbiAnswer(status, data) ==
  LET n == Len(data)
  IN  Padded(status, 32) \o Padded(<<64>>, 32) \o Padded(BigEndian(n), 32)
        \o data \o Filled((32 - (n % 32)) % 32, 0)

KeyAnswerRead(data) ==
  /\ runtimePublicKeyCbor(AbiAnswer(<< >>, data)) = data
  /\ runtimePublicKeyCbor(AbiAnswer(<<1, 0>>, data)) = AbiDecodeError
  /\ \A cut \in 0..(95 + Len(data)) :
       runtimePublicKeyCbor(SubSeq(AbiAnswer(<< >>, data), 1, cut)) = AbiDecodeError

KeyFound(epoch, public, data) ==
  LET got == parseCallDataPublicKey(data)
  IN  /\ got # Reverted
      /\ got.newOffset = Len(data)
      /\ got.value[EpochKey] = epoch
      /\ got.value[PublicKeyKey] = public

\* The calldata public key and its epoch are found whatever the order of
\* the two maps, by the contracts; and its encoding by the JavaScript client
\* (Subcall.sol:577-659, calldatapublickey.ts:58-83, 114-127).
PublicKeyFound ==
  Given("publicKey") =>
    KeyAnswerRead(input.data) /\ KeyFound(input.epoch, input.public, input.data)

\* A DER signature gives the r and s it was made of, however short they are,
\* and none at all with a byte too many or too few (EthereumUtils.sol:143-201).
SignatureSplit ==
  Given("signature") =>
    /\ splitDERSignature(input.der) = [r |-> input.r, s |-> input.s]
    /\ splitDERSignature(Append(input.der, 0)) = Reverted
    /\ \A n \in 0..(Len(input.der) - 1) : splitDERSignature(SubSeq(input.der, 1, n)) = Reverted

\* What a transaction of each type is to decode to, without its signature.
AsField(bytes) == [bytes |-> bytes]
AsList(items) == [list |-> items]
AsKeys(keys) == AsList([j \in DOMAIN keys |-> AsField(keys[j])])
AsAccess(access) == AsList(<<AsField(access.addr), AsKeys(access.storageKeys)>>)
AsAccessList(accesses) == AsList([i \in DOMAIN accesses |-> AsAccess(accesses[i])])

FieldsOf(tx) ==
  IF tx.type = 0
  THEN <<AsField(tx.nonce), AsField(tx.gasPrice), AsField(tx.gasLimit), AsField(tx.to),
         AsField(tx.value), AsField(tx.data)>>
  ELSE <<AsField(tx.chainId), AsField(tx.nonce)>>
         \o (IF tx.type = 2 THEN <<AsField(tx.tip)>> ELSE << >>)
         \o <<AsField(tx.gasPrice), AsField(tx.gasLimit), AsField(tx.to), AsField(tx.value),
              AsField(tx.data), AsAccessList(tx.accessList)>>

\* A transaction is read as the list after the byte of its type.
ReadBack(tx, bytes) == RlpList(IF tx.type = 0 THEN bytes ELSE Tail(bytes))

\* The chain and the parity of the signature, which v has both of in EIP-155.
SignedFor(tx, sig, v) ==
  IF tx.type # 0 THEN v = sig.parity
  ELSE v >= 35 /\ (v - 35) % 2 = sig.parity /\ (v - 35) \div 2 = Value(tx.chainId)

\* A signed transaction decodes to its fields, and they are the ones that
\* were signed, for the chain that v or the fields name (EIP155Signer.sol:
\* 27-85, EIP1559Signer.sol:28-124, EIP2930Signer.sol:27-121).
SentAsSigned(tx, sig) ==
  LET signed == ReadBack(tx, unsignedTx(tx))
      sent == ReadBack(tx, signedTx(tx, sig))
      n == Len(FieldsOf(tx))
  IN  /\ tx.type # 0 => Head(unsignedTx(tx)) = tx.type /\ Head(signedTx(tx, sig)) = tx.type
      /\ signed = FieldsOf(tx) \o
           IF tx.type = 0 THEN <<AsField(tx.chainId), AsField(<< >>), AsField(<< >>)>> ELSE << >>
      /\ Len(sent) = n + 3
      /\ SubSeq(sent, 1, n) = FieldsOf(tx)
      /\ SignedFor(tx, sig, Value(sent[n + 1].bytes))
      /\ SubSeq(sent, n + 2, n + 3) = <<AsField(sig.r), AsField(sig.s)>>

WhatIsSignedIsSent == Given("transaction") => SentAsSigned(input.tx, input.sig)

\* A request, whether the library refuses it, and what the runtime reads if not.
Sent(refused, bytes, read) == [refused |-> refused, bytes |-> bytes, read |-> read]

\* One to take a receipt is sent for every id but 0, and not read for an id that
\* has a shorter form than the one of 8 bytes.
SentRequests ==
  LET amount == AsBytes(Padded(input.amount, 16))
      to == <<AsText(ToKey), AsBytes(input.address)>>
      from == <<AsText(FromKey), AsBytes(input.address)>>
      coins(token) == <<AsText(AmountArg), AsArray(<<amount, AsBytes(token)>>)>>
      shares == <<AsText(SharesArg), amount>>
      receipt == <<AsText(ReceiptArg), AsUint(input.receiptId)>>
      short == Len(input.receiptId) <= 4
  IN  <<Sent(Len(input.token) > 19, toAndAmount(input.address, input.amount, input.token),
             AsMap(to \o coins(input.token))),
        Sent(short, delegateWithReceipt(input.address, input.amount, input.receiptId),
             AsMap(to \o coins(<< >>) \o receipt)),
        Sent(FALSE, undelegate(input.address, input.amount), AsMap(from \o shares)),
        Sent(short, undelegateWithReceipt(input.address, input.amount, input.receiptId),
             AsMap(from \o shares \o receipt)),
        Sent(input.receiptId = << >>, takeReceipt(input.kind, input.receiptId),
             IF short THEN NoItem
             ELSE AsMap(<<AsText(IdKey), AsUint(input.receiptId),
                          AsText(KindKey), AsUint(<<input.kind>>)>>))>>

SentEnvelopes ==
  <<Sent(FALSE, plainEnvelope(input.data), AsMap(<<AsText(BodyKey), AsBytes(input.data)>>)),
    Sent(FALSE, encryptCallData(input.data, input.pk, input.nonce, input.epoch),
         AsMap(<<AsText(BodyKey),
                 AsMap(<<AsText(PkKey), AsBytes(input.pk),
                         AsText(DataKey), AsBytes(Ciphertext(plainEnvelope(input.data))),
                         AsText(EpochArg), AsUint(input.epoch),
                         AsText(NonceKey), AsBytes(input.nonce)>>),
                 AsText(FormatKey), AsUint(<<1>>)>>))>>

\* The library refuses a token name of more than 19 letters, a receipt that a
\* delegation is to leave under an id below 2^32, and to take the receipt 0; every
\* other request is one the runtime decodes to what was asked for, but for those
\* to take a receipt with an id below 2^32, which are sent and decode to nothing.
\* And so is the envelope of a contract's call, and what is encrypted in it
\* (Subcall.sol:137-161, 182-205, 353-481, CalldataEncryption.sol:20-102).
RequestsUnderstood ==
  LET sent == CASE Given("request") -> SentRequests
                [] Given("calldata") -> SentEnvelopes
                [] OTHER -> << >>
  IN  \A i \in DOMAIN sent :
        IF sent[i].refused THEN sent[i].bytes = Reverted
        ELSE sent[i].bytes # Reverted /\ CborWhole(sent[i].bytes) = sent[i].read

\* Each part of a sign-in message ends up in its own field, whichever of the
\* optional parts are there; a nonce of less than 8 characters is refused
\* (SiweParser.sol:99-237).
SiweFieldsFound ==
  Given("message") =>
    parseSiweMsg(input.text) = IF Len(input.fields.nonce) < 8 THEN Reverted ELSE input.fields

\* Timestamps count the days of the calendar, from the text of a date
\* (SiweParser.sol:242-256, DateTime.sol:12-86).
DaysMatchCalendar ==
  Given("date") =>
    LET digit(n, unit) == (n \div unit) % 10
        text == <<digit(input.year, 1000), digit(input.year, 100), digit(input.year, 10),
                  digit(input.year, 1), "-", digit(input.month, 10), digit(input.month, 1), "-",
                  digit(input.day, 10), digit(input.day, 1),
                  "T", 2, 3, ":", 5, 8, ":", 0, 7, "Z">>
    IN  timestampFromIso(text) =
          [days |-> input.count, seconds |-> 23 * 3600 + 58 * 60 + 7]

\* Whatever the client and the method, the contract is called with the bytes
\* that the caller gave, encrypted unless they are public or, sent with Go, happen
\* to decode as a call, and the caller gets what it returns, in the clear; a
\* failed call is never taken for a result, and what a client cannot send is
\* refused (provider.ts:211-274, ethers-v6 index.ts:93-281, viem-v2 index.ts:
\* 156-166, sapphire.py:86-118, compat.go:57-79, 199-220, 291-297).
CallsAnswered == Given("clientCall") /\ input.ending # "proxy" => CallAnswered(input)

\* A wrapped ethers provider or signer makes every call that the unwrapped
\* one makes; of balance transfers, cipher.ts:106 says that all their data is
\* public.
EthersServesEveryCall == Given("clientCall") => EthersServed(input)

\* The ciphers of the three clients understand each other's calls, and read
\* the same of every result that the JavaScript cipher makes, the failures among
\* them.  Of the other forms of a result each reads exactly those it knows: all
\* read ok sealed within ok, JavaScript and Go also within unknown, Go alone
\* unknown in the seal and, with the head of its CBOR, what is not sealed; and
\* none takes a failure, or another key's seal, for an answer (cipher.ts:102-208,
\* cipher.go:58-106, 166-256, envelope.py:80-141).
CiphersAgree ==
  /\ Given("cipherResult") => EncryptedResultRead(input)
  /\ Given("runtimeResult") => RuntimeResultRead(input)

\* The runtime accepts a signed query, whichever fields the caller leaves to
\* the defaults, unless the account is used or 14 blocks pass in between, and
\* then not (compat.go:90-117, 270-289, sapphire.py:123-209).
SignedQueriesVerified == Given("signedCall") => SignedQueryVerified(input)

\* The proxy is transparent to the wrapped clients, in what they encrypt, and lets no transaction of
\* a test account through that calls a contract in the clear, in whichever
\* batch (proxy.ts:68-238).
ProxyGuards ==
  /\ Given("clientCall") => ProxyStops(input)
  /\ Given("clientCall") /\ input.ending = "proxy" => ProxyTransparent(input)

\* Who reads the events of a contract with the settings of an emission gets
\* its message, and nobody else any; of several in one transaction, decrypt
\* reads the first of the contract it is given, and does not guess between
\* contracts (enc.ts:42-80, 106-220, 236-515).
EventsDecrypted == Given("events") => EventsRead(input)
=============================================================================
