--------------------------- MODULE SubcallResults ---------------------------
(***************************************************************************)
(* How Subcall.sol decodes what the runtime answers: the three kinds of    *)
(* receipts, and the calldata public key.                                  *)
(***************************************************************************)
EXTENDS CBOR

CONSTANT Missing   \* a field that was not found

EpochKey == Key(5, 101)
ReceiptKey == Key(7, 114)
AmountKey == Key(6, 97)
SharesKey == Key(6, 115)
KeyKey == Key(3, 107)
ChecksumKey == Key(8, 99)
SignatureKey == Key(9, 115)
ExpirationKey == Key(10, 101)
PublicKeyKey == Key(10, 112)

\* What a receipt's loop finds is no revert.
ASSUME ReceiptAssumption ==
  \A keys \in SUBSET {EpochKey, ReceiptKey, AmountKey} : Reverted \notin [keys -> Seq(Nat)]

\* A number stored under its key, and what is found later, which counts.
Stored(key, value, later) ==
  [k \in DOMAIN later \cup {key} |-> IF k \in DOMAIN later THEN later[k] ELSE value]

\* The loop of _decodeReceiptUndelegateStart and -Done: integers of these keys
\* are stored, other keys are stepped over; found is what the rest of it finds.
ReceiptValue(key, number, found) ==
  LET rest == found[number.newOffset]
  IN  IF number = Reverted \/ rest = Reverted THEN Reverted ELSE Stored(key, number.value, rest)

ReceiptPair(result, key, keys, width, found) ==
  IF key = Reverted THEN Reverted
  ELSE IF key.value \notin keys THEN found[key.newOffset]
  ELSE ReceiptValue(key.value, parseUintUpTo(result, key.newOffset, width), found)

ReceiptPairs(result, keys, width) ==
  LET found[offset \in Nat] ==
        IF offset >= Len(result) THEN << >>
        ELSE ReceiptPair(result, parseKey(result, offset), keys, width, found)
  IN  found[1]

\* Mutant: a missing key is not noticed, and stays zero.
decodeReceiptLenient(result, header, keys, width) ==
  LET got == ReceiptPairs(result, keys, width)
  IN  IF result = << >> \/ Head(result) # header \/ got = Reverted THEN Reverted
      ELSE got @@ [k \in keys |-> << >>]

decodeReceipt(result, header, keys, width) ==
  LET got == ReceiptPairs(result, keys, width)
  IN  IF result = << >> \/ Head(result) # header THEN Reverted   \* WrongMapSizeError
      ELSE IF got = Reverted \/ DOMAIN got # keys THEN Reverted   \* MissingKey
      ELSE got

decodeReceiptUndelegateStart(result) == decodeReceipt(result, 162, {EpochKey, ReceiptKey}, 8)

decodeReceiptUndelegateDone(result) ==
  LET got == decodeReceipt(result, 161, {AmountKey}, 16)
  IN  IF got = Reverted THEN Reverted ELSE got[AmountKey]

decodeReceiptDelegate(result) ==
  IF Len(result) < 3 THEN Reverted
  ELSE IF result[1] # 161 \/ result[2] # 102 \/ result[3] # 115 THEN Reverted
  ELSE LET shares == parseUintUpTo(result, 8, 16)
       IN  IF shares = Reverted THEN Reverted
           ELSE IF shares.newOffset # Len(result) THEN Reverted   \* IncompleteParse
           ELSE shares.value

-----------------------------------------------------------------------------
\* Mutant: the two bytes of the header are not stepped over.
parseSignatureShort(data, offset) ==
  LET padded == data \o Filled(66, Beyond) IN
    IF offset + 1 >= Len(data) \/ Slice(data, offset, 2) # <<88, 64>> THEN Reverted
    ELSE Parsed(offset + 64, <<Word(Slice(padded, offset + 2, 32)),
                               Word(Slice(padded, offset + 34, 32))>>)

\* Two words of a signature; no check that they are there.
parseSignature(data, offset) ==
  LET padded == data \o Filled(66, Beyond) IN
    IF offset + 1 >= Len(data) \/ Slice(data, offset, 2) # <<88, 64>> THEN Reverted
    ELSE Parsed(offset + 66, <<Word(Slice(padded, offset + 2, 32)),
                               Word(Slice(padded, offset + 34, 32))>>)

\* What the fields are before they are found.
NoPublicKey == [key \in {KeyKey, ChecksumKey, ExpirationKey, SignatureKey} |->
                  IF key = SignatureKey THEN << << >>, << >> >> ELSE << >>]
NoAnswer == [key \in {EpochKey, PublicKeyKey} |-> IF key = EpochKey THEN << >> ELSE NoPublicKey]

\* A pair of a map, and what the loop finds from the end of this one on: fields
\* tell what each key's value is at an offset; a key that is there twice counts
\* the second time.
PairFollowed(key, field, later) ==
  IF field = Reverted THEN Reverted
  ELSE LET rest == later[field.newOffset]
       IN  IF rest = Reverted THEN Reverted
           ELSE Parsed(rest.newOffset, Stored(key, field.value, rest.value))

MapPair(key, fields, later) ==
  IF key = Reverted THEN Reverted
  ELSE IF key.value \notin DOMAIN fields THEN Reverted   \* CBOR_InvalidKey
  ELSE PairFollowed(key.value, fields[key.value][key.newOffset], later)

\* What the loop finds from an offset on, with n pairs to go.
MapPairs(data, fields, n) ==
  LET pairs[m \in 0..n] == [offset \in Nat |->
        IF m = 0 THEN Parsed(offset, << >>)
        ELSE MapPair(parseKey(data, offset), fields, pairs[m - 1])]
  IN  pairs[n]

OrDefaults(found, defaults) ==
  [key \in DOMAIN defaults |-> IF key \in DOMAIN found THEN found[key] ELSE defaults[key]]

parseMap(data, offset, fields, defaults) ==
  LET map == parseMapStart(data, offset)
      got == MapPairs(data, fields, map.value)[map.newOffset]
  IN  IF map = Reverted THEN Reverted
      ELSE IF got = Reverted THEN Reverted
      ELSE Parsed(got.newOffset, OrDefaults(got.value, defaults))

publicKeyFields(data) ==
  [key \in DOMAIN NoPublicKey |-> [offset \in Nat |->
     IF key = SignatureKey THEN parseSignature(data, offset) ELSE parseUint(data, offset)]]

parsePublicKeyInner(data, offset) == parseMap(data, offset, publicKeyFields(data), NoPublicKey)

answerFields(data) ==
  [key \in DOMAIN NoAnswer |-> [offset \in Nat |->
     IF key = EpochKey THEN parseUint(data, offset) ELSE parsePublicKeyInner(data, offset)]]

parseCallDataPublicKey(data) == parseMap(data, 0, answerFields(data), NoAnswer)

\* A number of pairs is no revert, nor is what a map's loop finds.
FieldValues == Seq(Nat) \cup Seq(Seq(Nat))
MapValues == FieldValues \cup [DOMAIN NoPublicKey -> FieldValues]
ASSUME MapAssumption ==
  /\ Reverted \notin [newOffset : Nat, value : Nat]
  /\ Reverted \notin [newOffset : Nat, value : MapValues]
  /\ \A keys \in (SUBSET DOMAIN NoPublicKey) \cup (SUBSET DOMAIN NoAnswer) :
       Reverted \notin [newOffset : Nat, value : [keys -> MapValues]]
=============================================================================
