-------------------------- MODULE SubcallRequests --------------------------
(***************************************************************************)
(* What Subcall.sol sends to the runtime, and the envelope of              *)
(* CalldataEncryption.sol: CBOR put together by hand, around words of a    *)
(* fixed width.                                                            *)
(***************************************************************************)
EXTENDS CBOR

ToKey == Key(2, 116)
FromKey == Key(4, 102)
AmountArg == Key(6, 97)
SharesArg == Key(6, 115)
ReceiptArg == Key(7, 114)
IdKey == Key(2, 105)
KindKey == Key(4, 107)

Uint128(word) == <<80>> \o Padded(word, 16)
Uint64(word) == <<27>> \o Padded(word, 8)
Address(address) == <<85>> \o address

\* Mutant: any receipt but 0.
UsableReceiptNonZero(receiptId) == receiptId # << >>

\* receiptId >= 2**32
UsableReceipt(receiptId) == Len(receiptId) > 4

\* _subcallWithToAndAmount: consensusDelegate, consensusWithdraw, accountsTransfer.
toAndAmount(to, value, token) ==
  IF Len(token) > 19 THEN Reverted   \* TokenNameTooLong
  ELSE <<162>> \o Text(ToKey) \o Address(to) \o Text(AmountArg) \o <<130>> \o Uint128(value)
         \o <<64 + Len(token)>> \o token

delegateWithReceipt(to, amount, receiptId) ==
  IF ~ UsableReceipt(receiptId) THEN Reverted   \* InvalidReceiptId
  ELSE <<163>> \o Text(ToKey) \o Address(to)
         \o Text(AmountArg) \o <<130>> \o Uint128(amount) \o <<64>>
         \o Text(ReceiptArg) \o Uint64(receiptId)

undelegate(from, shares) ==
  <<162>> \o Text(FromKey) \o Address(from) \o Text(SharesArg) \o Uint128(shares)

undelegateWithReceipt(from, shares, receiptId) ==
  IF ~ UsableReceipt(receiptId) THEN Reverted
  ELSE <<163>> \o Text(FromKey) \o Address(from) \o Text(SharesArg) \o Uint128(shares)
         \o Text(ReceiptArg) \o Uint64(receiptId)

takeReceipt(kind, receiptId) ==
  IF receiptId = << >> \/ kind \notin 1..23 THEN Reverted
  ELSE <<162>> \o Text(IdKey) \o Uint64(receiptId) \o Text(KindKey) \o <<kind>>

-----------------------------------------------------------------------------
BodyKey == Key(4, 98)
PkKey == Key(2, 112)
DataKey == Key(4, 100)
EpochArg == Key(5, 101)
NonceKey == Key(5, 110)
FormatKey == Key(6, 102)

encodeBytes(bytes) == bytesHeader(Len(bytes)) \o bytes

\* The plaintext of _encryptInner; its ciphertext is Tag bytes longer.
plainEnvelope(data) == <<161>> \o Text(BodyKey) \o encodeBytes(data)
Tag == 16
Ciphertext(plain) == plain \o Filled(Tag, 0)

encryptCallData(data, myPublic, nonce, epoch) ==
  IF data = << >> THEN << >>
  ELSE <<162>> \o Text(BodyKey)
         \o <<164>> \o Text(PkKey) \o <<88, 32>> \o myPublic
                    \o Text(DataKey) \o encodeBytes(Ciphertext(plainEnvelope(data)))
                    \o Text(EpochArg) \o encodeUint(epoch)
                    \o Text(NonceKey) \o <<79>> \o nonce
         \o Text(FormatKey) \o <<1>>
=============================================================================
