----------------------------- MODULE RLPWriter -----------------------------
(***************************************************************************)
(* contracts/contracts/RLPWriter.sol: the encoding that the transaction    *)
(* signers put their fields into.                                          *)
(***************************************************************************)
EXTENDS EvmBytes

\* Mutant: 56 is still a short length.
writeLengthOffByOne(len, offset) ==
  IF len <= 56 THEN <<len + offset>>
  ELSE <<Len(BigEndian(len)) + offset + 55>> \o BigEndian(len)

writeLength(len, offset) ==
  IF len < 56 THEN <<len + offset>>
  ELSE <<Len(BigEndian(len)) + offset + 55>> \o BigEndian(len)

writeBytes(bytes) ==
  IF Len(bytes) = 1 /\ bytes[1] < 128 THEN bytes
  ELSE writeLength(Len(bytes), 128) \o bytes

\* _toBinary leaves the leading zeros out, which a word here has none of.
writeUint(word) == writeBytes(word)
writeAddress(a) == writeBytes(a)

\* Of the encodings of the items.
flatten(items) == FlattenSeq(items)
writeList(items) == writeLength(Len(flatten(items)), 192) \o flatten(items)
=============================================================================
