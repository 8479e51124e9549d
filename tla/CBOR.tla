-------------------------------- MODULE CBOR --------------------------------
(***************************************************************************)
(* contracts/contracts/CBOR.sol: the integers, byte strings, map headers   *)
(* and keys that the Subcall library exchanges with the runtime.           *)
(*                                                                         *)
(* A map key is told by its length and first letter; all its letters are   *)
(* taken to be the first one.                                              *)
(***************************************************************************)
EXTENDS EvmBytes

Key(len, letter) == Filled(len, letter)
Text(key) == <<96 + Len(key)>> \o key

Parsed(newOffset, value) == [newOffset |-> newOffset, value |-> value]

\* Nor is what a parser finds a revert.
ASSUME ParsedAssumption == Reverted \notin [newOffset : Nat, value : Seq(Nat)]

\* Mutant: 24 still goes into the first byte, where it announces a uint8.
encodeUintOffByOne(value) ==
  LET n == Len(value)
  IN  IF n = 0 \/ (n = 1 /\ value[1] <= 24) THEN Padded(value, 1)
      ELSE IF n <= 2 THEN <<23 + n>> \o value
      ELSE IF n <= 4 THEN <<26>> \o Padded(value, 4)
      ELSE IF n <= 8 THEN <<27>> \o Padded(value, 8)
      ELSE <<80>> \o Padded(value, 16)

\* Beyond 128 bits the length that precedes the word is a word itself.
encodeUint(value) ==
  LET n == Len(value)
  IN  IF n = 0 \/ (n = 1 /\ value[1] < 24) THEN Padded(value, 1)
      ELSE IF n <= 2 THEN <<23 + n>> \o value
      ELSE IF n <= 4 THEN <<26>> \o Padded(value, 4)
      ELSE IF n <= 8 THEN <<27>> \o Padded(value, 8)
      ELSE IF n <= 16 THEN <<80>> \o Padded(value, 16)
      ELSE <<88>> \o Padded(<<32>>, 32) \o Padded(value, 32)

\* encodeBytes, of a string with this length: what it puts before the bytes.
bytesHeader(len) ==
  IF len <= 23 THEN <<64 + len>>
  ELSE IF len <= 255 THEN <<88, len>>
  ELSE IF len <= 65535 THEN <<89, len \div 256, len % 256>>
  ELSE Reverted                  \* CBOR_Error_BytesTooLong

parseMapStart(data, offset) ==
  IF offset < Len(data) /\ data[offset + 1] \in 160..183
  THEN Parsed(offset + 1, data[offset + 1] - 160)
  ELSE Reverted

\* The end of parseUint: a big-endian integer of len bytes.
parseWord(data, offset, len) ==
  IF len > 32 \/ offset + len > Len(data) THEN Reverted
  ELSE Parsed(offset + len, Word(Slice(data, offset, len)))

uintLength(prefix) == <<1, 2, 4, 8>>[prefix - 23]

parseUint(data, offset) ==
  IF offset >= Len(data) THEN Reverted
  ELSE LET prefix == data[offset + 1] IN
    IF prefix <= 23 THEN Parsed(offset + 1, Word(<<prefix>>))
    ELSE IF prefix = 88 THEN IF offset + 1 >= Len(data) THEN Reverted
                             ELSE parseWord(data, offset + 2, data[offset + 2])
    ELSE IF HasBit(prefix, 64) THEN parseWord(data, offset + 1, prefix - 64)
    ELSE IF prefix \in 24..27 THEN parseWord(data, offset + 1, uintLength(prefix))
    ELSE Reverted   \* CBOR_InvalidUintSize, CBOR_InvalidUintPrefix

\* parseUint64 and parseUint128, by the bytes of their range.
parseUintUpTo(data, offset, width) ==
  LET p == parseUint(data, offset)
  IN  IF p = Reverted \/ Len(p.value) > width THEN Reverted ELSE p

\* The key itself stands for its digest; the end of data is not checked.
parseKey(data, offset) ==
  IF offset >= Len(data) THEN Reverted
  ELSE LET prefix == data[offset + 1]
           len == prefix - 96
       IN  IF ~ (HasBit(prefix, 64) /\ HasBit(prefix, 32)) THEN Reverted
           ELSE Parsed(offset + 1 + len,
                       Slice(data \o Filled(len, Beyond), offset + 1, len))
=============================================================================
