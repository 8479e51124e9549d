------------------------------ MODULE KeyAnswer -----------------------------
(***************************************************************************)
(* How the JavaScript client reads the answer to its query for the         *)
(* calldata public key: an ABI-encoded status and the CBOR of the key.     *)
(***************************************************************************)
EXTENDS EvmBytes

CONSTANT AbiDecodeError

ASSUME AbiAssumption == AbiDecodeError \notin Seq(Seq(Nat))

\* A byte string as a number, of however many bytes.
parseBigIntFromByteArray(bytes) == Word(bytes)

\* The status and the data, which lies at the offset, after its length.
parseAbiEncodedUintBytes(bytes) ==
  LET number(offset) == Value(parseBigIntFromByteArray(Slice(bytes, offset, 32)))
      offset == number(32)
  IN  IF Len(bytes) < 32 * 3 \/ Len(bytes) < offset + 32
           \/ Len(bytes) < offset + 32 + number(offset)
      THEN AbiDecodeError
      ELSE <<parseBigIntFromByteArray(Slice(bytes, 0, 32)),
             Slice(bytes, offset + 32, number(offset))>>

\* The CBOR of the key: an empty answer and a status other than zero are errors.
runtimePublicKeyCbor(bytes) ==
  LET parsed == parseAbiEncodedUintBytes(bytes)
  IN  IF bytes = << >> THEN AbiDecodeError
      ELSE IF parsed = AbiDecodeError THEN AbiDecodeError
      ELSE IF parsed[1] # << >> THEN AbiDecodeError ELSE parsed[2]
=============================================================================
