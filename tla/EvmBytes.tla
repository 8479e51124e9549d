------------------------------ MODULE EvmBytes ------------------------------
(***************************************************************************)
(* Byte strings and 256-bit words, as the Solidity libraries handle them.  *)
(* TLC's integers are too narrow for a word, so a word is its big-endian   *)
(* bytes without leading zeros; zero is << >>.  bytes memory is a sequence *)
(* and offsets count from 0, as they do in the code.                       *)
(***************************************************************************)
EXTENDS Integers, Sequences, SequencesExt, FiniteSetsExt

CONSTANT Reverted   \* the call reverts

ASSUME RevertedAssumption == Reverted \notin Seq(Nat)

Filled(n, byte) == [i \in 1..n |-> byte]
Slice(bytes, offset, len) == SubSeq(bytes, offset + 1, offset + len)

\* The word that a big-endian byte string stands for, and the reverse.
Word(bytes) ==
  LET first == SelectInSeq(bytes, LAMBDA b : b # 0)
  IN  IF first = 0 THEN << >> ELSE SubSeq(bytes, first, Len(bytes))
Padded(word, width) == Filled(width - Len(word), 0) \o word

\* Small numbers as words, both ways.
BigEndian(n) ==
  LET word[m \in 0..n] == IF m = 0 THEN << >> ELSE Append(word[m \div 256], m % 256)
  IN  word[n]
Value(word) ==
  LET upTo[n \in 0..Len(word)] == IF n = 0 THEN 0 ELSE 256 * upTo[n - 1] + word[n]
  IN  upTo[Len(word)]

HasBit(byte, bit) == (byte \div bit) % 2 = 1

\* Bytes in memory beyond the end of an array are whatever was there before.
Beyond == 255
=============================================================================
