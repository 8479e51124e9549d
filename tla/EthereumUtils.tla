---------------------------- MODULE EthereumUtils ----------------------------
(***************************************************************************)
(* splitDERSignature of contracts/contracts/EthereumUtils.sol: the two     *)
(* words of a DER encoded signature, whose integers have any length up to  *)
(* a word and a sign byte.  WordBytes is 32 in the code.                   *)
(***************************************************************************)
EXTENDS EvmBytes

CONSTANT WordBytes

ASSUME WordBytesAssumption == WordBytes \in Nat \ {0}

\* mload of a word, of which only the first len bytes belong to the integer,
\* shifted right until the unknown ones have left it.
\* Mutant: without the shift.
LoadUnshifted(der, offset, len) ==
  Word(Slice(der \o Filled(WordBytes, Beyond), offset, WordBytes))

Load(der, offset, len) ==
  LET loaded == Slice(der \o Filled(WordBytes, Beyond), offset, WordBytes)
  IN  Word(SubSeq(loaded, 1, len))

\* The checks of lengths and tags.  An index beyond the end reverts as well.
WellFormed(der) ==
  /\ Len(der) >= 8
  /\ der[1] = 48
  /\ der[3] = 2
  /\ der[4] <= WordBytes + 1
  /\ der[4] + 6 <= Len(der)
  /\ der[der[4] + 6] <= WordBytes + 1
  /\ der[der[4] + 5] = 2
  /\ der[4] + der[der[4] + 6] + 4 = der[2]
  /\ Len(der) = der[2] + 2

\* One of the integers: a sign byte must be zero, and is left out.
Component(der, offset, len) ==
  IF len <= WordBytes THEN Load(der, offset, len)
  ELSE IF der[offset + 1] # 0 THEN Reverted
  ELSE Load(der, offset + 1, len - 1)

splitDERSignature(der) ==
  IF ~ WellFormed(der) THEN Reverted
  ELSE LET rLen == der[4]
           r == Component(der, 4, rLen)
           s == Component(der, 6 + rLen, der[6 + rLen])
       IN  IF r = Reverted \/ s = Reverted THEN Reverted ELSE [r |-> r, s |-> s]
=============================================================================
