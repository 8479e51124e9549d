----------------------------- MODULE TxSigners -----------------------------
(***************************************************************************)
(* EIP155Signer.sol, EIP1559Signer.sol, EIP2930Signer.sol and EIPTypes.sol: *)
(* what is signed and what is sent, for a transaction [chainId, nonce,     *)
(* gasPrice, tip, gasLimit, to, value, data, accessList].  A signature is  *)
(* [parity, r, s] (v - 27, in the code).                                   *)
(***************************************************************************)
EXTENDS RLPWriter

encodeAccessList(list) ==
  writeList([i \in DOMAIN list |->
    writeList(<<writeAddress(list[i].addr),
                writeList([j \in DOMAIN list[i].storageKeys |->
                             writeBytes(list[i].storageKeys[j])])>>)])

LegacyFields(tx) ==
  <<writeUint(tx.nonce), writeUint(tx.gasPrice), writeUint(tx.gasLimit),
    writeAddress(tx.to), writeUint(tx.value), writeBytes(tx.data)>>

\* EIP-1559 has a tip besides the price, EIP-2930 has not.
Tip(tx) == IF tx.type = 2 THEN <<writeUint(tx.tip)>> ELSE << >>
TypedFields(tx) ==
  <<writeUint(tx.chainId), writeUint(tx.nonce)>> \o Tip(tx)
    \o <<writeUint(tx.gasPrice), writeUint(tx.gasLimit), writeAddress(tx.to),
         writeUint(tx.value), writeBytes(tx.data), encodeAccessList(tx.accessList)>>

Rsv(v, r, s) == <<writeUint(v), writeUint(r), writeUint(s)>>

\* encodeUnsignedTx, or for EIP-155 the encoding with the chain in place of v.
unsignedTx(tx) ==
  IF tx.type = 0 THEN writeList(LegacyFields(tx) \o Rsv(tx.chainId, << >>, << >>))
  ELSE <<tx.type>> \o writeList(TypedFields(tx))

legacyV(chainId, parity) == BigEndian(parity + 2 * Value(chainId) + 35)

\* encodeSignedTx of what sign got from signRawTx.
signedTx(tx, sig) ==
  IF tx.type = 0
  THEN writeList(LegacyFields(tx) \o Rsv(legacyV(tx.chainId, sig.parity), sig.r, sig.s))
  ELSE <<tx.type>> \o writeList(TypedFields(tx) \o Rsv(BigEndian(sig.parity), sig.r, sig.s))
=============================================================================
