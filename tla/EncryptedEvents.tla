--------------------------- MODULE EncryptedEvents --------------------------
(***************************************************************************)
(* The encrypted-events example: what its two contracts emit, and the      *)
(* tasks emit, listen and decrypt of enc.ts.                               *)
(*                                                                         *)
(* A task's arguments are a record; what it prints is a message, or it     *)
(* throws.  An address is written in mixed or in lower case, which makes   *)
(* no difference to the chain.                                             *)
(***************************************************************************)
EXTENDS Envelopes, TLC

None == <<"none">>
Addr(name, case) == <<name, case>>
\* Mutant: the case is kept.
toLowerCaseKept(addr) == addr

toLowerCase(addr) == <<addr[1], "lower">>
Localnet == "localnet"

\* A ciphertext opens with the key, nonce and additional data that made it.
Ciphertext15(key, nonce, aad, message) == <<key, nonce, aad, message>>
aeadDecrypt(key, nonce, ciphertext, aad) ==
  IF <<ciphertext[1], ciphertext[2], ciphertext[3]>> = <<key, nonce, aad>>
  THEN ciphertext[4] ELSE Throw("tag")

-----------------------------------------------------------------------------
\* The contracts.  Of the nonce, 32 bytes, only the first 15 are used.
ContractAad(aadmode, sender, chain, name) ==
  CASE aadmode = "none" -> << >>
    [] aadmode = "sender" -> <<sender>>
    [] aadmode = "context" -> <<chain, name>>
EcdhKey(secret, name) == <<"ecdh", secret, name>>

Encrypted(sender, chain, name, key, aadmode, message, n) ==
  LET nonce == <<"first15", n>>
  IN  [address |-> Addr(name, "mixed"), name |-> "Encrypted", sender |-> sender,
       nonce |-> <<nonce, "rest">>,
       ciphertext |-> Ciphertext15(key, nonce, ContractAad(aadmode, sender, chain, name), message)]

-----------------------------------------------------------------------------
\* The tasks.  isAddressLike tells an address from a hash.
isAddressLike(contract) == contract # None /\ contract[1] # "hash"
validModes(args) ==
  args.mode \in {"key", "ecdh"} /\ args.aadmode \in {"none", "sender", "context"}

\* emit: the n-th event of the chain, with a key or a secret of its own if
\* none is given.
emitTask(args, sender, chain, n) ==
  LET name == args.contract[1]
      given(key, random) == IF key = None THEN random ELSE key
      key == IF args.mode = "key" THEN given(args.key, <<"random", n>>)
             ELSE EcdhKey(given(args.secret, <<"random", n>>), name)
  IN  IF ~ validModes(args) \/ ~ isAddressLike(args.contract) THEN Throw("argument")
      ELSE Encrypted(sender, chain, name, key, args.aadmode, args.message, n)

getAadBytes(aadmode, sender, chain, contract) ==
  CASE aadmode = "sender" -> <<sender>>
    [] aadmode = "context" -> <<chain, contract[1]>>
    [] OTHER -> << >>

\* One event decrypted: with the key given, or the one derived from the
\* secret and, if asked for, once more from the nonce.
decryptEvent(args, event, chain, contract) ==
  LET n15 == event.nonce[1]
      base == EcdhKey(args.secret, contract[1])
      key == IF args.mode = "key" THEN args.key
             ELSE IF args.hkdf THEN <<"hkdf", base, n15>> ELSE base
  IN  aeadDecrypt(key, n15, event.ciphertext,
                  getAadBytes(args.aadmode, event.sender, chain, contract))

missingKey(args) == IF args.mode = "key" THEN args.key = None ELSE args.secret = None

\* listen: every event of the contract, and those that do not decrypt apart.
listenTask(args, chain, logs) ==
  LET own == SelectSeq(logs, LAMBDA e : e.address[1] = args.contract[1] /\ e.name = "Encrypted")
  IN  IF ~ validModes(args) \/ ~ isAddressLike(args.contract) THEN Throw("argument")
      ELSE IF chain = Localnet THEN << >>
      ELSE IF missingKey(args) THEN Throw("argument")
      ELSE [i \in DOMAIN own |-> decryptEvent(args, own[i], chain, args.contract)]

\* decrypt: the first event of the transaction, among those of the contract
\* if that is given; otherwise it must be the only one.
decryptTask(args, chain, logs) ==
  LET given == args.contract # None
      matches == SelectSeq(logs, LAMBDA e :
        /\ given => toLowerCase(e.address) = toLowerCase(args.contract)
        /\ e.name = "Encrypted")
      chosen == Head(matches)
      contract == IF given THEN args.contract ELSE toLowerCase(chosen.address)
  IN  IF ~ validModes(args) \/ (args.mode = "ecdh" /\ ~ isAddressLike(args.contract))
        THEN Throw("argument")
      ELSE IF matches = << >> THEN Throw("not found")
      ELSE IF ~ given /\ Len(matches) > 1 THEN Throw("ambiguous")
      ELSE IF missingKey(args) THEN Throw("argument")
      ELSE decryptEvent(args, chosen, chain, contract)

-----------------------------------------------------------------------------
\* Emissions of one or two messages in a transaction, and who reads them how.
Key32 == <<"key">>
Secret32 == <<"secret">>
EventModes == {"key", "ecdh", "other"}
EmitArgs ==
  [mode : EventModes, aadmode : {"none", "sender", "context", "other"}, key : {None, Key32},
   secret : {Secret32}, contract : {Addr("A", "mixed"), Addr("B", "lower"), None}]
ReadArgs ==
  [mode : EventModes, aadmode : {"none", "sender", "context"}, key : {None, Key32, <<"random", 1>>},
   secret : {None, Secret32}, hkdf : BOOLEAN,
   contract : {Addr("A", "mixed"), Addr("A", "lower"), <<"hash", "mixed">>, None}]
SecondEmits ==
  {a \in EmitArgs : a.mode = "key" /\ a.aadmode = "sender" /\ a.key = Key32}

WithMessage(args, n) == args @@ [message |-> <<"message", n>>]
Emit(c, n) == emitTask(WithMessage(c.emits[n], n), <<"sender", n>>, c.chain, n)

\* Whether the reader's settings are those of this emission.
Matches(c, n) ==
  LET args == c.emits[n]
      key == IF args.key = None THEN <<"random", n>> ELSE args.key
  IN  /\ args.mode = c.read.mode /\ args.aadmode = c.read.aadmode
      /\ IF args.mode = "key" THEN c.read.key = key ELSE c.read.secret = args.secret /\ ~ c.read.hkdf

\* The n-th emission as the reader gets it.
Read(c, n) == IF Matches(c, n) THEN <<"message", n>> ELSE Throw("tag")

EventsRead(c) ==
  LET Good(args) == validModes(args) /\ args.contract # None
      sent == SelectSeq([n \in DOMAIN c.emits |-> n], LAMBDA n : Good(c.emits[n]))
      own == SelectSeq(sent, LAMBDA n : c.emits[n].contract[1] = c.read.contract[1])
      logs == <<[address |-> Addr("A", "mixed"), name |-> "Other"]>>
                \o [i \in DOMAIN sent |-> Emit(c, sent[i])]
      listened == listenTask(c.read, c.chain, logs)
      decrypted == decryptTask(c.read, c.chain, logs)
      from == IF c.read.contract = None THEN sent ELSE own
  IN  /\ \A n \in DOMAIN c.emits : ~ Good(c.emits[n]) => Throws(Emit(c, n))
      /\ isAddressLike(c.read.contract) /\ validModes(c.read) /\ ~ missingKey(c.read)
           /\ c.chain # Localnet => listened = [i \in DOMAIN own |-> Read(c, own[i])]
      /\ IF /\ validModes(c.read) /\ ~ missingKey(c.read) /\ from # << >>
            /\ c.read.contract = None => Len(from) = 1 /\ c.read.mode = "key"
         THEN decrypted = Read(c, from[1]) ELSE Throws(decrypted)
=============================================================================
