----------------------------- MODULE SiweParser -----------------------------
(***************************************************************************)
(* contracts/contracts/SiweParser.sol: the fields of a sign-in message.    *)
(* A message is a sequence of characters; the name of a field is taken for *)
(* one character, and an address for its digits.                           *)
(***************************************************************************)
EXTENDS EvmBytes, DateTime

NoText == << >>
NewLine == "\n"

\* The first place at or after i that holds c, or else the end.
Find(str, i, c) ==
  Min({j \in i..(Len(str) - 1) : str[j + 1] = c} \cup {Max({i, Len(str)})})

substr(str, startIndex, endIndex) == Slice(str, startIndex, endIndex - startIndex)

Field(value, i) == [value |-> value, i |-> i]

\* The line that starts at i, and where the next one does.
RestOfLine(str, i) ==
  LET end == Find(str, i, NewLine)
  IN  Field(substr(str, i, end), IF end < Len(str) THEN end + 1 ELSE end)

\* Past a colon and a blank after it.
AfterColon(str, colon) ==
  IF SubSeq(str, colon + 2, colon + 2) = <<" ">> THEN colon + 2 ELSE colon + 1

\* Mutant: whatever has a name is the field that is wanted.
parseFieldAnyName(str, name, i) ==
  LET colon == Find(str, i, ":") IN
    IF colon >= Len(str) THEN Field(substr(str, i, colon), colon)
    ELSE RestOfLine(str, AfterColon(str, colon))

\* A field whose name ends at a colon; without a colon in the rest of the message,
\* all of it is the value.
FieldAt(str, name, i, colon) ==
  IF colon >= Len(str) THEN Field(substr(str, i, colon), colon)
  ELSE IF substr(str, i, colon) # <<name>> THEN Field(NoText, i)
  ELSE RestOfLine(str, AfterColon(str, colon))

parseField(str, name, i) == FieldAt(str, name, i, Find(str, i, ":"))

parseArray(str, i) ==
  LET bullets[j \in Nat] ==
        IF j >= Len(str) - 1 \/ Slice(str, j, 2) # <<"-", " ">> THEN << >>
        ELSE LET bullet == RestOfLine(str, j + 2) IN <<bullet.value>> \o bullets[bullet.i]
  IN  bullets[i]

\* Characters beyond the end are NUL, and count as the digit 0.
hexStringToAddress(str, i) ==
  [k \in 1..40 |-> IF i + k <= Len(str) THEN str[i + k] ELSE "0"]

\* The optional line before the fields, and the empty line after it.
statement(str, i) ==
  LET end == Find(str, i, NewLine) IN
    IF i < Len(str) /\ str[i + 1] # NewLine /\ end < Len(str)
    THEN Field(substr(str, i, end), end + 2)
    ELSE Field(NoText, i + 1)

parseSiweMsg(str) ==
  LET domain == Find(str, 0, " ")
      account == domain + 52   \* the 50 characters of the sentence, and 0x
      said == statement(str, account + 42)
      uri == parseField(str, "URI", said.i)
      version == parseField(str, "Version", uri.i)
      chainId == parseField(str, "Chain ID", version.i)
      nonce == parseField(str, "Nonce", chainId.i)
      issuedAt == parseField(str, "Issued At", nonce.i)
      expirationTime == parseField(str, "Expiration Time", issuedAt.i)
      notBefore == parseField(str, "Not Before", expirationTime.i)
      requestId == parseField(str, "Request ID", notBefore.i)
      resources == parseField(str, "Resources", requestId.i)
  IN  IF Len(nonce.value) < 8 THEN Reverted   \* SiweParser_InvalidNonce
      ELSE [schemeDomain |-> IF domain < Len(str) THEN substr(str, 0, domain) ELSE NoText,
            addr |-> hexStringToAddress(str, account),
            statement |-> said.value, uri |-> uri.value, version |-> version.value,
            chainId |-> chainId.value, nonce |-> nonce.value, issuedAt |-> issuedAt.value,
            expirationTime |-> expirationTime.value, notBefore |-> notBefore.value,
            requestId |-> requestId.value,
            resources |-> IF resources.i = requestId.i THEN << >>
                          ELSE parseArray(str, resources.i)]

-----------------------------------------------------------------------------
\* _parseUint, of decimal digits.
parseDecimal(digits) ==
  LET number[i \in 0..Len(digits)] ==
        IF i = 0 THEN 0 ELSE 10 * number[i - 1] + digits[i]
  IN  number[Len(digits)]

\* Of digits and separators; what follows the seconds is not looked at.
timestampFromIso(str) ==
  LET part(from, to) == parseDecimal(substr(str, from, to))
  IN  toTimestamp(part(0, 4), part(5, 7), part(8, 10), part(11, 13), part(14, 16), part(17, 19))
=============================================================================
