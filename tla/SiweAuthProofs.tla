--------------------------- MODULE SiweAuthProofs ---------------------------
(***************************************************************************)
(* What SiweAuth's tokens keep to for any users, domains, times, number of *)
(* logins and length of time.                                              *)
(***************************************************************************)
EXTENDS SiweAuth, TLAPS

\* The types of a message's fields.
LEMMA MessageFields ==
  ASSUME NEW m \in ParsedSiweMessage
  PROVE  /\ m.signer \in Users /\ m.addr \in Users
         /\ m.domain \in Domains /\ m.chainId \in Chains
         /\ m.notBefore # None => m.notBefore \in Nat
         /\ m.expirationTime # None => m.expirationTime \in Nat
BY SiweAssumption DEF ParsedSiweMessage

\* A token's life ends at a time.
LEMMA ValidUntilIsATime ==
  ASSUME NEW m \in ParsedSiweMessage, NEW t \in Nat
  PROVE  ValidUntil(m, t) \in Nat
BY MessageFields, SiweAssumption DEF ValidUntil

\* What is encrypted in a token has its type.
LEMMA TokenType ==
  ASSUME NEW m \in ParsedSiweMessage, NEW t \in Nat
  PROVE  Token(m, t) \in AuthToken
BY MessageFields, ValidUntilIsATime DEF Token, AuthToken

\* The types of a login's fields.
LEMMA LoginFields ==
  ASSUME TypeOK, NEW l \in logins
  PROVE  /\ l.msg \in ParsedSiweMessage /\ l.at \in Nat /\ l.at <= now
         /\ l.token \in AuthToken /\ now \in Nat
BY DEF TypeOK

\* A login adds a token that is as login checked it.
LEMMA LoginKeeps ==
  ASSUME SiweIInv, NEW m \in ParsedSiweMessage, login(m) PROVE SiweIInv'
<1>1. now \in Nat /\ now \in 0..now
  BY DEF SiweIInv, TypeOK
<1>2. PICK l : /\ l = [msg |-> m, at |-> now, token |-> Token(m, now)]
               /\ logins' = logins \cup {l}
  BY DEF login
<1>3. Token(m, now) \in AuthToken
  BY <1>1, TokenType
<1>4. TypeOK'
  BY <1>1, <1>2, <1>3 DEF SiweIInv, TypeOK, login
<1>5. /\ l.token = Token(l.msg, l.at)
      /\ l.msg.addr = l.msg.signer
      /\ l.msg.chainId = ChainId
      /\ l.msg.notBefore # None => l.at > l.msg.notBefore
      /\ l.at < ValidUntil(l.msg, l.at)
  BY <1>2 DEF login, MayLogin
<1>6. LoginsOK'
  BY <1>2, <1>5 DEF SiweIInv, LoginsOK
<1>. QED BY <1>4, <1>6 DEF SiweIInv

\* The inductive invariant: what login checked and put into each token
\* (SiweAuth.sol:88-162).
THEOREM SiweInvariance == Spec => []SiweIInv
<1>1. Init => SiweIInv
  BY DEF Init, SiweIInv, TypeOK, LoginsOK
<1>2. SiweIInv /\ [Next]_vars => SiweIInv'
  <2> SUFFICES ASSUME SiweIInv, [Next]_vars PROVE SiweIInv'
    OBVIOUS
  <2>1. ASSUME NEW m \in ParsedSiweMessage, login(m) PROVE SiweIInv'
    BY <2>1, LoginKeeps
  <2>2. ASSUME NEW l \in logins, revokeAuthToken(l.token) PROVE SiweIInv'
    <3>1. l.token \in AuthToken
      BY LoginFields DEF SiweIInv
    <3>. QED BY <2>2, <3>1 DEF revokeAuthToken, SiweIInv, TypeOK, LoginsOK
  <2>3. ASSUME NEW d \in Domains, setDomain(d) PROVE SiweIInv'
    BY <2>3 DEF setDomain, SiweIInv, TypeOK, LoginsOK
  <2>4. CASE NextBlock
    <3>1. now \in Nat /\ now' = now + 1 /\ 0..now \subseteq 0..now'
      BY <2>4 DEF NextBlock, SiweIInv, TypeOK
    <3>2. \A l \in logins : l \in [msg : ParsedSiweMessage, at : 0..now', token : AuthToken]
      BY <3>1 DEF SiweIInv, TypeOK
    <3>. QED BY <2>4, <3>1, <3>2 DEF NextBlock, SiweIInv, TypeOK, LoginsOK
  <2>5. CASE UNCHANGED vars
    BY <2>5 DEF vars, SiweIInv, TypeOK, LoginsOK
  <2>. QED BY <2>1, <2>2, <2>3, <2>4, <2>5 DEF Next
<1>. QED BY <1>1, <1>2, PTL DEF Spec

\* A token is accepted from the block it was made in, and afterwards only for
\* the signer, domain, chain and time of its message.
THEOREM TokensKeepToTheirMessages == Spec => []TokenKeepsToItsMessage
<1>1. SiweIInv => TokenKeepsToItsMessage
  <2> SUFFICES ASSUME SiweIInv PROVE TokenKeepsToItsMessage
    OBVIOUS
  <2> SUFFICES ASSUME NEW l \in logins
               PROVE  /\ now <= l.at + 1 /\ domain = l.msg.domain /\ l.token \notin revoked
                           => Accepts(l.token)
                      /\ Accepts(l.token) =>
                           /\ l.token.userAddr = l.msg.addr
                           /\ l.msg.domain = domain
                           /\ l.msg.chainId = ChainId
                           /\ l.msg.notBefore # None => now > l.msg.notBefore
                           /\ now <= IF l.msg.expirationTime # None
                                     THEN l.msg.expirationTime
                                     ELSE l.at + DEFAULT_VALIDITY
    BY DEF TokenKeepsToItsMessage, FreshTokenAccepted
  <2>1. /\ l.msg \in ParsedSiweMessage /\ l.at \in Nat /\ l.at <= now /\ now \in Nat
    BY LoginFields DEF SiweIInv
  <2>2. /\ l.token = Token(l.msg, l.at) /\ l.msg.addr = l.msg.signer
        /\ l.msg.chainId = ChainId
        /\ l.msg.notBefore # None => l.at > l.msg.notBefore
        /\ l.at < ValidUntil(l.msg, l.at)
    BY DEF SiweIInv, LoginsOK
  <2>3. /\ l.token.domain = l.msg.domain /\ l.token.userAddr = l.msg.addr
        /\ l.token.validUntil = ValidUntil(l.msg, l.at)
    BY <2>2 DEF Token
  <2>4. /\ ValidUntil(l.msg, l.at) \in Nat
        /\ l.msg.notBefore # None => l.msg.notBefore \in Nat
    BY <2>1, ValidUntilIsATime, MessageFields
  <2>5. now <= l.at + 1 /\ domain = l.msg.domain /\ l.token \notin revoked
          => Accepts(l.token)
    BY <2>1, <2>2, <2>3, <2>4 DEF Accepts
  <2>6. ASSUME Accepts(l.token)
        PROVE  /\ l.msg.domain = domain
               /\ l.msg.notBefore # None => now > l.msg.notBefore
               /\ now <= ValidUntil(l.msg, l.at)
    BY <2>1, <2>2, <2>3, <2>4, <2>6 DEF Accepts
  <2>. QED BY <2>2, <2>3, <2>5, <2>6 DEF ValidUntil
<1>. QED BY <1>1, SiweInvariance, PTL

\* A message that has an expirationTime makes the same token at every login, so
\* one revocation ends it.
THEOREM RevocationHolds == Spec => []RevokedMessageStaysOut
<1>1. SiweIInv => RevokedMessageStaysOut
  <2> SUFFICES ASSUME SiweIInv, NEW k \in logins, NEW l \in logins,
                      k.msg = l.msg, k.msg.expirationTime # None, k.token \in revoked
               PROVE  ~ Accepts(l.token)
    BY DEF RevokedMessageStaysOut
  <2>1. k.token = Token(k.msg, k.at) /\ l.token = Token(l.msg, l.at)
    BY DEF SiweIInv, LoginsOK
  <2>2. k.token = l.token
    BY <2>1 DEF Token, ValidUntil
  <2>. QED BY <2>2 DEF Accepts
<1>. QED BY <1>1, SiweInvariance, PTL

\* While the domain stays, a token refused is refused for ever: time goes on
\* and nothing is given back.
THEOREM RefusalIsFinal == Spec => NoResurrection
<1>1. SiweIInv /\ [Next]_vars =>
        [\A l \in logins : ~ Accepts(l.token) /\ domain' = domain => ~ Accepts(l.token)']_vars
  <2> SUFFICES ASSUME SiweIInv, Next, NEW l \in logins, domain' = domain,
                      ~ Accepts(l.token)
               PROVE  ~ Accepts(l.token)'
    BY DEF vars
  <2>1. now \in Nat /\ now' \in {now, now + 1} /\ revoked \subseteq revoked'
    BY DEF SiweIInv, TypeOK, Next, login, revokeAuthToken, setDomain, NextBlock
  <2>2. l.token.validUntil \in Nat
    BY LoginFields DEF SiweIInv, AuthToken
  <2>. QED BY <2>1, <2>2 DEF Accepts
<1>. QED BY <1>1, SiweInvariance, PTL DEF Spec, NoResurrection
=============================================================================
