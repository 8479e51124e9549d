------------------------------ MODULE SiweAuth ------------------------------
(***************************************************************************)
(* Sign-in with Ethereum on Sapphire (contracts/contracts/auth): login     *)
(* turns a signed message into an encrypted token, authMsgSender takes the *)
(* token later, and the application may revoke it in between.  login is a  *)
(* view function and keeps nothing: all there is to a token is the token,  *)
(* and encryption with nonce 0 makes equal tokens of equal contents, so a  *)
(* token is modelled by what is encrypted in it.                           *)
(***************************************************************************)
EXTENDS Integers, FiniteSets

CONSTANTS Users,              \* addresses
          Domains,            \* domains a contract or a message may name
          Chains, ChainId,    \* chain ids messages may name; block.chainid
          Times,              \* notBefore and expirationTime of messages
          None,               \* the field is not in the message
          DEFAULT_VALIDITY,   \* validity of a token without expirationTime
          MaxTime,            \* bound: block.timestamp
          MaxLogins           \* bound: successful logins

ASSUME SiweAssumption ==
  /\ ChainId \in Chains
  /\ Times \subseteq Nat
  /\ None \notin Nat
  /\ DEFAULT_VALIDITY \in Nat \ {0}

\* A parsed message, with the address that its signature recovers to.
ParsedSiweMessage ==
  [signer : Users, addr : Users, domain : Domains, chainId : Chains,
   notBefore : Times \cup {None}, expirationTime : Times \cup {None}]

AuthToken == [domain : Domains, userAddr : Users, validUntil : Nat]

VARIABLES now,       \* block.timestamp
          domain,    \* _domain
          revoked,   \* the tokens in _revokedAuthTokens
          logins     \* history: who was given a token when, for which message

vars == <<now, domain, revoked, logins>>

Init == /\ now = 0
        /\ domain \in Domains
        /\ revoked = {}
        /\ logins = {}

-----------------------------------------------------------------------------
\* Mutant: an expirationTime is not told from the default validity.
ValidUntilDefault(m, time) == time + DEFAULT_VALIDITY

ValidUntil(m, time) ==
  IF m.expirationTime # None THEN m.expirationTime ELSE time + DEFAULT_VALIDITY

\* The checks of login.
MayLogin(m) ==
  /\ m.chainId = ChainId        \* SiweAuth_ChainIdMismatch
  /\ m.domain = domain          \* SiweAuth_DomainMismatch
  /\ m.addr = m.signer          \* SiweAuth_AddressMismatch
  /\ m.notBefore # None => now > m.notBefore   \* SiweAuth_NotBeforeInFuture
  /\ now < ValidUntil(m, now)   \* SiweAuth_Expired

Token(m, time) == [domain |-> m.domain, userAddr |-> m.signer,
                   validUntil |-> ValidUntil(m, time)]

login(m) == /\ Cardinality(logins) < MaxLogins
            /\ MayLogin(m)
            /\ logins' = logins \cup {[msg |-> m, at |-> now, token |-> Token(m, now)]}
            /\ UNCHANGED <<now, domain, revoked>>

\* Mutant: expiry is not looked at.
AcceptsExpired(token) == token \notin revoked /\ token.domain = domain

\* checkRevokedAuthToken and decodeAndValidateToken, common to authMsgSender,
\* getStatement and getResources.
Accepts(token) == /\ token \notin revoked         \* A13e_RevokedAuthToken
                  /\ token.domain = domain        \* SiweAuth_DomainMismatch
                  /\ token.validUntil >= now      \* SiweAuth_Expired

\* Mutant: revoking a token a second time gives it back.
revokeAuthTokenToggles(token) ==
  /\ revoked' = IF token \in revoked THEN revoked \ {token} ELSE revoked \cup {token}
  /\ UNCHANGED <<now, domain, logins>>

\* The application revokes a token somebody showed it.
revokeAuthToken(token) == /\ revoked' = revoked \cup {token}
                          /\ UNCHANGED <<now, domain, logins>>

\* A derived contract may assign _domain (SiweAuthTests.setDomain).
setDomain(inDomain) == /\ domain' = inDomain
                       /\ UNCHANGED <<now, revoked, logins>>

NextBlock == /\ now < MaxTime
             /\ now' = now + 1
             /\ UNCHANGED <<domain, revoked, logins>>

Next == \/ \E m \in ParsedSiweMessage : login(m)
        \/ \E l \in logins : revokeAuthToken(l.token)
        \/ \E inDomain \in Domains : setDomain(inDomain)
        \/ NextBlock

Spec == Init /\ [][Next]_vars
-----------------------------------------------------------------------------
TypeOK ==
  /\ now \in Nat
  /\ domain \in Domains
  /\ logins \subseteq [msg : ParsedSiweMessage, at : 0..now, token : AuthToken]
  /\ revoked \subseteq AuthToken

\* What login has checked of every message it made a token for, and the token
\* it made; with the types, the inductive invariant.
LoginsOK ==
  \A l \in logins :
    /\ l.token = Token(l.msg, l.at)
    /\ l.msg.addr = l.msg.signer
    /\ l.msg.chainId = ChainId
    /\ l.msg.notBefore # None => l.at > l.msg.notBefore
    /\ l.at < ValidUntil(l.msg, l.at)

SiweIInv == TypeOK /\ LoginsOK

\* The two ends of a token's life agree on its boundary: one just made is
\* accepted in the same block, and in the next (SiweAuth.sol:142, 256).
FreshTokenAccepted ==
  \A l \in logins :
    now <= l.at + 1 /\ domain = l.msg.domain /\ l.token \notin revoked => Accepts(l.token)

\* A token speaks for the signer of the message it was made for, from its first
\* block on, within the time and at the domain the message names; nothing a
\* contract keeps could say so later, only what login put into the token
\* (SiweAuth.sol:88-162, 236-261).
TokenKeepsToItsMessage == FreshTokenAccepted /\
  \A l \in logins : Accepts(l.token) =>
    /\ l.token.userAddr = l.msg.addr
    /\ l.msg.domain = domain
    /\ l.msg.chainId = ChainId
    /\ l.msg.notBefore # None => now > l.msg.notBefore
    /\ now <= IF l.msg.expirationTime # None THEN l.msg.expirationTime
              ELSE l.at + DEFAULT_VALIDITY

\* Revoking a token ends the message it was made for, if that has an
\* expirationTime: the same message makes the same token again, whoever logs
\* in with it (A13e.sol:53-60; SiweAuth.sol:155-160).
RevokedMessageStaysOut ==
  \A k, l \in logins :
    k.msg = l.msg /\ k.msg.expirationTime # None /\ k.token \in revoked => ~ Accepts(l.token)

\* A token refused once is never accepted again, unless the domain changes.
NoResurrection ==
  [][\A l \in logins : ~ Accepts(l.token) /\ domain' = domain => ~ Accepts(l.token)']_vars
=============================================================================
