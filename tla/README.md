# TLA+ models of the Sapphire ParaTime repository

Sapphire is Oasis's confidential EVM. This repository holds what a developer
uses around it: Solidity libraries (`contracts/`), client libraries in
JavaScript, Go and Python that encrypt calldata (`clients/`), wrappers for
ethers, viem, wagmi, hardhat and foundry (`integrations/`), the runtime's
configuration (`runtime/`) and examples. The modules here model the parts whose
correctness depends on an order of events that no unit test enumerates, and check
the pure code (the contracts' encoders and parsers, what the clients make of each
call and result) against references.
Paths below are relative to the repository root.

## 1. The system

### 1.1 Components

| component | code | state it keeps | operations |
|---|---|---|---|
| OPL endpoints | `contracts/contracts/opl/` | `txSeq`, `rxSeq`, registered handlers; immutables `remote`, `remoteChainId`, `messageBus`, `inOrder` | `registerEndpoint`, `postMessage`, `executeMessage`, constructors, `autoswitch` |
| key fetcher | `clients/js/src/calldatapublickey.ts` | `KeyFetcher.pubkey` with its `fetched` time | `fetch`, `cipher`, `cipherSync`, `fetchRuntimePublicKey` |
| wrapped provider, ethers signer | `clients/js/src/provider.ts`, `integrations/ethers-v6/` | none of its own besides a fetcher | `request`, `sendTransaction`, `call`, snap notification |
| viem transport and serializer | `integrations/viem-v2/` | an interval timer, a fetcher, a cache of wrapped providers | `createSapphireSerializer`, `wrappedSerializer`, `wrapWalletClient` |
| wagmi, hardhat, foundry | `integrations/` | cache of wrapped connectors (wagmi) | wrapping |
| Python middleware | `clients/py/sapphirepy/` | `CalldataPublicKeyManager._keys` | intercept, encrypt, fetch, retry |
| Go client | `clients/go/` | one cipher for the life of a wrapped client | `Transactor`, `CallContract`, `EstimateGas`, `makeLeash` |
| envelope ciphers | `clients/*/cipher.*`, `envelope.py` | an ephemeral key pair | encrypt call, decrypt result |
| SIWE authentication | `contracts/contracts/auth/` | `_domain`, `_authTokenEncKey`, `_revokedAuthTokens` | `login`, `authMsgSender`, `getStatement`, `getResources`, `revokeAuthToken` |
| SIWE parser, dates | `SiweParser.sol`, `DateTime.sol` | none | parsing, calendar arithmetic |
| Subcall | `Subcall.sol`, `ConsensusUtils.sol` | none (receipts live in the runtime) | delegate, undelegate, withdraw, take receipts, ROFL authorisation |
| CBOR, RLP, signers | `CBOR.sol`, `RLPWriter.sol`, `EIP*Signer.sol`, `EthereumUtils.sol` | none | encoding, parsing, signing |
| ROFLable, WrappedROSE | `contracts/contracts/` | registered app; ERC-20 balances | access control; deposit, withdraw |
| Sapphire precompiles | `Sapphire.sol`, `hmac_sha512_256.sol` | none | wrappers of cryptography |
| development proxy | `clients/js/scripts/proxy.ts` | none | check and forward batches |
| encrypted events | `examples/encrypted-events/` | none | tasks `emit`, `listen`, `decrypt` |
| token page | `examples/hardhat-boilerplate/` | React state, an interval, wallet handlers | connect, poll, transfer |
| storage page | `examples/wagmi-v2`, `wagmi-v3` | React state, `localStorage` | deploy, write, read |
| other examples | `examples/` | Gasless nonce, Vigil's secrets and times | demonstration contracts |
| runtime | `runtime/src/lib.rs` | none in this repository | configuration of the Oasis SDK |

### 1.2 How they interact

- Two OPL endpoints, the Host on an EVM chain and the Enclave on Sapphire, send
  each other messages through Celer's message bus, which calls
  `executeMessage` and acts on the status it returns. On a local network
  `postMessage` calls the remote contract's `executeMessage` itself.
- Every JavaScript wrapper takes an encryption key from a `KeyFetcher`, which
  asks the node with two awaited requests and caches the answer. The ethers
  signer, the generic provider and the MetaMask snap notification all call
  `fetch` on the same fetcher; the viem serializer, being synchronous, reads the
  cache and leaves refreshing to a timer.
- The Python middleware shares one key manager among all coroutines of an
  `AsyncWeb3`; the node may refuse a request whose key's epoch is too old, which
  sends the middleware round its loop.
- The connectors of wagmi ask the wallet for its chain, wrap its provider on Sapphire
  and remember the wrapper; the two pages use the wrapped providers, and hear of the
  wallet, the node and other tabs by events, timers and answers in any order.
- A SIWE token is made by a view call at login, held by the user, and presented
  in later calls, between which time passes, the application may revoke it, and
  a derived contract may change its domain.

### 1.3 What is hard

- *OPL*: a bus that reorders and repeats; a counter advanced before the outcome
  of the handler is known; two contracts that re-enter each other before the
  caller has counted its message; failures that undo some or all of it; what the
  bus does next depends on a status conversion.
- *JS keys*: freshness is checked before two awaits and stamped after them;
  concurrent callers overwrite each other's answer; the wallet may switch chains
  at any await; the snap is told of a key by a second `fetch`; the serializer's
  timer period equals the cache lifetime.
- *Python keys*: keys fetched in different epochs arrive in any order; the loop
  that retries has no counter; the request's parameters are encrypted in place.
- *Calls*: each client encrypts, signs, sends and decrypts in its own way, around
  data that may be missing, public, or an envelope already; wrappers around
  wrappers; results in the clear, sealed, failed inside or outside of the seal.
- *Pages and connectors*: several calls between the same two awaits; an answer that
  arrives after what it is about has changed; timers that outlive their reason.
- *Encodings*: limits at which a length or an integer changes its form; maps in any
  order; data that is cut short; words loaded across the end of a number; a
  transaction that is encoded once to be signed and once to be sent; optional parts
  of a message; leap years.
- *SIWE*: nothing of a login is stored, so revocation and expiry have to hold
  against a login with the same message; two comparisons with the expiry look in
  opposite directions.

`PROJECT.json` lists each of these at its source line under `hazards`, with the
properties that would catch it.

### 1.4 What makes each component correct

- *OPL, ordered*: what the receiver consumes is a prefix of what the sender
  posted, and every posted message is consumed in the end. *Unordered*: only the
  remote endpoint's messages are handled, a settled one no more, and one that
  failed for the moment stays deliverable. *Local*: the counters of both ends
  agree whenever no transaction runs. *Configured*: each host has an enclave
  that can answer it.
- *Keys*: whatever is encrypted uses a key of bounded age, of the right chain
  but for a bounded time after a switch; the cache never falls back far; a
  synchronous reader always finds a key; a retry uses a newer key and happens
  once; data is encrypted once.
- *SIWE*: a token speaks for its message's signer, within the message's time and
  domain; one just made is usable; one refused stays refused.
- *Encodings*: what is encoded is what a strict decoder reads; what the runtime
  answers is found whatever its order and form, and nothing is found in a part of
  it; what is signed is what is sent; the fields of a message and the days of the
  calendar come out right.
- *Calls*: the contract gets the caller's bytes, encrypted once unless they are
  public, and the caller the contract's answer; a cipher reads
  the results it knows and takes no failure for an answer; a signed
  query holds for as long as its leash says; the proxy lets nothing through that
  should have been encrypted, and changes nothing of the rest.
- *Pages and connectors*: one wrapper per provider; plain text on Sapphire only after
  a switch or without an answer; an interval exactly while it has a reason; what is
  shown becomes, and stays, what the selection, the contract or the storage says.

## 2. Modules

`map` in `PROJECT.json` gives, definition by definition, the lines modelled.

### OplChannel, OplEndpoint, MCOplEndpoint, OplEndpointProofs

`OplEndpoint` is both `BaseEndpoint` contracts and the bus between them. A
transaction is atomic, so `postMessage` (`PostMessage`) and `executeMessage` are
one step each; the second includes the handler, its result and the reply it may
post (`Deliver`), or the answer to a selector nobody registered
(`DeliverUnknown`). `MayExecute` is the list of `require` statements, `Status`
the conversion of a `Result` into Celer's status. A failing `require` or a
handler that reverts changes nothing (`Revert`). `txSeq` and `rxSeq` are the
contracts' counters; `posted` and `log` are histories.

External: the bus. It delivers any message in flight, in any order, forgets a
message once it is settled with Success or Fail (unless `BusMayDuplicate`) and
keeps it on Retry. That the bus may lose a message needs no action: it is the
behaviour in which the bus never chooses it. Other contracts may use the bus with
envelopes of their own and may call `executeMessage` directly.

`OplChannel` is the promise of one direction of an ordered link: messages are
received in the order sent, each at most once, none invented. `ToEnclave` and
`ToHost` are the refinement mappings.

The answer 0 for a missing endpoint relies on how the repository compiles
(`viaIR: true` in `contracts/hardhat.config.ts`): an empty slot then reads as
zero in `epMissing`.

### OplLocal, OplLocalProofs

The branch of `postMessage` for local networks. A transaction starts at one
application (`Begin`); each post calls the other contract (`CallRemote`: the
envelope with `txSeq`, the receiver's `require` and `++rxSeq`), whose handler
may post back before the call returns (`CallReturns`: the sender's `++txSeq`).
`Commit` ends the transaction; `Abort` undoes it, whatever the depth, since a
status other than Success fails `ReceiverError`. `inOrder` is chosen in `Init`.

### KeyFetcher

`KeyFetcher` is the cache and the steps of `fetch` in each caller, one action
between two awaits: `FetchCached` or `FetchFresh`, `ChainIdAnswered`,
`KeyAnswered` (the node reads its key), `KeyArrives` (stamped and cached),
`FetchFails`. It has no `Next`: `SapphireProvider` and `ViemSerializer` extend it
and say who calls `fetch` and what for. A key is the chain that issued it and the
time at which the node read it. The `chainId` stored beside a key is left out: no
code reads it.

`KeyAnswer` has the slicing of the node's answer into the key's CBOR, which
`Algorithms` checks.

External: a caller takes `MaxLatency` at most from calling `fetch` to using the
key, which stands for the timeout of HTTP requests; the wallet switches chains at
any moment.

### SapphireProvider, MCSapphireProvider

The wrapped send: `EncryptAndSend` takes the fetched key, and may leave an
envelope to explain to the snap (`untold`), for which the caller fetches again
and then runs `NotifySnap`. `hookEthersSend` looks for the snap between the two
fetches and `makeSapphireRequestFn` before both; the first covers the second, as
the case in which the look takes no time. What the requests carry is the subject of
`JsClients`.

### ViemSerializer

`createSapphireSerializer`: the awaited first fetch, the interval timer
(`IntervalFires` runs the callback up to its first await), overlapping callbacks,
failures nobody hears of, and the synchronous use of the cached key. A failing
callback is an unhandled rejection; the model takes it that the process survives
it, which depends on the host environment. External: the timer fires at most
`Jitter` late, and a request times out before the next period.

### ViemClient

`wrapWalletClient` on clients that share a chain object, and signing through them:
`Wrap` reads the serializer, `KeyFetched` replaces it after the await, `Sign` and
`SendSigned` are viem's two serializations of one transaction. How old keys are is
left to `ViemSerializer`.

### SapphireConnectors

`getProvider` of the five ways to configure a connector: `GetProvider`,
`ProviderArrives`, `ChainIdArrives`, `ChainIdFails`, with the rest of the handler in
the action of the answer (`Conclude`, `Remember`). External: wagmi uses what it was
handed (`Send`, `Return`) and the wallet switches chains.

### TokenDapp

`Dapp.js`, one action per callback or answer: connecting, the two wallet handlers,
the interval, balances and token data, a transfer from the form to its receipt.
A second connect while one is under way registers handlers twice and starts an
interval that nothing can stop; `lost` counts these, and the property says that
this is the only way to lose one.

### WagmiApp

`App.tsx` of both wagmi examples, which are one file. An action is one event with
the effects React runs after it. `stored` is `localStorage`, which other tabs change
too. Of wagmi's hooks it has what the page sees of a mutation.

### Frontends, FrontendsProofs

The five modules above and `ViemSerializer`'s timer share no state; `Frontends`
chooses one in the initial state and runs it alone, so one run answers for all of
them. `FrontendsRunTheirParts` proves that each of its behaviours is one of the
part, for all five; the theorems about the parts are in `FrontendsProofs` too, with
those about `KeyFetcher` and `SapphireProvider`, whose lemmas the viem serializer needs.

### PyMiddleware, PyMiddlewareProofs

`async_wrap_make_request` with `CalldataPublicKeyManager`: `Intercept` runs to the
first await and encrypts with the newest key or fetches one; `KeyArrives` adds the
fetched key and encrypts; `NodeAnswers` accepts or finds the epoch too far in the
past; `Retry` is the `continue` of the loop. `layers` counts the envelopes around
the data in `params[0]`, which the code encrypts in place. The synchronous
wrapper makes a manager per request and is the case of one request with an empty
manager. External: the node refuses a key more than `Window` epochs old; a retry
is quicker than `Window` epochs (an epoch lasts an hour). A node whose epoch is
behind the key's ("epoch in the future") is not modelled. `TrimAndSort` is the sort by
epoch and the cut to the last `limit` keys, by ranks: the key of rank n has n - 1
older ones, which is what the sort does and a prover can follow.

### SiweAuth

`login` with its checks in order, the token it makes, `Accepts` for the checks
that `authMsgSender`, `getStatement` and `getResources` share, `revokeAuthToken`,
the change of `_domain` a derived contract can make, and block time. Encryption
with the constant nonce 0 makes equal tokens of equal contents, so a token is
its contents; statement and resources, copied and compared by nothing, are left
out, as is the empty token, which stands for "nobody". An application revokes
tokens it was shown.

### Algorithms and the modules it composes

The pure parts of contracts and clients. Each library has a module with its functions
as operators; `Algorithms` has one action per kind of input and the properties.

| module | code | abstraction |
|---|---|---|
| `EvmBytes` | words and byte strings in memory | a word is its bytes without leading zeros, since TLC's integers have 32 bits; memory beyond an array holds 255s |
| `CBOR` | `CBOR.sol` | bytes; a map key is a length and a letter, and stands for its hash |
| `SubcallRequests` | bodies of the consensus calls in `Subcall.sol`, `CalldataEncryption.sol` | bytes; a ciphertext is its plaintext and a tag |
| `SubcallResults` | receipts and the calldata public key in `Subcall.sol` | bytes |
| `RLPWriter`, `TxSigners` | `RLPWriter.sol`, `EIPTypes.sol`, the three signers | bytes; a signature is any parity, r and s |
| `EthereumUtils` | `splitDERSignature` | words of `WordBytes` bytes, 2 in the run and 32 in the code |
| `SiweParser`, `DateTime` | `SiweParser.sol`, `DateTime.sol` | characters; a field's name is one character; seconds and days are kept apart |
| `OplConfig` | the chain tables of `Endpoint.sol`, `autoswitch`, the constructors' checks | a state machine whose states are the pairs of contracts that can be deployed |
| `KeyAnswer` | `parseAbiEncodedUintBytes`, `fetchRuntimePublicKey` | bytes |
| `Envelopes` | `Envelope`, `CallResult`; external: the runtime and the node | terms: sealing is perfect and CBOR unambiguous; nonces are left out |
| `JsCipher` | `cipher.ts`, `ethersutils.ts` | terms; JavaScript's undefined, falsy values and exceptions are values of their own |
| `JsClients` | `provider.ts`, `ethers-v6`, the viem transport and serializer | a wrapper is a layer; ethers' and viem's own steps are external |
| `GoClient` | `cipher.go`, `compat.go` | terms; a leash is its block and nonce |
| `PyClient` | `envelope.py`, what `sapphire.py` encrypts and signs | terms |
| `ClientCalls` | none: the calls through all clients, every form of a result, and what their callers may expect | |
| `DevProxy` | `proxy.ts` | logging is left out |
| `EncryptedEvents` | `enc.ts`, `EncryptedEvents.sol` | terms; keys are who derives them from what |
| `Decoders` | external: strict CBOR and RLP decoders, the reference for the encoders | |

Where the code loops (`ReceiptPairs`, `MapPairs`, the calendar's years, the decoders),
the modules have recursive functions. In `ClientCalls`, `Refuses` lists what the clients turn
down although the caller asked for it, so that `CallsAnswered` says of all other calls
that they succeed; the part of it that is a defect of the ethers wrapper is finding 4.
`InTheClear` says which calls are not encrypted, transactions that Go takes for packed
already (`DecodesAsCall`) among them: `CallsAnswered` requires that the contract gets
their bytes, `ProxyGuards` that the proxy stops those of its test accounts. `RuntimeResults` are the results in every form the envelope
allows: `ok`, `unknown` or a failure, in the clear or sealed with this key or another,
around each of the inner ones. `CiphersAgree` says of each which of the three clients
read it, and that the others throw: all three read `ok` sealed within `ok`; JavaScript
and Go also what is sealed within `unknown`; Go alone an inner `unknown`, and results that
are not sealed, of which it hands out the CBOR as it is.
The ROFL queries of `Subcall`, the revert on an error status and `abi.decode` are left
out. `parseSignature` and `parseKey` read
beyond the end of short data, as the code does; what they then find is one of the
values memory may hold.

## 3. Runs

| run | question | bounds | states |
|---|---|---|---|
| OplOrdered | Is an ordered link a FIFO channel both ways, over a bus that reorders and repeats, and does nothing wedge it? | 3 posts of the host, 1 of the enclave, one method each way and one unknown to each | 5 540 |
| OplUnordered | Do unordered endpoints handle only genuine messages, settle each once, and keep one that failed for the moment? | 2 posts each, 3 deliveries each | 25 921 |
| OplOrderedRetry | Does the last hold on an ordered link? **Violated** (finding 1) | 2 posts, 2 deliveries | |
| OplLocal | Do nesting and reverts keep both ends in step, and no contract post within its own post? | 4 nested calls, 4 posts each | 3 269 |
| SapphireProvider | How old, how foreign and how far back can a key be that two callers share? | 2 callers, 2 chains, timeout 2, latency 1, 7 ticks | 417 604 |
| Frontends | How old is the serializer's key? Do shared viem clients send what they sign? Is a provider wrapped once, and plain text kept off Sapphire? Do the two pages poll, settle and show what they should? | see below | 207 984 |
| PyMiddleware | Does a retry use a newer key, does the newest key never regress, and is every request answered? | 2 coroutines, limit 3, window 2, 7 epochs | 27 598 |
| PyMiddlewareRetry | Is the data encrypted once? **Violated** (finding 2) | 1 request, window 1 | |
| SiweAuth | Does a token mean what its message said until it is refused for good? | 2 users, 2 domains, 2 chains, times 1 and 3, 5 blocks, 2 logins | 45 212 |
| Algorithms | Do the encoders, decoders, parsers and tables agree with their references, and do the clients' calls, queries, proxied batches and events come out right? | see below | 329 700 |
| AlgorithmsAnyUint | Does every 256-bit integer survive CBOR? **Violated** (finding 3) | words of up to 32 bytes | |
| AlgorithmsEthers | Do wrapped ethers providers and signers serve every call? **Violated** (finding 4) | the calls of `Algorithms` | |

Why the bounds are enough. Three messages one way are the fewest for which a
message can be overtaken by two others and one can be repeated after a later
one; a message the other way lets replies and directions interleave. Local calls
alternate between two contracts, so four nested posts let each re-enter itself
once more than any defect needs. Seven ticks cover a fetch, the cache lifetime,
a second fetch and the notification, each at its slowest, which is how the
bounds of `SnapKeyIsClose` and `KeyAge` are reached; lowering either bound by one
makes TLC report a violation.

In `Frontends`, twenty ticks (two callbacks at once, timeout 3, latency 2, jitter 1,
two failures) cover creation, two failed refreshes and the
refresh that succeeds, with every fetch and timer at its latest; the bound of
`SerializerKeyAge` is reached too. Three clients are the fewest of which two wrap
while a third signs, with two keys to tell their envelopes apart; two calls of
`getProvider` at once race for the cache; two accounts, one with tokens, two
connects and two balances on their way per account let an old answer arrive after
a new selection; three contracts let the storage change between a write and its
receipt, and back.

Seven epochs let one coroutine's key be
refused while another's slower answer arrives, twice. Two logins compare a token
with another of the same message; five seconds lie before, between, on and after
both message times and the default validity.

The inputs of `Algorithms` lie on both sides of every limit the code compares with:
words of 0 to 32 bytes that begin with 1, 23, 24, 128 or 255 and go on with 0s or
255s; lengths from 0 to 300 and around 65535; receipts with each such integer as
an unsigned integer and as a short and a long byte string, with the keys in either
order, cut at every byte; all 48 orders of the calldata public key's maps, and its answer
cut at every byte; DER
integers of one and two bytes with and without sign bytes and leading zeros;
transactions of the three types with calldata of lengths around 56 and 256 and up
to two storage keys; sign-in messages with every combination of optional parts,
values that hold colons and blanks, nonces of 7 to 9 characters, with and without
the last newline; every day from 1970 to 2101, past the years 2000 and 2100; for
deployments every chain listed, two local ones, an unknown one and every protocol
name. Of calls, every combination of client, method, data (left out, none at all,
empty, not CBOR, CBOR that decodes as a call and CBOR that does not, the caller's own envelope), receiver, and
ending (success, failure, refusal, unknown origin, behind the proxy); of signed
queries, every delay around the 15 blocks of a leash, with the nonce used or not and
each field left out or given; of results, every form above with no and some bytes, and
what the JavaScript cipher makes of none, one or several of its arguments; of events, every mode and associated data for the
emission and the reading, alone and with others in the transaction.

Symmetry is used for the callers of `SapphireProvider` only, in a run without
liveness properties. `CHECK_DEADLOCK FALSE` is in the configurations of
`Algorithms`, where an input, or both contracts being deployed, is the end, and in
`Frontends`, whose parts may come to an end: time is up, or the clients have sent. A state in which the clock or a counter is
at its bound is no deadlock elsewhere: some other action remains.

### Findings

1. On an ordered endpoint `executeMessage` advances `rxSeq` before the handler
   runs and keeps it when the handler returns `TransientFailure`; the bus's retry
   then fails `WrongSeqNum` for ever, although the result is documented as one that
   "may be accepted later". `Host` and `Enclave` pass `inOrder = false`, so the
   deployed contracts are not affected; a contract that extends `BaseEndpoint`
   with `inOrder = true` is.
2. The Python retry encrypts the envelope of the first attempt.
3. `encodeUint` writes the length of a number beyond 128 bits as a word of 32 bytes
   where one byte belongs, so that `parseUint` reads zero. The test of the library
   passes the exponent instead of the number to the round trip. In this repository
   only epochs are encoded with it.
4. A wrapped ethers provider or signer fails on `call` and `estimateGas` without data,
   and so on `sendTransaction` of a transfer by a wallet, which estimates first:
   `encryptCall` answers `''`, which `hexlify` refuses. Calldata that happens to be
   CBOR is refused too, as a bogus envelope.

Seen while modelling, and not runs of their own:
- `notifySapphireSnap` fetches a key again instead of using the one its transaction
  was encrypted with, so the snap may be told another one; `SnapKeyIsClose` bounds
  how much newer or older it is.
- The viem serializer's timer ticks just before the key it would replace has
  expired, so the key serves for two lifetimes: `SerializerKeyAge` has that bound,
  and fails with one lifetime.
- `isCallDataPublicKeyQuery` is asked after its request's data has become an envelope
  (`provider.ts:238`, `259`), so it never holds.
- `timestampFromIso` ignores what follows the seconds, so a time with a zone offset is
  taken for UTC (`SiweParser.sol:240-256`).
- Go's `txNeedsPacking` takes calldata for packed when it decodes as the SDK's `Call`,
  whichever fields are there (`compat.go:295-296`). The CBOR null and `{format: 1}`
  decode, and are sent in the clear, neither packed before nor now; `InTheClear` names
  them. Calldata that begins with a selector decodes only by accident of its first bytes.
- `consensusTakeReceipt` refuses the receipt 0 only and writes every other id in 8 bytes
  (`Subcall.sol:186`, `196-197`); by the comment on `consensusUndelegate` (line 381) that
  form requires an id of 2^32 or more, which delegations check. An id from 1 to 2^32 - 1 is
  sent and decodes to nothing, so the subcall fails instead of `InvalidReceiptId`.
  `RequestsUnderstood` says so of each such id. No receipt can be left under one
  through this library.
- The Python client looks for a failure under `failure`, where the runtime puts it
  under `fail` (`envelope.py:134`): the call still fails, with another error. It does
  not know `unknown` (`envelope.py:136`), which the other clients read. A retried
  signed call fails on its own hexadecimal gas (`sapphire.py:131`, `207`).
- An ethers wrapper around a provider wrapped as EIP-1193 encrypts twice
  (`provider.ts:229`).
- The token page, when connected twice at once, keeps an interval that nothing stops
  (`Dapp.js:256`); a transfer's end clears the message of another (`Dapp.js:337`);
  after a change of network an account is initialized without a check of the network
  (`Dapp.js:201`).
- The storage page shows the result of a former contract under the new one
  (`App.tsx:306`), keeps its own deployment's address shown after another tab stored
  a different one, and leaves the button disabled when a write reverts.

### Fairness

`OplEndpoint!FairSpec`: weak fairness of the deliveries to each endpoint. The
executor of the bus keeps calling `executeMessage` for messages it has, and a
handler does not revert for ever; without it nothing can be promised, since
neither contract retries anything itself. Posting is not fair: nobody must post.
`PyMiddleware!FairSpec`: weak fairness of each coroutine's own steps; the asyncio
loop runs whatever is ready, and requests are answered or time out. No fairness of
epochs or failures is assumed.
`Frontends!FairFrontSpec`: of the token page, weak fairness of its interval, which
the browser keeps firing, and of the node's answers, and strong fairness of the
answers that carry a balance: a node that fails for ever settles nothing. Of the
storage page, weak fairness of the 100 ms poll. The user, the wallet and other tabs
are not fair; a part that does not run enables none of these actions.

## 4. Proofs

Checked by TLAPS for every value of the constants, from the named assumptions of the
modules (`ConstantsAssumption`, `LocalAssumption`, `KeyFetcherAssumption`,
`ProviderAssumption`, `SerializerAssumption`, `SiweAssumption`, `DappAssumption`,
`WagmiAppAssumption`, `MiddlewareAssumption`, `ConfigAssumption`, `RevertedAssumption`,
`WordBytesAssumption`, `LastYearAssumption`, `ParsedAssumption`, `ReceiptAssumption`,
`MapAssumption`, `AbiAssumption`), which say only that names are distinct, numbers are
numbers, years have four digits, and a revert or a decoding error is none of the values
that are parsed.

- `OplEndpointProofs`: `Invariance` (`IInv`), `OrderedDelivery`,
  `OrderedRefinesChannels`, `GenuineDelivery`, `EndsOnce`,
  `TransientFailuresMayBeRetried`. `InOrderDelivery` is not inductive: that the next
  consumed message is the next posted one needs that envelopes are numbered by
  position (`Numbered`), that the bus carries nothing the remote did not post
  (`BusGenuine`), and that `rxSeq` equals the length of the log (`RxCounts`).
  `StepShape` reduces every action to "posts at most one envelope" and "consumes
  at most one message"; each conjunct is then preserved by these shapes. The
  refinement takes one direction at a time (`DirectionSteps`). That unordered endpoints
  handle only genuine messages rests on `BusGenuine` and the sender checks
  (`AcceptedIsGenuine`). For a bus that does not repeat itself, `Settled` says that what
  was handled to an end has left it: envelopes are numbered, so no post puts an equal
  one back (`NewIsUnposted`). `StillOnBus` says that what failed for the moment has not
  left it, whatever the bus; that `executeMessage` would take it again holds without
  order only (finding 1).
- `OplLocalProofs`: `LocalInvariance` (`LocalIInv`), `PostsAreCounted`,
  `LocalEndsAgree`, which is `EndsAgree` and `NoReentrantPost`. The
  invariant says that a receiver is ahead of its sender exactly while a post of
  the sender is in progress (`AheadByCall`), from which a second post of the same
  sender fails the sequence check at any depth.
- `SiweAuthProofs`: `SiweInvariance` (`SiweIInv`: every login's token has the fields of
  its message and a validity within it, `LoginsOK`), `TokensKeepToTheirMessages`,
  `RevocationHolds` (equal tokens come of equal contents), and the action property
  `RefusalIsFinal`, from time and revocations only growing.
- `FrontendsProofs`, the wrapped provider: every step of the fetcher, and the use of a
  key, keeps `KeyIInv`; `KeyAge` and `WrongChainIsTransient` follow by arithmetic from
  what the invariant says about times: a task has lasted `MaxLatency` at most
  (`TasksTimely`), the cache was stamped within one fetch of the node's reading
  (`CacheTimely`), and a foreign key was read before the last switch (`Foreign`). Every
  step of the wrapped send is one of those, hence `KeyInvariance`, `KeysAreRecent`,
  `ForeignKeysAreTransient` and `CacheRegressBounded`. For `SnapInvariance` (`SnapIInv`)
  and `SnapIsToldACloseKey`, what a caller holds was read before the cached key was
  stamped (`KeyInHand`), so whatever the cache holds later is older by one fetch at
  most; and the second fetch begins within `MaxLatency` of the envelope (`Told`).
- `FrontendsProofs`, the rest: `DappInvariance`, `PollingIsKept`: `PollingMatchesSelection` needs
  that a timer runs only with handlers registered, which reset it.
  `ConnectorInvariance`, `WrappersAreShared`, `EncryptionIsKept`: the invariant relates
  each call under way to the cache and to what it learnt of the chain (`UseOK`,
  `CacheOK`); `OneUseChanges` leaves one call to look at in each step.
  `SerializerInvariance` (`SerializerIInv`) and `SerializerKeysAge`:
  the invariant bounds the age the cached key will have when the timer fires next
  (`AgeWhenDue`), which a failed fetch raises by a period and a delay; as a fetch ends
  before the next period, there is one at a time, begun when the timer last fired
  (`OneFetch`, `NothingUnderWay`). `ViemInvariance`, `ClientsSendWhatTheySign` (there is one
  Sapphire serializer at most, and each client's data has the envelopes its step
  allows); `WriteInvariance`, `ShownWritesBelong` (a write with a hash is to the shown
  contract); and `FrontendsRunTheirParts`, that the composed specification implies
  each part's, so that theorems about parts hold in the run that checks them.

- `PyMiddlewareProofs`: `MiddlewareInvariance` (`IInv`): the manager's list stays in
  order without duplicates (`KeysOK`), the key of each request was given out by an
  epoch that has begun, and one the node refused is too old. From these `NewestIsKept`,
  an action property, since a key added to a full list goes at the other end, and
  `RetriesAreNewer`. The lemmas about `TrimAndSort` count ranks: as ranks are
  numbers of older keys, distinct keys have distinct ranks, and there are no gaps.
- `AlgorithmsProofs`: what the operators compute for every input, and that the inputs
  of a run are such.
  - `DeploymentsFit`: the tables of chains (`ChainTable`, `TestnetTable`) give every host an
    enclave that can answer it (`HostPairs`) and every enclave a host of its kind
    (`EnclavePairs`), whatever chain id is not listed.
  - `SignaturesSplit`: the DER parser finds r and s for every size of a word. `Word` cuts
    the leading zeros, which lemmas state by the position of the first byte that
    is none.
  - `DaysCounted`: the timestamps follow the calendar up to any four-digit year, by the
    invariant that a date's day number is what the code computes for it; the step
    from one day to the next looks at months, years and leap years.
  - `EveryQueryVerified`, `QueriesVerified`: a signed query of any account, nonce, block
    and delay is accepted exactly within its leash. `EveryResultRead`: for each form of
    a result, with any bytes and epoch, which clients read it and what;
    `EveryEncryptedResultAlike`: all read what the JavaScript cipher makes;
    `CiphersUnderstood` is both, for the results of a run. Terms are opaque pairs, so
    each client is followed by cases of the form (`GoLooks`, `GoOpens` and so on).
  - `ReceiptsFoundWhole`: every beginning of a receipt is decoded pair by pair, for integers of
    any value and form. `Holds` and `Cut` say that a part stands at an offset or that the
    bytes end within it; what a key and an integer yield follows (`KeyParsed`, `KeyCut`,
    `IntegerRead`), then the pairs found from an offset on (`PairsFound`, `PairOfInteger`,
    `PairCutShort`), then the three decoders on each shape (`OnePair`, `ErrorPair`,
    `TwoPairs`). An integer that is cut off reverts. A key that is cut off does not: it is
    read from memory beyond the bytes, whatever is there, and the loop ends after it, so
    that a key is missing. `ReceiptsWritten` says that the runtime's receipts have these shapes.

- `EncodingsProofs`: what the contracts, signers and clients encode is read back, whatever
  it is. An item of a format is told by its bytes, wherever these stand among others
  (`IsItem`, `AreItems`, `Heads`, `RlpReads`), so what is written piece by piece is
  read piece by piece.
  - `EveryUintRead`, `StringIsCbor`, `EncodingsAreCbor`: each integer of up to 128 bits and
    each byte string of up to 65535 bytes is encoded in its shortest form
    and read back, among any other bytes. `Encoded` gives an integer one of three
    forms, and each is followed through `parseUint` and the reference decoder.
  - `EveryRequestUnderstood`, `EveryEnvelopeUnderstood`, `RequestsAlwaysUnderstood`: the
    consensus requests for any address, amount, token and receipt id, and the envelope of a
    call of up to 65510 bytes, are CBOR maps with the fields the other side reads, with
    these exceptions. Refused are a token of more than 19 letters, a receipt id of up to 4
    bytes in a delegation or an undelegation, and the id 0 to take a receipt; taking one
    with another id of up to 4 bytes is not refused, and decodes to nothing
    (`ShortReceiptRefused`, `MapRefused`).
  - `EveryTransactionSentAsSigned`, `TransactionsSentAsSigned`: a transaction of each of the
    three types is read back from what is signed and from what is sent, with words of up to
    32 bytes, less than 4 GiB of data, an access list of any length, and a chain id below
    2^30, where TLC's integers hold the v made of it.
  - `EveryKeyFound`, `EveryAnswerRead`, `PublicKeysFound`: the calldata public key is found
    with its words and epoch for any order of the keys of both maps, and the client takes
    any data of less than 4 GiB out of its ABI encoding, and none out of an answer with a
    status or one cut anywhere before its data ends. `FoundAfter` says what the loop
    over a map has found from each pair on.
- `SiweParserProofs`: `EveryMessageRead`, `SignInMessagesRead`: every part of a sign-in
  message is read back, for texts of any characters but new lines, a domain without a
  blank, an address of 40 characters, any of the optional fields and any number of
  resources, with the last new line or without. A message is regrouped so that after
  each field stands the text of the rest (`MessageRegrouped`); a field that is left
  out is not found because the rest begins with the name of a later one
  (`Names`, `FieldAbsent`), whatever colons the values hold.

Induction over numbers is first-order here: the proofs take the least counterexample of
a set (`Smallest`), and a recursive function is shown to exist, by writing it down
(`ValueOfTwo`) or by descent along its calls (`Descent`, for the decoders, the loop over a
map's pairs, and the list of resources), since `CHOOSE` says nothing of one that does not.

Only model-checked: liveness (`EventuallyConsumed`, `EventuallyAnswered`,
`BalanceSettles`, `StoredContractIsShown`), which is beyond the prover; and
`CallsAnswered`, `ProxyGuards` and `EventsDecrypted`, whose domain is finite and has no
constants, so that TLC's run is complete. `MaxSeq`,
`MaxPosts`, `MaxDeliveries`, `MaxDepth`, `MaxTime`, `MaxConnects` and `MaxQueries` are
constants without an upper bound in the theorems.

## 5. Not modelled

- Cryptography, hashing, ABI layout and text formats; fees and gas; vendored
  primitives (`munacl.ts`, `deoxysii.py`), the precompile library and foundry's
  precompiles, which are cryptography; the runtime and the bus beyond what `src/`
  relies on.
- The cache of transports by chain in the viem integration, JavaScript's proxies as such
  (a wrapper is a layer), the hardhat plugin, which is one call of a modelled function.
- `ROFLable` (modifiers that compare a stored app id with a precompile's answer),
  `WrappedROSE` (two lines over an ERC-20 that is not in the repository), `Gasless` and
  `Vigil` (demonstrations; the nonce that `Gasless` copies, and that any caller of
  `proxy` advances, is the runtime's).
- In `Subcall`, the ROFL queries and the revert on an error status; in
  `EthereumUtils`, arithmetic on the curve.
- Rendering, wording, logging and the tables of networks.
- A caller that resends the same parameter object after a failed send has its envelope
  encrypted again (`provider.ts:238`); that caller is outside the repository, and the
  same defect within it is finding 2. A Go call without data is packed as the CBOR null
  (`compat.go:77`); the generated bindings always pass a selector.

`PROJECT.json` gives the status of every component.

## 6. Order of work

OPL first (the only protocol between two parties here), then the keys every client
depends on, then authentication, the contracts' encodings, the calls through the
clients, and the integrations and pages; all are done. What could follow: a run of the Python loop with signed calls; `Subcall`
as an exchange with the consensus layer, should its callers need more than the encodings.
