# Formal models of the NL Wallet

TLA+ models of this repository: the wallet app's core and its API, the wallet
provider's account server and keys, the issuer and verifier of the wallet server with
their session stores, and what attestations, messages and errors go through on their
way between them. TLC checks the models on small instances; TLAPS proves the central
properties for every value of the constants. `PROJECT.json` lists the components, the
runs, the mutants, the source lines of every definition, the hazards and the theorems.

## 1. The system

| Part | State | Operations | What makes it hard |
|---|---|---|---|
| Account server (`wallet_provider`) | one `wallet_user` row per wallet, its challenge row, its keys | register, instruction challenge, instruction (CheckPin, GenerateKey, Sign) | handlers suspend at each database and HSM call; the row is read before the transaction that updates it |
| PIN policy (`pin_policy.rs`) | none: a function of the failure counter, the last failure and the time | evaluate | u8 arithmetic, rounds and timeouts, an assertion on its inputs |
| Provider's keys (`hsm.rs`, `wallet_user_key` table) | PKCS#11 sessions in a pool, wrapped keys | generate and wrap, unwrap and sign, encrypt, HMAC | a private key lives in one session; sessions end between any two calls |
| Instruction client (`wallet/src/instruction`) | the stored sequence number, generated keys | send an instruction in two requests | requests and answers are lost or late; the client gives up and goes on |
| Session stores (`mdoc/src/server_state.rs`, `wallet_server/src/store`) | sessions with a state and a last-active time | get, write, periodic cleanup | the cleanup runs while requests read and write; two implementations of one trait |
| Verifier (`openid4vc/src/verifier.rs`) | disclosure sessions | start, status, get the request, post the response | get and write of a session are not atomic; several devices share a link |
| Issuer (`openid4vc/src/issuer.rs`) | issuance sessions | token, (batch) credential, reject | the same; clients repeat requests |
| Wallet (`wallet/src/wallet`, `wallet/src/storage`) | registration, lock, sessions in memory; database, key file, keys on the phone | start, register, lock, unlock, reset, PID issuance, disclosure, history | each operation is a sequence of durable writes, any of which may fail or be the last before the process ends |
| Key stores of the phone (`platform_support`, `software.rs`) | keys, identifiers in use | new_unique, use, delete | owners are dropped and made by concurrent calls; a second owner is a panic |
| Configuration (`wallet/src/config`, `configuration_server`) | configuration, its file, an ETag file, a callback | periodic fetch, start | the ETag is stored before the configuration is |
| Attestations (`mdoc`, `openid4vc`) | what is stored, what is proposed, what was disclosed | issue, store, match with a request, disclose in two protocols, verify | copies, keys and answers are paired by position; both sides compute the same transcript |
| Login and person data (`wallet/src/issuance`, `wallet_server/src/pid`, `gba_hc_converter`) | one login under way, its state, nonce and verifier | authorization URL, redirect, token exchange, conversion to a PID | late and repeated redirects; many shapes of register entries |
| App view (`flutter_api`, `wallet/src/document`, history tables) | cards and history on the screen | the app's calls and streams | an event is written as JSON in tables and must be readable as what was shown |
| Errors (the error types of every crate, `flutter_api/src/errors.rs`) | none | from a server's error to what the app is told | five layers of conversions, by wrapping and by matching |
| PIN rules and PIN key (`pin/validation.rs`, `pin/key.rs`) | none | validate, derive | bytes against characters; reduction modulo the order of the curve |
| Encodings (`mdoc/src/utils/serialization.rs`) | none | to CBOR and back | what is signed is read and written anew by either side |

The wallet sends instructions to the account server whenever it unlocks, accepts a
credential or discloses. The issuer and the verifier each keep their sessions in a
session store. The wallet trades its DigiD authorization code for credentials at the
issuer, and answers the verifier's request with them.

## 2. Modules

### PinPolicy, PinRetry

`PinPolicy` translates `pin_policy.rs` operator by operator, with u8 products taken
modulo 256. `PinRetry` is the account as a user sees it: a right or a wrong PIN is
one indivisible step. It is the abstract specification that the account server is
checked against.

### AccountServer

One wallet's rows and a set of handlers. A handler is a program counter, the message
it handles, the rows it has read (`snap`), the evaluation it made and its reply; there
is one action for each database statement that can wait or that others can see.
`userLock` and `chalLock` are Postgres row locks at the read committed level: a
transaction's writes appear at its commit and the rows it wrote stay locked until
then. `Abort` is the failure of a statement or of the HSM. Certificates and signatures
are booleans of a message: whether they verify.

### InstructionProtocol

Extends `AccountServer` with the wallet's `InstructionClient` in place of arbitrary
messages: the stored sequence number, the two requests of an instruction, a network
that delays and loses, giving up on a request, restarting.

### ProviderKeys

The HSM seen from `hsm.rs`: every call takes a session from the pool and gives it back,
a private key is an object of one session, and only its wrapped form is kept in a row.
GenerateKey and Sign make one call per key, concurrently, so calls of several
instructions interleave. Registration encrypts the PIN key and puts a hash of it in
the certificate; every instruction decrypts and compares it. The wallet's side
(`RemoteEcdsaKeyFactory`) pairs keys, identifiers and signatures by position.

### SessionData, SessionStore, ServerSessions

`SessionStore` states what the trait promises: writing replaces, cleaning expires and
removes after the timeouts, nothing else happens. `ServerSessions` has the two
implementations; the variable `backend` says which is in use. The memory store is
swept session by session, first to remove and then to expire; Postgres does both in
one transaction that may fail, and has a status column beside the data. Time is kept
as ages: a session's age grows with `Tick` up to the largest timeout, which is as far
as the code can tell ages apart.

### DisclosureSessions, IssuanceSessions

The `Verifier` and the `Issuer` on top of `ServerSessions`. A request is a handler that
reads the session in one step and writes it in another; devices and clients give up
and try again at any time. Whether a response verifies is whether it was made for
the nonce and key that the session remembers. `IssuanceSessions` keeps, for the
properties, which access tokens were sent out, how often credentials were, and
which codes were confirmed as rejected.

### Wallet

The `Wallet` struct and its `DatabaseStorage`. The methods take `&mut self` (the Flutter
API holds a `RwLock`), so `op` is the one operation that runs and the step it is at. The
platform key store (`keys`), the key file and the database are what survives
`Crash`; the rest is memory. Each write is a step that may also fail, as in the code:
deletions of a reset are attempted in turn whatever the earlier ones did. A key file
may be cut off, since it is written in place. `received`, `sent` and `missed` record
what verifiers got and which events could not be stored; `kept` says that a reset
failed to delete something. What the issuer, the verifier and the provider answer is
a choice.

### KeyStore

The identifiers in use (`UNIQUE_IDENTIFIERS`) and the keys of the two types that the
wallet has, under concurrent calls of `init`, `register` and `reset_wallet` that fail at
any step. `held` has the live instances: those of a call's local variables and those
that the wallet owns. Dropping an instance at the end of a scope is part of the step
that ends the scope.

### Configuration

The document that the server publishes is known by its version, and by its place in
the order of publication, which stands for the ETag. The update task is at rest, or
between two of its writes; the process may end at any step, and then a file that is
being written is torn. `cut` records that this happened between the ETag file and the
configuration file, `kept` the newest version reported as taken over, and `missed` that
an update fell in the gap between calling a callback and registering it.

### Attestation, RequestMatching, CredentialIssuance, IsoDisclosure, VpDisclosure, DocumentMapping

Operators, without variables, for what the parties do with attestations and messages.
`Attestation` signs, stores and verifies mdocs, with symbolic cryptography: a signature
is who made it and over what, a digest is its item wrapped. `RequestMatching` finds the
attestations for a request and compares an answer with a request. `CredentialIssuance`
has both ends of OpenID4VCI, `IsoDisclosure` and `VpDisclosure` both ends of the two
disclosure protocols, a handler being a function from a session and a message to an
answer and the next session. `DocumentMapping` says which attributes can be shown.

### AttestationLifecycle

Composes these six: an issuance session, then sessions with a verifier in either
protocol. A step is one operation of the wallet with the requests it makes, each of
which may be lost on either way, garbled or refused. A scene fixes what the parties
are configured with.

### DigidSession, DigidLogin, PersonData

`DigidSession` has the logins that a user starts, cancels and completes, with redirects
that arrive late or twice. What the register, the converter and the issuer make of a
person are parameters of it, so that its theorem holds whatever they answer; `DigidLogin`
adds the properties that need the conversions, and `Attestations.cfg` assigns them.
`PersonData` is the chain of pure conversions from a register entry to the attestations
that are announced: converter, proxy, PID issuer. `Options` has Rust's `Option`.

### WalletApp

What the app shows: cards and history, the tables in which events are kept with
attributes as JSON, the streams, and the conversions of the Flutter API. Any access
to the storage may fail. Time is in half days, so that a date has two times and the
comparison of dates that the query amounts to differs from one of times.

### ErrorReports

A call of the app, the requests it makes, what the servers answer and what the app is
told. An error is the path of its enum variants; conversions between layers change
the path as `From` and `#[from]` do. `fate` records what really happened.

### PinEntry, Encodings

The PIN rules on characters with a digit value and a UTF-8 length; the reduction of the
hkdf output on a small curve order. The encodings of ISO messages as CBOR trees, and
sessions in which both sides sign and verify what they read and wrote.

Each `MC` module instantiates a module for TLC. `MCProviderAndDevice`,
`MCAttestations` and `MCWalletAndVerifier` check several components that share no state in
one run: a variable (`component`, `party`) is chosen at the start, that component takes
steps and the others rest. In `MCConcurrentRequests` such a choice (`sender`) is whose
requests the account server gets: any, or those of the wallet's `InstructionClient`.

## 3. Runs

| Run | Shows |
|---|---|
| `provider_and_device`: PIN policy | `evaluate` follows the schedule of rounds and timeouts; the announced timeouts are served; the account is blocked exactly at the last attempt |
| : configuration | what was taken over is kept; the stream shows what is in force; only a cut-off write can wedge the wallet; a document that stays published is adopted otherwise |
| : provider's keys | every signature is by the key that the wallet pairs it with; keys that a wallet was told of are kept; a certificate stays recognised |
| : PIN entry | the app is told exactly what is wrong with a PIN; the derived key is valid and evenly distributed |
| : key store | an identifier is always free when it is claimed; a used key is kept until its owner deletes it |
| `account_sequential` | with one request at a time the server implements `PinRetry` (refinement), and with it the policy's schedule and its limit |
| `account_progress` | every request is answered, although connections and row locks are taken in different orders |
| `concurrent_requests`: of anyone | with two handlers: the policy's assertion never fails, no row stays locked, the failure counter exceeds its limit by a bounded amount that depends on the number of handlers only, a used challenge is gone |
| : of a wallet | the wallet's sequence number stays ahead of the server's; a right PIN is counted as wrong only after a request was abandoned; keys that the wallet knows exist on the server |
| `account_blocked` (violation) | a late handler can unblock a blocked account, see below |
| `store` | the memory store implements the contract (refinement); an expired session stays expired in Postgres; sessions are removed |
| `store_expiry` (violation) | Postgres turns completed sessions into expired ones |
| `wallet_and_verifier`: verifier | a relying party gets answers to the request made for that device; the end of a session is kept once no request is under way |
| : wallet | a database on the phone can be opened; registration, keys and memory agree; no session survives a reset; usage counts cover what was sent; the history is complete and true |
| `attestations`: issuer | one access token for a code; a waiting session has the token that was sent out; after the last request has been handled an ended session stays ended |
| : attestation | what is stored is what was announced, usable with its key; an honest issuance succeeds; matching agrees with a declarative definition; a valid answer is accepted, and what is accepted is what was requested, issued and logged; giving up is reported; copies are fresh |
| : login | the PID shown is that of the person who logged in for this session; codes go with their verifier; everybody of whom enough is known gets a PID; partners and nationalities agree with declarative definitions |
| : app | cards are current; the recent events are all of the last 31 days, none of 32 days ago or earlier, newest first; a card's history is exact; every entry can be read back and tells what the user was shown |
| : errors | a decision of the PIN policy arrives unchanged; a failed call leaves the wallet so that it can be tried again, or says why not; the app is told of a network, a server or another problem as it was, both ways, but for the refusals of `server_refusals` |
| : encodings | both sides sign and verify the same bytes; signed bytes mean one thing |
| `issuance_once` (violation) | one access token yields credentials twice |
| `recent_history` (violation) | an event of more than 31 days ago is listed as recent |
| `server_refusals` (violation) | a server that answers with an error is not told as one |

Every property of a passing run comes with a mutant, a change to one definition that
a plausible mistake in the code would make, under which TLC finds it violated. Where
several statements are about one promise, the property is their conjunction
(`DisclosureAgrees`, `PidIsTrue`, `KeysServe`, ...), and each conjunct has its own comment.

`HonestSucceeds` and `LoginSucceeds` are action properties: they say how a step must end,
not that it is taken.

### Where the code and its comments disagree

* `account_blocked`: `handle_instruction` writes `is_blocked` from a row it read before its
  transaction. A wallet that gave up on one instruction and sent the next has two
  handlers at work; the one with the older row writes `false` over `true`.
* `store_expiry`: an update in `PostgresSessionStore` leaves the `status` column as it was,
  so the cleanup takes a finished session for an active one.
* `issuance_once`: `process_batch_credential` reads the session, signs, and writes that it
  is done; two overlapping requests both get credentials.
* `recent_history`: `newer_than_31_days` compares an RFC 3339 text, with a `T` after the date,
  with the text of `DATETIME`, which has a space there. Times of the same date compare as
  newer, so an event is listed until the end of the day, up to 32 days after it. The mock
  storage compares times.
* `server_refusals`: the type `Server` is documented as "the request failed, but the server
  did send a response". An `ErrorResponse` of a verifier over OpenID4VP, and a refusal by
  the wallet provider while a PID is accepted, are told as `Generic`. `FailureIsTold`, in
  the passing run, says that these are the only ones (`UntoldRefusal`).

### Bounds

* PIN policy: 13 policies of up to three rounds and four attempts, times up to 6; enough
  for every order of two timeouts and two rounds. Policies with a single attempt per
  round are left out: for them a timeout is announced but not enforced.
* Configuration: three versions, three publications and two faults, so that a fault
  can hit the recovery from another one, and a version can be lowered and raised.
* Provider's keys: three scenes: two wallets that compete for one PKCS#11 session, one
  wallet with two sessions and two instructions, and a clock that runs on. A session
  may end and be replaced once in each.
* PIN entry: all PINs of up to five characters (one more than the length asked) over
  five digits and non-digits of one and of two bytes; all 7-bit outputs of hkdf for
  a curve of order 11 with 4-bit scalars. The rules and the reduction do not depend on
  the sizes otherwise.
* Key store: two callers and seven calls, in hardware and in software: a start, a
  registration, a reset, and all of them again while another call runs.
* Account server: two handlers are the smallest interleaving, and the row locks
  serialise a third behind them. Three challenges allow one to be replaced and one to
  be late. `OneRound` reaches the block in few steps; `TwoRounds` has a timeout too. A
  wallet has four sequence numbers: two instructions, or one after up to two requests
  that it gave up on.
* Sessions: one or two tokens, timeouts of 0 and 1, two handlers, two devices. Sessions
  interact only through the sweep, which two tokens show.
* Attestations, logins, app: scenes. One is ordinary; each of the others differs from it
  in one respect, or in a few that matter together (an untrusted certificate, an
  attestation that is not valid yet, two candidates for one request, answers in another
  order, a register entry without a name, a storage access that fails, ...). Faults may
  happen at every message of a troubled scene. Documents have up to three attributes, and
  attestations up to two copies: pairing by position goes wrong with two or not at all.
  The times of the app are on the first day and about 31 days later.
* Errors: all calls of the app with all the errors that their layers can produce; two
  wrong-PIN decisions that differ in their numbers, and a timeout.
* Encodings: two sessions one after the other, in each protocol, with two keys and URLs
  each, so that any two of the parts of a transcript can be equal or differ.
* Wallet: two relying parties and two copies, so that the wrong one can be taken; two
  mdocs, of which the second makes disclosure ambiguous; two sessions with
  attributes in the history; two uses of an mdoc. Restarts, failures and resets are not
  bounded: keys are reused once nothing refers to them.

Runs with `CHECK_DEADLOCK FALSE` stop at a bound, and so do not stop in the code.
Symmetry is used for handlers, relying parties and copies, in runs without liveness.

### Fairness

* `account_progress`: a handler whose statement can go on does (weak fairness of
  replying and of the pool giving up; strong fairness of a step that competes for a row
  lock or a connection, as Postgres and the pool queue their waiters).
* `store`: the cleanup task ticks for ever, time passes, and a request that
  was started ends. The Postgres transaction of a cleanup is only strongly fair: it may
  fail any number of times but not for ever. Nothing is assumed of users or devices.
* `provider_and_device`, for `PublishedIsAdopted`: an app that is closed is started again,
  and the update task, a loop over a timer, goes on. Faults are bounded, so a request
  that fails is followed by one that does not.

## 4. Proofs

Each theorem but `TypeCorrect`, `AssertionNeverFails` and `PidOfOwnLogin` states a
property of a run; `PidOfOwnLogin` states two conjuncts of `PidIsTrue`, those that do not
depend on the conversions. All hold for every value of the constants that satisfies the
named assumptions: any number of handlers, tokens, callers, versions, messages, wallets,
logins. The assumptions of the modules say that bounds are naturals, that sentinels (no
handler, no session, no caller) are not members of the sets they stand beside, that
messages are well-formed records, that rounds times attempts of a PIN policy fit in a u8,
that key counts are naturals (`KeyScenesAssumption`), and that a redirect which is not of
a login does not carry the code of one (`LoginScenesAssumption`). Three theorems assume
more, in their statement:

* `ScheduleIsAlwaysServed`: a policy has two attempts per round or more. With one,
  every failure ends a round: `evaluate` announces a timeout after each, and its test
  for an attempt that comes too early, `attempts_per_round = left + 1`, is never met;
* `AttemptsAreIndivisible`: there is one handler, and the policy is one that
  `PinPolicy::new` accepts. With two handlers the refinement does not hold, which is why
  `OvershootIsBounded` says how far it is off;
* `OvershootIsBounded`: handlers are finite in number and there is one, and the limit is
  positive.

| Module | Theorem | Inductive invariant, and why the property alone is not inductive |
|---|---|---|
| `PinRetryAndKeyStoreProofs` | `BlockedExactlyAtLimit`, `AssertionNeverFails` | `IInv`: the counter and the time of the last failure are present together and the counter never passes the limit |
| | `ScheduleIsAlwaysServed` | `ServedInv`: the failures that the history variable keeps are the ones that are counted, and the last of them is the time that `evaluate` is given. `EvaluationIsScheduled` shows that `evaluate`'s division and remainder give the schedule |
| | `KeysHaveOneOwner` | `KeyStoreInv`: one call makes the wallet or has its lock; who owns an instance at which step; an identifier in use has an instance |
| `AccountServerProofs` | `TypeCorrect`, `EvaluationIsSafe`, `NoRowStaysLocked` | `IInv`: the assertion is about a row that was read earlier, so the stored row and every snapshot are consistent; a handler in its transaction has the locks it needs |
| | `ChallengesAreSpent` | `NonceInv`: the nonce of a challenge that is being made is known to nobody else; a handler that cleared the challenge it read has the lock of its row, or that challenge is gone |
| `PinAttemptsProofs` | `AttemptsAreIndivisible` (refinement of `PinRetry`) | `RetryInv`: the row that the handler read is still the row, and the verdict on it still stands although time has passed, so accepting or rejecting is an attempt of `PinRetry` and every other statement a stutter |
| | `OvershootIsBounded` | `BoundInv`: the counter, plus the failures that the handlers under way can still cause, stays within the bound. A handler that read the row below the limit unblocks the account once; each time, the others may read it anew |
| `InstructionProtocolProofs` | `WalletIsNeverBehind` | `FreshInv`: the request with the wallet's last number is in one place only, the network or one handler, and while it may still be carried out the server has only seen smaller numbers |
| | `SignFindsItsKey` | `KeyInv`: a handler that answers GenerateKey with success has committed the row; the request the wallet waits on is the one it wants |
| | `RightPinIsNotCounted` | `AloneInv`: a wallet that never gave up on a request has one at most, in one place, and that request has the challenge that is in the row |
| `ProviderKeysProofs` | `KeysAlwaysServe` | `KeysInv`: a row has the key that was made for its identifier by the wallet whose certificate names the account; a future that is polled holds nothing but that key, at every await; two wallets have different accounts |
| `ServerSessionsAndConfigurationProofs` | `MemoryStoreImplements` (refinement) | `StoreInv`: every step of the sweep maps to a step of the contract for one session, or a stutter, since the time the sweep works with is at most `MaxSweep` old |
| | `ExpirationIsFinal` | `RowsInv`: in Postgres the status column alone says that a session has expired, and no write touches it |
| | `OneSessionForEachCode` | `CodesInv`: a code for which a token was sent out has a session or had one, so the insert of a second one fails; `SessionInv`: what a row waits for was sent out, in either store |
| | `EndIsTheLastWord` | `ClosedInv`: what was issued or rejected has closed its session; `Over`: with the session closed, the requests still handled for that code can only be token requests, whose insert fails |
| | `ConfigurationIsKept`, `OnlyCutsWedge` | `ConfigInv`: what the next start finds is not older than what was taken over; no ETag is ahead of the server's; while nothing was cut short only a body still to be read is behind its ETag; a stream is current from the call of its callback, before it is registered |
| `DisclosureAndLoginProofs` | `AnswersAreAsked` | `DisclosureInv`: a row, and a session that a handler read before its awaits, has only what was sent to the device in that session |
| | `EndsAreKept` | `EndedInv`: a session that ended while nobody else handled it is not handled again, since its token is not given out a second time and a request for it finds it in the wrong state |
| | `PidOfOwnLogin` | `LoginInv`: a login has the request of its own number; redirects and code exchanges pair a code with its number; the session of the wallet has the client that was made for its login |
| `WalletProofs` | `DatabaseOpens`, `RegistrationFits` | `DiskInv`: at each step of a reset or a start, what has been deleted or made so far; `StepsInv`: which operations have a registration, and that a reset clears the sessions before it ends |
| | `UsesAreCounted` | `UsageInv`: between the increment and the request the count is strictly ahead, and a session refers to a copy that is stored |
| | `HistoryIsExact` | `HistoryInv`: what a verifier received or the wallet stored is in the history, is about to be, or its write failed; a session whose error stores nothing was recorded by an earlier try |

Three modules hold the proofs of two components that share no state: the PIN policy and
the phone's key store, the server's sessions and the wallet's configuration, the
verifier's sessions and the DigiD logins.

In `ServerSessionsAndConfigurationProofs` the issuer's sessions build on the invariants of
the stores; `InstructionProtocolProofs` and `PinAttemptsProofs` build on
`AccountServerProofs`. Where several invariants meet the same step, the step is summarised
once (`Effect`, `KeyEffect`, `Own`, `Rests`, `Closes`, `LoginsKept`) and the invariants are
shown from the summary. Otherwise there is one lemma per action, or per group of actions
that change the same things.

Only model-checked:

* liveness, and everything under fairness, which the prover does not do:
  `EveryRequestAnswered`, `EverySessionRemoved`, `PublishedIsAdopted`;
* PIN entry: `PinIsSound` counts digits and folds over a PIN's characters, which takes
  induction over sequences;
* attestations (`StoredAsPreviewed`, `RequestIsAnswered`, `DisclosureAgrees`,
  `CopiesAreFresh`, `HonestSucceeds`), the conversions of `PidIsTrue` and `LoginSucceeds`,
  and the app (`ScreenIsCurrent`, `HistoryIsFaithful`): what they say rests on folds,
  sorts and selections over sequences of any length, for which there is no induction;
* `ReasonIsTold` and `FailureKeepsWallet` of `ErrorReports`, whose states are finite but
  for the numbers in PIN errors, so the run is all but the general case;
* `SignedIsAgreed` of the encodings, which is about trees of any depth.

## 5. Not modelled

* Cryptographic primitives, TLS, X.509 path building: signatures, digests and keys are
  symbolic, and that they cannot be forged is assumed.
* Services that are not in the repository: the HSM, the identity provider, the register,
  Postgres and SQLCipher. They are modelled as far as the code uses them.
* Formats that a library derives from types (serde), except where what is written is
  signed.
* Start-up, settings, routing, request logging, and the process of each server: no state
  after the start.
* User interfaces: the Flutter screens, the web frontend, the generated bridge. What a
  user does is a choice of the models.
* The mock relying party, the wallet CA and test tools.
* How many key objects fit in the memory of the HSM while sessions are open: the limit is
  not in the repository.

ISO 18013 sessions are handled one request at a time in the models; what overlapping
requests do is shown for the OpenID4VC verifier and issuer, which are the ones that the
wallet server runs.

## 6. What could be added

1. A composition of `Wallet` with `IssuanceSessions`, in which the wallet's retries meet
   overlapping requests at the issuer; each is now checked against all that the other
   might do.
2. Overlapping requests for the ISO `Verifier`.
3. Proofs about the attestations, once induction over sequences is within reach: that a
   stored copy has the attributes of its preview, and that a disclosure has those that
   were agreed to.
