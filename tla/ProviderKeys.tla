---------------------------- MODULE ProviderKeys -----------------------------
(***************************************************************************)
(* The keys that the wallet provider keeps for wallets: the HSM and its    *)
(* pool of PKCS#11 sessions, the rows with wrapped private keys, the       *)
(* instructions GenerateKey and Sign, and the remote keys of the wallet.   *)
(*                                                                         *)
(* A key pair has a name.  The private  key of a wallet is an object of    *)
(* one PKCS#11 session and is gone when that session is closed; only its   *)
(* wrapped form is kept.  Every HSM call takes a session from the pool and *)
(* gives it back, so the calls of one instruction, which run concurrently  *)
(* for all its keys, and those of other instructions interleave, and       *)
(* sessions reach the end of their lifetime between any two of them.       *)
(***************************************************************************)
EXTENDS Options, Integers, Functions, FiniteSets

CONSTANTS Users,            \* the wallets
          KeyMessages,      \* messages to sign
          KeyScenes         \* the pool and the bounds, in several combinations

ASSUME KeyScenesAssumption ==
    \A s \in DOMAIN KeyScenes : KeyScenes[s].counts \subseteq Nat

VARIABLES key_scene,        \* one of KeyScenes
          pool,             \* the session in each slot of the pool
          opened,           \* sessions opened so far
          key_rows,         \* table wallet_user_key
          accounts,         \* table wallet_user, as far as it is about keys
          asked,            \* the instruction of each wallet that is handled
          wallets,          \* the wallets
          minute            \* the clock

keyVars == <<key_scene, pool, opened, key_rows, accounts, asked, wallets, minute>>

\* max_sessions, and bounds: on the sessions opened, the registration challenges
\* and instructions of each wallet, the keys made at once, and the clock.
EveryKeyScene == KeyScenes
PoolSize == EveryKeyScene[key_scene].max_sessions
MaxOpened == EveryKeyScene[key_scene].opened
MaxChallengesAsked == EveryKeyScene[key_scene].challenges
MaxInstructions == EveryKeyScene[key_scene].instructions
KeyCounts == EveryKeyScene[key_scene].counts
LatestTime == EveryKeyScene[key_scene].latest

-----------------------------------------------------------------------------
(* The HSM.  Token objects are found by their label; none is ever changed.  *)

Settings ==
    [certificate_signing_key |-> "certificate", instruction_result_signing_key |-> "result",
     attestation_wrapping_key |-> "wrapping", pin_pubkey_encryption_key |-> "encryption",
     pin_public_disclosure_protection_key |-> "protection"]

TokenLabels == {Settings[f] : f \in DOMAIN Settings}
get_key_handle(label) == IF label \in TokenLabels THEN Some(label) ELSE None

\* An object of a session, which it does not outlive.
SessionObject(key, session) == [key |-> key, session |-> session]
Exists(object) == object.session \in Range(pool)

sha256(data) == <<"sha256", data>>
HsmSign(key, mechanism, data) == [by |-> key, with |-> mechanism, over |-> sha256(data)]
HsmVerify(key, mechanism, data, signature) == signature = HsmSign(key, mechanism, data)

\* p256's Verifier: ECDSA over the hash of the message.
VerifiedBy(public_key, data, signature) == signature = HsmSign(public_key, "Ecdsa256", data)

wrap_key(label, object) == [with |-> get_key_handle(label)[1], key |-> object.key]
unwrap_signing_key(label, wrapped, session) ==
    IF wrapped.with = label THEN Some(SessionObject(wrapped.key, session)) ELSE None

\* The initialization vector is random: it is named by the wallet that it is for.
Encrypted(data, iv) == [data |-> data, iv |-> iv]
GcmEncrypt(label, iv, data) == [key |-> label, iv |-> iv, of |-> data]
GcmDecrypt(label, iv, data) == IF data.key = label /\ data.iv = iv THEN Some(data.of) ELSE None

HsmEncrypt(label, data, iv) == Encrypted(GcmEncrypt(label, iv, data), iv)

HsmDecrypt(label, encrypted) == GcmDecrypt(label, encrypted.iv, encrypted.data)

sign_hmac(label, data) == HsmSign(get_key_handle(label)[1], "Sha256Hmac", data)
verify_hmac(label, data, signature) == HsmVerify(get_key_handle(label)[1], "Sha256Hmac", data, signature)

-----------------------------------------------------------------------------
(* JSON web tokens.  The leeway for exp is a minute.                        *)

JwtSign(claims, label) == [claims |-> claims, signed_by |-> label]

sign_with_sub(claims, sub, label) == JwtSign([sub |-> Some(sub), payload |-> claims], label)

Leeway == 1
Validations(jwt, time) ==
    "exp" \in DOMAIN jwt.claims.payload => time <= jwt.claims.payload.exp + Leeway

\* The payload must have the fields of the claims that it is parsed to.
parse_and_verify_with_sub(jwt, label, fields, time) ==
    /\ jwt.signed_by = label
    /\ Validations(jwt, time)
    /\ jwt.claims.sub # None
    /\ fields \subseteq DOMAIN jwt.claims.payload

ChallengeFields == {"wallet_id", "exp", "random"}
CertificateFields == {"wallet_id", "hw_pubkey", "pin_pubkey_hash", "version"}

-----------------------------------------------------------------------------
(* The account server's use of its own keys.                                *)

sign_pin_pubkey(pubkey) ==
    sign_hmac(Settings.pin_public_disclosure_protection_key, <<"DER", pubkey>>)
verify_pin_pubkey(pubkey, hash) ==
    verify_hmac(Settings.pin_public_disclosure_protection_key, <<"DER", pubkey>>, hash)

registration_challenge(wallet_id) ==
    sign_with_sub([wallet_id |-> wallet_id, exp |-> minute + 1, random |-> wallet_id],
                  "registration_challenge", Settings.certificate_signing_key)

new_wallet_certificate(wallet_id, hw_pubkey, pin_pubkey) ==
    sign_with_sub([wallet_id |-> wallet_id, hw_pubkey |-> hw_pubkey,
                   pin_pubkey_hash |-> sign_pin_pubkey(pin_pubkey), version |-> 0],
                  "wallet_certificate", Settings.certificate_signing_key)

verify_registration_challenge(challenge) ==
    parse_and_verify_with_sub(challenge, Settings.certificate_signing_key, ChallengeFields, minute)

\* The account that a certificate is for, with the PIN key that the row holds.
CertificateVerdict(certificate) ==
    IF ~parse_and_verify_with_sub(certificate, Settings.certificate_signing_key, CertificateFields, minute)
    THEN "CertificateValidation"
    ELSE LET claims == certificate.claims.payload
             found == {a \in accounts : a.wallet_id = claims.wallet_id}
         IN  IF found = {} THEN "UserNotRegistered"
             ELSE LET account == CHOOSE a \in found : TRUE
                      pin == HsmDecrypt(Settings.pin_pubkey_encryption_key, account.encrypted_pin_pubkey)
                  IN  IF pin = None THEN "Hsm"
                      ELSE IF ~verify_pin_pubkey(pin[1], claims.pin_pubkey_hash) THEN "PinPubKeyMismatch"
                      ELSE IF account.hw_pubkey # claims.hw_pubkey THEN "HwPubKeyMismatch" ELSE "Ok"

-----------------------------------------------------------------------------
(* Wallets.  Every identifier that a wallet makes up is a new one; those of *)
(* two wallets need not differ.                                             *)

NewWallet == [challenges |-> 0, challenge |-> None, certificate |-> None, known |-> <<>>, identifiers |-> 0,
              sent |-> 0, signed |-> {}, next |-> None, failed |-> "none"]
HwKey(u) == <<"hw", u>>
PinKeyOf(u) == <<"pin", u>>
WalletIds == {a.wallet_id : a \in accounts}

KeyInit ==
    /\ key_scene \in DOMAIN KeyScenes
    /\ pool = [slot \in 1..PoolSize |-> slot] /\ opened = PoolSize
    /\ key_rows = {} /\ accounts = {}
    /\ asked = [u \in Users |-> None]
    /\ wallets = [u \in Users |-> NewWallet]
    /\ minute = 0

RequestChallenge(u) ==
    /\ wallets[u].certificate = None /\ wallets[u].challenge = None
    /\ wallets[u].challenges < MaxChallengesAsked[u]
    /\ wallets' = [wallets EXCEPT ![u].challenges = @ + 1,
                                  ![u].challenge = Some(registration_challenge(<<u, wallets[u].challenges + 1>>))]
    /\ UNCHANGED <<key_scene, pool, opened, key_rows, accounts, asked, minute>>

\* register: the row is committed together with the certificate.  An answer that
\* does not arrive, or an expired challenge, makes the wallet start again.
Register(u, lost) ==
    LET challenge == wallets[u].challenge[1]
        id == challenge.claims.payload.wallet_id
        ok == verify_registration_challenge(challenge) /\ id \notin WalletIds
        pin == HsmEncrypt(Settings.pin_pubkey_encryption_key, PinKeyOf(u), id)
    IN  /\ wallets[u].challenge # None
        /\ accounts' = IF ok
                       THEN accounts \cup {[wallet_id |-> id, hw_pubkey |-> HwKey(u), encrypted_pin_pubkey |-> pin]}
                       ELSE accounts
        /\ wallets' = [wallets EXCEPT ![u].challenge = None,
                                      ![u].certificate =
                          IF ok /\ ~lost THEN Some(new_wallet_certificate(id, HwKey(u), PinKeyOf(u))) ELSE None]
        /\ UNCHANGED <<key_scene, pool, opened, key_rows, asked, minute>>

-----------------------------------------------------------------------------
(* Instructions.  A future per key (GenerateKey) or per message and key     *)
(* (Sign), all polled concurrently: try_join_all.                           *)

Pending == [at |-> "new", object |-> None, wrapped |-> None, result |-> None]

Identifiers(messages_with_identifiers) ==
    UNION {Range(messages_with_identifiers[i][2]) : i \in DOMAIN messages_with_identifiers}

\* One row of futures per message; GenerateKey has a single row.
Instruction(op, messages_with_identifiers) ==
    [op |-> op, messages |-> messages_with_identifiers, keys |-> {}, answer |-> None,
     futures |-> [i \in DOMAIN messages_with_identifiers |->
                     [j \in DOMAIN messages_with_identifiers[i][2] |-> Pending]]]

\* Mutant: the rows of all wallets are looked at.
find_keys_of_anyone(user, identifiers) == {r \in key_rows : r.identifier \in identifiers}

find_keys_by_identifiers(user, identifiers) ==
    {r \in key_rows : r.wallet_user_id = user /\ r.identifier \in identifiers}

\* insert_many: all rows or, when an identifier of this wallet is used again, none.
create_keys(user, keys) ==
    LET rows == {[wallet_user_id |-> user, identifier |-> keys[i].identifier, key |-> keys[i].key] : i \in DOMAIN keys}
        taken == {r \in key_rows : r.wallet_user_id = user /\ \E new \in rows : new.identifier = r.identifier}
    IN  IF taken = {} THEN Some(rows) ELSE None

FoundKey(found, identifier) == CHOOSE r \in found : r.identifier = identifier

\* The futures that are left are dropped with the instruction.
Answered(u, answer) ==
    asked' = [asked EXCEPT ![u] = Some([@[1] EXCEPT !.answer = Some(answer), !.futures = <<>>, !.keys = {}])]
ErrorAnswer(error) == [kind |-> error, keys |-> <<>>, signatures |-> <<>>]

\* The wallet sends an instruction.  The account server verifies the certificate
\* and, for Sign, looks the keys up: one that is not found makes it panic.
Sent(u, op, messages) ==
    LET verdict == CertificateVerdict(wallets[u].certificate[1])
        identifiers == Identifiers(messages)
        found == find_keys_by_identifiers(wallets[u].certificate[1].claims.payload.wallet_id, identifiers)
        refused == IF verdict # "Ok" THEN verdict
                   ELSE IF op = "Sign" /\ {r.identifier : r \in found} # identifiers THEN "Panic" ELSE "none"
        instruction == [Instruction(op, messages) EXCEPT !.keys = IF op = "Sign" THEN found ELSE {}]
    IN  asked' = [asked EXCEPT ![u] =
                     Some(IF refused = "none" THEN instruction
                          ELSE [instruction EXCEPT !.answer = Some(ErrorAnswer(refused))])]

CanSend(u) == wallets[u].certificate # None /\ asked[u] = None

\* RemoteEcdsaKeyFactory: generate_new_multiple, and sign_with_new_keys when a
\* message is to be signed with the new keys.
GenerateNewMultiple(u, count, next) ==
    LET identifiers == [i \in 1..count |-> wallets[u].identifiers + i]
    IN  /\ CanSend(u) /\ wallets[u].next = None /\ wallets[u].sent < MaxInstructions[u]
        /\ Sent(u, "GenerateKey", <<<<"none", identifiers>>>>)
        /\ wallets' = [wallets EXCEPT ![u].identifiers = @ + count, ![u].sent = @ + 1, ![u].next = next]
        /\ UNCHANGED <<key_scene, pool, opened, key_rows, accounts, minute>>

IdentifiersOf(keys) == [j \in DOMAIN keys |-> keys[j].identifier]

\* sign_multiple_with_existing_keys, try_sign
SignWithExistingKeys(u, messages_and_keys) ==
    /\ CanSend(u) /\ messages_and_keys # <<>>
    /\ Sent(u, "Sign", [i \in DOMAIN messages_and_keys |->
                          <<messages_and_keys[i][1], IdentifiersOf(messages_and_keys[i][2])>>])
    /\ wallets' = [wallets EXCEPT ![u].sent = @ + 1, ![u].next = None]
    /\ UNCHANGED <<key_scene, pool, opened, key_rows, accounts, minute>>

-----------------------------------------------------------------------------
(* The HSM calls of a future.                                               *)

Running(u) == asked[u] # None /\ asked[u][1].answer = None
Future(u, i, j) == asked[u][1].futures[i][j]
SetFuture(u, i, j, future) == asked' = [asked EXCEPT ![u] = Some([@[1] EXCEPT !.futures[i][j] = future])]

\* A key is new when it is made; it is named by what it is made for.
NewKey(u, i, j) == <<u, asked[u][1].messages[i][2][j]>>

\* generate_session_signing_key_pair: both keys are objects of the session used.
GenerateKeyPair(u, i, j, slot) ==
    /\ asked[u][1].op = "GenerateKey" /\ Future(u, i, j).at = "new"
    /\ SetFuture(u, i, j, [Future(u, i, j) EXCEPT !.at = "made", !.object = Some(SessionObject(NewKey(u, i, j), pool[slot]))])
    /\ UNCHANGED <<key_scene, pool, opened, key_rows, accounts, wallets, minute>>

Wrap(u, i, j) ==
    LET object == Future(u, i, j).object[1]
    IN  /\ asked[u][1].op = "GenerateKey" /\ Future(u, i, j).at = "made"
        /\ IF Exists(object)
           THEN SetFuture(u, i, j, [Future(u, i, j) EXCEPT !.at = "wrapped",
                                       !.wrapped = Some(wrap_key(Settings.attestation_wrapping_key, object))])
           ELSE Answered(u, ErrorAnswer("Hsm"))
        /\ UNCHANGED <<key_scene, pool, opened, key_rows, accounts, wallets, minute>>

get_verifying_key(u, i, j) ==
    LET object == Future(u, i, j).object[1]
    IN  /\ Future(u, i, j).at = "wrapped"
        /\ IF Exists(object)
           THEN SetFuture(u, i, j, [Future(u, i, j) EXCEPT !.at = "done", !.object = None, !.result = Some(object.key)])
           ELSE Answered(u, ErrorAnswer("Hsm"))
        /\ UNCHANGED <<key_scene, pool, opened, key_rows, accounts, wallets, minute>>

\* sign_wrapped: unwrap the key into an object of the session used, and sign.
Unwrap(u, i, j, slot) ==
    LET instruction == asked[u][1]
        row == FoundKey(instruction.keys, instruction.messages[i][2][j])
    IN  /\ instruction.op = "Sign" /\ Future(u, i, j).at = "new"
        /\ SetFuture(u, i, j, [Future(u, i, j) EXCEPT !.at = "made",
                                  !.object = unwrap_signing_key(Settings.attestation_wrapping_key, row.key, pool[slot])])
        /\ UNCHANGED <<key_scene, pool, opened, key_rows, accounts, wallets, minute>>

SignUnwrapped(u, i, j) ==
    LET object == Future(u, i, j).object[1]
        message == asked[u][1].messages[i][1]
    IN  /\ asked[u][1].op = "Sign" /\ Future(u, i, j).at = "made"
        /\ IF Exists(object)
           THEN SetFuture(u, i, j, [Future(u, i, j) EXCEPT !.at = "done", !.object = None,
                                       !.result = Some(HsmSign(object.key, "Ecdsa256", message))])
           ELSE Answered(u, ErrorAnswer("Hsm"))
        /\ UNCHANGED <<key_scene, pool, opened, key_rows, accounts, wallets, minute>>

\* Any call to the HSM or the database may fail; try_join_all gives up at once.
InstructionFails(u) ==
    /\ Answered(u, ErrorAnswer("Hsm"))
    /\ UNCHANGED <<key_scene, pool, opened, key_rows, accounts, wallets, minute>>

AllDone(u) ==
    \A i \in DOMAIN asked[u][1].futures : \A j \in DOMAIN asked[u][1].futures[i] : Future(u, i, j).at = "done"

\* The triples of generate_wrapped_keys, in the order of the identifiers.
Generated(identifiers, futures) ==
    [j \in DOMAIN futures |-> [identifier |-> identifiers[j], public_key |-> futures[j].result[1],
                               key |-> futures[j].wrapped[1]]]

\* The end of GenerateKey: the rows are committed before the answer is given.
SaveKeys(u) ==
    LET instruction == asked[u][1]
        keys == Generated(instruction.messages[1][2], instruction.futures[1])
        rows == create_keys(wallets[u].certificate[1].claims.payload.wallet_id, keys)
    IN  /\ instruction.op = "GenerateKey" /\ AllDone(u)
        /\ key_rows' = IF rows # None THEN key_rows \cup rows[1] ELSE key_rows
        /\ Answered(u, IF rows = None THEN ErrorAnswer("Persistence")
                       ELSE [ErrorAnswer("Ok") EXCEPT !.keys =
                                [j \in DOMAIN keys |-> [identifier |-> keys[j].identifier,
                                                        public_key |-> keys[j].public_key]]])
        /\ UNCHANGED <<key_scene, pool, opened, accounts, wallets, minute>>

SignResult(u) ==
    LET futures == asked[u][1].futures
    IN  /\ asked[u][1].op = "Sign" /\ AllDone(u)
        /\ Answered(u, [ErrorAnswer("Ok") EXCEPT !.signatures =
                           [i \in DOMAIN futures |-> [j \in DOMAIN futures[i] |-> futures[i][j].result[1]]]])
        /\ UNCHANGED <<key_scene, pool, opened, key_rows, accounts, wallets, minute>>

-----------------------------------------------------------------------------
(* The wallet gets its answer, or not.                                      *)

KnownKey(u, identifier) ==
    LET known == wallets[u].known
    IN  known[CHOOSE i \in DOMAIN known : known[i].identifier = identifier]

\* Signatures are paired with messages and keys by their positions.
Paired(u, messages, signatures) ==
    UNION {{[public_key |-> KnownKey(u, messages[i][2][j]).public_key, message |-> messages[i][1],
             signature |-> signatures[i][j]] : j \in DOMAIN signatures[i]} : i \in DOMAIN signatures}

\* What is to be signed with the keys just made.
NextStep(next, answer) ==
    IF next = None \/ answer.keys = <<>> THEN None ELSE Some([next[1] EXCEPT !.keys = answer.keys])

ReceiveAnswer(u, lost) ==
    LET instruction == asked[u][1]
        answer == IF lost THEN ErrorAnswer("Lost") ELSE instruction.answer[1]
    IN  /\ asked[u] # None /\ instruction.answer # None
        /\ wallets' = [wallets EXCEPT ![u].known = @ \o answer.keys,
                                      ![u].signed = @ \cup Paired(u, instruction.messages, answer.signatures),
                                      ![u].next = NextStep(@, answer)]
        /\ asked' = [asked EXCEPT ![u] = None]
        /\ UNCHANGED <<key_scene, pool, opened, key_rows, accounts, minute>>

\* The second half of sign_with_new_keys.
SignNext(u) ==
    /\ wallets[u].next # None /\ wallets[u].next[1].keys # <<>>
    /\ SignWithExistingKeys(u, <<<<wallets[u].next[1].message, wallets[u].next[1].keys>>>>)

\* Any known keys, in any order, for one or two messages.
SignKnown(u) ==
    LET known == wallets[u].known
    IN  /\ wallets[u].next = None /\ wallets[u].sent < MaxInstructions[u]
        /\ known # <<>>
        /\ \E order \in Bijection(DOMAIN known, DOMAIN known) : \E m1, m2 \in KeyMessages :
              LET keys == [i \in DOMAIN known |-> known[order[i]]]
              IN  SignWithExistingKeys(u, <<<<m1, keys>>, <<m2, <<keys[Len(keys)]>>>>>>)

-----------------------------------------------------------------------------

\* A session reaches max_lifetime while it is in the pool and is replaced.
SessionEnds(slot) ==
    /\ opened < MaxOpened
    /\ opened' = opened + 1
    /\ pool' = [pool EXCEPT ![slot] = opened + 1]
    /\ UNCHANGED <<key_scene, key_rows, accounts, asked, wallets, minute>>

\* The wallet provider restarts: what it was doing is lost.
Restart ==
    /\ opened + PoolSize <= MaxOpened
    /\ opened' = opened + PoolSize
    /\ pool' = [slot \in 1..PoolSize |-> opened + slot]
    /\ asked' = [u \in Users |->
                    IF Running(u)
                    THEN Some([asked[u][1] EXCEPT !.answer = Some(ErrorAnswer("Lost")), !.futures = <<>>, !.keys = {}])
                    ELSE asked[u]]
    /\ UNCHANGED <<key_scene, key_rows, accounts, wallets, minute>>

\* Time only matters while a challenge waits for its answer.
KeyTick ==
    /\ minute < LatestTime /\ \E u \in Users : wallets[u].challenge # None
    /\ minute' = minute + 1
    /\ UNCHANGED <<key_scene, pool, opened, key_rows, accounts, asked, wallets>>

HsmCall(u) ==
    \E i \in DOMAIN asked[u][1].futures : \E j \in DOMAIN asked[u][1].futures[i] :
        \/ \E slot \in 1..PoolSize : GenerateKeyPair(u, i, j, slot) \/ Unwrap(u, i, j, slot)
        \/ Wrap(u, i, j) \/ get_verifying_key(u, i, j) \/ SignUnwrapped(u, i, j)

KeyNext ==
    \/ \E u \in Users :
          \/ RequestChallenge(u)
          \/ \E lost \in BOOLEAN : Register(u, lost) \/ ReceiveAnswer(u, lost)
          \/ \E count \in KeyCounts : \E next \in {None} \cup {Some([message |-> m, keys |-> <<>>]) : m \in KeyMessages} :
                GenerateNewMultiple(u, count, next)
          \/ SignNext(u) \/ SignKnown(u)
          \/ Running(u) /\ (HsmCall(u) \/ SaveKeys(u) \/ SignResult(u) \/ InstructionFails(u))
    \/ \E slot \in 1..PoolSize : SessionEnds(slot)
    \/ Restart \/ KeyTick

KeySpec == KeyInit /\ [][KeyNext]_keyVars

-----------------------------------------------------------------------------
(* Properties.                                                              *)

\* Every signature that a wallet is given is one over its message by the key that
\* the wallet pairs it with, however the HSM calls of the wallets interleave and
\* even when wallets use the same identifiers (found_keys, try_join_all, zip).
SignaturesVerify ==
    \A u \in Users : \A s \in wallets[u].signed : VerifiedBy(s.public_key, s.message, s.signature)

\* A key that a wallet was told about is kept, wrapped, in the one row that its
\* identifier leads to, whatever sessions end and answers are lost meanwhile:
\* found_keys.get(identifier).unwrap() in Sign does not panic.
KnownKeysAreKept ==
    \A u \in Users : \A i \in DOMAIN wallets[u].known :
        LET key == wallets[u].known[i]
            rows == find_keys_by_identifiers(wallets[u].certificate[1].claims.payload.wallet_id, {key.identifier})
        IN  {r.key : r \in rows} = {[with |-> Settings.attestation_wrapping_key, key |-> key.public_key]}

\* A wallet that holds a certificate is recognised by it ever after: the PIN key in
\* its row still decrypts and still matches the hash in the certificate.
RegisteredIsRecognised ==
    \A u \in Users : wallets[u].certificate # None => CertificateVerdict(wallets[u].certificate[1]) = "Ok"

\* What the provider has told a wallet goes on to be true, whatever the HSM sessions
\* and other wallets do: its keys are there, sign for it and for nobody else, and
\* its certificate is recognised (GenerateKey, Sign, verify_wallet_certificate).
KeysServe == SignaturesVerify /\ KnownKeysAreKept /\ RegisteredIsRecognised
=============================================================================
