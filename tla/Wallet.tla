------------------------------- MODULE Wallet -------------------------------
(***************************************************************************)
(* The wallet on the phone: the Wallet struct and its DatabaseStorage.     *)
(*                                                                         *)
(* The public methods take &mut self, so one operation runs at a time.     *)
(* What makes the wallet hard is that an operation writes to the phone in  *)
(* several steps: to the platform's key store, to the key file, to the     *)
(* encrypted database.  Each of those writes is a step of its own here.    *)
(* It may fail, and the app may be killed before or after it.  The next    *)
(* start of the app finds whatever was written.                            *)
(*                                                                         *)
(* The history holds, of the disclosure events, the ones with attributes.  *)
(* An event without attributes (a cancelled disclosure, or an error before *)
(* anything was sent) is stored by the same steps, but leaves no trace.    *)
(*                                                                         *)
(* Keys are numbers, and only compared.  A new key is one that nothing on  *)
(* the phone refers to.                                                    *)
(***************************************************************************)
EXTENDS Naturals, Sequences, FiniteSetsExt

CONSTANTS RelyingParties,       \* verifiers, told apart by their certificate
          Copies,               \* the copies in which an mdoc is issued
          MaxSessions,          \* bound on the disclosure sessions in the log
          MaxMdocs,             \* bound on the mdocs issued
          MaxUse                \* bound on the usage counts of an mdoc's copies, together

ASSUME WalletAssumption ==
    /\ RelyingParties # {} /\ Copies # {}
    /\ MaxSessions \in Nat /\ MaxMdocs \in Nat /\ MaxUse \in Nat

VARIABLES
    \* What is on the phone:
    keys,           \* the platform's key store: [storage, hw]
    keyFile,        \* the key file: absent, cut off, or the database key, encrypted
    db,             \* the database file
    \* What the running app has in memory:
    reg,            \* registration: the certified hardware key
    locked,         \* lock
    opened,         \* storage.open_database
    issuance,       \* issuance_session
    disclosure,     \* disclosure_session
    op,             \* the operation that runs, and where it is
    \* What happened since the database was made, for the properties:
    received,       \* disclosure sessions whose verifier received attributes
    sent,           \* how often a verifier received a copy, per mdoc
    missed,         \* sessions and mdocs whose event could not be stored
    kept            \* has a reset failed to delete something?

disk == <<keys, keyFile, db>>
memory == <<reg, locked, opened, issuance, disclosure>>
past == <<received, sent, missed, kept>>
walletVars == <<disk, memory, op, past>>

NoKey == 0
KeyIds == 1..3
None == [none |-> TRUE]
Torn == [torn |-> TRUE]

\* A key made by the key store or by random_bytes: none that is in use.
NewKey(used) == CHOOSE k \in KeyIds : k \notin used

At(step) == op.at = step
Goto(step) == op' = [at |-> step]
NoneRunning == At("idle")
Unlocked == NoneRunning /\ reg # NoKey /\ ~locked

Session(id, rp, mdoc, copy, before) ==
    [id |-> id, rp |-> rp, mdoc |-> mdoc, copy |-> copy, before |-> before]
Ident(s) == [id |-> s.id, rp |-> s.rp]
Proposal(s) == s # None /\ s.mdoc # 0

DisclosureEvent(s, status) == [id |-> s.id, rp |-> s.rp, status |-> status]
IssuanceEvent(i) == [mdoc |-> i]

Disclosures(log) == {e \in log : "status" \in DOMAIN e}

\* The session whose attributes may be out and whose event is to be stored next.
Unlogged ==
    IF At("log_success") THEN {Ident(op.session)}
    ELSE IF At("log_error") THEN {Ident(disclosure)} \cap received ELSE {}
UnloggedMdoc == IF At("log_issuance") THEN {IssuanceEvent(Len(db.mdocs))} ELSE {}

WalletInit ==
    /\ keys = [storage |-> NoKey, hw |-> NoKey]
    /\ keyFile = None
    /\ db = None
    /\ reg = NoKey /\ locked = TRUE /\ opened = FALSE
    /\ issuance = "none" /\ disclosure = None
    /\ op = [at |-> "down"]
    /\ received = {} /\ sent = <<>> /\ missed = {} /\ kept = FALSE

-----------------------------------------------------------------------------
(* Starting the app, and its being killed                                   *)

\* init_registration: without a database file there is no registration.
Start ==
    /\ At("down")
    /\ Goto(IF db = None THEN "idle" ELSE "start_key_file")
    /\ UNCHANGED <<disk, memory, past>>

\* The process ends; fs::write may have made the key file without its contents.
Crash ==
    /\ ~At("down")
    /\ Goto("down")
    /\ reg' = NoKey /\ locked' = TRUE /\ opened' = FALSE
    /\ issuance' = "none" /\ disclosure' = None
    /\ keyFile' \in {keyFile} \cup (IF op.at \in {"start_key_file", "register_key_file"} /\ keyFile = None
                                THEN {Torn} ELSE {})
    /\ missed' = missed \cup Unlogged \cup UnloggedMdoc
    /\ UNCHANGED <<keys, db, received, sent, kept>>

-----------------------------------------------------------------------------
(* DatabaseStorage::open                                                    *)

Readable == keyFile # None /\ keyFile # Torn /\ keyFile.by = keys.storage

\* Mutant: the key file is always made anew.
get_or_create_key_file_overwrites(from, to, failed) ==
    /\ At(from)
    /\ LET k == IF keys.storage = NoKey THEN NewKey({}) ELSE keys.storage
       IN  /\ keys' = [keys EXCEPT !.storage = k]
           /\ keyFile' = [by |-> k, secret |-> NewKey(IF db = None THEN {} ELSE {db.secret})]
           /\ Goto(to)
    /\ UNCHANGED <<db, memory, past>>

\* The database key is read from the key file, or made and written to it.
get_or_create_key_file(from, to, failed) ==
    /\ At(from)
    /\ \/ /\ keyFile = None
          /\ LET k == IF keys.storage = NoKey THEN NewKey({}) ELSE keys.storage
             IN  /\ keys' = [keys EXCEPT !.storage = k]
                 /\ keyFile' = [by |-> k, secret |-> NewKey(IF db = None THEN {} ELSE {db.secret})]
          /\ Goto(to)
       \/ /\ keyFile # None
          /\ keys' = [keys EXCEPT !.storage = IF @ = NoKey
                         THEN NewKey(IF keyFile = Torn THEN {} ELSE {keyFile.by}) ELSE @]
          /\ Goto(IF Readable THEN to ELSE failed)
          /\ UNCHANGED keyFile
       \/ /\ Goto(failed)
          /\ UNCHANGED <<keys, keyFile>>
    /\ UNCHANGED <<db, memory, past>>

\* Database::open makes the file if there is none, and cannot read one under another key.
open_database(from, to, failed) ==
    /\ At(from)
    /\ \/ /\ db = None
          /\ db' = [secret |-> keyFile.secret, reg |-> NoKey, mdocs |-> <<>>, log |-> {}]
          /\ opened' = TRUE /\ Goto(to)
       \/ /\ db # None /\ db.secret = keyFile.secret
          /\ opened' = TRUE /\ Goto(to)
          /\ UNCHANGED db
       \/ /\ Goto(failed)
          /\ UNCHANGED <<db, opened>>
    /\ UNCHANGED <<keys, keyFile, reg, locked, issuance, disclosure, past>>

\* fetch_registration opens an existing database; if that fails there is no wallet.
StartKeyFile == get_or_create_key_file("start_key_file", "start_open", "down")
StartOpen == open_database("start_open", "start_fetch", "down")
StartFetch ==
    /\ At("start_fetch")
    /\ \/ Goto("idle") /\ reg' = db.reg /\ UNCHANGED opened
       \/ Goto("down") /\ opened' = FALSE /\ UNCHANGED reg
    /\ UNCHANGED <<disk, locked, issuance, disclosure, past>>

-----------------------------------------------------------------------------
(* register, lock, unlock                                                   *)

\* The PIN is valid, and the hardware key is made when its public key is asked for.
Register ==
    /\ NoneRunning /\ reg = NoKey
    /\ keys' = [keys EXCEPT !.hw = IF @ = NoKey THEN NewKey(IF db = None THEN {} ELSE {db.reg}) ELSE @]
    /\ Goto("register_request")
    /\ UNCHANGED <<keyFile, db, memory, past>>

\* The wallet provider answers with a certificate for the hardware key, or does not.
RegisterReply ==
    /\ At("register_request")
    /\ \/ Goto(IF opened THEN "register_insert" ELSE "register_key_file")
       \/ Goto("idle")
    /\ UNCHANGED <<disk, memory, past>>

RegisterKeyFile == get_or_create_key_file("register_key_file", "register_open", "idle")
RegisterOpen == open_database("register_open", "register_insert", "idle")

\* Mutant: the registration is kept in memory even if it could not be stored.
RegisterInsert_unstored ==
    /\ At("register_insert")
    /\ \/ db.reg = NoKey /\ db' = [db EXCEPT !.reg = keys.hw]
       \/ UNCHANGED db
    /\ reg' = keys.hw /\ locked' = FALSE
    /\ Goto("idle")
    /\ UNCHANGED <<keys, keyFile, opened, issuance, disclosure, past>>

\* insert_data refuses a second registration.
RegisterInsert ==
    /\ At("register_insert")
    /\ \/ /\ db.reg = NoKey
          /\ db' = [db EXCEPT !.reg = keys.hw]
          /\ reg' = keys.hw /\ locked' = FALSE
       \/ UNCHANGED <<db, reg, locked>>
    /\ Goto("idle")
    /\ UNCHANGED <<keys, keyFile, opened, issuance, disclosure, past>>

lock ==
    /\ NoneRunning
    /\ locked' = TRUE
    /\ UNCHANGED <<disk, reg, opened, issuance, disclosure, op, past>>

\* The wallet provider accepts the PIN.
unlock ==
    /\ NoneRunning /\ reg # NoKey /\ locked
    /\ locked' = FALSE
    /\ UNCHANGED <<disk, reg, opened, issuance, disclosure, op, past>>

-----------------------------------------------------------------------------
(* reset_to_initial_state, which a locked wallet may do too                 *)

ResetBegins ==
    /\ reg' = NoKey
    /\ Goto("clear_database")
    /\ UNCHANGED <<disk, locked, opened, issuance, disclosure, past>>

reset == NoneRunning /\ reg # NoKey /\ ResetBegins

\* A deletion may fail, which is only logged.
Deleted == UNCHANGED kept
NotDeleted == kept' = TRUE

ClearDatabase ==
    /\ At("clear_database")
    /\ opened' = FALSE
    /\ \/ /\ db' = None /\ Deleted
          /\ received' = {} /\ sent' = <<>> /\ missed' = {}
       \/ /\ NotDeleted
          /\ UNCHANGED <<db, received, sent, missed>>
    /\ Goto("clear_key_file")
    /\ UNCHANGED <<keys, keyFile, reg, locked, issuance, disclosure>>

ClearKeyFile ==
    /\ At("clear_key_file")
    /\ \/ keyFile' = None /\ Deleted
       \/ NotDeleted /\ UNCHANGED keyFile
    /\ Goto("clear_key")
    /\ UNCHANGED <<keys, db, memory, received, sent, missed>>

ClearKey ==
    /\ At("clear_key")
    /\ \/ keys' = [keys EXCEPT !.storage = NoKey] /\ Deleted
       \/ NotDeleted /\ UNCHANGED keys
    /\ Goto("delete_hw_key")
    /\ UNCHANGED <<keyFile, db, memory, received, sent, missed>>

DeleteHwKey ==
    /\ At("delete_hw_key")
    /\ \/ keys' = [keys EXCEPT !.hw = NoKey]
       \/ UNCHANGED keys
    /\ issuance' = "none" /\ disclosure' = None /\ locked' = TRUE
    /\ Goto("idle")
    /\ UNCHANGED <<keyFile, db, reg, opened, past>>

-----------------------------------------------------------------------------
(* PID issuance                                                             *)

create_pid_issuance_auth_url ==
    /\ Unlocked /\ issuance = "none"
    /\ issuance' = "digid"
    /\ UNCHANGED <<disk, reg, locked, opened, disclosure, op, past>>

\* The DigiD session is used up, whether or not a preview is received.
continue_pid_issuance ==
    /\ Unlocked /\ issuance = "digid"
    /\ issuance' \in {"none", "openid4vci"}
    /\ UNCHANGED <<disk, reg, locked, opened, disclosure, op, past>>

cancel_pid_issuance ==
    /\ Unlocked /\ issuance # "none"
    /\ issuance' = "none"
    /\ UNCHANGED <<disk, reg, locked, opened, disclosure, op, past>>

\* The mdocs were received.  Their issuer certificates may turn out to be unusable.
accept_pid_issuance ==
    /\ Unlocked /\ issuance = "openid4vci" /\ Len(db.mdocs) < MaxMdocs
    /\ issuance' = "none"
    /\ \/ Goto("insert_mdocs")
       \/ UNCHANGED op
    /\ UNCHANGED <<disk, reg, locked, opened, disclosure, past>>

\* The wallet provider answers with a PIN timeout, or the account is blocked.
accept_pid_issuance_blocked == Unlocked /\ issuance = "openid4vci" /\ ResetBegins

InsertMdocs ==
    /\ At("insert_mdocs")
    /\ \/ /\ db' = [db EXCEPT !.mdocs = Append(@, [c \in Copies |-> 0])]
          /\ sent' = Append(sent, [c \in Copies |-> 0])
          /\ Goto("log_issuance")
       \/ Goto("idle") /\ UNCHANGED <<db, sent>>
    /\ UNCHANGED <<keys, keyFile, memory, received, missed, kept>>

\* store_history_event: the event is stored, or it is lost.
store_history_event(events, lost) ==
    \/ db' = [db EXCEPT !.log = @ \cup events] /\ UNCHANGED missed
    \/ missed' = missed \cup lost /\ UNCHANGED db

LogIssuance ==
    /\ At("log_issuance")
    /\ store_history_event({IssuanceEvent(Len(db.mdocs))}, UnloggedMdoc)
    /\ Goto("idle")
    /\ UNCHANGED <<keys, keyFile, memory, received, sent, kept>>

-----------------------------------------------------------------------------
(* Disclosure                                                               *)

\* did_share_data_with_relying_party
did_share_data(rp) ==
    \E e \in Disclosures(db.log) : e.rp = rp /\ e.status = "Success"

\* query_unique_mdocs: of the copies of an mdoc, one with the lowest count.
LeastUsed(i) == {c \in Copies : \A d \in Copies : db.mdocs[i][c] <= db.mdocs[i][d]}

SessionIds == {s.id : s \in received \cup {m \in missed : "id" \in DOMAIN m}}
                  \cup {e.id : e \in Disclosures(db.log)}

\* Without a matching mdoc the session is kept to report what is missing.  With
\* several there is no session, as the user cannot choose between them yet.
start_disclosure(rp) ==
    /\ Unlocked /\ disclosure = None
    /\ \E id \in 1..MaxSessions :
        /\ id \notin SessionIds /\ \A j \in 1..(id - 1) : j \in SessionIds
        /\ \/ /\ db.mdocs = <<>>
              /\ disclosure' = Session(id, rp, 0, None, did_share_data(rp))
           \/ /\ Len(db.mdocs) = 1
              /\ \E c \in LeastUsed(1) : disclosure' = Session(id, rp, 1, c, did_share_data(rp))
    /\ UNCHANGED <<disk, reg, locked, opened, issuance, op, past>>

\* terminate_disclosure_session, for a session that was taken.
Terminating(s, then) == op' = [at |-> "terminate", session |-> s, lock |-> then]

cancel_disclosure ==
    /\ Unlocked /\ disclosure # None
    /\ disclosure' = None
    /\ Terminating(disclosure, FALSE)
    /\ UNCHANGED <<disk, reg, locked, opened, issuance, past>>

\* After terminating on a PIN timeout, the wallet is locked.
Terminated == Goto("idle") /\ locked' = (locked \/ op.lock)

Terminate ==
    /\ At("terminate")
    /\ \/ op' = [op EXCEPT !.at = "log_cancelled"] /\ UNCHANGED locked
       \/ Terminated
    /\ UNCHANGED <<disk, reg, opened, issuance, disclosure, past>>

LogCancelled ==
    /\ At("log_cancelled")
    /\ store_history_event({}, {})
    /\ Terminated
    /\ UNCHANGED <<keys, keyFile, reg, opened, issuance, disclosure, received, sent, kept>>

accept_disclosure ==
    /\ Unlocked /\ Proposal(disclosure)
    /\ MapThenSumSet(LAMBDA c : db.mdocs[disclosure.mdoc][c], Copies) < MaxUse
    /\ Goto("increment")
    /\ UNCHANGED <<disk, memory, past>>

\* An error is logged before it is returned.
Failing(data, blocked) == op' = [at |-> "log_error", data |-> data, blocked |-> blocked]

\* Mutant: a failure to store the count is only logged.
IncrementUsageCount_logged ==
    /\ At("increment")
    /\ Goto("disclose")
    /\ \/ db' = [db EXCEPT !.mdocs[disclosure.mdoc][disclosure.copy] = @ + 1]
       \/ UNCHANGED db
    /\ UNCHANGED <<keys, keyFile, memory, past>>

IncrementUsageCount ==
    /\ At("increment")
    /\ \/ /\ db' = [db EXCEPT !.mdocs[disclosure.mdoc][disclosure.copy] = @ + 1]
          /\ Goto("disclose")
       \/ Failing(FALSE, FALSE) /\ UNCHANGED db
    /\ UNCHANGED <<keys, keyFile, memory, past>>

\* The wallet provider does not sign, or the verifier cannot be reached.
DiscloseNotSent ==
    /\ At("disclose")
    /\ \E blocked \in BOOLEAN : Failing(FALSE, blocked)
    /\ UNCHANGED <<disk, memory, past>>

Receives ==
    /\ received' = received \cup {Ident(disclosure)}
    /\ sent' = [sent EXCEPT ![disclosure.mdoc][disclosure.copy] = @ + 1]

\* Mutant: a request without an answer counts as one that was not sent.
DiscloseNoAnswer_not_shared ==
    /\ At("disclose")
    /\ Failing(FALSE, FALSE)
    /\ Receives \/ UNCHANGED <<received, sent>>
    /\ UNCHANGED <<disk, memory, missed, kept>>

\* The request fails otherwise.  Nobody knows if the verifier received it.
DiscloseNoAnswer ==
    /\ At("disclose")
    /\ Failing(TRUE, FALSE)
    /\ Receives \/ UNCHANGED <<received, sent>>
    /\ UNCHANGED <<disk, memory, missed, kept>>

Disclose ==
    /\ At("disclose")
    /\ Receives
    /\ disclosure' = None
    /\ op' = [at |-> "log_success", session |-> disclosure]
    /\ UNCHANGED <<disk, reg, locked, opened, issuance, missed, kept>>

\* log_disclosure_error.  A PIN timeout or a blocked account ends the session too.
LogError ==
    /\ At("log_error")
    /\ store_history_event(IF op.data THEN {DisclosureEvent(disclosure, "Error")} ELSE {}, Unlogged)
    /\ IF op.blocked
       THEN disclosure' = None /\ Terminating(disclosure, TRUE)
       ELSE Goto("idle") /\ UNCHANGED disclosure
    /\ UNCHANGED <<keys, keyFile, reg, locked, opened, issuance, received, sent, kept>>

LogSuccess ==
    /\ At("log_success")
    /\ store_history_event({DisclosureEvent(op.session, "Success")}, Unlogged)
    /\ Goto("idle")
    /\ UNCHANGED <<keys, keyFile, memory, received, sent, kept>>

-----------------------------------------------------------------------------
WalletNext ==
    \/ Start \/ Crash \/ StartKeyFile \/ StartOpen \/ StartFetch
    \/ Register \/ RegisterReply \/ RegisterKeyFile \/ RegisterOpen \/ RegisterInsert
    \/ lock \/ unlock \/ reset
    \/ ClearDatabase \/ ClearKeyFile \/ ClearKey \/ DeleteHwKey
    \/ create_pid_issuance_auth_url \/ continue_pid_issuance \/ cancel_pid_issuance
    \/ accept_pid_issuance \/ accept_pid_issuance_blocked \/ InsertMdocs \/ LogIssuance
    \/ \E rp \in RelyingParties : start_disclosure(rp)
    \/ cancel_disclosure \/ Terminate \/ LogCancelled
    \/ accept_disclosure \/ IncrementUsageCount
    \/ DiscloseNotSent \/ DiscloseNoAnswer \/ Disclose \/ LogError \/ LogSuccess

WalletSpec == WalletInit /\ [][WalletNext]_walletVars

-----------------------------------------------------------------------------
(* Properties                                                               *)

\* Unless a reset failed to delete something, a database on the phone can be
\* opened: the key file has its key, and can be decrypted.  clear deletes them in
\* the order database, key file, key, and open makes them in the opposite order, so
\* that the app may be killed at any point.
DatabaseReadable ==
    ~kept /\ db # None => Readable /\ keyFile.secret = db.secret

\* A registration, in memory or stored, is for the hardware key that the phone has,
\* and one in memory is stored in the open database.  Here too nothing is said
\* once a reset has failed to delete something.
RegistrationUsable ==
    ~kept =>
        /\ db # None /\ db.reg # NoKey => db.reg = keys.hw
        /\ reg # NoKey => opened /\ db # None /\ db.reg = reg

\* Sessions belong to a registered wallet: once a reset is done, for whatever
\* reason, neither an issuance nor a disclosure session is left, and the wallet is
\* locked.
SessionsNeedRegistration ==
    NoneRunning /\ reg = NoKey => issuance = "none" /\ disclosure = None /\ locked

\* The usage count of a copy is at least the number of times that a verifier
\* received it, since it is incremented and stored before anything is sent.
UsageCounted ==
    db # None => \A i \in DOMAIN db.mdocs : \A c \in Copies : sent[i][c] <= db.mdocs[i][c]

\* The history is complete: if a verifier received attributes, or an mdoc was
\* stored, there is an event that says so, unless the app was killed before it was
\* stored or its storing failed.
HistoryComplete ==
    db # None =>
        /\ \A s \in received \ (missed \cup Unlogged) :
              \E e \in Disclosures(db.log) : e.id = s.id
        /\ \A i \in DOMAIN db.mdocs :
              IssuanceEvent(i) \in db.log \cup missed \cup UnloggedMdoc

\* The history is true: a disclosure that is recorded as successful was received
\* by its verifier, and the user is told that data was shared with a verifier
\* before only if it was.
HistoryTrue ==
    /\ db # None => \A e \in Disclosures(db.log) : e.status = "Success" => \E s \in received : s.id = e.id
    /\ disclosure # None /\ disclosure.before /\ opened => \E s \in received : s.rp = disclosure.rp

\* Everything belongs to one registration: it is for the key in the phone, memory and
\* database agree on it, and no issuance or disclosure session outlives it
\* (register, reset_to_initial_state).
OneRegistration == RegistrationUsable /\ SessionsNeedRegistration

\* The history tells what verifiers have received, all of it and nothing else
\* (data_shared, log_disclosure_success and log_disclosure_error).
HistoryExact == HistoryComplete /\ HistoryTrue
=============================================================================
