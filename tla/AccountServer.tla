---------------------------- MODULE AccountServer ---------------------------
(***************************************************************************)
(* The wallet provider's account server, for one wallet: its row in        *)
(* wallet_user, its row in wallet_user_instruction_challenge, its keys, and*)
(* the request handlers that work on them concurrently.                    *)
(*                                                                         *)
(* A handler is a task of the web server.  It suspends at every database   *)
(* and HSM call, so it is modelled as a program with one step per database *)
(* statement.  Postgres runs at its default isolation level, read          *)
(* committed: a statement sees what is committed, a written row stays      *)
(* locked until its transaction ends, and the writes of a transaction      *)
(* appear at its commit.  A statement that waits for nothing is taken      *)
(* together with the commit that follows it.                               *)
(***************************************************************************)
EXTENDS PinPolicy, FiniteSets

CONSTANTS Handlers,             \* tasks of the web server
          NoOne,                \* the holder of a free row lock
          Policy,               \* pin_policy
          ChallengeTimeout,     \* instruction_challenge_timeout
          MaxConnections,       \* size of the connection pool
          Messages,             \* the requests that may arrive
          MaxChallenges,        \* bound on the challenge requests received
          MaxTime               \* bound on the clock

MessageTypes ==
    [kind : {"none", "register", "challenge", "instruction"}, seq : Nat,
     nonce : Nat, cert : BOOLEAN, signed : BOOLEAN,
     op : {"none", "CheckPin", "GenerateKey", "Sign"}, key : Nat]

ASSUME AccountAssumption ==
    /\ NoOne \notin Handlers
    /\ ChallengeTimeout \in Nat /\ MaxChallenges \in Nat /\ MaxTime \in Nat
    /\ Messages \subseteq {m \in MessageTypes : m.kind # "none"}

VARIABLES user,         \* the wallet_user row
          chal,         \* the challenge row; nonce 0 stands for no row
          keys,         \* identifiers of the wallet_user_key rows
          userLock,     \* handler whose transaction wrote the wallet_user row
          chalLock,     \* handler whose transaction deleted the challenge row
          pc,           \* where each handler is
          msg,          \* the request it handles
          snap,         \* the WalletUser it has read
          eval,         \* the kind of its pin_eval
          reply,        \* its answer
          received,     \* challenge requests received, names their random bytes
          now

db == <<user, chal, keys>>
locks == <<userLock, chalLock>>
vars == <<db, locks, pc, msg, snap, eval, reply, received, now>>

NoChallenge == [nonce |-> 0, exp |-> 0]
Message(kind, seq, nonce, cert, signed, op, key) ==
    [kind |-> kind, seq |-> seq, nonce |-> nonce, cert |-> cert,
     signed |-> signed, op |-> op, key |-> key]
NoMessage == Message("none", 0, 0, FALSE, FALSE, "none", 0)
NewUser == [registered |-> FALSE, seq |-> 0, entries |-> 0, last |-> NoTime,
            blocked |-> FALSE]
Snapshot == [user |-> user, chal |-> chal]
NoSnapshot == [user |-> NewUser, chal |-> NoChallenge]

\* Where a handler holds a connection of the pool across a suspension.
InTransaction == {"challenge_find", "challenge_update", "challenge_upsert",
                  "clear", "verify", "accept", "reject"}
FreeConnections ==
    MaxConnections - Cardinality({h \in Handlers : pc[h] \in InTransaction})
Working == InTransaction \cup
    {"register", "challenge_begin", "find", "begin", "handle", "sign_result"}

Init ==
    /\ user = NewUser
    /\ chal = NoChallenge
    /\ keys = {}
    /\ userLock = NoOne
    /\ chalLock = NoOne
    /\ pc = [h \in Handlers |-> "idle"]
    /\ msg = [h \in Handlers |-> NoMessage]
    /\ snap = [h \in Handlers |-> NoSnapshot]
    /\ eval = [h \in Handlers |-> "none"]
    /\ reply = [h \in Handlers |-> "none"]
    /\ received = 0
    /\ now = 0

-----------------------------------------------------------------------------
(* Steps that end a transaction.                                            *)

Unlock(h) ==
    /\ userLock' = IF userLock = h THEN NoOne ELSE userLock
    /\ chalLock' = IF chalLock = h THEN NoOne ELSE chalLock

Goto(h, l) == pc' = [pc EXCEPT ![h] = l]
Answer(h, r) == Goto(h, "done") /\ reply' = [reply EXCEPT ![h] = r]

\* Mutant: an early return leaves the transaction open.
Fail_keeps_locks(h, error) ==
    Answer(h, error) /\ UNCHANGED <<db, locks, msg, snap, eval, received, now>>

\* An error leaves the function early: the transaction is dropped, which rolls
\* it back.  The spawned rollback waits for nothing and is taken with it.
Fail(h, error) ==
    /\ Answer(h, error)
    /\ Unlock(h)
    /\ UNCHANGED <<db, msg, snap, eval, received, now>>

\* Mutant: the deletion is not part of the transaction that is committed.
Cleared_kept(h) == chal

\* The challenge row after h commits: gone if h deleted it.
Cleared(h) == IF chalLock = h THEN NoChallenge ELSE chal

-----------------------------------------------------------------------------
(* Requests arrive and are answered.                                        *)

EntryPoint(kind) == CASE kind = "register" -> "register"
                      [] kind = "challenge" -> "challenge_begin"
                      [] kind = "instruction" -> "find"

Receive(h, m) ==
    /\ pc[h] = "idle"
    /\ m.kind = "challenge" => received < MaxChallenges
    /\ received' = IF m.kind = "challenge" THEN received + 1 ELSE received
    /\ msg' = [msg EXCEPT ![h] =
                 IF m.kind = "challenge" THEN [m EXCEPT !.nonce = received + 1] ELSE m]
    /\ Goto(h, EntryPoint(m.kind))
    /\ UNCHANGED <<db, locks, snap, eval, reply, now>>

Respond(h) ==
    /\ pc[h] = "done"
    /\ Goto(h, "idle")
    /\ msg' = [msg EXCEPT ![h] = NoMessage]
    /\ snap' = [snap EXCEPT ![h] = NoSnapshot]
    /\ eval' = [eval EXCEPT ![h] = "none"]
    /\ reply' = [reply EXCEPT ![h] = "none"]
    /\ UNCHANGED <<db, locks, received, now>>

\* What the client sees of a persistence, HSM or signing error.
UnexpectedError(kind) ==
    IF kind = "challenge" THEN "ChallengeValidation" ELSE "Unexpected"

\* A database or HSM call fails, or the task is cancelled or dies with the
\* process, before the handler is done.
Abort(h) == pc[h] \in Working /\ Fail(h, UnexpectedError(msg[h].kind))

\* The pool gives up on a request for a connection when none comes free.
WaitsForConnection(h) ==
    pc[h] \in {"register", "challenge_begin", "challenge_find", "find", "begin", "handle"}
AcquireTimeout(h) == WaitsForConnection(h) /\ FreeConnections = 0 /\ Abort(h)

\* instruction_challenge locks the user row and then the challenge row,
\* handle_instruction the challenge row and then the user row.  Postgres
\* detects the cycle and fails one of the two transactions.
DeadlockVictim(h) ==
    /\ h \in {userLock, chalLock}
    /\ userLock # NoOne /\ chalLock # NoOne
    /\ pc[chalLock] \in {"accept", "reject"}
    /\ Abort(h)

-----------------------------------------------------------------------------
(* AccountServer::register                                                  *)

Register(h) ==
    /\ pc[h] = "register"
    /\ \/ ~msg[h].cert /\ Fail(h, "ChallengeValidation")
       \/ /\ msg[h].cert
          /\ ~(msg[h].signed /\ msg[h].seq = 0)
          /\ Fail(h, "RegistrationParsing")
       \/ /\ msg[h].cert /\ msg[h].signed /\ msg[h].seq = 0
          /\ FreeConnections > 0
          /\ user.registered
          /\ Fail(h, "Unexpected")
       \/ /\ msg[h].cert /\ msg[h].signed /\ msg[h].seq = 0
          /\ FreeConnections > 0
          /\ ~user.registered
          /\ user' = [NewUser EXCEPT !.registered = TRUE]
          /\ Answer(h, "Ok")
          /\ UNCHANGED <<chal, keys, locks, msg, snap, eval, received, now>>

-----------------------------------------------------------------------------
(* AccountServer::verify_wallet_certificate, in a transaction of its own    *)

VerifyWalletCertificate(h, next, blockedError) ==
    \/ ~msg[h].cert /\ Fail(h, UnexpectedError(msg[h].kind))
    \/ /\ msg[h].cert /\ FreeConnections > 0
       /\ ~user.registered
       /\ Fail(h, UnexpectedError(msg[h].kind))
    \/ /\ msg[h].cert /\ FreeConnections > 0
       /\ user.registered /\ user.blocked
       /\ Fail(h, blockedError)
    \/ /\ msg[h].cert /\ FreeConnections > 0
       /\ user.registered /\ ~user.blocked
       /\ snap' = [snap EXCEPT ![h] = Snapshot]
       /\ Goto(h, next)
       /\ UNCHANGED <<db, locks, msg, eval, reply, received, now>>

-----------------------------------------------------------------------------
(* AccountServer::instruction_challenge                                     *)

BeginChallenge(h) ==
    /\ pc[h] = "challenge_begin"
    /\ FreeConnections > 0
    /\ Goto(h, "challenge_find")
    /\ UNCHANGED <<db, locks, msg, snap, eval, reply, received, now>>

\* The certificate is verified while the first transaction is open, so this
\* needs a second connection.
FindForChallenge(h) ==
    /\ pc[h] = "challenge_find"
    /\ VerifyWalletCertificate(h, "challenge_update", "AccountBlocked")

SequenceNumberOk(h) == msg[h].seq > snap[h].user.seq

\* The sequence number is compared with the snapshot, then written to the row.
UpdateSequenceNumber(h) ==
    /\ pc[h] = "challenge_update"
    /\ \/ ~(msg[h].signed /\ SequenceNumberOk(h)) /\ Fail(h, "ChallengeValidation")
       \/ /\ msg[h].signed /\ SequenceNumberOk(h)
          /\ userLock = NoOne
          /\ userLock' = h
          /\ snap' = [snap EXCEPT ![h].chal =
                        [nonce |-> msg[h].nonce, exp |-> now + ChallengeTimeout]]
          /\ Goto(h, "challenge_upsert")
          /\ UNCHANGED <<db, chalLock, msg, eval, reply, received, now>>

\* Write the challenge row and commit.
Upserted(h, row) ==
    /\ pc[h] = "challenge_upsert"
    /\ chalLock = NoOne
    /\ user' = [user EXCEPT !.seq = msg[h].seq]
    /\ chal' = row
    /\ Unlock(h)
    /\ Answer(h, "Ok")
    /\ UNCHANGED <<keys, msg, snap, eval, received, now>>

\* Mutant: a row that exists is left as it is.
Upsert_do_nothing(h) == Upserted(h, IF chal = NoChallenge THEN snap[h].chal ELSE chal)

\* Insert the challenge, or replace the one that exists.
UpsertChallenge(h) == Upserted(h, snap[h].chal)

-----------------------------------------------------------------------------
(* AccountServer::handle_instruction                                        *)

Find(h) == pc[h] = "find" /\ VerifyWalletCertificate(h, "begin", "Unexpected")

BeginInstruction(h) ==
    /\ pc[h] = "begin"
    /\ FreeConnections > 0
    /\ Goto(h, "clear")
    /\ UNCHANGED <<db, locks, msg, snap, eval, reply, received, now>>

PinError(kind) == IF kind = "Failed" THEN "IncorrectPin"
                  ELSE IF kind = "BlockedPermanently" THEN "AccountBlocked"
                  ELSE "PinTimeout"

\* The verdict on the next failure, from the snapshot's counter and time.
PinEval(h) ==
    evaluate(Policy, snap[h].user.entries + 1, snap[h].user.last, now).kind

\* Mutant: an attempt during a timeout is looked at like any other.
ClearChallenge_no_timeout(h) ==
    /\ pc[h] = "clear"
    /\ chal # NoChallenge => chalLock = NoOne
    /\ eval' = [eval EXCEPT ![h] = PinEval(h)]
    /\ chalLock' = IF chal # NoChallenge THEN h ELSE chalLock
    /\ Goto(h, "verify")
    /\ UNCHANGED <<db, userLock, reply, msg, snap, received, now>>

\* Delete the challenge row, waiting for another transaction that has deleted
\* it, and evaluate the PIN policy on the snapshot.  In a timeout the deletion
\* is committed and the instruction is not looked at.
ClearChallenge(h) ==
    LET found == chal # NoChallenge
    IN  /\ pc[h] = "clear"
        /\ found => chalLock = NoOne
        /\ eval' = [eval EXCEPT ![h] = PinEval(h)]
        /\ \/ /\ PinEval(h) = "InTimeout"
              /\ chal' = NoChallenge
              /\ Answer(h, "PinTimeout")
              /\ UNCHANGED <<user, keys, locks>>
           \/ /\ PinEval(h) # "InTimeout"
              /\ chalLock' = IF found THEN h ELSE chalLock
              /\ Goto(h, "verify")
              /\ UNCHANGED <<db, userLock, reply>>
        /\ UNCHANGED <<msg, snap, received, now>>

\* verify_instruction: the challenge and the sequence number of the snapshot.
\* Only a message that does not verify counts as a wrong PIN.
Verifies(h) ==
    /\ msg[h].signed
    /\ msg[h].nonce = snap[h].chal.nonce
    /\ SequenceNumberOk(h)

VerifyInstruction(h) ==
    /\ pc[h] = "verify"
    /\ \/ /\ snap[h].chal = NoChallenge \/ snap[h].chal.exp < now
          /\ Fail(h, "InstructionValidation")
       \/ /\ snap[h].chal # NoChallenge /\ snap[h].chal.exp >= now
          /\ Goto(h, IF Verifies(h) THEN "accept" ELSE "reject")
          /\ UNCHANGED <<db, locks, msg, snap, eval, reply, received, now>>

\* The columns that an attempt writes, always together.
update_pin_entries(row, pin_entries, datetime, block) ==
    [row EXCEPT !.entries = pin_entries, !.last = datetime, !.blocked = block]

\* Commit an accepted instruction with the given PIN entry columns.
Accepted(h, row) ==
    /\ pc[h] = "accept"
    /\ userLock = NoOne
    /\ user' = [row EXCEPT !.seq = msg[h].seq]
    /\ chal' = Cleared(h)
    /\ Unlock(h)
    /\ Goto(h, "handle")
    /\ UNCHANGED <<keys, msg, snap, eval, reply, received, now>>

\* Mutant: the time of the last failure is not reset.
Accept_keeps_time(h) == Accepted(h, update_pin_entries(user, 0, user.last, FALSE))

\* reset_unsuccessful_pin_entries, update_instruction_sequence_number, commit.
Accept(h) ==
    Accepted(h, update_pin_entries(user, 0, NoTime, FALSE))

\* Mutant: the statement counts a failure that was counted already.
OneMore_twice(entries) == IF entries + 2 < U8 THEN entries + 2 ELSE U8 - 1

\* least(pin_entries + 1, u8::MAX)
OneMore(entries) == IF entries + 1 < U8 THEN entries + 1 ELSE U8 - 1

\* Commit a wrong PIN with the given verdict.
Rejected(h, blocked) ==
    /\ pc[h] = "reject"
    /\ userLock = NoOne
    /\ user' = update_pin_entries(user, OneMore(user.entries), now, blocked)
    /\ chal' = Cleared(h)
    /\ Unlock(h)
    /\ Answer(h, PinError(eval[h]))
    /\ UNCHANGED <<keys, msg, snap, eval, received, now>>

\* register_unsuccessful_pin_entry, commit.  The counter is that of the row,
\* the verdict that of the snapshot.
Reject(h) == Rejected(h, eval[h] = "BlockedPermanently")

\* The instruction itself, after the commit: CheckPin does nothing, GenerateKey
\* inserts a key whose identifier must be new, Sign looks a key up.
HandleInstruction(h) ==
    /\ pc[h] = "handle"
    /\ \/ /\ msg[h].op = "CheckPin"
          /\ Goto(h, "sign_result")
          /\ UNCHANGED <<db, locks, msg, snap, eval, reply, received, now>>
       \/ /\ msg[h].op = "GenerateKey" /\ FreeConnections > 0
          /\ msg[h].key \notin keys
          /\ keys' = keys \cup {msg[h].key}
          /\ Goto(h, "sign_result")
          /\ UNCHANGED <<user, chal, locks, msg, snap, eval, reply, received, now>>
       \/ /\ msg[h].op = "GenerateKey" /\ FreeConnections > 0
          /\ msg[h].key \in keys
          /\ Fail(h, "Unexpected")
       \/ /\ msg[h].op = "Sign" /\ FreeConnections > 0
          /\ msg[h].key \in keys
          /\ Goto(h, "sign_result")
          /\ UNCHANGED <<db, locks, msg, snap, eval, reply, received, now>>
       \/ /\ msg[h].op = "Sign" /\ FreeConnections > 0
          /\ msg[h].key \notin keys
          /\ Fail(h, "Panic")

SignInstructionResult(h) ==
    /\ pc[h] = "sign_result"
    /\ Answer(h, "Ok")
    /\ UNCHANGED <<db, locks, msg, snap, eval, received, now>>

-----------------------------------------------------------------------------

\* One step of a request that makes progress.
Step(h) ==
    \/ Register(h)
    \/ BeginChallenge(h) \/ FindForChallenge(h)
    \/ UpdateSequenceNumber(h) \/ UpsertChallenge(h)
    \/ Find(h) \/ BeginInstruction(h) \/ ClearChallenge(h) \/ VerifyInstruction(h)
    \/ Accept(h) \/ Reject(h)
    \/ HandleInstruction(h) \/ SignInstructionResult(h)

Resolve(h) == AcquireTimeout(h) \/ DeadlockVictim(h)

Tick ==
    /\ now < MaxTime
    /\ now' = now + 1
    /\ UNCHANGED <<db, locks, pc, msg, snap, eval, reply, received>>

Next ==
    \/ \E h \in Handlers :
          \/ \E m \in Messages : Receive(h, m)
          \/ Step(h)
          \/ Respond(h)
          \/ Abort(h)
          \/ Resolve(h)
    \/ Tick

Spec == Init /\ [][Next]_vars

\* Row locks and pool connections are handed out in order of arrival, so a
\* handler that can go on again and again does go on; the pool's timeout and
\* the deadlock detector fire when nothing else resolves a wait.
Fairness ==
    \A h \in Handlers : SF_vars(Step(h)) /\ WF_vars(Resolve(h)) /\ WF_vars(Respond(h))

FairSpec == Spec /\ Fairness

-----------------------------------------------------------------------------

Labels == Working \cup {"idle", "done"}
Replies == {"none", "Ok", "ChallengeValidation", "RegistrationParsing",
            "Unexpected", "AccountBlocked", "IncorrectPin", "PinTimeout",
            "InstructionValidation", "Panic"}
Times == {NoTime} \cup Nat
UserRows == [registered : BOOLEAN, seq : Nat, entries : 0..(U8 - 1),
             last : Times, blocked : BOOLEAN]
ChallengeRows == [nonce : Nat, exp : Nat]

TypeOK ==
    /\ user \in UserRows
    /\ chal \in ChallengeRows
    /\ userLock \in Handlers \cup {NoOne}
    /\ chalLock \in Handlers \cup {NoOne}
    /\ pc \in [Handlers -> Labels]
    /\ msg \in [Handlers -> MessageTypes]
    /\ snap \in [Handlers -> [user : UserRows, chal : ChallengeRows]]
    /\ eval \in [Handlers -> Kinds \cup {"none"}]
    /\ reply \in [Handlers -> Replies]
    /\ received \in 0..MaxChallenges
    /\ now \in 0..MaxTime

\* Whatever the interleaving, the row that handle_instruction reads has its
\* failure counter and its failure time set or reset together, so the assertion
\* in evaluate cannot panic.
EvaluateNeverPanics ==
    \A h \in Handlers : pc[h] = "clear" =>
        EvaluateAssertion(snap[h].user.entries + 1, snap[h].user.last)

\* A row lock is held only by a handler with an open transaction, and the two
\* rows are never left locked by a request that has been answered.
LocksAreReleased ==
    /\ userLock # NoOne => pc[userLock] = "challenge_upsert"
    /\ chalLock # NoOne => pc[chalLock] \in {"verify", "accept", "reject"}

\* Handlers that evaluated an older row can clear is_blocked and overshoot the
\* limit, but not without end: a handler that reads the row at the limit blocks
\* the account again, so each overshoot uses up one that read it before.
Limit == Policy.rounds * Policy.attempts_per_round
EntriesBounded ==
    LET n == Cardinality(Handlers)
    IN  user.entries <= Limit - 2 + (n * (n + 3)) \div 2

\* Once is_blocked is stored, no later instruction changes the verdict or the
\* counter.
BlockedIsFinal ==
    [][user.blocked => user'.blocked /\ user'.entries = user.entries]_user

\* A challenge is spent by the instruction that uses it: when an instruction
\* has been accepted or counted as a wrong PIN, the challenge it was checked
\* against is no longer in the database.
ChallengeIsSpent ==
    [][\A h \in Handlers : Accept(h) \/ Reject(h) => chal'.nonce # snap[h].chal.nonce]_vars

\* Every request is answered: no handler waits forever for a row lock or for a
\* connection.
EveryRequestAnswered ==
    \A h \in Handlers : pc[h] \in Working ~> pc[h] = "done"

Retry == INSTANCE PinRetry WITH
    Policies <- {Policy}, policy <- Policy, entries <- user.entries,
    last <- user.last, blocked <- user.blocked

\* With one handler at a time, the steps of handle_instruction add up to the
\* indivisible attempts of PinRetry.
RetrySpec == Retry!Spec
=============================================================================
