-------------------------- MODULE PinAttemptsProofs --------------------------
(***************************************************************************)
(* The PIN attempts that the account server counts, against those of the   *)
(* policy.  With one handler at a time the server implements PinRetry, in  *)
(* which an attempt is one step.                                           *)
(*                                                                         *)
(* Overlapping instructions overshoot the limit.  A handler decides to     *)
(* block on the counter that it has read, and stores the verdict with the  *)
(* counter that is in the row by then; one that read early clears the      *)
(* block again.  For any number of handlers the failures counted beyond    *)
(* the limit are at most quadratic in that number.                         *)
(***************************************************************************)
EXTENDS AccountServerProofs, FiniteSetTheorems

-----------------------------------------------------------------------------
(* With one handler at a time the account server implements PinRetry.       *)

\* The verdict that the next failure would have at time t.
NextKind(t) == evaluate(Policy, user.entries + 1, user.last, t).kind

Decided == {"verify", "accept", "reject"}
Attempting == Decided \cup {"begin", "clear"}
Found == Attempting \cup {"challenge_update", "challenge_upsert"}

\* The row that the handler has read is still the row, and the verdict on it that
\* let the handler go on still stands, although time has passed since.
RetryInv ==
    /\ ~user.registered => user = NewUser
    /\ \A h \in Handlers :
          /\ pc[h] \in Found => user.registered
          /\ pc[h] \in Attempting => snap[h].user = user /\ ~user.blocked
          /\ pc[h] \in Decided =>
                /\ NextKind(now) # "InTimeout"
                /\ eval[h] = "BlockedPermanently" <=> NextKind(now) = "BlockedPermanently"

\* A handler that is alone, under a policy that PinPolicy::new accepts.
Alone == \A g, h \in Handlers : g = h
SoundPolicy == WellFormedPolicy(Policy) /\ Policy.timeouts \in Seq(Nat)

\* The policy as PinRetry sees it is the policy.
LEMMA SameEvaluation ==
    ASSUME NEW k, NEW l, NEW t
    PROVE  Retry!evaluate(Policy, k, l, t) = evaluate(Policy, k, l, t)
<1>1. \A a : Retry!is_blocked(Policy, a) = is_blocked(Policy, a)
  BY Zenon DEF Retry!is_blocked, Retry!total_attempts, Retry!U8, is_blocked, total_attempts, U8
<1>2. \A a : Retry!current_timeout(Policy, a) = current_timeout(Policy, a)
  BY <1>1, Zenon DEF Retry!current_timeout, current_timeout, Retry!NoTime, NoTime
<1>3. \A a : Retry!attempts_left_in_round(Policy, a) = attempts_left_in_round(Policy, a)
  BY <1>1, Zenon DEF Retry!attempts_left_in_round, attempts_left_in_round
<1>4. \A a : Retry!is_final_round(Policy, a) = is_final_round(Policy, a)
  BY <1>1, Zenon DEF Retry!is_final_round, is_final_round, Retry!current_round, current_round
<1>5. PICK timeout, left, final, over :
         /\ timeout = current_timeout(Policy, k) /\ timeout = Retry!current_timeout(Policy, k)
         /\ left = attempts_left_in_round(Policy, k) /\ left = Retry!attempts_left_in_round(Policy, k)
         /\ final = is_final_round(Policy, k) /\ final = Retry!is_final_round(Policy, k)
         /\ over = is_blocked(Policy, k) /\ over = Retry!is_blocked(Policy, k)
  BY <1>1, <1>2, <1>3, <1>4, Zenon
<1> QED BY <1>5, Zenon DEF Retry!evaluate, evaluate, Retry!Evaluation, Evaluation, Retry!NoTime, NoTime

\* A timeout that is over stays over, and time does not change whether the
\* account is to be blocked.
LEMMA VerdictStands ==
    ASSUME SoundPolicy, NEW k \in Nat, NEW l \in Nat \cup {NoTime}, NEW t \in Nat, NEW s \in Nat, t <= s
    PROVE  /\ evaluate(Policy, k, l, s).kind = "InTimeout" => evaluate(Policy, k, l, t).kind = "InTimeout"
           /\ evaluate(Policy, k, l, s).kind = "BlockedPermanently"
                 <=> evaluate(Policy, k, l, t).kind = "BlockedPermanently"
<1>1. PICK timeout : timeout = current_timeout(Policy, k)
  OBVIOUS
<1>2. timeout # NoTime => timeout \in Nat
  <2>1. ASSUME NEW i \in 1..Len(Policy.timeouts) PROVE Policy.timeouts[i] \in Nat
    BY DEF SoundPolicy
  <2> QED BY <1>1, <2>1, Zenon DEF current_timeout
<1>3. PICK left : left = attempts_left_in_round(Policy, k)
  OBVIOUS
<1>4. PICK waits : waits = (l # NoTime /\ timeout # NoTime /\ Policy.attempts_per_round = left + 1)
  OBVIOUS
<1>5. PICK announces : announces = (l # NoTime /\ timeout # NoTime /\ Policy.attempts_per_round = left)
  OBVIOUS
<1>6. \A x : /\ evaluate(Policy, k, l, x).kind = "InTimeout" <=>
                   ~is_blocked(Policy, k) /\ ~announces /\ waits /\ l + timeout > x
             /\ evaluate(Policy, k, l, x).kind = "BlockedPermanently" <=> is_blocked(Policy, k)
  BY <1>1, <1>3, <1>4, <1>5, Zenon DEF evaluate, Evaluation
<1>7. waits /\ l + timeout > s => l + timeout > t
  <2>1. waits => l \in Nat /\ timeout \in Nat
    BY <1>2, <1>4, Zenon DEF NoTime
  <2>2. ASSUME NEW a \in Nat, NEW b \in Nat, a + b > s PROVE a + b > t
    BY <2>2
  <2> QED BY <2>1, <2>2, Zenon
<1> QED BY <1>6, <1>7, Zenon

\* A step of the handler that leaves the row alone and takes it out of the places
\* where it relies on the row.
LEMMA RetryRests ==
    ASSUME Alone, IInv, RetryInv, NEW h \in Handlers, UNCHANGED <<user, now>>, pc'[h] \notin Found
    PROVE  RetryInv'
  BY Zenon DEF Alone, RetryInv, Found, Attempting

\* A step that leaves the row alone and goes on.
LEMMA RetryGoesOn ==
    ASSUME Alone, IInv, RetryInv, NEW h \in Handlers, UNCHANGED <<user, now>>,
           pc'[h] \in Found => user.registered,
           pc'[h] \in Attempting => snap'[h].user = user /\ ~user.blocked,
           pc'[h] \in Decided =>
              /\ NextKind(now) # "InTimeout"
              /\ eval'[h] = "BlockedPermanently" <=> NextKind(now) = "BlockedPermanently"
    PROVE  RetryInv'
<1>1. \A g \in Handlers : g = h
  BY Zenon DEF Alone
<1>2. NextKind(now)' = NextKind(now)
  BY Zenon DEF NextKind
<1> QED BY <1>1, <1>2, Zenon DEF RetryInv

\* A row whose PIN columns are kept is the same to PinRetry.
Rests == user'.entries = user.entries /\ user'.last = user.last /\ user'.blocked = user.blocked /\ now' = now

LEMMA RestsStutter ==
    ASSUME Rests PROVE UNCHANGED Retry!vars
  BY Zenon DEF Rests, Retry!vars

\* The steps that do not write the row.
LEMMA RetryQuiet ==
    ASSUME Alone, IInv, RetryInv, NEW h \in Handlers,
           \/ \E m \in Messages : Receive(h, m)
           \/ Respond(h) \/ Abort(h) \/ Resolve(h)
           \/ BeginChallenge(h) \/ FindForChallenge(h) \/ UpdateSequenceNumber(h)
           \/ Find(h) \/ BeginInstruction(h) \/ ClearChallenge(h) \/ VerifyInstruction(h)
           \/ HandleInstruction(h) \/ SignInstructionResult(h)
    PROVE  RetryInv' /\ UNCHANGED <<user, now>>
<1> USE DEF Goto, Answer, db
<1>0. pc \in [Handlers -> Labels] /\ snap \in [Handlers -> [user : UserRows, chal : ChallengeRows]]
      /\ eval \in [Handlers -> Kinds \cup {"none"}]
  BY Zenon DEF IInv, TypeOK
<1>1. ASSUME NEW error, Fail(h, error) PROVE RetryInv' /\ UNCHANGED <<user, now>>
  <2>1. pc'[h] = "done" /\ UNCHANGED <<user, now>>
    BY <1>0, <1>1, Zenon DEF Fail
  <2> QED BY <2>1, RetryRests, Zenon DEF Found, Attempting, Decided
<1>2. ASSUME NEW m \in Messages, Receive(h, m) PROVE RetryInv' /\ UNCHANGED <<user, now>>
  <2>1. pc'[h] = EntryPoint(m.kind) /\ UNCHANGED <<user, now>>
    BY <1>0, <1>2, Zenon DEF Receive
  <2>2. m.kind \in {"register", "challenge", "instruction"}
    BY AccountAssumption, Zenon DEF MessageTypes
  <2>3. EntryPoint(m.kind) \notin Found
    BY <2>2, Zenon DEF EntryPoint, Found, Attempting, Decided
  <2> QED BY <2>1, <2>3, RetryRests, Zenon
<1>3. CASE Respond(h)
  <2>1. pc'[h] = "idle" /\ UNCHANGED <<user, now>>
    BY <1>0, <1>3, Zenon DEF Respond
  <2> QED BY <2>1, RetryRests, Zenon DEF Found, Attempting, Decided
<1>4. CASE Abort(h) \/ Resolve(h)
  BY <1>1, <1>4, Zenon DEF Abort, Resolve, AcquireTimeout, DeadlockVictim
<1>5. CASE BeginChallenge(h)
  <2>1. pc'[h] = "challenge_find" /\ UNCHANGED <<user, now>>
    BY <1>0, <1>5, Zenon DEF BeginChallenge
  <2> QED BY <2>1, RetryRests, Zenon DEF Found, Attempting, Decided
<1>6. ASSUME NEW next \in {"challenge_update", "begin"}, NEW error, VerifyWalletCertificate(h, next, error)
      PROVE  RetryInv' /\ UNCHANGED <<user, now>>
  <2>1. CASE user.registered /\ ~user.blocked /\ snap' = [snap EXCEPT ![h] = Snapshot] /\ Goto(h, next)
             /\ UNCHANGED <<db, now>>
    <3>1. pc'[h] = next /\ snap'[h].user = user /\ UNCHANGED <<user, now>>
      BY <1>0, <2>1, Zenon DEF Snapshot
    <3> QED BY <2>1, <3>1, RetryGoesOn, Zenon DEF Found, Attempting, Decided
  <2> QED BY <1>1, <1>6, <2>1, Zenon DEF VerifyWalletCertificate
<1>7. CASE FindForChallenge(h) \/ Find(h)
  BY <1>6, <1>7, Zenon DEF FindForChallenge, Find
<1>8. CASE UpdateSequenceNumber(h)
  <2>1. CASE Goto(h, "challenge_upsert") /\ UNCHANGED <<db, now>>
    <3>1. pc'[h] = "challenge_upsert" /\ UNCHANGED <<user, now>>
      BY <1>0, <2>1, Zenon
    <3>2. user.registered
      BY <1>8, Zenon DEF UpdateSequenceNumber, RetryInv, Found
    <3> QED BY <3>1, <3>2, RetryGoesOn, Zenon DEF Found, Attempting, Decided
  <2> QED BY <1>1, <1>8, <2>1, Zenon DEF UpdateSequenceNumber
<1>9. CASE BeginInstruction(h)
  <2>1. pc[h] = "begin" /\ pc'[h] = "clear" /\ snap' = snap /\ UNCHANGED <<user, now>>
    BY <1>0, <1>9, Zenon DEF BeginInstruction
  <2>2. user.registered /\ snap[h].user = user /\ ~user.blocked
    BY <2>1, Zenon DEF RetryInv, Found, Attempting
  <2> QED BY <2>1, <2>2, RetryGoesOn, Zenon DEF Decided
<1>10. CASE ClearChallenge(h)
  <2>1. pc[h] = "clear" /\ snap' = snap /\ eval'[h] = PinEval(h) /\ UNCHANGED <<user, now>>
    BY <1>0, <1>10, Zenon DEF ClearChallenge
  <2>2. pc'[h] = "done" \/ (pc'[h] = "verify" /\ PinEval(h) # "InTimeout")
    <3>1. Goto(h, "done") \/ (Goto(h, "verify") /\ PinEval(h) # "InTimeout")
      BY <1>10, Zenon DEF ClearChallenge
    <3> QED BY <1>0, <3>1, Zenon
  <2>3. user.registered /\ snap[h].user = user /\ ~user.blocked
    BY <2>1, Zenon DEF RetryInv, Found, Attempting
  <2>4. PinEval(h) = NextKind(now)
    BY <2>3, Zenon DEF PinEval, NextKind
  <2> QED BY <2>1, <2>2, <2>3, <2>4, RetryGoesOn, Zenon DEF Found, Attempting, Decided
<1>11. CASE VerifyInstruction(h)
  <2>1. CASE Goto(h, IF Verifies(h) THEN "accept" ELSE "reject") /\ UNCHANGED <<db, snap, eval, now>>
    <3>1. pc'[h] \in {"accept", "reject"} /\ UNCHANGED <<user, snap, eval, now>> /\ pc[h] = "verify"
      BY <1>0, <1>11, <2>1, Zenon DEF VerifyInstruction
    <3>2. /\ user.registered /\ snap[h].user = user /\ ~user.blocked /\ NextKind(now) # "InTimeout"
          /\ eval[h] = "BlockedPermanently" <=> NextKind(now) = "BlockedPermanently"
      BY <3>1, Zenon DEF RetryInv, Found, Attempting, Decided
    <3> QED BY <3>1, <3>2, RetryGoesOn, Zenon
  <2> QED BY <1>1, <1>11, <2>1, Zenon DEF VerifyInstruction
<1>12. CASE HandleInstruction(h)
  <2>1. CASE Goto(h, "sign_result") /\ UNCHANGED <<user, now>>
    <3>1. pc'[h] = "sign_result"
      BY <1>0, <2>1, Zenon
    <3> QED BY <2>1, <3>1, RetryRests, Zenon DEF Found, Attempting, Decided
  <2> QED BY <1>1, <1>12, <2>1, Zenon DEF HandleInstruction
<1>13. CASE SignInstructionResult(h)
  <2>1. pc'[h] = "done" /\ UNCHANGED <<user, now>>
    BY <1>0, <1>13, Zenon DEF SignInstructionResult
  <2> QED BY <2>1, RetryRests, Zenon DEF Found, Attempting, Decided
<1> QED BY <1>2, <1>3, <1>4, <1>5, <1>7, <1>8, <1>9, <1>10, <1>11, <1>12, <1>13, Zenon

\* A row that is written while no handler relies on it any more.
LEMMA RetryWritten ==
    ASSUME Alone, RetryInv, NEW h \in Handlers, user'.registered, pc'[h] \notin Found
    PROVE  RetryInv'
<1>1. \A g \in Handlers : g = h
  BY Zenon DEF Alone
<1> QED BY <1>1, Zenon DEF RetryInv, Found, Attempting

LEMMA MayAttemptNow ==
    ASSUME IInv, RetryInv, NEW h \in Handlers, pc[h] \in Decided
    PROVE  /\ Retry!MayAttempt /\ user.registered
           /\ Retry!NextEvaluation.kind = "BlockedPermanently" <=> eval[h] = "BlockedPermanently"
<1>1. Retry!NextEvaluation.kind = NextKind(now)
  BY SameEvaluation, Zenon DEF Retry!NextEvaluation, NextKind
<1>2. /\ ~user.blocked /\ user.registered /\ NextKind(now) # "InTimeout"
      /\ eval[h] = "BlockedPermanently" <=> NextKind(now) = "BlockedPermanently"
  BY Zenon DEF RetryInv, Found, Attempting
<1> QED BY <1>1, <1>2, Zenon DEF Retry!MayAttempt

LEMMA RetryRegister ==
    ASSUME Alone, IInv, RetryInv, NEW h \in Handlers, Register(h)
    PROVE  RetryInv' /\ Rests
<1>1. pc \in [Handlers -> Labels]
  BY Zenon DEF IInv, TypeOK
<1>2. CASE \E error : Fail(h, error)
  <2>1. pc'[h] = "done" /\ UNCHANGED <<user, now>>
    BY <1>1, <1>2, Zenon DEF Fail, Answer, Goto, db
  <2> QED BY <2>1, RetryRests, Zenon DEF Found, Attempting, Decided, Rests
<1>3. CASE /\ ~user.registered /\ user' = [NewUser EXCEPT !.registered = TRUE]
           /\ Answer(h, "Ok") /\ UNCHANGED now
  <2>1. pc'[h] = "done" /\ user = NewUser
    BY <1>1, <1>3, Zenon DEF Answer, Goto, RetryInv
  <2>2. /\ user'.registered /\ user'.entries = NewUser.entries /\ user'.last = NewUser.last
        /\ user'.blocked = NewUser.blocked
    BY <1>3, Zenon DEF NewUser
  <2> QED BY <1>3, <2>1, <2>2, RetryWritten, Zenon DEF Found, Attempting, Decided, Rests
<1> QED BY <1>2, <1>3, Zenon DEF Register

LEMMA RetryUpsert ==
    ASSUME Alone, IInv, RetryInv, NEW h \in Handlers, UpsertChallenge(h)
    PROVE  RetryInv' /\ Rests
<1>1. user \in UserRows /\ pc \in [Handlers -> Labels]
  BY Zenon DEF IInv, TypeOK
<1>2. pc[h] = "challenge_upsert" /\ pc'[h] = "done" /\ user' = [user EXCEPT !.seq = msg[h].seq] /\ now' = now
  BY <1>1, Zenon DEF UpsertChallenge, Upserted, Answer, Goto
<1>3. user.registered
  BY <1>2, Zenon DEF RetryInv, Found
<1>4. /\ user'.registered = user.registered /\ user'.entries = user.entries
      /\ user'.last = user.last /\ user'.blocked = user.blocked
  BY <1>1, <1>2, Zenon DEF UserRows
<1> QED BY <1>2, <1>3, <1>4, RetryWritten, Zenon DEF Found, Attempting, Decided, Rests

LEMMA RetryAccept ==
    ASSUME Alone, IInv, RetryInv, NEW h \in Handlers, Accept(h)
    PROVE  RetryInv' /\ Retry!RightPin
<1>1. user \in UserRows /\ pc \in [Handlers -> Labels]
  BY Zenon DEF IInv, TypeOK
<1>2. pc[h] = "accept" /\ pc'[h] = "handle" /\ now' = now
  BY <1>1, Zenon DEF Accept, Accepted, Goto
<1>3. PICK row : row = update_pin_entries(user, 0, NoTime, FALSE)
  BY Zenon
<1>4. /\ row.entries = 0 /\ row.last = NoTime /\ row.blocked = FALSE /\ row.registered = user.registered
      /\ DOMAIN row = DOMAIN user
  BY <1>1, <1>3, Zenon DEF update_pin_entries, UserRows
<1>5. user' = [row EXCEPT !.seq = msg[h].seq]
  BY <1>3, Zenon DEF Accept, Accepted
<1>6. /\ user'.entries = 0 /\ user'.last = NoTime /\ user'.blocked = FALSE
      /\ user'.registered = user.registered
  BY <1>1, <1>4, <1>5, Zenon DEF UserRows
<1>7. Retry!MayAttempt /\ user.registered
  BY <1>2, MayAttemptNow, Zenon DEF Decided
<1>8. RetryInv'
  BY <1>2, <1>6, <1>7, RetryWritten, Zenon DEF Found, Attempting, Decided
<1> QED BY <1>2, <1>6, <1>7, <1>8, Zenon DEF Retry!RightPin, Retry!NoTime, NoTime

LEMMA RetryReject ==
    ASSUME Alone, IInv, RetryInv, NEW h \in Handlers, Reject(h)
    PROVE  RetryInv' /\ Retry!WrongPin
<1>1. user \in UserRows /\ pc \in [Handlers -> Labels]
  BY Zenon DEF IInv, TypeOK
<1>2. pc[h] = "reject" /\ pc'[h] = "done" /\ now' = now
  BY <1>1, Zenon DEF Reject, Rejected, Answer, Goto
<1>3. PICK block : block = (eval[h] = "BlockedPermanently")
  BY Zenon
<1>4. user' = update_pin_entries(user, OneMore(user.entries), now, block)
  BY <1>3, Zenon DEF Reject, Rejected
<1>5. /\ user'.entries = OneMore(user.entries) /\ user'.last = now /\ user'.blocked = block
      /\ user'.registered = user.registered
  BY <1>1, <1>4, Zenon DEF UserRows, update_pin_entries
<1>6. /\ Retry!MayAttempt /\ user.registered
      /\ Retry!NextEvaluation.kind = "BlockedPermanently" <=> eval[h] = "BlockedPermanently"
  BY <1>2, MayAttemptNow, Zenon DEF Decided
<1>7. RetryInv'
  BY <1>2, <1>5, <1>6, RetryWritten, Zenon DEF Found, Attempting, Decided
<1>8. user'.blocked = (Retry!NextEvaluation.kind = "BlockedPermanently")
  BY <1>3, <1>5, <1>6, Zenon
<1> QED BY <1>2, <1>5, <1>6, <1>7, <1>8, Zenon DEF Retry!WrongPin, OneMore, Retry!U8, U8

LEMMA RetryTick ==
    ASSUME SoundPolicy, IInv, RetryInv, Tick
    PROVE  RetryInv' /\ Retry!Tick
<1>1. UNCHANGED <<user, pc, snap, eval>> /\ now' = now + 1 /\ now < MaxTime
  BY Zenon DEF Tick, db
<1>2. PICK k, l : k = user.entries + 1 /\ l = user.last
  OBVIOUS
<1>3. k \in Nat /\ l \in Nat \cup {NoTime} /\ now \in Nat
  BY <1>2, AccountAssumption DEF IInv, TypeOK, UserRows, Times, U8
<1>4. /\ evaluate(Policy, k, l, now + 1).kind = "InTimeout" => evaluate(Policy, k, l, now).kind = "InTimeout"
      /\ evaluate(Policy, k, l, now + 1).kind = "BlockedPermanently"
            <=> evaluate(Policy, k, l, now).kind = "BlockedPermanently"
  BY <1>3, VerdictStands
<1>5. /\ NextKind(now) = evaluate(Policy, k, l, now).kind
      /\ NextKind(now)' = evaluate(Policy, k, l, now + 1).kind
  BY <1>1, <1>2, Zenon DEF NextKind
<1>6. RetryInv'
  BY <1>1, <1>4, <1>5, Zenon DEF RetryInv
<1> QED BY <1>1, <1>6, Zenon DEF Retry!Tick

LEMMA RetryNext ==
    ASSUME Alone, SoundPolicy, IInv, RetryInv, [Next]_vars
    PROVE  RetryInv' /\ [Retry!Next]_(Retry!vars)
<1>1. ASSUME NEW h \in Handlers, Step(h) \/ Respond(h) \/ Abort(h) \/ Resolve(h) \/ \E m \in Messages : Receive(h, m)
      PROVE  RetryInv' /\ [Retry!Next]_(Retry!vars)
  <2>1. CASE Register(h) \/ UpsertChallenge(h)
    BY <2>1, RetryRegister, RetryUpsert, RestsStutter, Zenon
  <2>2. CASE Accept(h) \/ Reject(h)
    BY <2>2, RetryAccept, RetryReject, Zenon DEF Retry!Next
  <2>3. CASE \/ \E m \in Messages : Receive(h, m)
             \/ Respond(h) \/ Abort(h) \/ Resolve(h)
             \/ BeginChallenge(h) \/ FindForChallenge(h) \/ UpdateSequenceNumber(h)
             \/ Find(h) \/ BeginInstruction(h) \/ ClearChallenge(h) \/ VerifyInstruction(h)
             \/ HandleInstruction(h) \/ SignInstructionResult(h)
    <3>1. RetryInv' /\ UNCHANGED <<user, now>>
      BY <2>3, RetryQuiet, Zenon
    <3>2. Rests
      BY <3>1, Zenon DEF Rests
    <3> QED BY <3>1, <3>2, RestsStutter, Zenon
  <2> QED BY <1>1, <2>1, <2>2, <2>3, Zenon DEF Step
<1>2. CASE Tick
  BY <1>2, RetryTick, Zenon DEF Retry!Next
<1>3. CASE UNCHANGED vars
  <2>1. RetryInv' /\ Rests
    BY <1>3, Zenon DEF vars, db, RetryInv, NextKind, Rests
  <2> QED BY <2>1, RestsStutter, Zenon
<1> QED BY <1>1, <1>2, <1>3, Zenon DEF Next

\* For every policy that PinPolicy::new accepts and any requests: while requests are
\* handled one at a time, the statements of handle_instruction add up to the
\* attempts of PinRetry, each taken in one step.
THEOREM AttemptsAreIndivisible ==
    ASSUME Alone, SoundPolicy
    PROVE  Spec => RetrySpec
<1>1. Init => RetryInv /\ Retry!Init
  <2> SUFFICES ASSUME Init PROVE RetryInv /\ Retry!Init
    OBVIOUS
  <2>1. user.entries = 0 /\ user.last = NoTime /\ user.blocked = FALSE /\ now = 0
    BY Zenon DEF Init, NewUser
  <2>2. RetryInv
    BY Zenon DEF Init, RetryInv, Found, Attempting, Decided
  <2> QED BY <2>1, <2>2, Zenon DEF Retry!Init, SoundPolicy, WellFormedPolicy, Retry!WellFormedPolicy, Retry!NoTime, NoTime
<1>2. IInv /\ RetryInv /\ [Next]_vars => RetryInv' /\ [Retry!Next]_(Retry!vars)
  BY RetryNext, Zenon
<1> QED BY InitIInv, NextIInv, <1>1, <1>2, PTL DEF Spec, RetrySpec, Retry!Spec

-----------------------------------------------------------------------------
(* With several, the counter stays within a bound.                          *)

\* The handler read the counter so late that its verdict is to block; the others
\* will store that the account is not blocked.
Late(h) == snap[h].user.entries + 1 >= Limit
Unblockers == {h \in Handlers : pc[h] \in Attempting /\ ~Late(h)}
Blockers == {h \in Handlers : pc[h] \in Attempting /\ Late(h)}

\* Twice the number of failures that can still be counted at or beyond the limit,
\* with n handlers of which u will unblock the account and b will block it.
\* While it is not blocked every handler but those u may read the row anew; a
\* blocked one is read again only after one of the u has unblocked it.
TwiceOpen(n, u) == (2 * n + 2 * n * u) - u * (u - 1)
TwiceRoom(n, u, b, blocked) ==
    IF ~blocked THEN TwiceOpen(n, u)
    ELSE IF u = 0 THEN 2 * b
    ELSE 2 * b + 2 + TwiceOpen(n, u - 1)

Fits(l, n, e, u, b, blocked) ==
    e <= l - 2 \/ 2 * e + TwiceRoom(n, u, b, blocked) <= 2 * (l - 2) + n * (n + 3)

BoundInv ==
    /\ \A h \in Handlers : pc[h] \in Decided => (eval[h] = "BlockedPermanently" <=> Late(h))
    /\ Fits(Limit, Cardinality(Handlers), user.entries, Cardinality(Unblockers), Cardinality(Blockers),
            user.blocked)

LEMMA RowEntries == \A r \in UserRows : r.entries \in Nat /\ r.blocked \in BOOLEAN
  BY DEF UserRows, U8

LEMMA OneMoreAtMost == \A e \in Nat : OneMore(e) <= e + 1
  BY DEF OneMore, U8

LEMMA OpenStep ==
    ASSUME NEW n \in Nat, NEW u \in Nat \ {0}
    PROVE  TwiceOpen(n, u) = TwiceOpen(n, u - 1) + 2 * ((n - u) + 1)
<1>1. PICK v \in Nat : u = v + 1
  BY u - 1 \in Nat
<1>2. u * (u - 1) = v * v + v /\ v * (v - 1) = v * v - v /\ n * u = n * v + n
  BY <1>1
<1>3. TwiceOpen(n, u) = (2 * n + 2 * (n * u)) - u * (u - 1)
      /\ TwiceOpen(n, v) = (2 * n + 2 * (n * v)) - v * (v - 1)
  BY <1>1 DEF TwiceOpen
<1> QED BY <1>1, <1>2, <1>3

LEMMA OpenMax ==
    ASSUME NEW n \in Nat, NEW u \in Nat, u < n
    PROVE  TwiceOpen(n, u) <= n * (n + 3) - 2
<1>1. PICK d \in Nat : n = u + d + 1
  BY n - u - 1 \in Nat
<1>2. TwiceOpen(n, u) = (2 * n + 2 * (n * u)) - u * (u - 1)
  BY DEF TwiceOpen
<1>3. n * u = u * u + d * u + u /\ n * (n + 3) = n * n + 3 * n /\ u * (u - 1) = u * u - u
      /\ n * n = u * u + d * d + 1 + 2 * (d * u) + 2 * u + 2 * d
  BY <1>1
<1>4. d * d \in Nat /\ d * u \in Nat /\ u * u \in Nat
  OBVIOUS
<1> QED BY <1>1, <1>2, <1>3, <1>4

LEMMA OpenType ==
    ASSUME NEW n \in Nat, NEW u \in Nat
    PROVE  TwiceOpen(n, u) \in Int /\ n * (n + 3) \in Nat
  BY DEF TwiceOpen

\* A counter that was reset.
LEMMA ResetFits ==
    ASSUME NEW l \in Nat \ {0}, NEW n \in Nat \ {0}, NEW u \in Nat, NEW b \in Nat, u + b <= n,
           NEW blocked \in BOOLEAN, l = 1 => u = 0
    PROVE  Fits(l, n, 0, u, b, blocked)
<1>1. CASE l >= 2
  BY <1>1 DEF Fits
<1>2. CASE l = 1
  <2>1. TwiceOpen(n, 0) = 2 * n
    BY DEF TwiceOpen
  <2>2. TwiceRoom(n, u, b, blocked) \in {2 * n, 2 * b}
    BY <1>2, <2>1, Zenon DEF TwiceRoom
  <2>3. n * (n + 3) = n * n + 3 * n /\ n * n >= n
    OBVIOUS
  <2> QED BY <1>2, <2>2, <2>3 DEF Fits
<1> QED BY <1>1, <1>2

\* A handler that leaves.
LEMMA LeaverRoom ==
    ASSUME NEW n \in Nat, NEW u \in Nat, NEW b \in Nat, u + b <= n, NEW blocked \in BOOLEAN,
           NEW v \in Nat, NEW c \in Nat, v \in {u, u - 1}, c <= b
    PROVE  /\ TwiceRoom(n, v, c, blocked) <= TwiceRoom(n, u, b, blocked) /\ n * (n + 3) \in Nat
           /\ TwiceRoom(n, v, c, blocked) \in Int /\ TwiceRoom(n, u, b, blocked) \in Int
<1>1. u > 0 => TwiceOpen(n, u) >= TwiceOpen(n, u - 1)
  BY OpenStep, OpenType
<1>2. u > 1 => TwiceOpen(n, u - 1) >= TwiceOpen(n, u - 2)
  <2>1. SUFFICES ASSUME u > 1 PROVE TwiceOpen(n, u - 1) >= TwiceOpen(n, u - 2)
    OBVIOUS
  <2>2. PICK w \in Nat \ {0} : w = u - 1
    BY <2>1
  <2>3. w - 1 = u - 2 /\ w - 1 \in Nat
    BY <2>2
  <2> QED BY <2>2, <2>3, OpenStep, OpenType
<1>3. TwiceOpen(n, u) \in Int /\ (u > 0 => TwiceOpen(n, u - 1) \in Int)
      /\ (u > 1 => TwiceOpen(n, u - 2) \in Int) /\ n * (n + 3) \in Nat
  BY OpenType
<1>4. u > 0 => TwiceOpen(n, u - 1) >= 0
  BY DEF TwiceOpen
<1>5. TwiceRoom(n, v, c, blocked) <= TwiceRoom(n, u, b, blocked)
  <2>1. CASE ~blocked
    BY <1>1, <1>3, <2>1 DEF TwiceRoom
  <2>2. CASE blocked /\ v = u
    BY <1>3, <2>2 DEF TwiceRoom
  <2>3. CASE blocked /\ v = u - 1 /\ u = 1
    BY <1>3, <1>4, <2>3 DEF TwiceRoom
  <2>4. CASE blocked /\ v = u - 1 /\ u > 1
    <3>1. v - 1 = u - 2 /\ v # 0
      BY <2>4
    <3> QED BY <1>2, <1>3, <2>4, <3>1 DEF TwiceRoom
  <2> QED BY <2>1, <2>2, <2>3, <2>4
<1>6. TwiceRoom(n, v, c, blocked) \in Int /\ TwiceRoom(n, u, b, blocked) \in Int
  BY OpenType DEF TwiceRoom
<1> QED BY <1>3, <1>5, <1>6, Zenon

\* A failure is counted by a handler that unblocks the account.
LEMMA UnblockerFits ==
    ASSUME NEW l \in Nat, NEW n \in Nat, NEW e \in Nat, NEW u \in Nat \ {0}, NEW b \in Nat, u + b <= n,
           NEW d \in Nat, d <= e + 1, NEW blocked \in BOOLEAN, Fits(l, n, e, u, b, blocked)
    PROVE  Fits(l, n, d, u - 1, b, FALSE)
<1>1. PICK open, x : open = TwiceOpen(n, u - 1) /\ x = n * (n + 3)
  OBVIOUS
<1>2. open \in Int /\ x \in Nat /\ TwiceOpen(n, u) \in Int
  BY <1>1, OpenType
<1>3. TwiceRoom(n, u - 1, b, FALSE) = open
  BY <1>1, Zenon DEF TwiceRoom
<1>4. CASE e <= l - 2
  <2>1. open <= x - 2
    BY <1>1, OpenMax
  <2>2. 2 * d + open <= 2 * (l - 2) + x
    BY <1>2, <1>4, <2>1, SMTT(30)
  <2> QED BY <1>1, <1>3, <2>2, Zenon DEF Fits
<1>5. CASE 2 * e + TwiceRoom(n, u, b, blocked) <= 2 * (l - 2) + x
  <2>1. TwiceOpen(n, u) >= open + 2
    BY <1>1, <1>2, OpenStep
  <2>2. TwiceRoom(n, u, b, blocked) >= open + 2
    BY <1>1, <1>2, <2>1 DEF TwiceRoom
  <2>3. TwiceRoom(n, u, b, blocked) \in Int
    BY <1>1, <1>2 DEF TwiceRoom
  <2>4. 2 * d + open <= 2 * (l - 2) + x
    BY <1>2, <1>5, <2>2, <2>3
  <2> QED BY <1>1, <1>3, <2>4, Zenon DEF Fits
<1> QED BY <1>1, <1>4, <1>5, Zenon DEF Fits

\* A failure is counted by a handler that blocks it.
LEMMA BlockerFits ==
    ASSUME NEW l \in Nat, NEW n \in Nat, NEW e \in Nat, NEW u \in Nat, NEW b \in Nat \ {0}, u + b <= n,
           NEW d \in Nat, d <= e + 1, NEW blocked \in BOOLEAN, Fits(l, n, e, u, b, blocked)
    PROVE  Fits(l, n, d, u, b - 1, TRUE)
<1>1. PICK open, x : open = TwiceOpen(n, u) /\ x = n * (n + 3)
  OBVIOUS
<1>2. open \in Int /\ x \in Nat
  BY <1>1, OpenType, Zenon
<1>3. open <= x - 2
  BY <1>1, OpenMax
<1>4. PICK room : room = TwiceRoom(n, u, b - 1, TRUE)
  BY Zenon
<1>5. room \in Int /\ room <= open - 2
  <2>1. CASE u = 0
    <3>1. open = 2 * n
      BY <1>1, <2>1 DEF TwiceOpen
    <3> QED BY <1>4, <2>1, <3>1 DEF TwiceRoom
  <2>2. CASE u # 0
    <3>1. PICK less \in Int : less = TwiceOpen(n, u - 1)
      BY <2>2, OpenType
    <3>2. open = less + 2 * ((n - u) + 1)
      BY <1>1, <2>2, <3>1, OpenStep, Zenon
    <3>3. room = 2 * (b - 1) + 2 + less
      BY <1>4, <2>2, <3>1, Zenon DEF TwiceRoom
    <3> QED BY <3>1, <3>2, <3>3
  <2> QED BY <2>1, <2>2, Zenon
<1>6. CASE e <= l - 2
  <2>1. 2 * d + room <= 2 * (l - 2) + x
    BY <1>2, <1>3, <1>5, <1>6
  <2> QED BY <1>1, <1>4, <2>1, Zenon DEF Fits
<1>7. CASE 2 * e + TwiceRoom(n, u, b, blocked) <= 2 * (l - 2) + x
  <2>1. CASE blocked
    <3>1. TwiceRoom(n, u, b, blocked) = room + 2
      <4>1. CASE u = 0
        BY <1>4, <2>1, <4>1 DEF TwiceRoom
      <4>2. CASE u # 0
        <5>1. PICK less \in Int : less = TwiceOpen(n, u - 1)
          BY <4>2, OpenType
        <5> QED BY <1>4, <2>1, <4>2, <5>1, SMTT(30) DEF TwiceRoom
      <4> QED BY <4>1, <4>2, Zenon
    <3>2. 2 * d + room <= 2 * (l - 2) + x
      BY <1>2, <1>5, <1>7, <3>1, SMTT(30)
    <3> QED BY <1>1, <1>4, <3>2, Zenon DEF Fits
  <2>2. CASE ~blocked
    <3>1. TwiceRoom(n, u, b, blocked) = open
      BY <1>1, <2>2, Zenon DEF TwiceRoom
    <3>2. 2 * d + room <= 2 * (l - 2) + x
      BY <1>2, <1>5, <1>7, <3>1
    <3> QED BY <1>1, <1>4, <3>2, Zenon DEF Fits
  <2> QED BY <2>1, <2>2, ZenonT(60)
<1> QED BY <1>1, <1>6, <1>7, Zenon DEF Fits

LEMMA FitsEntries ==
    ASSUME NEW l \in Nat, NEW n \in Nat, NEW e \in Nat, NEW u \in Nat, NEW b \in Nat, u + b <= n,
           NEW blocked \in BOOLEAN, Fits(l, n, e, u, b, blocked)
    PROVE  e <= (l - 2) + (n * (n + 3)) \div 2
<1>1. PICK x \in Nat : x = n * (n + 3)
  OBVIOUS
<1>2. TwiceRoom(n, u, b, blocked) \in Nat
  <2>1. \A w \in Nat : w <= n => TwiceOpen(n, w) \in Nat
    <3>1. ASSUME NEW w \in Nat, w <= n PROVE w * (w - 1) <= n * w /\ n * w \in Nat /\ w * (w - 1) \in Int
      <4>1. w * (w - 1) = w * w - w /\ w * w <= n * w
        BY <3>1
      <4> QED BY <4>1
    <3> QED BY <3>1 DEF TwiceOpen
  <2> QED BY <2>1 DEF TwiceRoom
<1>3. 2 * e <= 2 * (l - 2) + x
  BY <1>1, <1>2 DEF Fits
<1>4. e <= (l - 2) + x \div 2
  BY <1>1, <1>3
<1> QED BY <1>1, <1>4, Zenon

\* There are handlers, finitely many, and the policy allows an attempt.
Countable == IsFiniteSet(Handlers) /\ Handlers # {} /\ Limit \in Nat \ {0}

\* What a step of handler h may do, as far as the counter is concerned.
Attempt(h) ==
    /\ \A g \in Handlers \ {h} : pc'[g] = pc[g] /\ snap'[g] = snap[g] /\ eval'[g] = eval[g]
    /\ pc'[h] \in Decided =>
          \/ pc[h] \in Decided /\ snap'[h] = snap[h] /\ eval'[h] = eval[h]
          \/ eval'[h] = "BlockedPermanently" <=> Late(h)'
    /\ \/ /\ user'.entries = user.entries /\ user'.blocked = user.blocked
          /\ \/ pc'[h] \notin Attempting
             \/ pc[h] \in Attempting /\ pc'[h] \in Attempting /\ snap'[h] = snap[h]
             \/ pc[h] \notin Attempting /\ ~user.blocked /\ snap'[h].user = user
       \/ user'.entries = 0 /\ user'.blocked = FALSE /\ pc'[h] \notin Attempting
       \/ /\ pc[h] = "reject" /\ pc'[h] \notin Attempting
          /\ user'.entries = OneMore(user.entries)
          /\ user'.blocked = (eval[h] = "BlockedPermanently")

LEMMA CountedApart ==
    ASSUME Countable, NEW U \in SUBSET Handlers, NEW B \in SUBSET Handlers, U \cap B = {}
    PROVE  /\ Cardinality(Handlers) \in Nat \ {0}
           /\ IsFiniteSet(U) /\ IsFiniteSet(B)
           /\ Cardinality(U) \in Nat /\ Cardinality(B) \in Nat
           /\ Cardinality(U) + Cardinality(B) <= Cardinality(Handlers)
<1>1. U \cup B \in SUBSET Handlers
  OBVIOUS
<1>2. IsFiniteSet(U) /\ IsFiniteSet(B) /\ Cardinality(U \cup B) <= Cardinality(Handlers)
  BY <1>1, FS_Subset, Zenon DEF Countable
<1>3. Cardinality(U \cup B) = Cardinality(U) + Cardinality(B) - Cardinality(U \cap B)
  BY <1>2, FS_Union, Zenon
<1>4. Cardinality(U \cap B) = 0
  BY FS_EmptySet, Zenon
<1>5. /\ Cardinality(U) \in Nat /\ Cardinality(B) \in Nat /\ Cardinality(Handlers) \in Nat
      /\ Cardinality(Handlers) # 0
  BY <1>2, FS_CardinalityType, FS_EmptySet, Zenon DEF Countable
<1>6. Cardinality(U) + Cardinality(B) <= Cardinality(Handlers)
  BY <1>2, <1>3, <1>4, <1>5, SMTT(30)
<1> QED BY <1>2, <1>5, <1>6, Zenon

LEMMA Counted ==
    ASSUME Countable
    PROVE  /\ Cardinality(Handlers) \in Nat \ {0}
           /\ IsFiniteSet(Unblockers) /\ IsFiniteSet(Blockers)
           /\ Cardinality(Unblockers) \in Nat /\ Cardinality(Blockers) \in Nat
           /\ Cardinality(Unblockers) + Cardinality(Blockers) <= Cardinality(Handlers)
<1>1. Unblockers \in SUBSET Handlers /\ Blockers \in SUBSET Handlers /\ Unblockers \cap Blockers = {}
  BY Zenon DEF Unblockers, Blockers
<1> QED BY <1>1, CountedApart, Zenon

\* A handler that no longer attempts anything is taken out.
LEMMA Leaves ==
    ASSUME Countable, NEW h \in Handlers, Attempt(h), pc'[h] \notin Attempting
    PROVE  /\ Unblockers' = Unblockers \ {h} /\ Blockers' = Blockers \ {h}
           /\ Cardinality(Unblockers') = IF h \in Unblockers THEN Cardinality(Unblockers) - 1
                                         ELSE Cardinality(Unblockers)
           /\ Cardinality(Blockers') = IF h \in Blockers THEN Cardinality(Blockers) - 1
                                       ELSE Cardinality(Blockers)
<1>1. Unblockers' = Unblockers \ {h} /\ Blockers' = Blockers \ {h}
  BY Zenon DEF Attempt, Unblockers, Blockers, Late
<1> QED BY <1>1, Counted, FS_RemoveElement, Zenon

LEMMA AttemptKeepsBound ==
    ASSUME Countable, IInv, BoundInv, NEW h \in Handlers, Attempt(h), user' \in UserRows
    PROVE  BoundInv'
<1>1. \A g \in Handlers : pc'[g] \in Decided => (eval'[g] = "BlockedPermanently" <=> Late(g)')
  BY ZenonT(60) DEF Attempt, BoundInv, Late
<1>2. PICK n \in Nat \ {0}, u \in Nat, b \in Nat :
          /\ n = Cardinality(Handlers) /\ u = Cardinality(Unblockers) /\ b = Cardinality(Blockers)
          /\ u + b <= n
  BY Counted, Zenon
<1>3. PICK v \in Nat, c \in Nat :
          v = Cardinality(Unblockers') /\ c = Cardinality(Blockers') /\ v + c <= n
  <2>1. /\ Unblockers' \in SUBSET Handlers /\ Blockers' \in SUBSET Handlers
        /\ Unblockers' \cap Blockers' = {}
    BY Zenon DEF Unblockers, Blockers
  <2>2. /\ Cardinality(Unblockers') \in Nat /\ Cardinality(Blockers') \in Nat
        /\ Cardinality(Unblockers') + Cardinality(Blockers') <= Cardinality(Handlers)
    BY <2>1, CountedApart, Zenon
  <2> QED BY <1>2, <2>2, Zenon
<1>4. PICK e \in Nat, d \in Nat, blocked \in BOOLEAN, blocks \in BOOLEAN :
          e = user.entries /\ d = user'.entries /\ blocked = user.blocked /\ blocks = user'.blocked
  <2>1. user \in UserRows
    BY Zenon DEF IInv, TypeOK
  <2>2. user.entries \in Nat /\ user.blocked \in BOOLEAN /\ user'.entries \in Nat /\ user'.blocked \in BOOLEAN
    BY <2>1, RowEntries, Zenon
  <2> QED BY <2>2, Zenon
<1>5. Limit \in Nat \ {0}
  BY Zenon DEF Countable
<1>6. Fits(Limit, n, e, u, b, blocked)
  BY <1>2, <1>4, Zenon DEF BoundInv
<1>7. pc'[h] \notin Attempting =>
          /\ v = IF h \in Unblockers THEN u - 1 ELSE u
          /\ c = IF h \in Blockers THEN b - 1 ELSE b
  BY <1>2, <1>3, Leaves, Zenon
<1>8. Fits(Limit, n, d, v, c, blocks)
  <2>1. CASE d = e /\ blocks = blocked /\ pc'[h] \notin Attempting
    <3>1. v \in {u, u - 1} /\ c <= b
      BY <1>2, <1>7, <2>1
    <3>2. Limit \in Nat
      BY <1>5, Zenon
    <3>3. Fits(Limit, n, e, v, c, blocked)
      <4>1. n \in Nat /\ u + b <= n
        BY <1>2, Zenon
      <4>2. /\ TwiceRoom(n, v, c, blocked) <= TwiceRoom(n, u, b, blocked) /\ n * (n + 3) \in Nat
            /\ TwiceRoom(n, v, c, blocked) \in Int /\ TwiceRoom(n, u, b, blocked) \in Int
        BY <3>1, <4>1, LeaverRoom, SMTT(30)
      <4> QED BY <1>6, <3>2, <4>2 DEF Fits
    <3> QED BY <2>1, <3>3, Zenon
  <2>2. CASE d = e /\ blocks = blocked /\ pc[h] \in Attempting /\ pc'[h] \in Attempting /\ snap'[h] = snap[h]
    <3>1. Unblockers' = Unblockers /\ Blockers' = Blockers
      BY <2>2, SMTT(30) DEF Attempt, Unblockers, Blockers, Late
    <3> QED BY <1>2, <1>3, <1>6, <2>2, <3>1, SMTT(30)
  <2>3. CASE /\ d = e /\ blocks = blocked /\ pc[h] \notin Attempting /\ pc'[h] \in Attempting
             /\ ~user.blocked /\ snap'[h].user = user
    <3>1. CASE e <= Limit - 2
      BY <2>3, <3>1, Zenon DEF Fits
    <3>2. CASE ~(e <= Limit - 2)
      <4>1. Late(h)'
        BY <1>4, <1>5, <2>3, <3>2, SMTT(30) DEF Late, Limit
      <4>2. Unblockers' = Unblockers
        BY <2>3, <4>1, Zenon DEF Attempt, Unblockers, Late
      <4>3. u = v /\ blocked = FALSE
        BY <1>2, <1>3, <1>4, <2>3, <4>2, SMTT(30)
      <4> QED BY <1>6, <2>3, <3>2, <4>3, Zenon DEF Fits, TwiceRoom
    <3> QED BY <3>1, <3>2, Zenon
  <2>4. CASE d = 0 /\ blocks = FALSE /\ pc'[h] \notin Attempting
    <3>1. Limit = 1 => v = 0
      <4>1. SUFFICES ASSUME Limit = 1 PROVE v = 0
        BY Zenon
      <4>2. \A g \in Handlers : snap[g].user.entries \in Nat
        <5>1. \A g \in Handlers : snap[g].user \in UserRows
          BY Zenon DEF IInv, TypeOK
        <5> QED BY <5>1, RowEntries, Zenon
      <4>3. Unblockers = {}
        BY <4>1, <4>2 DEF Unblockers, Late
      <4>4. u = 0
        BY <1>2, <4>3, FS_EmptySet, Zenon
      <4> QED BY <1>7, <2>4, <4>3, <4>4, Zenon
    <3> QED BY <1>3, <1>5, <2>4, <3>1, ResetFits, Zenon
  <2>5. CASE /\ pc[h] = "reject" /\ pc'[h] \notin Attempting /\ user'.entries = OneMore(user.entries)
             /\ user'.blocked = (eval[h] = "BlockedPermanently")
    <3>1. d <= e + 1
      BY <1>4, <2>5, OneMoreAtMost, Zenon
    <3>2. pc[h] \in Attempting /\ (eval[h] = "BlockedPermanently" <=> Late(h))
      BY <2>5, Zenon DEF BoundInv, Decided, Attempting
    <3>3. CASE Late(h)
      <4>1. h \in Blockers /\ h \notin Unblockers /\ blocks = TRUE
        BY <1>4, <2>5, <3>2, <3>3, ZenonT(60) DEF Blockers, Unblockers
      <4>2. b \in Nat \ {0} /\ v = u /\ c = b - 1 /\ Limit \in Nat
        BY <1>3, <1>5, <1>7, <2>5, <4>1, SMTT(30)
      <4>3. Fits(Limit, n, d, u, b - 1, TRUE)
        <5>1. n \in Nat /\ u + b <= n
          BY <1>2, Zenon
        <5> QED BY <5>1, <1>6, <3>1, <4>2, BlockerFits, ZenonT(60)
      <4> QED BY <4>1, <4>2, <4>3, Zenon
    <3>4. CASE ~Late(h)
      <4>1. h \notin Blockers /\ h \in Unblockers /\ blocks = FALSE
        BY <1>4, <2>5, <3>2, <3>4, ZenonT(60) DEF Blockers, Unblockers
      <4>2. u \in Nat \ {0} /\ v = u - 1 /\ c = b /\ Limit \in Nat
        BY <1>3, <1>5, <1>7, <2>5, <4>1, SMTT(30)
      <4>3. Fits(Limit, n, d, u - 1, b, FALSE)
        <5>1. n \in Nat /\ u + b <= n
          BY <1>2, Zenon
        <5> QED BY <5>1, <1>6, <3>1, <4>2, UnblockerFits, ZenonT(60)
      <4> QED BY <4>1, <4>2, <4>3, ZenonT(60)
    <3> QED BY <3>3, <3>4, Zenon
  <2> QED BY <1>4, <2>1, <2>2, <2>3, <2>4, <2>5, ZenonT(60) DEF Attempt
<1> QED BY <1>1, <1>2, <1>3, <1>4, <1>8, Zenon DEF BoundInv, Limit

\* When the counter is at most a u8, the verdict is to block exactly from the limit.
LEMMA BlocksWhenLate ==
    ASSUME Countable, Limit < U8, IInv, NEW h \in Handlers
    PROVE  PinEval(h) = "BlockedPermanently" <=> Late(h)
<1>1. total_attempts(Policy) = Limit
  BY DEF total_attempts, Limit, Countable, U8
<1>2. PICK k, l : k = snap[h].user.entries + 1 /\ l = snap[h].user.last
  BY Zenon
<1>3. evaluate(Policy, k, l, now).kind = "BlockedPermanently" <=> is_blocked(Policy, k)
  BY Zenon DEF evaluate, Evaluation
<1> QED BY <1>1, <1>2, <1>3, Zenon DEF PinEval, is_blocked, Late

LEMMA StepAttempts ==
    ASSUME Countable, Limit < U8, IInv, NEW h \in Handlers,
           Step(h) \/ Respond(h) \/ Abort(h) \/ Resolve(h) \/ \E m \in Messages : Receive(h, m)
    PROVE  Attempt(h)
<1> USE DEF Goto, Answer, db
<1>0. /\ pc = [g \in Handlers |-> pc[g]] /\ snap = [g \in Handlers |-> snap[g]]
      /\ eval = [g \in Handlers |-> eval[g]] /\ user \in UserRows
  BY Zenon DEF IInv, TypeOK
<1>a. ASSUME NEW label, label \notin Attempting, pc' = [pc EXCEPT ![h] = label],
             UNCHANGED <<user, snap, eval>>
      PROVE  Attempt(h)
  BY <1>0, <1>a, Zenon DEF Attempt, Attempting
<1>b. /\ "done" \notin Attempting /\ "idle" \notin Attempting /\ "challenge_find" \notin Attempting
      /\ "challenge_update" \notin Attempting /\ "challenge_upsert" \notin Attempting
      /\ "handle" \notin Attempting /\ "sign_result" \notin Attempting
  BY Zenon DEF Attempting, Decided
<1>c. ASSUME NEW error, Fail(h, error) PROVE Attempt(h)
  BY <1>a, <1>b, <1>c, Zenon DEF Fail
<1>1. ASSUME NEW m \in Messages, Receive(h, m) PROVE Attempt(h)
  <2>1. pc' = [pc EXCEPT ![h] = EntryPoint(m.kind)] /\ UNCHANGED <<user, snap, eval>>
    BY <1>1, Zenon DEF Receive
  <2>2. m.kind \in {"register", "challenge", "instruction"}
    BY AccountAssumption, Zenon DEF MessageTypes
  <2>3. EntryPoint(m.kind) \notin Attempting
    BY <2>2, Zenon DEF EntryPoint, Attempting, Decided
  <2> QED BY <1>a, <2>1, <2>3, ZenonT(60)
<1>2. CASE Respond(h) \/ BeginChallenge(h) \/ SignInstructionResult(h)
  <2>1. CASE BeginChallenge(h) \/ SignInstructionResult(h)
    <3>1. CASE BeginChallenge(h)
      BY <1>a, <1>b, <3>1, Zenon DEF BeginChallenge
    <3>2. CASE SignInstructionResult(h)
      BY <1>a, <1>b, <3>2, Zenon DEF SignInstructionResult
    <3> QED BY <2>1, <3>1, <3>2, Zenon
  <2>2. CASE Respond(h)
    <3>1. pc' = [pc EXCEPT ![h] = "idle"] /\ user' = user
      BY <2>2, Zenon DEF Respond
    <3>2. \A g \in Handlers \ {h} : pc'[g] = pc[g] /\ snap'[g] = snap[g] /\ eval'[g] = eval[g]
      BY <1>0, <2>2, Zenon DEF Respond
    <3> QED BY <1>0, <1>b, <3>1, <3>2, Zenon DEF Attempt, Attempting
  <2> QED BY <1>2, <2>1, <2>2, Zenon
<1>3. CASE Abort(h) \/ Resolve(h)
  BY <1>c, <1>3, Zenon DEF Abort, Resolve, AcquireTimeout, DeadlockVictim
<1>4. CASE Register(h)
  <2>1. CASE user' = [NewUser EXCEPT !.registered = TRUE] /\ Answer(h, "Ok") /\ UNCHANGED <<snap, eval>>
    <3>1. user'.entries = 0 /\ user'.blocked = FALSE
      BY <2>1, Zenon DEF NewUser
    <3> QED BY <1>0, <1>b, <2>1, <3>1, Zenon DEF Attempt, Attempting
  <2> QED BY <1>c, <1>4, <2>1, Zenon DEF Register
<1>5. ASSUME NEW next \in {"challenge_update", "begin"}, NEW error, VerifyWalletCertificate(h, next, error),
             pc[h] \notin Attempting
      PROVE  Attempt(h)
  <2>1. CASE /\ user.registered /\ ~user.blocked /\ snap' = [snap EXCEPT ![h] = Snapshot]
             /\ Goto(h, next) /\ UNCHANGED <<user, eval>>
    <3>1. pc'[h] = next /\ snap'[h].user = user /\ next \notin Decided
      BY <1>0, <2>1, Zenon DEF Snapshot, Decided
    <3> QED BY <1>0, <1>5, <2>1, <3>1, Zenon DEF Attempt
  <2> QED BY <1>c, <1>5, <2>1, Zenon DEF VerifyWalletCertificate
<1>6. CASE FindForChallenge(h) \/ Find(h)
  BY <1>5, <1>6, Zenon DEF FindForChallenge, Find, Attempting, Decided
<1>7. CASE UpdateSequenceNumber(h)
  <2>1. PICK kept : kept = [snap[h] EXCEPT !.chal = [nonce |-> msg[h].nonce, exp |-> now + ChallengeTimeout]]
    BY Zenon
  <2>2. CASE /\ pc' = [pc EXCEPT ![h] = "challenge_upsert"] /\ snap' = [snap EXCEPT ![h] = kept]
             /\ UNCHANGED <<user, eval>>
    BY <1>0, <1>b, <2>2, Zenon DEF Attempt, Attempting
  <2> QED BY <1>c, <1>7, <2>1, <2>2, Zenon DEF UpdateSequenceNumber
<1>8. CASE UpsertChallenge(h)
  <2>1. pc' = [pc EXCEPT ![h] = "done"] /\ user' = [user EXCEPT !.seq = msg[h].seq] /\ UNCHANGED <<snap, eval>>
    BY <1>8, Zenon DEF UpsertChallenge, Upserted
  <2>2. user'.entries = user.entries /\ user'.blocked = user.blocked
    BY <1>0, <2>1, Zenon DEF UserRows
  <2> QED BY <1>0, <1>b, <2>1, <2>2, Zenon DEF Attempt, Attempting
<1>9. CASE BeginInstruction(h)
  <2>1. pc[h] = "begin" /\ pc' = [pc EXCEPT ![h] = "clear"] /\ UNCHANGED <<user, snap, eval>>
    BY <1>9, Zenon DEF BeginInstruction
  <2> QED BY <1>0, <2>1, Zenon DEF Attempt, Attempting, Decided
<1>10. CASE ClearChallenge(h)
  <2>1. /\ pc[h] = "clear" /\ UNCHANGED <<user, snap>> /\ eval' = [eval EXCEPT ![h] = PinEval(h)]
        /\ Goto(h, "done") \/ Goto(h, "verify")
    BY <1>10, Zenon DEF ClearChallenge
  <2>2. eval'[h] = "BlockedPermanently" <=> Late(h)'
    BY <1>0, <2>1, BlocksWhenLate, Zenon DEF Late
  <2> QED BY <1>0, <2>1, <2>2, Zenon DEF Attempt, Attempting, Decided
<1>11. CASE VerifyInstruction(h)
  <2>1. CASE /\ pc[h] = "verify" /\ Goto(h, IF Verifies(h) THEN "accept" ELSE "reject")
             /\ UNCHANGED <<user, snap, eval>>
    <3>1. pc'[h] \in {"accept", "reject"}
      BY <1>0, <2>1, Zenon
    <3> QED BY <1>0, <2>1, <3>1, Zenon DEF Attempt, Attempting, Decided
  <2> QED BY <1>c, <1>11, <2>1, Zenon DEF VerifyInstruction
<1>12. CASE Accept(h)
  <2>1. PICK row : row = update_pin_entries(user, 0, NoTime, FALSE)
    BY Zenon
  <2>2. row.entries = 0 /\ row.blocked = FALSE /\ DOMAIN row = DOMAIN user
    BY <1>0, <2>1, Zenon DEF update_pin_entries, UserRows
  <2>3. user' = [row EXCEPT !.seq = msg[h].seq] /\ pc' = [pc EXCEPT ![h] = "handle"] /\ UNCHANGED <<snap, eval>>
    BY <1>12, <2>1, Zenon DEF Accept, Accepted
  <2>4. user'.entries = 0 /\ user'.blocked = FALSE
    BY <1>0, <2>2, <2>3, Zenon DEF UserRows
  <2> QED BY <1>0, <1>b, <2>3, <2>4, Zenon DEF Attempt, Attempting
<1>13. CASE Reject(h)
  <2>1. PICK block : block = (eval[h] = "BlockedPermanently")
    OBVIOUS
  <2>2. /\ user' = update_pin_entries(user, OneMore(user.entries), now, block)
        /\ pc[h] = "reject" /\ pc' = [pc EXCEPT ![h] = "done"] /\ UNCHANGED <<snap, eval>>
    BY <1>13, <2>1, Zenon DEF Reject, Rejected
  <2>3. user'.entries = OneMore(user.entries) /\ user'.blocked = block
    BY <1>0, <2>2, Zenon DEF UserRows, update_pin_entries
  <2> QED BY <1>0, <1>b, <2>1, <2>2, <2>3, Zenon DEF Attempt, Attempting
<1>14. CASE HandleInstruction(h)
  BY <1>a, <1>b, <1>c, <1>14, ZenonT(60) DEF HandleInstruction
<1> QED BY <1>1, <1>2, <1>3, <1>4, <1>6, <1>7, <1>8, <1>9, <1>10, <1>11, <1>12, <1>13, <1>14 DEF Step

LEMMA BoundNext ==
    ASSUME Countable, Limit < U8, IInv, BoundInv, [Next]_vars
    PROVE  BoundInv'
<1>1. user' \in UserRows
  BY NextIInv, Zenon DEF IInv, TypeOK
<1>2. ASSUME NEW h \in Handlers,
             Step(h) \/ Respond(h) \/ Abort(h) \/ Resolve(h) \/ \E m \in Messages : Receive(h, m)
      PROVE  BoundInv'
  BY <1>1, <1>2, StepAttempts, AttemptKeepsBound, Zenon
<1>3. CASE UNCHANGED vars \/ Tick
  <2>1. UNCHANGED <<user, pc, snap, eval>>
    BY <1>3, Zenon DEF vars, db, Tick
  <2>2. Unblockers' = Unblockers /\ Blockers' = Blockers /\ \A h \in Handlers : Late(h)' = Late(h)
    BY <2>1, Zenon DEF Unblockers, Blockers, Late, Limit
  <2> QED BY <2>1, <2>2, Zenon DEF BoundInv, Limit
<1> QED BY <1>2, <1>3, Zenon DEF Next

\* For any number of handlers and any interleaving: the failures that overlapping
\* instructions count beyond the limit of the PIN policy are at most quadratic in
\* the number of handlers, although each of them may clear is_blocked again
\* (register_unsuccessful_pin_entry).
THEOREM OvershootIsBounded ==
    ASSUME Countable
    PROVE  Spec => []EntriesBounded
<1>1. CASE Limit < U8
  <2>1. Init => BoundInv
    <3> SUFFICES ASSUME Init PROVE BoundInv
      OBVIOUS
    <3>1. \A h \in Handlers : pc[h] \notin Attempting
      BY Zenon DEF Init, Attempting, Decided
    <3>2. Unblockers = {} /\ Blockers = {}
      BY <3>1, Zenon DEF Unblockers, Blockers
    <3>3. Cardinality(Unblockers) = 0 /\ Cardinality(Blockers) = 0
      BY <3>2, FS_EmptySet, Zenon
    <3>4. user.entries = 0 /\ user.blocked = FALSE
      BY Zenon DEF Init, NewUser
    <3>5. PICK n \in Nat \ {0} : n = Cardinality(Handlers)
      BY Counted, Zenon
    <3>6. Fits(Limit, n, 0, 0, 0, FALSE)
      <4>1. Limit \in Nat \ {0} /\ 0 + 0 <= n /\ 0 \in Nat /\ FALSE \in BOOLEAN
        BY <3>5 DEF Countable
      <4> QED BY <3>5, <4>1, ResetFits, Zenon
    <3> QED BY <3>1, <3>3, <3>4, <3>5, <3>6, Zenon DEF BoundInv, Attempting
  <2>2. IInv /\ BoundInv /\ [Next]_vars => BoundInv'
    BY <1>1, BoundNext, Zenon
  <2>3. IInv /\ BoundInv => EntriesBounded
    <3> SUFFICES ASSUME IInv, BoundInv PROVE EntriesBounded
      OBVIOUS
    <3>1. PICK n \in Nat \ {0}, u \in Nat, b \in Nat :
              /\ n = Cardinality(Handlers) /\ u = Cardinality(Unblockers) /\ b = Cardinality(Blockers)
              /\ u + b <= n
      BY Counted, Zenon
    <3>2. user.entries \in Nat /\ user.blocked \in BOOLEAN
      BY DEF IInv, TypeOK, UserRows, U8
    <3>3. Fits(Limit, n, user.entries, u, b, user.blocked)
      BY <3>1, Zenon DEF BoundInv
    <3>4. user.entries <= (Limit - 2) + (n * (n + 3)) \div 2
      BY <3>1, <3>2, <3>3, FitsEntries, ZenonT(60) DEF Countable
    <3> QED BY <3>1, <3>4, Zenon DEF EntriesBounded
  <2> QED BY <2>1, <2>2, <2>3, InitIInv, NextIInv, PTL DEF Spec
<1>2. CASE ~(Limit < U8)
  <2>1. IInv => EntriesBounded
    <3> SUFFICES ASSUME IInv PROVE EntriesBounded
      OBVIOUS
    <3>1. user.entries \in 0..255
      BY DEF IInv, TypeOK, UserRows, U8
    <3>2. PICK n \in Nat \ {0} : n = Cardinality(Handlers)
      BY Counted, Zenon
    <3>3. PICK x \in Nat : x = n * (n + 3) /\ x >= 4
      <4>1. n * (n + 3) = n * n + 3 * n /\ n * n >= n
        OBVIOUS
      <4> QED BY <4>1
    <3>4. user.entries <= (Limit - 2) + x \div 2
      BY <1>2, <3>1, <3>3 DEF U8, Countable
    <3> QED BY <3>2, <3>3, <3>4, Zenon DEF EntriesBounded
  <2> QED BY <2>1, InitIInv, NextIInv, PTL DEF Spec
<1> QED BY <1>1, <1>2, Zenon
=============================================================================
