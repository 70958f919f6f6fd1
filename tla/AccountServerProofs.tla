------------------------ MODULE AccountServerProofs -------------------------
(***************************************************************************)
(* For any number of handlers, any requests in any order and any           *)
(* interleaving of the database statements: the state is well typed, the   *)
(* PIN policy is never evaluated on an inconsistent row, no row is left    *)
(* locked, and a challenge is used once.                                   *)
(*                                                                         *)
(* What one step of a handler does to sequence numbers, keys and answers   *)
(* is summed up at the end, for the proofs of the instruction protocol.    *)
(***************************************************************************)
EXTENDS AccountServer, TLAPS

\* The counter and the time of the last failure are set and reset together.
Consistent(row) == row.last = NoTime <=> row.entries = 0

\* A handler reads the whole row at once, so its snapshot is as consistent as
\* the row; the locks of a handler are those of where it stands.
IInv ==
    /\ TypeOK
    /\ Consistent(user)
    /\ \A h \in Handlers : Consistent(snap[h].user)
    /\ LocksAreReleased

LEMMA RowTypes ==
    /\ NewUser \in UserRows /\ Consistent(NewUser)
    /\ NoChallenge \in ChallengeRows
    /\ NoSnapshot \in [user : UserRows, chal : ChallengeRows]
    /\ NoMessage \in MessageTypes
  BY DEF NewUser, UserRows, Consistent, NoChallenge, ChallengeRows, NoSnapshot,
         NoMessage, Message, MessageTypes, U8, NoTime, Times

LEMMA InitIInv == Init => IInv
<1> SUFFICES ASSUME Init PROVE IInv
  OBVIOUS
<1>1. TypeOK
  BY RowTypes, AccountAssumption DEF Init, TypeOK, Labels, Replies
<1>2. Consistent(user) /\ \A h \in Handlers : Consistent(snap[h].user)
  BY RowTypes, Zenon DEF Init, NoSnapshot
<1>3. LocksAreReleased
  BY Zenon DEF Init, LocksAreReleased
<1> QED
  BY <1>1, <1>2, <1>3, Zenon DEF IInv

\* evaluate answers with one of the policy's verdicts.
LEMMA PinEvalKind == \A h \in Handlers : PinEval(h) \in Kinds
  BY Zenon DEF PinEval, evaluate, Evaluation, Kinds

\* A step that fails the request rolls back and frees the handler's locks.
LEMMA FailIInv ==
    ASSUME IInv, NEW h \in Handlers, NEW e \in Replies, Fail(h, e)
    PROVE  IInv'
<1>1. /\ pc' = [pc EXCEPT ![h] = "done"]
      /\ reply' = [reply EXCEPT ![h] = e]
      /\ UNCHANGED <<user, chal, msg, snap, eval, received, now>>
  BY Zenon DEF Fail, Answer, Goto, db
<1>2. /\ userLock' \in {userLock, NoOne} \ {h}
      /\ chalLock' \in {chalLock, NoOne} \ {h}
  BY AccountAssumption, Zenon DEF Fail, Unlock
<1>3. TypeOK'
  BY <1>1, <1>2, Zenon DEF IInv, TypeOK, Labels
<1>4. LocksAreReleased'
  BY <1>1, <1>2, Zenon DEF IInv, TypeOK, LocksAreReleased
<1> QED
  BY <1>1, <1>3, <1>4, Zenon DEF IInv, Consistent

\* A step that only moves the handler on, and neither from nor to a place
\* where it would hold a lock.
LEMMA GotoIInv ==
    ASSUME IInv, NEW h \in Handlers, NEW l \in Labels, Goto(h, l),
           h # userLock, h # chalLock \/ l \in {"verify", "accept", "reject"},
           UNCHANGED <<db, locks, msg, snap, eval, reply, received, now>>
    PROVE  IInv'
<1>1. pc' = [pc EXCEPT ![h] = l]
  BY Zenon DEF Goto
<1>2. TypeOK'
  BY <1>1, Zenon DEF IInv, TypeOK, db, locks
<1>3. LocksAreReleased'
  BY <1>1, Zenon DEF IInv, TypeOK, LocksAreReleased, locks
<1> QED
  BY <1>2, <1>3, Zenon DEF IInv, Consistent, db, locks

\* The places where no lock is held.
Lockless == Labels \ {"challenge_upsert", "verify", "accept", "reject"}

LEMMA NoLocks ==
    ASSUME IInv, NEW h \in Handlers, pc[h] \in Lockless
    PROVE  h # userLock /\ h # chalLock
  BY AccountAssumption, Zenon DEF IInv, LocksAreReleased, Lockless

LEMMA ReceiveIInv ==
    ASSUME IInv, NEW h \in Handlers, NEW m \in MessageTypes, m.kind # "none", Receive(h, m)
    PROVE  IInv'
<1>1. m \in MessageTypes /\ m.kind \in {"register", "challenge", "instruction"}
  BY Zenon DEF MessageTypes
<1>2. received' \in 0..MaxChallenges /\ received \in Nat
  BY AccountAssumption DEF Receive, IInv, TypeOK
<1>3. msg' \in [Handlers -> MessageTypes]
  <2>1. [m EXCEPT !.nonce = received + 1] \in MessageTypes
    BY <1>1, <1>2 DEF MessageTypes
  <2>2. PICK n \in MessageTypes : msg' = [msg EXCEPT ![h] = n]
    BY <1>1, <2>1, Zenon DEF Receive
  <2> QED
    BY <2>2, Zenon DEF IInv, TypeOK
<1>4. PICK l \in Lockless : pc' = [pc EXCEPT ![h] = l]
  BY <1>1, Zenon DEF Receive, Goto, EntryPoint, Lockless, Labels, Working
<1>5. h # userLock /\ h # chalLock
  BY NoLocks, Zenon DEF Receive, Lockless, Labels
<1>6. TypeOK'
  BY <1>2, <1>3, <1>4, Zenon DEF Receive, IInv, TypeOK, db, locks, Lockless
<1>7. LocksAreReleased'
  BY <1>4, <1>5, Zenon DEF Receive, IInv, TypeOK, LocksAreReleased, locks
<1> QED
  BY <1>6, <1>7, Zenon DEF Receive, IInv, Consistent, db

LEMMA RespondIInv ==
    ASSUME IInv, NEW h \in Handlers, Respond(h)
    PROVE  IInv'
<1>1. h # userLock /\ h # chalLock
  BY NoLocks, Zenon DEF Respond, Lockless, Labels
<1>2. TypeOK'
  BY RowTypes, Zenon DEF Respond, Goto, IInv, TypeOK, Labels, Replies, db, locks
<1>3. LocksAreReleased'
  BY <1>1, Zenon DEF Respond, Goto, IInv, TypeOK, LocksAreReleased, locks
<1>4. \A k \in Handlers : Consistent(snap'[k].user)
  BY RowTypes, Zenon DEF Respond, IInv, TypeOK, NoSnapshot
<1> QED
  BY <1>2, <1>3, <1>4, Zenon DEF Respond, IInv, Consistent, db

LEMMA ErrorTypes == \A kind : UnexpectedError(kind) \in Replies
  BY Zenon DEF UnexpectedError, Replies

LEMMA AbortIInv ==
    ASSUME IInv, NEW h \in Handlers, Abort(h)
    PROVE  IInv'
  BY FailIInv, ErrorTypes, Zenon DEF Abort

LEMMA RegisterIInv ==
    ASSUME IInv, NEW h \in Handlers, Register(h)
    PROVE  IInv'
<1>1. CASE \E e \in Replies : Fail(h, e)
  BY <1>1, FailIInv, Zenon
<1>2. CASE /\ user' = [NewUser EXCEPT !.registered = TRUE]
           /\ Answer(h, "Ok")
           /\ UNCHANGED <<chal, keys, locks, msg, snap, eval, received, now>>
  <2>1. h # userLock /\ h # chalLock
    BY NoLocks, Zenon DEF Register, Lockless, Labels, Working
  <2>2. user' \in UserRows /\ Consistent(user')
    BY <1>2, RowTypes, Zenon DEF NewUser, UserRows, Consistent
  <2>3. TypeOK'
    BY <1>2, <2>2, Zenon DEF Answer, Goto, IInv, TypeOK, Labels, Replies, locks
  <2>4. LocksAreReleased'
    BY <1>2, <2>1, Zenon DEF Answer, Goto, IInv, TypeOK, LocksAreReleased, locks
  <2> QED
    BY <1>2, <2>2, <2>3, <2>4, Zenon DEF IInv, Consistent
<1> QED
  BY <1>1, <1>2, Zenon DEF Register, Replies

LEMMA VerifyCertificateIInv ==
    ASSUME IInv, NEW h \in Handlers, NEW l \in Lockless, NEW e \in Replies,
           pc[h] \in Lockless, VerifyWalletCertificate(h, l, e)
    PROVE  IInv'
<1>1. CASE \E f \in Replies : Fail(h, f)
  BY <1>1, FailIInv, Zenon
<1>2. CASE /\ snap' = [snap EXCEPT ![h] = Snapshot]
           /\ Goto(h, l)
           /\ UNCHANGED <<db, locks, msg, eval, reply, received, now>>
  <2>1. h # userLock /\ h # chalLock
    BY NoLocks, Zenon
  <2>2. /\ snap' \in [Handlers -> [user : UserRows, chal : ChallengeRows]]
        /\ \A k \in Handlers : Consistent(snap'[k].user)
    BY <1>2, Zenon DEF Snapshot, IInv, TypeOK
  <2>3. TypeOK'
    BY <1>2, <2>2, Zenon DEF Goto, IInv, TypeOK, Lockless, db, locks
  <2>4. LocksAreReleased'
    BY <1>2, <2>1, Zenon DEF Goto, IInv, TypeOK, LocksAreReleased, locks
  <2> QED
    BY <1>2, <2>2, <2>3, <2>4, Zenon DEF IInv, Consistent, db
<1> QED
  BY <1>1, <1>2, ErrorTypes, Zenon DEF VerifyWalletCertificate

LEMMA ChallengeStepIInv ==
    ASSUME IInv, NEW h \in Handlers,
           BeginChallenge(h) \/ FindForChallenge(h)
    PROVE  IInv'
<1>1. CASE BeginChallenge(h)
  <2>1. h # userLock /\ h # chalLock
    BY <1>1, NoLocks, Zenon DEF BeginChallenge, Lockless, Labels, Working
  <2> QED
    BY <1>1, <2>1, GotoIInv, Zenon DEF BeginChallenge, Labels, Working, InTransaction
<1>2. CASE FindForChallenge(h)
  BY <1>2, VerifyCertificateIInv, Zenon DEF FindForChallenge, Lockless, Labels,
     Working, InTransaction, Replies
<1> QED
  BY <1>1, <1>2, Zenon

LEMMA UpdateSequenceNumberIInv ==
    ASSUME IInv, NEW h \in Handlers, UpdateSequenceNumber(h)
    PROVE  IInv'
<1>1. CASE Fail(h, "ChallengeValidation")
  BY <1>1, FailIInv, Zenon DEF Replies
<1>2. CASE ~Fail(h, "ChallengeValidation")
  <2>1. /\ userLock = NoOne /\ userLock' = h
        /\ pc' = [pc EXCEPT ![h] = "challenge_upsert"]
        /\ snap' = [snap EXCEPT ![h].chal =
                      [nonce |-> msg[h].nonce, exp |-> now + ChallengeTimeout]]
        /\ UNCHANGED <<db, chalLock, msg, eval, reply, received, now>>
    BY <1>2, Zenon DEF UpdateSequenceNumber, Goto
  <2>2. h # chalLock
    BY NoLocks, Zenon DEF UpdateSequenceNumber, Lockless, Labels, Working, InTransaction
  <2>3. [nonce |-> msg[h].nonce, exp |-> now + ChallengeTimeout] \in ChallengeRows
    BY AccountAssumption DEF IInv, TypeOK, MessageTypes, ChallengeRows
  <2>4. /\ snap' \in [Handlers -> [user : UserRows, chal : ChallengeRows]]
        /\ \A k \in Handlers : snap'[k].user = snap[k].user
    BY <2>1, <2>3, Zenon DEF IInv, TypeOK
  <2>5. TypeOK'
    BY <2>1, <2>4, Zenon DEF IInv, TypeOK, Labels, Working, InTransaction, db
  <2>6. LocksAreReleased'
    BY <2>1, <2>2, Zenon DEF IInv, TypeOK, LocksAreReleased
  <2> QED
    BY <2>1, <2>4, <2>5, <2>6, Zenon DEF IInv, Consistent, db
<1> QED
  BY <1>1, <1>2, Zenon

LEMMA UpsertChallengeIInv ==
    ASSUME IInv, NEW h \in Handlers, UpsertChallenge(h)
    PROVE  IInv'
<1>1. user' = [user EXCEPT !.seq = msg[h].seq] /\ chal' = snap[h].chal
  BY Zenon DEF UpsertChallenge, Upserted
<1>2. user' \in UserRows /\ chal' \in ChallengeRows /\ Consistent(user')
  BY <1>1, Zenon DEF IInv, TypeOK, UserRows, MessageTypes, Consistent
<1>3. /\ userLock' \in {userLock, NoOne} \ {h}
      /\ chalLock' \in {chalLock, NoOne} \ {h}
  BY AccountAssumption, Zenon DEF UpsertChallenge, Upserted, Unlock
<1>4. TypeOK'
  BY <1>2, <1>3, Zenon DEF UpsertChallenge, Upserted, Answer, Goto, IInv, TypeOK, Labels, Replies
<1>5. LocksAreReleased'
  BY <1>3, Zenon DEF UpsertChallenge, Upserted, Answer, Goto, IInv, TypeOK, LocksAreReleased
<1> QED
  BY <1>2, <1>4, <1>5, Zenon DEF UpsertChallenge, Upserted, IInv, Consistent

LEMMA FindIInv ==
    ASSUME IInv, NEW h \in Handlers, Find(h) \/ BeginInstruction(h)
    PROVE  IInv'
<1>1. CASE Find(h)
  BY <1>1, VerifyCertificateIInv, Zenon DEF Find, Lockless, Labels, Working, Replies
<1>2. CASE BeginInstruction(h)
  <2>1. h # userLock /\ h # chalLock
    BY <1>2, NoLocks, Zenon DEF BeginInstruction, Lockless, Labels, Working
  <2> QED
    BY <1>2, <2>1, GotoIInv, Zenon DEF BeginInstruction, Labels, Working, InTransaction
<1> QED
  BY <1>1, <1>2, Zenon

LEMMA ClearChallengeIInv ==
    ASSUME IInv, NEW h \in Handlers, ClearChallenge(h)
    PROVE  IInv'
<1>1. h # userLock /\ h # chalLock
  BY NoLocks, Zenon DEF ClearChallenge, Lockless, Labels, Working, InTransaction
<1>2. eval' \in [Handlers -> Kinds \cup {"none"}]
  BY PinEvalKind, Zenon DEF ClearChallenge, IInv, TypeOK
<1>3. CASE PinEval(h) = "InTimeout"
  <2>1. /\ chal' = NoChallenge /\ Answer(h, "PinTimeout")
        /\ UNCHANGED <<user, keys, locks, msg, snap, received, now>>
    BY <1>3, Zenon DEF ClearChallenge
  <2>2. TypeOK'
    BY <1>2, <2>1, RowTypes, Zenon DEF Answer, Goto, IInv, TypeOK, Labels, Replies, locks
  <2>3. LocksAreReleased'
    BY <1>1, <2>1, Zenon DEF Answer, Goto, IInv, TypeOK, LocksAreReleased, locks
  <2> QED
    BY <2>1, <2>2, <2>3, Zenon DEF IInv, Consistent
<1>4. CASE PinEval(h) # "InTimeout"
  <2>1. /\ chalLock' \in {chalLock, h}
        /\ chalLock' = h => chalLock = NoOne \/ chalLock = h
        /\ pc' = [pc EXCEPT ![h] = "verify"]
        /\ UNCHANGED <<db, userLock, reply, msg, snap, received, now>>
    BY <1>1, <1>4, Zenon DEF ClearChallenge, Goto
  <2>2. TypeOK'
    BY <1>2, <2>1, Zenon DEF IInv, TypeOK, Labels, Working, InTransaction, db
  <2>3. LocksAreReleased'
    BY <1>1, <2>1, Zenon DEF IInv, TypeOK, LocksAreReleased
  <2> QED
    BY <2>1, <2>2, <2>3, Zenon DEF IInv, Consistent, db
<1> QED
  BY <1>3, <1>4, Zenon

LEMMA VerifyInstructionIInv ==
    ASSUME IInv, NEW h \in Handlers, VerifyInstruction(h)
    PROVE  IInv'
<1>1. CASE Fail(h, "InstructionValidation")
  BY <1>1, FailIInv, Zenon DEF Replies
<1>2. CASE ~Fail(h, "InstructionValidation")
  <2>1. PICK l \in {"accept", "reject"} : Goto(h, l)
    BY <1>2, Zenon DEF VerifyInstruction
  <2>2. UNCHANGED <<db, locks, msg, snap, eval, reply, received, now>>
    BY <1>2, Zenon DEF VerifyInstruction
  <2>3. h # userLock
    BY AccountAssumption, Zenon DEF VerifyInstruction, IInv, LocksAreReleased
  <2> QED
    BY <2>1, <2>2, <2>3, GotoIInv, Zenon DEF Labels, Working, InTransaction
<1> QED
  BY <1>1, <1>2, Zenon

\* The PIN entry columns may be overwritten with any typed values.
LEMMA RowUpdate ==
    ASSUME NEW row \in UserRows, NEW n \in 0..255, NEW t \in Times,
           NEW b \in BOOLEAN
    PROVE  /\ update_pin_entries(row, n, t, b) \in UserRows
           /\ update_pin_entries(row, n, t, b).entries = n
           /\ update_pin_entries(row, n, t, b).last = t
<1> DEFINE r1 == [row EXCEPT !.entries = n]
           r2 == [r1 EXCEPT !.last = t]
           r3 == [r2 EXCEPT !.blocked = b]
<1>1. r1 \in UserRows /\ r1.entries = n
  BY DEF UserRows, U8
<1>2. r2 \in UserRows /\ r2.entries = n /\ r2.last = t
  <2> HIDE DEF r1
  <2> QED
    BY <1>1, Zenon DEF UserRows
<1>3. r3 \in UserRows /\ r3.entries = n /\ r3.last = t
  <2> HIDE DEF r2
  <2> QED
    BY <1>2 DEF UserRows
<1>4. update_pin_entries(row, n, t, b) = r3
  BY Zenon DEF UserRows, update_pin_entries
<1> QED
  BY <1>3, <1>4, Zenon

\* The commit of handle_instruction: the row is replaced by a consistent one,
\* the challenge row is deleted or left, the locks are freed.
LEMMA CommitIInv ==
    ASSUME IInv, NEW h \in Handlers,
           user' \in UserRows, Consistent(user'), chal' = Cleared(h), Unlock(h),
           NEW l \in Labels, Goto(h, l),
           reply' \in [Handlers -> Replies],
           UNCHANGED <<keys, msg, snap, eval, received, now>>
    PROVE  IInv'
<1>1. /\ userLock' \in {userLock, NoOne} \ {h}
      /\ chalLock' \in {chalLock, NoOne} \ {h}
  BY AccountAssumption, Zenon DEF Unlock
<1>2. chal' \in ChallengeRows
  BY RowTypes, Zenon DEF Cleared, IInv, TypeOK
<1>3. TypeOK'
  BY <1>1, <1>2, Zenon DEF Goto, IInv, TypeOK
<1>4. LocksAreReleased'
  BY <1>1, Zenon DEF Goto, IInv, TypeOK, LocksAreReleased
<1> QED
  BY <1>3, <1>4, Zenon DEF IInv, Consistent

LEMMA AcceptIInv ==
    ASSUME IInv, NEW h \in Handlers, Accept(h)
    PROVE  IInv'
<1> DEFINE row == update_pin_entries(user, 0, NoTime, FALSE)
<1>1. user' = [row EXCEPT !.seq = msg[h].seq]
  BY Zenon DEF Accept, Accepted
<1>2. user' \in UserRows /\ Consistent(user')
  <2>1. user \in UserRows /\ msg[h].seq \in Nat /\ 0 \in 0..255
    BY DEF IInv, TypeOK, MessageTypes
  <2>2. row \in UserRows /\ row.entries = 0 /\ row.last = NoTime
    <3>1. FALSE \in BOOLEAN /\ NoTime \in Times
      BY Zenon DEF Times
    <3>2. row \in UserRows
      BY <2>1, <3>1, RowUpdate, ZenonT(60)
    <3>3. row.entries = 0
      BY <2>1, <3>1, RowUpdate, ZenonT(60)
    <3>4. row.last = NoTime
      BY <2>1, <3>1, RowUpdate, ZenonT(60)
    <3> QED
      BY <3>2, <3>3, <3>4, Zenon
  <2> HIDE DEF row
  <2> QED
    BY <1>1, <2>1, <2>2 DEF UserRows, Consistent
<1>3. reply' \in [Handlers -> Replies] /\ "handle" \in Labels
  BY Zenon DEF Accept, Accepted, IInv, TypeOK, Labels, Working
<1> QED
  BY <1>2, <1>3, CommitIInv, Zenon DEF Accept, Accepted

LEMMA RejectIInv ==
    ASSUME IInv, NEW h \in Handlers, Reject(h)
    PROVE  IInv'
<1> DEFINE b == eval[h] = "BlockedPermanently"
<1>1. user' = update_pin_entries(user, OneMore(user.entries), now, b)
  BY Zenon DEF Reject, Rejected
<1>2. user' \in UserRows /\ Consistent(user')
  <2>1. OneMore(user.entries) \in 0..255
    BY SMTT(30) DEF OneMore, IInv, TypeOK, UserRows, U8
  <2>2. user \in UserRows /\ now \in Times
    BY DEF IInv, TypeOK, Times
  <2>3. b \in BOOLEAN
    BY Zenon
  <2> HIDE DEF b
  <2>4. /\ user' \in UserRows
        /\ user'.entries = OneMore(user.entries) /\ user'.last = now
    <3>1. user' \in UserRows
      BY <1>1, <2>1, <2>2, <2>3, RowUpdate, ZenonT(60)
    <3>2. user'.entries = OneMore(user.entries)
      BY <1>1, <2>2, Zenon DEF update_pin_entries, UserRows
    <3>3. user'.last = now
      BY <1>1, <2>2, Zenon DEF update_pin_entries, UserRows
    <3> QED
      BY <3>1, <3>2, <3>3, Zenon
  <2>5. OneMore(user.entries) # 0 /\ now # NoTime
    BY DEF OneMore, IInv, TypeOK, UserRows, U8, NoTime
  <2> QED
    BY <2>4, <2>5, Zenon DEF Consistent
<1>4. PinError(eval[h]) \in Replies
  BY Zenon DEF PinError, Replies
<1>5. reply' \in [Handlers -> Replies] /\ "done" \in Labels
  BY <1>4, Zenon DEF Reject, Rejected, Answer, IInv, TypeOK, Labels
<1> QED
  BY <1>2, <1>5, CommitIInv, Zenon DEF Reject, Rejected, Answer

LEMMA HandleIInv ==
    ASSUME IInv, NEW h \in Handlers,
           HandleInstruction(h) \/ SignInstructionResult(h)
    PROVE  IInv'
<1>1. h # userLock /\ h # chalLock
  BY NoLocks, Zenon DEF HandleInstruction, SignInstructionResult, Lockless, Labels, Working
<1>2. CASE \E e \in Replies : Fail(h, e)
  BY <1>2, FailIInv, Zenon
<1>3. CASE /\ Goto(h, "sign_result")
           /\ UNCHANGED <<user, chal, locks, msg, snap, eval, reply, received, now>>
  <2>1. TypeOK'
    BY <1>3, Zenon DEF Goto, IInv, TypeOK, Labels, Working, locks
  <2>2. LocksAreReleased'
    BY <1>1, <1>3, Zenon DEF Goto, IInv, TypeOK, LocksAreReleased, locks
  <2> QED
    BY <1>3, <2>1, <2>2, Zenon DEF IInv, Consistent
<1>4. CASE SignInstructionResult(h)
  <2>1. TypeOK'
    BY <1>4, Zenon DEF SignInstructionResult, Answer, Goto, IInv, TypeOK, Labels, Replies, db, locks
  <2>2. LocksAreReleased'
    BY <1>1, <1>4, Zenon DEF SignInstructionResult, Answer, Goto, IInv, TypeOK,
       LocksAreReleased, locks
  <2> QED
    BY <1>4, <2>1, <2>2, Zenon DEF SignInstructionResult, IInv, Consistent, db
<1> QED
  BY <1>2, <1>3, <1>4, Zenon DEF HandleInstruction, Replies, db

\* Whatever the server does by itself.
LEMMA ServerIInv ==
    ASSUME IInv, Tick \/ \E h \in Handlers : Step(h) \/ Abort(h) \/ Resolve(h)
    PROVE  IInv'
<1>1. ASSUME NEW h \in Handlers, Step(h) PROVE IInv'
  BY <1>1, RegisterIInv, ChallengeStepIInv, UpdateSequenceNumberIInv,
     UpsertChallengeIInv, FindIInv, ClearChallengeIInv, VerifyInstructionIInv,
     AcceptIInv, RejectIInv, HandleIInv DEF Step
<1>2. ASSUME NEW h \in Handlers, Abort(h) PROVE IInv'
  BY <1>2, AbortIInv, Zenon
<1>3. ASSUME NEW h \in Handlers, Resolve(h) PROVE IInv'
  BY <1>3, AbortIInv, Zenon DEF Resolve, AcquireTimeout, DeadlockVictim
<1>4. CASE Tick
  <2>1. now' \in 0..MaxTime
    BY <1>4, AccountAssumption DEF Tick, IInv, TypeOK
  <2> QED
    BY <1>4, <2>1, Zenon DEF Tick, IInv, TypeOK, Consistent, LocksAreReleased, db, locks
<1> QED
  BY <1>1, <1>2, <1>3, <1>4, Zenon

LEMMA NextIInv == IInv /\ [Next]_vars => IInv'
<1> SUFFICES ASSUME IInv, [Next]_vars PROVE IInv'
  OBVIOUS
<1>1. ASSUME NEW h \in Handlers, NEW m \in Messages, Receive(h, m) PROVE IInv'
  BY <1>1, ReceiveIInv, AccountAssumption, Zenon
<1>2. ASSUME NEW h \in Handlers, Respond(h) PROVE IInv'
  BY <1>2, RespondIInv, Zenon
<1>3. CASE UNCHANGED vars
  BY <1>3, Zenon DEF vars, IInv, TypeOK, Consistent, LocksAreReleased, db, locks
<1> QED
  BY <1>1, <1>2, <1>3, ServerIInv, Zenon DEF Next

\* The account server's state keeps its types: in particular the counter of
\* failures stays within its u8 and the database rows stay well formed.
THEOREM TypeCorrect == Spec => []TypeOK
<1>1. IInv => TypeOK
  BY Zenon DEF IInv
<1> QED
  BY InitIInv, NextIInv, <1>1, PTL DEF Spec

\* However many handlers work on the wallet and however they interleave, the
\* assertion in PinPolicy::evaluate holds when handle_instruction calls it.
THEOREM EvaluationIsSafe == Spec => []EvaluateNeverPanics
<1>1. IInv => EvaluateNeverPanics
  BY DEF IInv, TypeOK, UserRows, Consistent, EvaluateNeverPanics, EvaluateAssertion
<1> QED
  BY InitIInv, NextIInv, <1>1, PTL DEF Spec

\* Every path out of a handler, errors and rollbacks included, gives up the row
\* locks its transaction held.
THEOREM NoRowStaysLocked == Spec => []LocksAreReleased
<1>1. IInv => LocksAreReleased
  BY Zenon DEF IInv
<1> QED
  BY InitIInv, NextIInv, <1>1, PTL DEF Spec
-----------------------------------------------------------------------------
(* Challenges are used once                                                 *)

MakingChallenge == {"challenge_begin", "challenge_find", "challenge_update", "challenge_upsert"}
HasCleared == {"verify", "accept", "reject"}
HasChallenge == {"begin", "clear"} \cup HasCleared

\* The nonce of a challenge that is being made is not yet known to any other
\* handler, nor in the database.  A handler that has cleared the challenge it read
\* holds the lock of its row, or that challenge is gone.
NonceInv ==
    /\ chal.nonce \in 0..received /\ (chal.nonce = 0 => chal = NoChallenge)
    /\ \A h \in Handlers : pc[h] \in MakingChallenge =>
           /\ msg[h].nonce \in 1..received /\ msg[h].nonce # chal.nonce
           /\ \A g \in Handlers \ {h} : pc[g] \in MakingChallenge => msg[g].nonce # msg[h].nonce
           /\ \A g \in Handlers : pc[g] \in HasChallenge => snap[g].chal.nonce # msg[h].nonce
           /\ pc[h] = "challenge_upsert" => snap[h].chal.nonce = msg[h].nonce
    /\ \A h \in Handlers : pc[h] \in HasChallenge =>
           /\ snap[h].chal.nonce \in 0..received
           /\ snap[h].chal.nonce = 0 => snap[h].chal = NoChallenge
           /\ pc[h] \in HasCleared /\ snap[h].chal # NoChallenge /\ chalLock # h =>
                  chal.nonce # snap[h].chal.nonce
           /\ pc[h] \in {"accept", "reject"} => snap[h].chal # NoChallenge

\* What handler k did: it changed its own state only, and the locks of others stay.
Own(k) ==
    /\ \A h \in Handlers \ {k} : pc'[h] = pc[h] /\ msg'[h] = msg[h] /\ snap'[h] = snap[h]
    /\ \A h \in Handlers \ {k} : chalLock' = h <=> chalLock = h

\* A handler that makes no challenge and has read none, or that has gone on with
\* the one it had.
LEMMA NonceQuiet ==
    ASSUME IInv, NonceInv, NEW k \in Handlers, Own(k), received' = received,
           chal' \in {chal, NoChallenge},
           pc'[k] \in MakingChallenge =>
               /\ pc[k] \in MakingChallenge /\ msg'[k] = msg[k]
               /\ pc'[k] = "challenge_upsert" => snap'[k].chal.nonce = msg[k].nonce,
           pc'[k] \in HasChallenge =>
               \/ pc'[k] = "begin" /\ snap'[k].chal = chal
               \/ /\ pc[k] \in HasChallenge /\ snap'[k] = snap[k]
                  /\ pc'[k] \in HasCleared => chalLock' = k \/ chal' = NoChallenge
                                              \/ (pc[k] \in HasCleared /\ chalLock # k)
                  /\ pc'[k] \in {"accept", "reject"} => snap[k].chal # NoChallenge
    PROVE  NonceInv'
<1>1. chal'.nonce \in 0..received' /\ (chal'.nonce = 0 => chal' = NoChallenge)
      /\ chal'.nonce \in {chal.nonce, 0}
  <2>1. CASE chal' = chal
    BY <2>1, Zenon DEF NonceInv
  <2>2. CASE chal' = NoChallenge
    BY <2>2 DEF IInv, TypeOK, NoChallenge
  <2>3. chal' = chal \/ chal' = NoChallenge
    OBVIOUS
  <2> QED BY <2>1, <2>2, <2>3, Zenon
<1> USE DEF NonceInv, Own, IInv, TypeOK, ChallengeRows, NoChallenge, MakingChallenge, HasChallenge,
        HasCleared
<1>2. ASSUME NEW h \in Handlers, pc'[h] \in MakingChallenge
      PROVE  /\ msg'[h].nonce \in 1..received' /\ msg'[h].nonce # chal'.nonce
             /\ pc'[h] = "challenge_upsert" => snap'[h].chal.nonce = msg'[h].nonce
             /\ pc[h] \in MakingChallenge /\ msg'[h] = msg[h]
  BY <1>1, <1>2
<1>3. ASSUME NEW h \in Handlers, pc'[h] \in HasChallenge
      PROVE  /\ snap'[h].chal.nonce \in 0..received'
             /\ snap'[h].chal.nonce = 0 => snap'[h].chal = NoChallenge
             /\ pc'[h] \in {"accept", "reject"} => snap'[h].chal # NoChallenge
             /\ \/ snap'[h].chal = chal
                \/ pc[h] \in HasChallenge /\ snap'[h] = snap[h]
  BY <1>3, SMTT(30)
<1>4. ASSUME NEW h \in Handlers, pc'[h] \in HasCleared, snap'[h].chal # NoChallenge, chalLock' # h
      PROVE  chal'.nonce # snap'[h].chal.nonce
  <2>1. snap'[h].chal.nonce # 0
    BY <1>3, <1>4, Zenon
  <2>2. CASE h = k BY <1>1, <1>4, <2>1, <2>2, SMTT(30)
  <2>3. CASE h # k BY <1>1, <1>4, <2>1, <2>3, SMTT(30)
  <2> QED BY <2>2, <2>3, Zenon
<1>5. ASSUME NEW h \in Handlers, NEW g \in Handlers, pc'[h] \in MakingChallenge, pc'[g] \in HasChallenge
      PROVE  snap'[g].chal.nonce # msg'[h].nonce
  BY <1>2, <1>3, <1>5, SMTT(30)
<1>6. ASSUME NEW h \in Handlers, NEW g \in Handlers \ {h},
             pc'[h] \in MakingChallenge, pc'[g] \in MakingChallenge
      PROVE  msg'[g].nonce # msg'[h].nonce
  BY <1>2, <1>6, SMTT(30)
<1> HIDE DEF Own, IInv, TypeOK, ChallengeRows, NoChallenge, MakingChallenge, HasChallenge, HasCleared
<1> QED BY <1>1, <1>2, <1>3, <1>4, <1>5, <1>6, ZenonT(60)

\* The step that gives a challenge request its nonce: a new one.
LEMMA NonceReceive ==
    ASSUME IInv, NonceInv, NEW k \in Handlers, NEW m \in MessageTypes, m.kind # "none", Receive(k, m)
    PROVE  NonceInv'
<1> USE DEF IInv, TypeOK, MakingChallenge, HasChallenge, HasCleared
<1>1. Own(k) /\ UNCHANGED <<chal, snap, chalLock>>
  BY Zenon DEF Receive, Own, Goto, db, locks
<1>2. CASE m.kind = "challenge"
  <2>1. /\ pc' = [pc EXCEPT ![k] = "challenge_begin"] /\ received' = received + 1
        /\ msg' = [msg EXCEPT ![k] = [m EXCEPT !.nonce = received + 1]]
    BY <1>2, Zenon DEF Receive, Goto, EntryPoint
  <2>2. msg'[k].nonce = received + 1 /\ pc'[k] = "challenge_begin" /\ received \in Nat
    BY <2>1, SMTT(30) DEF MessageTypes
  <2> QED BY <1>1, <2>1, <2>2 DEF Own, NonceInv
<1>3. CASE m.kind # "challenge"
  <2>1. received' = received /\ pc'[k] \in {"register", "find"}
    BY <1>3, Zenon DEF Receive, Goto, EntryPoint, MessageTypes
  <2> QED BY <1>1, <2>1, NonceQuiet, Zenon
<1> QED BY <1>2, <1>3, Zenon

\* The step that makes a challenge known: its nonce is no other handler's.
LEMMA NonceUpsert ==
    ASSUME IInv, NonceInv, NEW k \in Handlers, UpsertChallenge(k)
    PROVE  NonceInv'
<1> USE DEF IInv, TypeOK, MakingChallenge, HasChallenge, HasCleared
<1>1. /\ pc[k] = "challenge_upsert" /\ pc' = [pc EXCEPT ![k] = "done"] /\ chalLock = NoOne
      /\ chal' = snap[k].chal /\ UNCHANGED <<msg, snap, received>>
      /\ chalLock' = NoOne
  BY Zenon DEF UpsertChallenge, Upserted, Answer, Goto, Unlock
<1>2. chal'.nonce = msg[k].nonce /\ msg[k].nonce \in 1..received
  BY <1>1, Zenon DEF NonceInv
<1> QED BY <1>1, <1>2, AccountAssumption DEF NonceInv

LEMMA NonceFail ==
    ASSUME IInv, NonceInv, NEW k \in Handlers, NEW e, Fail(k, e)
    PROVE  NonceInv'
<1>1. Own(k) /\ chal' = chal /\ received' = received /\ pc'[k] = "done"
  BY AccountAssumption, Zenon DEF Fail, Answer, Goto, Unlock, Own, db, IInv, TypeOK
<1> QED BY <1>1, NonceQuiet, Zenon DEF MakingChallenge, HasChallenge, HasCleared

LEMMA NonceVerifyCertificate ==
    ASSUME IInv, NonceInv, NEW k \in Handlers, NEW e, NEW next,
           VerifyWalletCertificate(k, next, e),
           \/ pc[k] = "challenge_find" /\ next = "challenge_update"
           \/ pc[k] = "find" /\ next = "begin"
    PROVE  NonceInv'
<1>1. CASE \E f : Fail(k, f)
  BY <1>1, NonceFail, Zenon
<1>2. CASE /\ snap' = [snap EXCEPT ![k] = Snapshot] /\ Goto(k, next)
           /\ UNCHANGED <<db, locks, msg, eval, reply, received, now>>
  <2>1. Own(k) /\ UNCHANGED <<chal, received, msg>> /\ pc'[k] = next /\ snap'[k].chal = chal
    BY <1>2, Zenon DEF Own, Goto, Snapshot, IInv, TypeOK, db, locks
  <2> QED BY <2>1, NonceQuiet, Zenon DEF MakingChallenge, HasChallenge, HasCleared
<1> QED BY <1>1, <1>2, Zenon DEF VerifyWalletCertificate

LEMMA NonceStep ==
    ASSUME IInv, NonceInv, NEW k \in Handlers, Step(k)
    PROVE  NonceInv'
<1> USE DEF MakingChallenge, HasChallenge, HasCleared
<1>1. CASE Register(k)
  <2>1. CASE \E f : Fail(k, f) BY <2>1, NonceFail, Zenon
  <2>2. CASE Answer(k, "Ok") /\ UNCHANGED <<chal, locks, msg, snap, received>>
    <3>1. Own(k) /\ chal' = chal /\ received' = received /\ pc'[k] = "done"
      BY <2>2, Zenon DEF Answer, Goto, Own, locks, IInv, TypeOK
    <3> QED BY <3>1, NonceQuiet, Zenon
  <2> QED BY <1>1, <2>1, <2>2, Zenon DEF Register
<1>2. CASE BeginChallenge(k)
  <2>1. /\ Own(k) /\ UNCHANGED <<chal, received, msg>>
        /\ pc[k] = "challenge_begin" /\ pc'[k] = "challenge_find"
    BY <1>2, Zenon DEF BeginChallenge, Goto, Own, db, locks, IInv, TypeOK
  <2> QED BY <2>1, NonceQuiet, Zenon
<1>3. CASE FindForChallenge(k) BY <1>3, NonceVerifyCertificate, Zenon DEF FindForChallenge
<1>4. CASE UpdateSequenceNumber(k)
  <2>1. CASE \E f : Fail(k, f) BY <2>1, NonceFail, Zenon
  <2>2. CASE /\ snap' = [snap EXCEPT ![k].chal = [nonce |-> msg[k].nonce, exp |-> now + ChallengeTimeout]]
             /\ Goto(k, "challenge_upsert") /\ UNCHANGED <<db, chalLock, msg, received>>
    <3>1. snap'[k].chal.nonce = msg[k].nonce /\ \A h \in Handlers \ {k} : snap'[h] = snap[h]
      BY <2>2, Zenon DEF IInv, TypeOK
    <3>2. /\ Own(k) /\ UNCHANGED <<chal, received, msg>>
          /\ pc[k] = "challenge_update" /\ pc'[k] = "challenge_upsert"
      BY <1>4, <2>2, <3>1, Zenon DEF UpdateSequenceNumber, Goto, Own, db, IInv, TypeOK
    <3> QED BY <3>1, <3>2, NonceQuiet, Zenon
  <2> QED BY <1>4, <2>1, <2>2, Zenon DEF UpdateSequenceNumber
<1>5. CASE UpsertChallenge(k) BY <1>5, NonceUpsert, Zenon
<1>6. CASE Find(k) BY <1>6, NonceVerifyCertificate, Zenon DEF Find
<1>7. CASE BeginInstruction(k)
  <2>1. Own(k) /\ UNCHANGED <<chal, received, msg, snap>> /\ pc[k] = "begin" /\ pc'[k] = "clear"
    BY <1>7, Zenon DEF BeginInstruction, Goto, Own, db, locks, IInv, TypeOK
  <2> QED BY <2>1, NonceQuiet, Zenon
<1>8. CASE ClearChallenge(k)
  <2>1. /\ pc[k] = "clear" /\ UNCHANGED <<msg, snap, received>>
        /\ \/ chal' = NoChallenge /\ chalLock' = chalLock /\ pc' = [pc EXCEPT ![k] = "done"]
           \/ /\ chal' = chal /\ pc' = [pc EXCEPT ![k] = "verify"]
              /\ \/ chal # NoChallenge /\ chalLock = NoOne /\ chalLock' = k
                 \/ chal = NoChallenge /\ chalLock' = chalLock
    BY <1>8, Zenon DEF ClearChallenge, Answer, Goto, db, locks
  <2>2. Own(k)
    BY <2>1, AccountAssumption, Zenon DEF Own, IInv, TypeOK
  <2>3. pc'[k] = "done" \/ (pc'[k] = "verify" /\ (chalLock' = k \/ chal' = NoChallenge))
    BY <2>1, Zenon DEF IInv, TypeOK
  <2> QED BY <2>1, <2>2, <2>3, NonceQuiet, Zenon
<1>9. CASE VerifyInstruction(k)
  <2>1. CASE \E f : Fail(k, f) BY <2>1, NonceFail, Zenon
  <2>2. CASE /\ snap[k].chal # NoChallenge /\ Goto(k, IF Verifies(k) THEN "accept" ELSE "reject")
             /\ UNCHANGED <<db, locks, msg, snap, received>>
    <3>1. /\ Own(k) /\ UNCHANGED <<chal, received, msg, snap, chalLock>> /\ pc[k] = "verify"
          /\ pc'[k] \in {"accept", "reject"}
      BY <1>9, <2>2, Zenon DEF VerifyInstruction, Goto, Own, db, locks, IInv, TypeOK
    <3> QED BY <2>2, <3>1, NonceQuiet, Zenon
  <2> QED BY <1>9, <2>1, <2>2, Zenon DEF VerifyInstruction
<1>10. CASE Accept(k) \/ Reject(k)
  <2>1. /\ UNCHANGED <<msg, snap, received>> /\ chal' \in {chal, NoChallenge}
        /\ pc'[k] \in {"handle", "done"}
        /\ \A h \in Handlers \ {k} : pc'[h] = pc[h]
        /\ chalLock' = IF chalLock = k THEN NoOne ELSE chalLock
    BY <1>10, Zenon DEF Accept, Accepted, Reject, Rejected, Cleared, Unlock, Answer, Goto, IInv, TypeOK
  <2>2. Own(k)
    BY <2>1, AccountAssumption, Zenon DEF Own
  <2> QED BY <2>1, <2>2, NonceQuiet, Zenon
<1>11. CASE HandleInstruction(k)
  <2>1. CASE \E f : Fail(k, f) BY <2>1, NonceFail, Zenon
  <2>2. CASE Goto(k, "sign_result") /\ UNCHANGED <<chal, locks, msg, snap, received>>
    <3>1. Own(k) /\ chal' = chal /\ received' = received /\ pc'[k] = "sign_result"
      BY <2>2, Zenon DEF Goto, Own, locks, IInv, TypeOK
    <3> QED BY <3>1, NonceQuiet, Zenon
  <2> QED BY <1>11, <2>1, <2>2, Zenon DEF HandleInstruction, db
<1>12. CASE SignInstructionResult(k)
  <2>1. Own(k) /\ chal' = chal /\ received' = received /\ pc'[k] = "done"
    BY <1>12, Zenon DEF SignInstructionResult, Answer, Goto, Own, db, locks, IInv, TypeOK
  <2> QED BY <2>1, NonceQuiet, Zenon
<1> QED
  BY <1>1, <1>2, <1>3, <1>4, <1>5, <1>6, <1>7, <1>8, <1>9, <1>10, <1>11, <1>12, Zenon DEF Step

LEMMA NonceNext == IInv /\ NonceInv /\ [Next]_vars => NonceInv'
<1> SUFFICES ASSUME IInv, NonceInv, [Next]_vars PROVE NonceInv'
  OBVIOUS
<1>1. ASSUME NEW h \in Handlers, NEW m \in Messages, Receive(h, m) PROVE NonceInv'
  BY <1>1, NonceReceive, AccountAssumption, Zenon
<1>2. ASSUME NEW h \in Handlers, Respond(h) PROVE NonceInv'
  <2>1. Own(h) /\ chal' = chal /\ received' = received /\ pc'[h] = "idle"
    BY <1>2, Zenon DEF Respond, Goto, Own, db, locks, IInv, TypeOK
  <2> QED BY <2>1, NonceQuiet, Zenon DEF MakingChallenge, HasChallenge, HasCleared
<1>3. ASSUME NEW h \in Handlers, Abort(h) \/ Resolve(h) PROVE NonceInv'
  BY <1>3, NonceFail, Zenon DEF Abort, Resolve, AcquireTimeout, DeadlockVictim
<1>4. CASE Tick \/ UNCHANGED vars
  BY <1>4, SMTT(30) DEF Tick, vars, NonceInv, db, locks
<1> QED BY <1>1, <1>2, <1>3, <1>4, NonceStep, Zenon DEF Next

\* However the handlers of a wallet interleave, an instruction that is accepted or
\* counted as a wrong PIN leaves a database without the challenge it was checked
\* against, so that no other instruction is ever checked against it after that.
THEOREM ChallengesAreSpent == Spec => ChallengeIsSpent
<1>1. Init => NonceInv
  BY DEF Init, NonceInv, NoChallenge, MakingChallenge, HasChallenge, HasCleared
<1>2. IInv /\ NonceInv /\ [Next]_vars =>
          [\A h \in Handlers : Accept(h) \/ Reject(h) => chal'.nonce # snap[h].chal.nonce]_vars
  <2> SUFFICES ASSUME IInv, NonceInv, NEW h \in Handlers, Accept(h) \/ Reject(h)
               PROVE  chal'.nonce # snap[h].chal.nonce
    OBVIOUS
  <2>1. pc[h] \in {"accept", "reject"} /\ chal' = IF chalLock = h THEN NoChallenge ELSE chal
    BY Zenon DEF Accept, Accepted, Reject, Rejected, Cleared
  <2>2. snap[h].chal.nonce # 0 /\ (chalLock # h => chal.nonce # snap[h].chal.nonce)
    BY <2>1, Zenon DEF NonceInv, HasChallenge, HasCleared
  <2> QED BY <2>1, <2>2, Zenon DEF NoChallenge
<1> QED BY <1>1, <1>2, InitIInv, NextIInv, NonceNext, PTL DEF Spec, ChallengeIsSpent

-----------------------------------------------------------------------------
(* What a step of a handler does to sequence numbers, keys and answers.     *)

\* A handler whose request may still be carried out, and one that compares its
\* sequence number with the row that it has read.
Open == {"challenge_begin", "challenge_find", "challenge_update", "challenge_upsert",
         "find", "begin", "clear", "verify", "accept"}
HasRead == {"challenge_update", "begin", "clear", "verify"}

\* What a step of handler k does to the sequence numbers.
Effect(k) ==
    /\ msg' = msg
    /\ pc[k] # "idle" /\ pc'[k] \notin {"idle", "register"}
    /\ \A h \in Handlers \ {k} : pc'[h] = pc[h] /\ snap'[h] = snap[h]
    /\ \/ /\ user'.seq = user.seq
          /\ pc'[k] \in Open => pc[k] \in Open
          /\ pc'[k] \in HasRead =>
                \/ pc[k] \in HasRead /\ snap'[k].user = snap[k].user
                \/ pc[k] \in Open /\ snap'[k].user = user
       \/ user'.seq = msg[k].seq /\ pc[k] \in Open /\ pc'[k] \notin Open

LEMMA FailEffect ==
    ASSUME IInv, NEW h \in Handlers, NEW e, pc[h] # "idle", Fail(h, e)
    PROVE  Effect(h)
BY Zenon DEF Effect, Fail, Answer, Goto, db, IInv, TypeOK, Open, HasRead

LEMMA StepEffect ==
    ASSUME IInv, NEW h \in Handlers, pc[h] # "register", Step(h) \/ Abort(h) \/ Resolve(h)
    PROVE  Effect(h)
<1> USE DEF IInv, TypeOK, Open, HasRead, Goto, Answer, db
<1>0. pc[h] # "idle"
  BY Zenon DEF Step, Abort, Resolve, AcquireTimeout, DeadlockVictim, Register, BeginChallenge,
         FindForChallenge, UpdateSequenceNumber, UpsertChallenge, Upserted, Find, BeginInstruction,
         ClearChallenge, VerifyInstruction, Accept, Accepted, Reject, Rejected, HandleInstruction,
         SignInstructionResult, Working, InTransaction
<1>1. CASE Abort(h) \/ Resolve(h)
  BY <1>0, <1>1, FailEffect, Zenon DEF Abort, Resolve, AcquireTimeout, DeadlockVictim
<1>2. CASE BeginChallenge(h) \/ BeginInstruction(h)
  BY <1>2, Zenon DEF BeginChallenge, BeginInstruction, Effect
<1>3. CASE FindForChallenge(h) \/ Find(h)
  <2>1. CASE \E e : Fail(h, e)
    BY <1>0, <2>1, FailEffect, Zenon
  <2>2. CASE ~\E e : Fail(h, e)
    <3>1. PICK l \in {"challenge_update", "begin"} :
              /\ pc[h] \in Open
              /\ snap' = [snap EXCEPT ![h] = Snapshot] /\ Goto(h, l)
              /\ UNCHANGED <<user, msg>>
      BY <1>3, <2>2, Zenon DEF FindForChallenge, Find, VerifyWalletCertificate
    <3> QED BY <3>1, Zenon DEF Effect, Snapshot
  <2> QED BY <2>1, <2>2, Zenon
<1>4. CASE UpdateSequenceNumber(h)
  <2>1. CASE \E e : Fail(h, e)
    BY <1>0, <2>1, FailEffect, Zenon
  <2>2. CASE ~\E e : Fail(h, e)
    BY <1>4, <2>2, Zenon DEF UpdateSequenceNumber, Effect
  <2> QED BY <2>1, <2>2, Zenon
<1>5. CASE UpsertChallenge(h)
  BY <1>5, Zenon DEF UpsertChallenge, Upserted, Effect, UserRows
<1>6. CASE ClearChallenge(h)
  BY <1>6, Zenon DEF ClearChallenge, Effect
<1>7. CASE VerifyInstruction(h)
  <2>1. CASE \E e : Fail(h, e)
    BY <1>0, <2>1, FailEffect, Zenon
  <2>2. CASE ~\E e : Fail(h, e)
    BY <1>7, <2>2, Zenon DEF VerifyInstruction, Effect
  <2> QED BY <2>1, <2>2, Zenon
<1>8. CASE Accept(h)
  <2>1. user'.seq = msg[h].seq
    BY <1>8, Zenon DEF Accept, Accepted, update_pin_entries, UserRows
  <2> QED BY <1>8, <2>1, Zenon DEF Accept, Accepted, Effect
<1>9. CASE Reject(h)
  <2>1. user'.seq = user.seq
    BY <1>9, Zenon DEF Reject, Rejected, update_pin_entries, UserRows
  <2> QED BY <1>9, <2>1, Zenon DEF Reject, Rejected, Effect
<1>10. CASE HandleInstruction(h)
  <2>1. CASE \E e : Fail(h, e)
    BY <1>0, <2>1, FailEffect, Zenon
  <2>2. CASE ~\E e : Fail(h, e)
    BY <1>10, <2>2, Zenon DEF HandleInstruction, Effect
  <2> QED BY <2>1, <2>2, Zenon
<1>11. CASE SignInstructionResult(h)
  BY <1>11, Zenon DEF SignInstructionResult, Effect
<1> QED
  BY <1>1, <1>2, <1>3, <1>4, <1>5, <1>6, <1>7, <1>8, <1>9, <1>10, <1>11, Zenon DEF Step, Register

ChallengeSteps == {"challenge_begin", "challenge_find", "challenge_update", "challenge_upsert"}

GeneratesKey(m) == m.kind = "instruction" /\ m.op = "GenerateKey"
HasSucceeded(h) == pc[h] = "sign_result" \/ (pc[h] = "done" /\ reply[h] = "Ok")

\* A key that a signature is asked of is stored, and so is one for which an
\* answer is on its way.
RequestKeys(m) == m.op = "Sign" => m.key \in keys
HandlerKeys(h) ==
    /\ reply[h] # "Panic"
    /\ pc[h] \in ChallengeSteps => msg[h].kind = "challenge"
    /\ pc[h] # "idle" => RequestKeys(msg[h])
    /\ GeneratesKey(msg[h]) /\ HasSucceeded(h) => msg[h].key \in keys

\* What a step of handler k does to the keys and the answers.
KeyEffect(k) ==
    /\ msg' = msg /\ keys \subseteq keys'
    /\ pc[k] # "idle"
    /\ \A h \in Handlers \ {k} : pc'[h] = pc[h] /\ reply'[h] = reply[h]
    /\ reply'[k] # "Panic"
    /\ pc'[k] \in ChallengeSteps => pc[k] \in ChallengeSteps
    /\ GeneratesKey(msg[k]) /\ HasSucceeded(k)' => msg[k].key \in keys'

LEMMA FailKeyEffect ==
    ASSUME IInv, NEW h \in Handlers, pc[h] # "idle", NEW e, e \notin {"Ok", "Panic"}, Fail(h, e)
    PROVE  KeyEffect(h)
<1>1. UNCHANGED <<msg, keys>> /\ pc' = [pc EXCEPT ![h] = "done"] /\ reply' = [reply EXCEPT ![h] = e]
  BY Zenon DEF Fail, Answer, Goto, db
<1>2. pc'[h] = "done" /\ reply'[h] = e
  BY <1>1, Zenon DEF IInv, TypeOK
<1>3. \A k \in Handlers \ {h} : pc'[k] = pc[k] /\ reply'[k] = reply[k]
  BY <1>1, Zenon DEF IInv, TypeOK
<1> QED BY <1>1, <1>2, <1>3, Zenon DEF KeyEffect, HasSucceeded, ChallengeSteps

\* A handler that moves on to l, with the answer r if it has one.
LEMMA KeyMove ==
    ASSUME IInv, NEW h \in Handlers, pc[h] # "idle", NEW l, pc' = [pc EXCEPT ![h] = l],
           NEW r, r # "Panic", reply' = [reply EXCEPT ![h] = r],
           msg' = msg, keys \subseteq keys', l \in ChallengeSteps => pc[h] \in ChallengeSteps,
           GeneratesKey(msg[h]) /\ (l = "sign_result" \/ (l = "done" /\ r = "Ok")) => msg[h].key \in keys'
    PROVE  KeyEffect(h)
<1>1. DOMAIN pc = Handlers /\ DOMAIN reply = Handlers
  BY Zenon DEF IInv, TypeOK
<1>2. pc'[h] = l /\ reply'[h] = r /\ \A k \in Handlers \ {h} : pc'[k] = pc[k] /\ reply'[k] = reply[k]
  BY <1>1, Zenon
<1> QED BY <1>2, Zenon DEF KeyEffect, HasSucceeded

\* The same, without an answer.
LEMMA KeyMoveOn ==
    ASSUME IInv, NEW h \in Handlers, HandlerKeys(h), pc[h] # "idle", NEW l, pc' = [pc EXCEPT ![h] = l],
           reply' = reply, msg' = msg, keys \subseteq keys', l # "done",
           l \in ChallengeSteps => pc[h] \in ChallengeSteps,
           GeneratesKey(msg[h]) /\ l = "sign_result" => msg[h].key \in keys'
    PROVE  KeyEffect(h)
<1>1. DOMAIN reply = Handlers
  BY Zenon DEF IInv, TypeOK
<1>2. PICK r : r = reply[h]
  OBVIOUS
<1>3. reply' = [reply EXCEPT ![h] = r] /\ r # "Panic"
  BY <1>1, <1>2, Zenon DEF HandlerKeys, IInv, TypeOK
<1> QED BY <1>3, KeyMove, Zenon

LEMMA StepKeyEffect ==
    ASSUME IInv, NEW h \in Handlers, HandlerKeys(h), pc[h] # "register", Step(h) \/ Abort(h) \/ Resolve(h)
    PROVE  KeyEffect(h)
<1> USE DEF Goto, Answer, db
<1> DEFINE Errors == {"ChallengeValidation", "RegistrationParsing", "Unexpected", "AccountBlocked",
                      "IncorrectPin", "PinTimeout", "InstructionValidation"}
<1>0. pc[h] # "idle"
  BY StepEffect, Zenon DEF Effect
<1>a. CASE \E e \in Errors : Fail(h, e)
  BY <1>0, <1>a, FailKeyEffect, Zenon
<1> SUFFICES ASSUME ~\E e \in Errors : Fail(h, e) PROVE KeyEffect(h)
  BY <1>a, Zenon
<1>b. \A kind : UnexpectedError(kind) \in Errors
  BY Zenon DEF UnexpectedError
<1>c. /\ "begin" \notin ChallengeSteps /\ "clear" \notin ChallengeSteps /\ "verify" \notin ChallengeSteps
      /\ "accept" \notin ChallengeSteps /\ "reject" \notin ChallengeSteps /\ "handle" \notin ChallengeSteps
      /\ "sign_result" \notin ChallengeSteps /\ "done" \notin ChallengeSteps
      /\ "challenge_begin" \in ChallengeSteps /\ "challenge_find" \in ChallengeSteps
      /\ "challenge_update" \in ChallengeSteps /\ "challenge_upsert" \in ChallengeSteps
  BY Zenon DEF ChallengeSteps
<1>d. pc[h] \in ChallengeSteps => ~GeneratesKey(msg[h])
  BY Zenon DEF HandlerKeys, GeneratesKey
<1>1. CASE Abort(h) \/ Resolve(h)
  BY <1>1, <1>b, Zenon DEF Abort, Resolve, AcquireTimeout, DeadlockVictim
<1>2. CASE BeginChallenge(h) \/ BeginInstruction(h)
  <2>1. CASE BeginChallenge(h)
    BY <1>0, <1>c, <2>1, KeyMoveOn, Zenon DEF BeginChallenge
  <2>2. CASE BeginInstruction(h)
    BY <1>0, <1>c, <2>2, KeyMoveOn, Zenon DEF BeginInstruction
  <2> QED BY <1>2, <2>1, <2>2, Zenon
<1>3. CASE FindForChallenge(h)
  BY <1>0, <1>3, <1>b, <1>c, KeyMoveOn, Zenon DEF FindForChallenge, VerifyWalletCertificate
<1>4. CASE Find(h)
  BY <1>0, <1>4, <1>b, <1>c, KeyMoveOn, Zenon DEF Find, VerifyWalletCertificate
<1>5. CASE UpdateSequenceNumber(h)
  BY <1>0, <1>5, <1>c, KeyMoveOn, Zenon DEF UpdateSequenceNumber
<1>6. CASE UpsertChallenge(h)
  BY <1>0, <1>6, <1>c, <1>d, KeyMove, Zenon DEF UpsertChallenge, Upserted
<1>7. CASE ClearChallenge(h)
  BY <1>0, <1>7, <1>c, KeyMoveOn, KeyMove, Zenon DEF ClearChallenge
<1>8. CASE VerifyInstruction(h)
  BY <1>0, <1>8, <1>c, KeyMoveOn, Zenon DEF VerifyInstruction
<1>9. CASE Accept(h)
  BY <1>0, <1>9, <1>c, KeyMoveOn, Zenon DEF Accept, Accepted
<1>10. CASE Reject(h)
  BY <1>0, <1>10, <1>c, KeyMove, Zenon DEF Reject, Rejected, PinError
<1>11. CASE HandleInstruction(h)
  <2>1. RequestKeys(msg[h])
    BY <1>0, Zenon DEF HandlerKeys
  <2>2. /\ pc' = [pc EXCEPT ![h] = "sign_result"] /\ reply' = reply /\ msg' = msg /\ keys \subseteq keys'
        /\ GeneratesKey(msg[h]) => msg[h].key \in keys'
    BY <1>11, <2>1, Zenon DEF HandleInstruction, GeneratesKey, RequestKeys
  <2> QED BY <1>0, <1>c, <2>2, KeyMoveOn, Zenon
<1>12. CASE SignInstructionResult(h)
  <2>1. GeneratesKey(msg[h]) => msg[h].key \in keys
    BY <1>12, Zenon DEF SignInstructionResult, HandlerKeys, HasSucceeded
  <2> QED BY <1>0, <1>12, <1>c, <2>1, KeyMove, Zenon DEF SignInstructionResult
<1> QED
  BY <1>1, <1>2, <1>3, <1>4, <1>5, <1>6, <1>7, <1>8, <1>9, <1>10, <1>11, <1>12, Zenon DEF Step, Register
=============================================================================
