----------------- MODULE ServerSessionsAndConfigurationProofs ----------------
(***************************************************************************)
(* The session stores of the wallet server and the issuer that uses them,  *)
(* for any tokens, timeouts and writes, and a cleanup of any length.  The  *)
(* memory store does what the SessionStore trait promises; in Postgres an  *)
(* expiration is final; with either store an authorization code yields one *)
(* access token, what is stored of a session fits what was sent out, and   *)
(* credentials or a rejection are the last word on a session.              *)
(*                                                                         *)
(* The configuration that the wallet takes over from its server, for any   *)
(* number of versions, publications, failures and ends of the process.     *)
(***************************************************************************)
EXTENDS IssuanceSessions, Configuration, TLAPS

-----------------------------------------------------------------------------
(* The stores.                                                              *)

StatusRow == [data : Payload, age : Nat, status : {"Active", "Succeeded", "Failed", "Expired"}]

\* The map, and the time that the cleanup took when it began.
StoreInv ==
    /\ DOMAIN rows = Tokens /\ rows = [t \in Tokens |-> rows[t]]
    /\ backend \in {"memory", "postgres"}
    /\ sweep.age \in 0..MaxSweep
    /\ sweep.phase \in {"idle", "retain", "expire", "transaction"}
    /\ sweep.phase \in {"retain", "expire"} => backend = "memory"
    /\ sweep.phase = "transaction" => backend = "postgres"

LEMMA MaxAgeType ==
    MaxAge \in Nat /\ MaxSweep <= MaxAge /\ MaxAge = Store!MaxAge /\ Ages = Store!Ages
<1>1. PICK n \in {Timeouts[field] : field \in TimeoutFields} :
          \A field \in TimeoutFields : Timeouts[field] <= n
  <2> DEFINE a == Timeouts["expiration"]
             b == Timeouts["successful_deletion"]
             c == Timeouts["failed_deletion"]
  <2>1. a \in Nat /\ b \in Nat /\ c \in Nat
    BY TimeoutsAssumption, Zenon DEF TimeoutFields
  <2>2. (a >= b /\ a >= c) \/ (b >= a /\ b >= c) \/ (c >= a /\ c >= b)
    BY <2>1
  <2> QED BY <2>1, <2>2 DEF TimeoutFields
<1>2. LongestTimeout \in Nat
  BY <1>1, TimeoutsAssumption, Zenon DEF LongestTimeout
<1> QED
  BY <1>2, TimeoutsAssumption
  DEF MaxAge, Ages, LongestTimeout, TimeoutFields, Store!Ages, Store!MaxAge, Store!LongestTimeout,
      Store!TimeoutFields

LEMMA StoreInvInit == StoreInit => StoreInv
BY TimeoutsAssumption DEF StoreInit, StoreInv, Idle

LEMMA StoreInvStep == StoreInv /\ [StoreNext]_storeVars => StoreInv'
<1> SUFFICES ASSUME StoreInv, [StoreNext]_storeVars PROVE StoreInv'
  OBVIOUS
<1> USE TimeoutsAssumption DEF StoreInv
<1>1. ASSUME NEW t \in Tokens, NEW data, NEW lag, Put(t, data, lag) PROVE StoreInv'
  BY <1>1, Zenon DEF Put, write
<1>2. CASE StartCleanup BY <1>2 DEF StartCleanup
<1>3. ASSUME NEW t \in Tokens, Retain(t) PROVE StoreInv'
  BY <1>3 DEF Retain, Visited
<1>4. ASSUME NEW t \in Tokens, Expire(t) PROVE StoreInv'
  BY <1>4 DEF Expire, Visited, Idle
<1>5. CASE CommitCleanup BY <1>5 DEF CommitCleanup, Idle
<1>6. CASE CleanupFails BY <1>6 DEF CleanupFails, Idle
<1>7. CASE TickStore BY <1>7 DEF TickStore
<1>8. CASE UNCHANGED storeVars BY <1>8, Zenon DEF storeVars
<1> QED BY <1>1, <1>2, <1>3, <1>4, <1>5, <1>6, <1>7, <1>8, Zenon DEF StoreNext, CleanupStep

LEMMA StoreInvariance == StoreSpec => []StoreInv
BY StoreInvInit, StoreInvStep, PTL DEF StoreSpec

-----------------------------------------------------------------------------
(* The memory store implements the abstract store.                          *)

\* A cleanup visit changes at most the session that it visits, and to what the
\* abstract cleanup makes of it; if it leaves the session alone it is no step.
LEMMA VisitIsCleanup ==
    ASSUME StoreInv, backend = "memory", UNCHANGED backend, NEW t \in Tokens,
           \/ rows' = rows
           \/ rows' = [rows EXCEPT ![t] = Store!Swept(rows[t], sweep.age)]
    PROVE  Store!Cleanup({t}, sweep.age) \/ UNCHANGED [s \in Tokens |-> MemorySession(s)]
BY DEF StoreInv, Store!Cleanup, MemorySession, get

LEMMA RefinementStep ==
    StoreInv /\ [StoreNext]_storeVars => [Store!Next]_[t \in Tokens |-> MemorySession(t)]
<1> SUFFICES ASSUME StoreInv, [StoreNext]_storeVars
             PROVE  Store!Next \/ UNCHANGED [t \in Tokens |-> MemorySession(t)]
  OBVIOUS
<1>0. CASE backend # "memory"
  <2>1. backend' = backend
    BY Zenon DEF StoreNext, storeVars, CleanupStep, Put, write, StartCleanup, Retain, Expire, Visited,
           CommitCleanup, CleanupFails, TickStore
  <2> QED BY <1>0, <2>1, Zenon DEF MemorySession
<1> SUFFICES ASSUME backend = "memory" PROVE Store!Next \/ UNCHANGED [t \in Tokens |-> MemorySession(t)]
  BY <1>0, Zenon
<1>1. ASSUME NEW t \in Tokens, NEW data \in Payload, NEW lag \in 0..MaxLag, Put(t, data, lag)
      PROVE  Store!Next
  <2>1. lag \in Ages
    BY LagAssumption, MaxAgeType DEF Ages
  <2>2. Store!Write(t, data, lag)
    BY <1>1, Zenon DEF Put, write, Written, Store!Write, MemorySession, get, StoreInv
  <2> QED BY <2>1, <2>2, MaxAgeType, Zenon DEF Store!Next
<1>2. ASSUME NEW t \in Tokens, Retain(t) \/ Expire(t)
      PROVE  Store!Cleanup({t}, sweep.age) \/ UNCHANGED [s \in Tokens |-> MemorySession(s)]
  <2>1. backend' = backend
    BY <1>2, Zenon DEF Retain, Expire, Visited
  <2>2. \/ rows' = rows
        \/ rows' = [rows EXCEPT ![t] = Store!Swept(rows[t], sweep.age)]
    <3> USE DEF Exists, StoreInv, Store!Swept, Store!ToDelete, Store!ToExpire, ToDelete, ToExpire,
                progress, Store!progress, Beyond, Store!Beyond, DeletionTimeout,
                Store!DeletionTimeout, expired, Store!expired
    <3>1. CASE Retain(t) BY <1>2, <3>1, Zenon DEF Retain
    <3>2. CASE Expire(t) BY <1>2, <3>2, Zenon DEF Expire
    <3> QED BY <1>2, <3>1, <3>2, Zenon
  <2> QED BY <2>1, <2>2, VisitIsCleanup, Zenon
<1>3. ASSUME NEW t \in Tokens, Store!Cleanup({t}, sweep.age) PROVE Store!Next
  BY <1>3, Zenon DEF StoreInv, Store!Next
<1>4. CASE CommitCleanup BY <1>4, Zenon DEF CommitCleanup, StoreInv
<1>5. CASE StartCleanup \/ CleanupFails \/ UNCHANGED storeVars
  BY <1>5, Zenon DEF StartCleanup, CleanupFails, storeVars, MemorySession, get
<1>6. CASE TickStore
  <2>1. \A age : Store!Older(age) = Older(age)
    BY MaxAgeType, Zenon DEF Older, Store!Older
  <2>2. backend' = backend /\ rows' = [t \in Tokens |->
                  IF Exists(t) THEN [rows[t] EXCEPT !.age = Store!Older(@)] ELSE NoSession]
    BY <1>6, <2>1, Zenon DEF TickStore
  <2>3. Store!Tick
    BY <2>2, Zenon DEF Store!Tick, MemorySession, get, Exists
  <2> QED BY <2>3, Zenon DEF Store!Next
<1> QED BY <1>1, <1>2, <1>3, <1>4, <1>5, <1>6, Zenon DEF StoreNext, CleanupStep

\* The memory store, whose cleanup visits the sessions one by one while requests
\* are handled, implements the SessionStore trait: what get() returns changes
\* only by a write, an expiration or removal that is due, or the clock.
THEOREM MemoryStoreImplements == StoreSpec => KeepsPromise
<1>1. StoreInit => Store!Init
  BY Zenon DEF StoreInit, Store!Init, MemorySession, get
<1> QED BY <1>1, StoreInvariance, RefinementStep, PTL DEF StoreSpec, KeepsPromise, Store!Spec

-----------------------------------------------------------------------------
(* Expirations in Postgres.                                                 *)

\* Requests never write expired data, and the cleanup does not touch the data:
\* in Postgres it is the status column alone that says a session has expired.
RowsInv == backend = "postgres" => \A t \in Tokens : rows[t] = NoSession \/ rows[t] \in StatusRow

LEMMA RowsInvInit == StoreInit => RowsInv
BY Zenon DEF StoreInit, RowsInv

LEMMA RowsInvStep == StoreInv /\ RowsInv /\ [StoreNext]_storeVars => RowsInv'
<1> SUFFICES ASSUME StoreInv, RowsInv, backend = "postgres", [StoreNext]_storeVars, NEW u \in Tokens
             PROVE  (rows[u] = NoSession \/ rows[u] \in StatusRow)' /\ backend' = backend
  BY Zenon DEF RowsInv, StoreInv, StoreNext, storeVars, CleanupStep, Put, write, StartCleanup, Retain,
         Expire, Visited, CommitCleanup, CleanupFails, TickStore
<1>0. rows[u] = NoSession \/ rows[u] \in StatusRow
  BY Zenon DEF RowsInv
<1>1. ASSUME NEW t \in Tokens, NEW data \in Payload, NEW lag \in 0..MaxLag, Put(t, data, lag)
      PROVE  (rows[u] = NoSession \/ rows[u] \in StatusRow)' /\ backend' = backend
  BY <1>0, <1>1 DEF Put, write, Written, Exists, progress, StoreInv, StatusRow
<1>2. CASE CommitCleanup
  <2>1. rows'[u] = CleanedRow(rows[u]) /\ backend' = backend
    BY <1>2, Zenon DEF CommitCleanup
  <2>2. CASE rows[u] = NoSession
    BY <2>1, <2>2, Zenon DEF CleanedRow
  <2>3. CASE rows[u] \in StatusRow
    <3>1. [rows[u] EXCEPT !.status = "Expired", !.age = sweep.age] \in StatusRow
      <4>1. sweep.age \in Nat
        BY TimeoutsAssumption DEF StoreInv
      <4>2. PICK row \in StatusRow : row = [rows[u] EXCEPT !.status = "Expired"]
        BY <2>3, Zenon DEF StatusRow
      <4>3. [row EXCEPT !.age = sweep.age] \in StatusRow
        BY <4>1, Zenon DEF StatusRow
      <4> QED BY <4>2, <4>3, Zenon
    <3> QED BY <2>1, <2>3, <3>1, Zenon DEF CleanedRow
  <2> QED BY <1>0, <2>2, <2>3, <2>1, Zenon
<1>3. CASE TickStore
  BY <1>0, <1>3 DEF TickStore, Exists, Older, StatusRow
<1>4. CASE StartCleanup \/ CleanupFails \/ UNCHANGED storeVars
  BY <1>0, <1>4, Zenon DEF StartCleanup, CleanupFails, storeVars
<1>5. ASSUME NEW t \in Tokens, Retain(t) \/ Expire(t) PROVE FALSE
  BY <1>5, Zenon DEF Retain, Expire, StoreInv
<1> QED BY <1>1, <1>2, <1>3, <1>4, <1>5, Zenon DEF StoreNext, CleanupStep

LEMMA ExpiredStep ==
    ASSUME StoreInv, RowsInv, [StoreNext]_storeVars, NEW u \in Tokens,
           backend = "postgres", Exists(u), is_expired(get(u).data)
    PROVE  get(u)' = NoSession \/ is_expired(get(u)'.data)
<1>0. rows[u] \in StatusRow /\ rows[u].status = "Expired"
  BY DEF RowsInv, Exists, is_expired, get, StatusRow, Payload
<1> SUFFICES backend' = backend /\ (rows'[u] = NoSession \/ rows'[u].status = "Expired")
  BY Zenon DEF get, is_expired, expired
<1>1. ASSUME NEW t \in Tokens, NEW data \in Payload, NEW lag \in 0..MaxLag, Put(t, data, lag)
      PROVE  backend' = backend /\ rows'[u].status = "Expired"
  BY <1>0, <1>1, Zenon DEF Put, write, Written, Exists, StoreInv
<1>2. CASE CommitCleanup
  BY <1>0, <1>2, Zenon DEF CommitCleanup, CleanedRow
<1>3. CASE TickStore
  BY <1>0, <1>3, Zenon DEF TickStore, Exists, StatusRow
<1>4. CASE StartCleanup \/ CleanupFails \/ UNCHANGED storeVars
  BY <1>0, <1>4, Zenon DEF StartCleanup, CleanupFails, storeVars
<1>5. ASSUME NEW t \in Tokens, Retain(t) \/ Expire(t) PROVE FALSE
  BY <1>5, Zenon DEF Retain, Expire, StoreInv
<1> QED BY <1>1, <1>2, <1>3, <1>4, <1>5, Zenon DEF StoreNext, CleanupStep

\* In Postgres a request that read a session before it expired cannot bring it
\* back by its later write, which leaves the status column alone.
THEOREM ExpirationIsFinal == StoreSpec => ExpiredIsFinal
<1>1. StoreInv /\ RowsInv /\ [StoreNext]_storeVars
      => [\A t \in Tokens :
            backend = "postgres" /\ Exists(t) /\ is_expired(get(t).data)
            => get(t)' = NoSession \/ is_expired(get(t)'.data)]_storeVars
  BY ExpiredStep, Zenon
<1>2. StoreSpec => []RowsInv
  BY RowsInvInit, RowsInvStep, StoreInvariance, PTL DEF StoreSpec
<1> QED BY <1>1, <1>2, StoreInvariance, PTL DEF StoreSpec, ExpiredIsFinal

-----------------------------------------------------------------------------
(* The sessions of the issuer.                                              *)

Datas(t) == SessionsWith(granted[t])

\* The rows of the store in use.
RowsOf(datas) ==
    IF backend = "memory" THEN [data : datas, age : Ages]
    ELSE [data : datas, age : Ages, status : Statuses]

\* The state of the store and of the requests.  What a session waits for is an
\* access token that was sent out.
SessionInv ==
    /\ backend \in {"memory", "postgres"}
    /\ rows = [t \in Tokens |-> rows[t]]
    /\ \A t \in Tokens : Exists(t) => rows[t] \in RowsOf(Datas(t))
    /\ sweep.age \in 0..MaxSweep
    /\ sweep.phase \in {"retain", "expire"} => backend = "memory"
    /\ sweep.phase = "transaction" => backend = "postgres"
    /\ hand = [h \in Handlers |-> hand[h]]
    /\ \A h \in Handlers : hand[h].pc # "idle" => hand[h].tok \in Tokens
    /\ tokens \in 0..MaxTokens
    /\ granted \in [Tokens -> SUBSET (1..MaxTokens)]

\* A code for which an access token was sent out has a session, or had one.
CodesInv ==
    /\ OneTokenPerCode
    /\ \A t \in Tokens : granted[t] # {} => Exists(t) \/ t \in gone

LEMMA RowIsASession ==
    ASSUME SessionInv, NEW t \in Tokens, NEW row \in RowsOf(Datas(t))
    PROVE  row # NoSession
BY NoSessionAssumption DEF SessionInv, RowsOf, Datas, RowsWith, SessionsWith

LEMMA SessionInvInit == Init => SessionInv /\ CodesInv
BY TimeoutsAssumption, IssuanceAssumption
DEF Init, StoreInit, SessionInv, CodesInv, OneTokenPerCode, Exists, Idle, NoRequest

\* What write leaves is a row of the store, and the other rows stay.
LEMMA WriteSession ==
    ASSUME SessionInv, NEW t \in Tokens, NEW accesses, NEW data \in SessionsWith(accesses),
           NEW lag \in 0..MaxLag, write(t, data, lag)
    PROVE  /\ rows'[t] \in RowsOf(SessionsWith(accesses))
           /\ \A u \in Tokens \ {t} : rows'[u] = rows[u]
           /\ rows' = [u \in Tokens |-> rows'[u]] /\ backend' = backend
<1>1. lag \in Ages
  BY LagAssumption, MaxAgeType DEF Ages
<1>2. progress(data) \in Statuses
  BY Zenon DEF progress, Statuses
<1>3. Written(t, data, lag) \in RowsOf(SessionsWith(accesses))
  <2>1. CASE backend = "memory" BY <1>1, <2>1, Zenon DEF Written, RowsOf
  <2>2. CASE backend # "memory"
    <3>1. (IF Exists(t) THEN rows[t].status ELSE progress(data)) \in Statuses
      BY <1>2, <2>2, Zenon DEF SessionInv, RowsOf
    <3> QED BY <1>1, <2>2, <3>1, Zenon DEF Written, RowsOf
  <2> QED BY <2>1, <2>2, Zenon
<1> QED BY <1>3, Zenon DEF write, SessionInv

\* A step that leaves every row as it is, or turns it into one of the same store
\* with the same or expired data, or removes it and notes that it is gone.
RowsKept ==
    \A t \in Tokens :
        \/ rows'[t] = NoSession
        \/ Exists(t) /\ rows'[t] \in RowsOf(Datas(t))

LEMMA BackgroundRows ==
    ASSUME SessionInv, CleanupStep \/ CleanupFails \/ TickStore
    PROVE  /\ RowsKept /\ rows' = [t \in Tokens |-> rows'[t]]
           /\ backend' = backend /\ sweep'.age \in 0..MaxSweep
           /\ sweep'.phase \in {"retain", "expire"} => backend = "memory"
           /\ sweep'.phase = "transaction" => backend = "postgres"
<1> USE TimeoutsAssumption
<1> DEFINE Goal == /\ RowsKept /\ rows' = [t \in Tokens |-> rows'[t]]
                   /\ backend' = backend /\ sweep'.age \in 0..MaxSweep
                   /\ sweep'.phase \in {"retain", "expire"} => backend = "memory"
                   /\ sweep'.phase = "transaction" => backend = "postgres"
<1>0. expired \in EndedSessions /\ \A t \in Tokens : expired \in Datas(t)
  BY Zenon DEF expired, EndedSessions, Done, Datas, SessionsWith
<1>1. sweep.age \in Ages
  BY MaxAgeType DEF SessionInv, Ages
<1>2. CASE StartCleanup
  BY <1>2 DEF StartCleanup, SessionInv, RowsKept, Exists
<1>3. ASSUME NEW t \in Tokens, Retain(t) PROVE Goal
  BY <1>3 DEF Retain, Visited, SessionInv, RowsKept, Exists
<1>4. ASSUME NEW t \in Tokens, Expire(t) PROVE Goal
  <2>1. backend = "memory" /\ backend' = backend
    BY <1>4, Zenon DEF Expire, Visited, SessionInv
  <2>2. [data |-> expired, age |-> sweep.age] \in RowsOf(Datas(t))
    BY <1>0, <1>1, <2>1, Zenon DEF RowsOf
  <2> QED BY <1>4, <2>1, <2>2 DEF Expire, Visited, Idle, SessionInv, RowsKept, Exists
<1>5. CASE CommitCleanup
  <2>1. backend = "postgres" /\ backend' = backend
    BY <1>5, Zenon DEF CommitCleanup, SessionInv
  <2>2. ASSUME NEW t \in Tokens, Exists(t)
        PROVE  CleanedRow(rows[t]) = NoSession \/ CleanedRow(rows[t]) \in RowsOf(Datas(t))
    <3>1. rows[t] \in [data : Datas(t), age : Ages, status : Statuses]
      BY <2>1, <2>2, Zenon DEF SessionInv, RowsOf
    <3>2. PICK row \in [data : Datas(t), age : Ages, status : Statuses] :
              row = [rows[t] EXCEPT !.status = "Expired"]
      BY <3>1, Zenon DEF Statuses
    <3>3. [row EXCEPT !.age = sweep.age] \in [data : Datas(t), age : Ages, status : Statuses]
      BY <1>1, Zenon
    <3>4. [rows[t] EXCEPT !.status = "Expired", !.age = sweep.age] \in RowsOf(Datas(t))
      BY <2>1, <3>2, <3>3, Zenon DEF RowsOf
    <3>5. rows[t] \in RowsOf(Datas(t))
      BY <2>1, <3>1, Zenon DEF RowsOf
    <3> QED BY <3>4, <3>5, Zenon DEF CleanedRow
  <2>3. ASSUME NEW t \in Tokens, ~Exists(t) PROVE CleanedRow(rows[t]) = NoSession
    BY <2>3, Zenon DEF CleanedRow, Exists
  <2> QED BY <1>5, <2>1, <2>2, <2>3 DEF CommitCleanup, Idle, RowsKept
<1>6. CASE CleanupFails
  BY <1>6 DEF CleanupFails, Idle, SessionInv, RowsKept, Exists
<1>7. CASE TickStore
  <2>1. ASSUME NEW t \in Tokens, Exists(t)
        PROVE  [rows[t] EXCEPT !.age = Older(@)] \in RowsOf(Datas(t))
    <3>1. \A age \in Ages : Older(age) \in Ages
      BY MaxAgeType DEF Ages, Older
    <3>2. CASE backend = "memory"
      BY <2>1, <3>1, <3>2, Zenon DEF SessionInv, RowsOf
    <3>3. CASE backend # "memory"
      BY <2>1, <3>1, <3>3, Zenon DEF SessionInv, RowsOf
    <3> QED BY <3>2, <3>3, Zenon
  <2> QED BY <1>7, <2>1 DEF TickStore, SessionInv, RowsKept, Exists
<1> QED BY <1>2, <1>3, <1>4, <1>5, <1>6, <1>7, Zenon DEF CleanupStep

LEMMA BackgroundStep ==
    ASSUME SessionInv, CodesInv, Background, Forget
    PROVE  SessionInv' /\ CodesInv'
<1>1. UNCHANGED <<hand, tokens, granted>>
  BY Zenon DEF Background, issuerVars
<1>2. /\ RowsKept /\ rows' = [t \in Tokens |-> rows'[t]]
      /\ backend' = backend /\ sweep'.age \in 0..MaxSweep
      /\ sweep'.phase \in {"retain", "expire"} => backend = "memory"
      /\ sweep'.phase = "transaction" => backend = "postgres"
  BY BackgroundRows, Zenon DEF Background
<1>3. SessionInv'
  BY <1>1, <1>2, Zenon DEF SessionInv, RowsKept, Exists, Datas, RowsOf
<1>4. CodesInv'
  BY <1>1, <1>2, Zenon DEF CodesInv, OneTokenPerCode, RowsKept, Exists, Forget
<1> QED BY <1>3, <1>4, Zenon

LEMMA ReceivedStep ==
    ASSUME SessionInv, CodesInv, Forget, NEW h \in Handlers, NEW t \in Tokens, Request(h, t)
    PROVE  SessionInv' /\ CodesInv'
<1>1. PICK request : Received(h, request) /\ request.tok = t
  <2>1. CASE TokenRequest(h, t)
    <3> DEFINE r == [pc |-> "token", tok |-> t]
    <3>1. Received(h, r) /\ r.tok = t BY <2>1, Zenon DEF TokenRequest
    <3> QED BY <3>1, Zenon
  <2>2. ASSUME NEW access \in 1..tokens, NEW valid \in BOOLEAN, CredentialRequest(h, t, access, valid)
        PROVE  \E request : Received(h, request) /\ request.tok = t
    <3> DEFINE data == get_session(t)
               r == [pc |-> "credential", tok |-> t, read |-> data,
                     ok |-> valid /\ data = WaitingForResponse(access)]
    <3>1. Received(h, r) /\ r.tok = t BY <2>2, Zenon DEF CredentialRequest
    <3> QED BY <3>1, Zenon
  <2>3. ASSUME NEW access \in 1..tokens, RejectRequest(h, t, access)
        PROVE  \E request : Received(h, request) /\ request.tok = t
    <3> DEFINE r == [pc |-> "reject", tok |-> t, read |-> get_session(t)]
    <3>1. Received(h, r) /\ r.tok = t BY <2>3, Zenon DEF RejectRequest
    <3> QED BY <3>1, Zenon
  <2> QED BY <2>1, <2>2, <2>3, Zenon DEF Request
<1>2. UNCHANGED <<backend, rows, sweep, tokens, granted>> /\ hand' = [hand EXCEPT ![h] = request]
  BY <1>1, Zenon DEF Received, storeVars
<1>3. SessionInv'
  BY <1>1, <1>2, Zenon DEF SessionInv, Exists, Datas, RowsOf
<1>4. CodesInv'
  BY <1>2, Zenon DEF CodesInv, OneTokenPerCode, Exists, Forget
<1> QED BY <1>3, <1>4, Zenon

\* A request is answered; the session holds data that fits what was sent out.
LEMMA AnsweredStep ==
    ASSUME SessionInv, Forget, NEW h \in Handlers, hand[h].pc # "idle",
           NEW data \in SessionsWith(granted'[hand[h].tok]), Answered(h, data),
           tokens' \in 0..MaxTokens, granted' \in [Tokens -> SUBSET (1..MaxTokens)],
           \A t \in Tokens : t # hand[h].tok => granted'[t] = granted[t]
    PROVE  /\ SessionInv' /\ rows'[hand[h].tok] # NoSession
           /\ \A t \in Tokens : t # hand[h].tok => rows'[t] = rows[t]
<1> DEFINE t == hand[h].tok
<1>1. t \in Tokens
  BY Zenon DEF SessionInv
<1>2. PICK lag \in 0..MaxLag : write(t, data, lag)
  BY Zenon DEF Answered
<1>3. /\ rows'[t] \in RowsOf(SessionsWith(granted'[t]))
      /\ \A u \in Tokens \ {t} : rows'[u] = rows[u]
      /\ rows' = [u \in Tokens |-> rows'[u]] /\ backend' = backend
  BY <1>1, <1>2, WriteSession, Zenon
<1>4. sweep' = sweep /\ hand' = [hand EXCEPT ![h] = NoRequest]
  BY Zenon DEF Answered
<1>5. SessionInv'
  <2>1. \A u \in Tokens : Exists(u)' => rows'[u] \in RowsOf(Datas(u)')
    BY <1>1, <1>3, Zenon DEF SessionInv, Exists, Datas
  <2>2. \A u \in Tokens : RowsOf(Datas(u))' = RowsOf(Datas(u)')
    BY <1>3, Zenon DEF RowsOf
  <2>3. \A k \in Handlers : hand'[k].pc # "idle" => hand'[k].tok \in Tokens
    BY <1>4, Zenon DEF SessionInv, NoRequest
  <2> QED BY <1>3, <1>4, <2>1, <2>2, <2>3, Zenon DEF SessionInv
<1>6. rows'[t] # NoSession
  <2>1. SessionsWith(granted'[t]) \subseteq SessionsWith(1..MaxTokens)
    BY <1>1, Zenon DEF SessionsWith
  <2>2. rows'[t] \in RowsWith(SessionsWith(1..MaxTokens))
    BY <1>3, <2>1, Zenon DEF RowsOf, RowsWith
  <2> QED BY <2>2, NoSessionAssumption, Zenon
<1> QED BY <1>1, <1>3, <1>5, <1>6, Zenon

LEMMA HandleStep ==
    ASSUME SessionInv, CodesInv, Forget, NEW h \in Handlers, Handle(h)
    PROVE  SessionInv' /\ CodesInv'
<1> DEFINE t == hand[h].tok
<1>1. CASE Grant(h)
  <2>1. /\ hand[h].pc = "token" /\ t \notin gone /\ tokens < MaxTokens /\ ~Exists(t)
        /\ Answered(h, WaitingForResponse(tokens + 1))
        /\ tokens' = tokens + 1
        /\ granted' = [granted EXCEPT ![t] = @ \cup {tokens + 1}]
    BY <1>1, Zenon DEF Grant, AnsweredNew
  <2>2. t \in Tokens /\ granted[t] = {}
    BY <2>1, Zenon DEF SessionInv, CodesInv
  <2>3. tokens' \in 1..MaxTokens /\ granted' \in [Tokens -> SUBSET (1..MaxTokens)]
    BY <2>1, <2>2, IssuanceAssumption DEF SessionInv
  <2>4. granted'[t] = {tokens + 1} /\ \A u \in Tokens : u # t => granted'[u] = granted[u]
    BY <2>1, <2>2, Zenon DEF SessionInv
  <2>5. WaitingForResponse(tokens + 1) \in SessionsWith(granted'[t])
    BY <2>4, Zenon DEF SessionsWith
  <2>6. SessionInv' /\ rows'[t] # NoSession /\ \A u \in Tokens : u # t => rows'[u] = rows[u]
    <3>1. hand[h].pc # "idle" /\ tokens' \in 0..MaxTokens
      BY <2>1, <2>3
    <3> HIDE DEF t
    <3>2. t = hand[h].tok BY Zenon DEF t
    <3> QED BY <2>1, <2>3, <2>4, <2>5, <3>1, <3>2, AnsweredStep, Zenon
  <2>7. CodesInv'
    BY <2>2, <2>4, <2>6 DEF CodesInv, OneTokenPerCode, Forget, Exists
  <2> QED BY <2>6, <2>7, Zenon
<1>2. ASSUME NEW data \in EndedSessions, hand[h].pc # "idle", Answered(h, data),
             UNCHANGED <<tokens, granted>>
      PROVE  SessionInv' /\ CodesInv'
  <2>1. data \in SessionsWith(granted'[t]) /\ t \in Tokens
    BY <1>2, Zenon DEF SessionsWith, SessionInv
  <2>2. SessionInv' /\ rows'[t] # NoSession /\ \A u \in Tokens : u # t => rows'[u] = rows[u]
    BY <1>2, <2>1, AnsweredStep, Zenon DEF SessionInv
  <2>3. CodesInv'
    BY <1>2, <2>1, <2>2, Zenon DEF CodesInv, OneTokenPerCode, Forget, Exists
  <2> QED BY <2>2, <2>3, Zenon
<1>3. CASE TokenFails(h) \/ Issue(h) \/ IssueFails(h) \/ Reject(h)
  <2>1. /\ Done("Failed") \in EndedSessions /\ Done("Done") \in EndedSessions
        /\ Done("Cancelled") \in EndedSessions
    BY Zenon DEF EndedSessions
  <2> QED BY <1>2, <1>3, <2>1, Zenon DEF TokenFails, AnsweredNew, Issue, Issued, IssueFails, Reject, Rejected
<1>4. CASE Abort(h)
  <2>1. UNCHANGED <<backend, rows, sweep, tokens, granted>> /\ hand' = [hand EXCEPT ![h] = NoRequest]
    BY <1>4, Zenon DEF Abort, storeVars
  <2>2. SessionInv'
    BY <2>1, Zenon DEF SessionInv, Exists, Datas, RowsOf, NoRequest
  <2>3. CodesInv'
    BY <2>1, Zenon DEF CodesInv, OneTokenPerCode, Exists, Forget
  <2> QED BY <2>2, <2>3, Zenon
<1> QED BY <1>1, <1>3, <1>4, Zenon DEF Handle

LEMMA SessionInvariance == Spec => [](SessionInv /\ CodesInv)
<1>1. SessionInv /\ CodesInv /\ [Next]_vars => (SessionInv /\ CodesInv)'
  <2> SUFFICES ASSUME SessionInv, CodesInv, [Next]_vars PROVE SessionInv' /\ CodesInv'
    OBVIOUS
  <2>1. CASE UNCHANGED vars
    BY <2>1, Zenon DEF vars, storeVars, issuerVars, SessionInv, CodesInv, OneTokenPerCode, Exists, Datas,
       RowsOf
  <2> QED BY <2>1, BackgroundStep, ReceivedStep, HandleStep, Zenon DEF Next
<1> QED BY <1>1, SessionInvInit, PTL DEF Spec

\* However many token requests for a code are handled at once, repeated or fail,
\* at most one access token is sent out for it: the session is inserted, and the
\* code is given up with it (process_token_request). A stored session has been
\* through that request, and one that waits for the wallet waits for an access
\* token that was sent out.
THEOREM OneSessionForEachCode == Spec => []OneSessionPerCode
<1>1. CodesInv => OneTokenPerCode
  BY Zenon DEF CodesInv
<1>2. SessionInv => StoredSessions
  BY DEF SessionInv, StoredSessions, Datas, RowsOf, SessionsWith, EndedSessions, Done,
     WaitingForResponse
<1> QED BY <1>1, <1>2, SessionInvariance, PTL DEF OneSessionPerCode

-----------------------------------------------------------------------------
(* The last word on a session of the issuer.                                *)

\* The row of a session that waits for the wallet.
Waiting(t) == Exists(t) /\ rows[t].data.state = "WaitingForResponse"

\* A session that does not wait, of a code that yields no other session.
Closed(t) == ~Waiting(t) /\ (Exists(t) \/ t \in gone)

\* What was issued or rejected has closed its session.
ClosedInv ==
    /\ issued \in [Tokens -> 0..2]
    /\ \A t \in Tokens : issued[t] # 0 \/ t \in rejected => Closed(t)

\* The requests that are still handled for the code cannot issue anything.
Over(t) ==
    /\ Closed(t)
    /\ \A h \in Handlers : hand[h].pc # "idle" /\ hand[h].tok = t => hand[h].pc = "token"

LEMMA GetWaiting ==
    ASSUME SessionInv, NEW t \in Tokens, get_session(t).state = "WaitingForResponse"
    PROVE  Waiting(t)
  BY Zenon DEF SessionInv, get_session, get, Waiting, Exists, Done, expired

\* The cleanup starts no session and makes none wait.
LEMMA BackgroundWaits ==
    ASSUME SessionInv, CleanupStep \/ CleanupFails \/ TickStore, NEW t \in Tokens
    PROVE  (Waiting(t)' => Waiting(t)) /\ (Exists(t)' => Exists(t))
<1>1. CASE StartCleanup \/ CleanupFails
  BY <1>1, Zenon DEF StartCleanup, CleanupFails, Waiting, Exists
<1>2. ASSUME NEW u \in Tokens, Retain(u) PROVE (Waiting(t)' => Waiting(t)) /\ (Exists(t)' => Exists(t))
  BY <1>2, Zenon DEF Retain, SessionInv, Waiting, Exists
<1>3. ASSUME NEW u \in Tokens, Expire(u) PROVE (Waiting(t)' => Waiting(t)) /\ (Exists(t)' => Exists(t))
  <2>1. PICK row : row = [data |-> expired, age |-> sweep.age]
    BY Zenon
  <2>2. row.data.state # "WaitingForResponse"
    BY <2>1, Zenon DEF expired
  <2>3. rows'[t] = rows[t] \/ (rows'[t] = row /\ Exists(t))
    BY <1>3, <2>1, Zenon DEF Expire, SessionInv, Exists
  <2> QED BY <2>2, <2>3, Zenon DEF Waiting, Exists
<1>4. CASE CommitCleanup
  <2>1. rows'[t] = CleanedRow(rows[t]) /\ backend = "postgres"
    BY <1>4, Zenon DEF CommitCleanup, SessionInv
  <2>2. CASE Exists(t)
    <3>1. rows[t] \in [data : Datas(t), age : Ages, status : Statuses]
      BY <2>1, <2>2, Zenon DEF SessionInv, RowsOf
    <3>2. PICK row : row = [rows[t] EXCEPT !.status = "Expired", !.age = sweep.age]
      OBVIOUS
    <3>3. row.data = rows[t].data
      BY <3>1, <3>2, Zenon
    <3>4. rows'[t] \in {NoSession, row, rows[t]}
      BY <2>1, <3>2, Zenon DEF CleanedRow
    <3> QED BY <2>2, <3>3, <3>4, Zenon DEF Waiting, Exists
  <2>3. CASE ~Exists(t)
    BY <2>1, <2>3, Zenon DEF CleanedRow, Waiting, Exists
  <2> QED BY <2>2, <2>3, Zenon
<1>5. CASE TickStore
  <2>1. CASE Exists(t)
    <3>1. rows[t] \in RowsOf(Datas(t))
      BY <2>1, Zenon DEF SessionInv
    <3>2. PICK row : row = [rows[t] EXCEPT !.age = Older(@)]
      BY Zenon
    <3>3. row.data = rows[t].data
      BY <3>1, <3>2, Zenon DEF RowsOf
    <3>4. rows'[t] = row
      BY <1>5, <2>1, <3>2, Zenon DEF TickStore
    <3> QED BY <2>1, <3>3, <3>4, Zenon DEF Waiting, Exists
  <2>2. CASE ~Exists(t)
    BY <1>5, <2>2, Zenon DEF TickStore, Waiting, Exists
  <2> QED BY <2>1, <2>2, Zenon
<1> QED BY <1>1, <1>2, <1>3, <1>4, <1>5, Zenon DEF CleanupStep

\* A request that writes that the session ended leaves it closed.
LEMMA AnswerCloses ==
    ASSUME SessionInv, NEW h \in Handlers, hand[h].pc # "idle", NEW t, t = hand[h].tok,
           NEW data \in EndedSessions, Answered(h, data)
    PROVE  /\ t \in Tokens /\ Exists(t)' /\ ~Waiting(t)'
           /\ \A u \in Tokens : u # t => rows'[u] = rows[u]
<1>1. t \in Tokens
  BY Zenon DEF SessionInv
<1>2. PICK lag \in 0..MaxLag : write(t, data, lag)
  BY Zenon DEF Answered
<1>3. data \in SessionsWith({})
  BY Zenon DEF SessionsWith
<1>4. rows'[t] \in RowsOf(SessionsWith({})) /\ \A u \in Tokens \ {t} : rows'[u] = rows[u]
  BY <1>1, <1>2, <1>3, WriteSession, Zenon
<1>5. SessionsWith({}) \subseteq EndedSessions /\ SessionsWith({}) \subseteq SessionsWith(1..MaxTokens)
  BY Zenon DEF SessionsWith
<1>6. rows'[t].data \in EndedSessions
  BY <1>4, <1>5, Zenon DEF RowsOf
<1>7. rows'[t].data.state # "WaitingForResponse"
  BY <1>6 DEF EndedSessions, Done
<1>8. rows'[t] \in RowsWith(SessionsWith(1..MaxTokens))
  BY <1>4, <1>5, Zenon DEF RowsOf, RowsWith
<1> QED BY <1>1, <1>4, <1>7, <1>8, NoSessionAssumption, Zenon DEF Waiting, Exists

\* What a step may do to a code: nothing reopens it, and credentials are sent out
\* or a rejection is confirmed only by a request that closes the session.
Closes ==
    \A t \in Tokens :
        /\ Closed(t) => Closed(t)'
        /\ issued'[t] # issued[t] => Closed(t)' /\ ~Over(t)
        /\ t \in rejected' \ rejected => Closed(t)'
        /\ Over(t) => Over(t)'

LEMMA KeptCloses ==
    ASSUME Forget, NEW t \in Tokens, Closed(t), Waiting(t)' => Waiting(t)
    PROVE  Closed(t)'
  BY Zenon DEF Forget, Closed, Exists

LEMMA RequestCloses ==
    ASSUME SessionInv, ClosedInv, Forget, NEW h \in Handlers, NEW u \in Tokens, Request(h, u)
    PROVE  Closes /\ issued' = issued
<1>1. PICK request : /\ Received(h, request) /\ request.tok = u
                     /\ request.pc = "token" \/ Waiting(u)
  <2>1. CASE TokenRequest(h, u)
    <3> DEFINE r == [pc |-> "token", tok |-> u]
    <3>1. Received(h, r) /\ r.tok = u /\ r.pc = "token" BY <2>1, Zenon DEF TokenRequest
    <3> QED BY <3>1, Zenon
  <2>2. ASSUME NEW access \in 1..tokens, NEW valid \in BOOLEAN, CredentialRequest(h, u, access, valid)
        PROVE  \E request : Received(h, request) /\ request.tok = u /\ Waiting(u)
    <3> DEFINE data == get_session(u)
               r == [pc |-> "credential", tok |-> u, read |-> data,
                     ok |-> valid /\ data = WaitingForResponse(access)]
    <3>1. Received(h, r) /\ r.tok = u BY <2>2, Zenon DEF CredentialRequest
    <3>2. Waiting(u) BY <2>2, GetWaiting, Zenon DEF CredentialRequest
    <3> QED BY <3>1, <3>2, Zenon
  <2>3. ASSUME NEW access \in 1..tokens, RejectRequest(h, u, access)
        PROVE  \E request : Received(h, request) /\ request.tok = u /\ Waiting(u)
    <3> DEFINE r == [pc |-> "reject", tok |-> u, read |-> get_session(u)]
    <3>1. Received(h, r) /\ r.tok = u BY <2>3, Zenon DEF RejectRequest
    <3>2. get_session(u).state = "WaitingForResponse" BY <2>3 DEF RejectRequest, WaitingForResponse
    <3> QED BY <3>1, <3>2, GetWaiting, Zenon
  <2> QED BY <2>1, <2>2, <2>3, Zenon DEF Request
<1>2. UNCHANGED <<rows, issued, rejected>> /\ hand' = [hand EXCEPT ![h] = request]
  BY <1>1, Zenon DEF Received, storeVars
<1>3. \A t \in Tokens : Closed(t) => Closed(t)'
  BY <1>2, KeptCloses, Zenon DEF Waiting, Exists
<1>4. \A k \in Handlers : hand'[k] = IF k = h THEN request ELSE hand[k]
  BY <1>2, Zenon DEF SessionInv
<1>5. ASSUME NEW t \in Tokens, Over(t) PROVE Over(t)'
  BY <1>1, <1>3, <1>4, <1>5, Zenon DEF Over, Closed
<1> QED BY <1>2, <1>3, <1>5, Zenon DEF Closes

\* A handler goes idle, and no other changes.
LEMMA IdleKeepsOver ==
    ASSUME SessionInv, NEW h \in Handlers, hand' = [hand EXCEPT ![h] = NoRequest],
           NEW t \in Tokens, Over(t), Closed(t)'
    PROVE  Over(t)'
<1>1. \A k \in Handlers : hand'[k] = IF k = h THEN NoRequest ELSE hand[k]
  BY Zenon DEF SessionInv
<1> QED BY <1>1 DEF Over, NoRequest

LEMMA HandleCloses ==
    ASSUME SessionInv, ClosedInv, Forget, NEW h \in Handlers, Handle(h)
    PROVE  Closes /\ issued' \in [Tokens -> 0..2]
<1>1. PICK u : u = hand[h].tok
  OBVIOUS
<1>2. CASE Grant(h)
  <2>1. /\ ~Exists(u) /\ u \notin gone /\ u \in Tokens /\ UNCHANGED <<issued, rejected>>
        /\ hand' = [hand EXCEPT ![h] = NoRequest]
    BY <1>1, <1>2, Zenon DEF Grant, AnsweredNew, Answered, SessionInv
  <2>2. \A t \in Tokens : t # u => rows'[t] = rows[t]
    BY <1>1, <1>2, Zenon DEF Grant, AnsweredNew, Answered, write, SessionInv
  <2>3. \A t \in Tokens : Closed(t) => Closed(t)'
    <3>1. \A t \in Tokens : Closed(t) => t # u
      BY <2>1, Zenon DEF Closed
    <3> QED BY <2>2, <3>1, KeptCloses, Zenon DEF Waiting, Exists
  <2>4. \A t \in Tokens : Over(t) => Over(t)'
    BY <2>1, <2>3, IdleKeepsOver, Zenon DEF Over
  <2> QED BY <2>1, <2>3, <2>4, Zenon DEF Closes, ClosedInv
<1>3. ASSUME NEW data \in EndedSessions, hand[h].pc # "idle", Answered(h, data)
      PROVE  /\ u \in Tokens /\ Closed(u)' /\ \A t \in Tokens : Closed(t) => Closed(t)'
             /\ \A t \in Tokens : Over(t) => Over(t)'
  <2>1. u \in Tokens /\ Exists(u)' /\ ~Waiting(u)' /\ \A t \in Tokens : t # u => rows'[t] = rows[t]
    BY <1>1, <1>3, AnswerCloses, Zenon
  <2>2. Closed(u)'
    BY <2>1, Zenon DEF Closed
  <2>3. \A t \in Tokens : t # u => (Waiting(t)' => Waiting(t))
    BY <2>1, Zenon DEF Waiting, Exists
  <2>4. \A t \in Tokens : Closed(t) => Closed(t)'
    BY <2>2, <2>3, KeptCloses, Zenon
  <2>5. hand' = [hand EXCEPT ![h] = NoRequest]
    BY <1>3, Zenon DEF Answered
  <2>6. \A t \in Tokens : Over(t) => Over(t)'
    BY <2>4, <2>5, IdleKeepsOver, Zenon DEF Over
  <2> QED BY <2>1, <2>2, <2>4, <2>6, Zenon
<1>4. /\ Done("Failed") \in EndedSessions /\ Done("Done") \in EndedSessions
      /\ Done("Cancelled") \in EndedSessions
  BY Zenon DEF EndedSessions
<1>5. CASE TokenFails(h) \/ IssueFails(h)
  <2>1. hand[h].pc # "idle" /\ Answered(h, Done("Failed")) /\ UNCHANGED <<issued, rejected>>
    BY <1>5, Zenon DEF TokenFails, AnsweredNew, IssueFails
  <2> QED BY <1>3, <1>4, <2>1, Zenon DEF Closes, ClosedInv
<1>6. CASE Issue(h)
  <2>1. /\ hand[h].pc = "credential" /\ Answered(h, Done("Done")) /\ rejected' = rejected
        /\ issued' = [issued EXCEPT ![u] = IF @ < 2 THEN @ + 1 ELSE @]
    BY <1>1, <1>6, Zenon DEF Issue, Issued
  <2>2. ~Over(u)
    BY <1>1, <2>1, Zenon DEF Over
  <2>3. hand[h].pc # "idle"
    BY <2>1, Zenon
  <2>4. /\ u \in Tokens /\ Closed(u)' /\ \A t \in Tokens : Closed(t) => Closed(t)'
        /\ \A t \in Tokens : Over(t) => Over(t)'
    BY <1>3, <1>4, <2>1, <2>3, Zenon
  <2>5. (IF issued[u] < 2 THEN issued[u] + 1 ELSE issued[u]) \in 0..2
    BY <2>4 DEF ClosedInv
  <2>6. issued' \in [Tokens -> 0..2] /\ \A t \in Tokens : t # u => issued'[t] = issued[t]
    BY <2>1, <2>4, <2>5, Zenon DEF ClosedInv
  <2> QED BY <2>1, <2>2, <2>4, <2>6, Zenon DEF Closes
<1>7. CASE Reject(h)
  <2>1. /\ hand[h].pc # "idle" /\ Answered(h, Done("Cancelled")) /\ issued' = issued
        /\ rejected' = rejected \cup {u}
    BY <1>1, <1>7, Zenon DEF Reject, Rejected
  <2> QED BY <1>3, <1>4, <2>1, Zenon DEF Closes, ClosedInv
<1>8. CASE Abort(h)
  <2>1. UNCHANGED <<rows, issued, rejected>> /\ hand' = [hand EXCEPT ![h] = NoRequest]
    BY <1>8, Zenon DEF Abort, storeVars
  <2>2. \A t \in Tokens : Closed(t) => Closed(t)'
    BY <2>1, KeptCloses, Zenon DEF Waiting, Exists
  <2> QED BY <2>1, <2>2, IdleKeepsOver, Zenon DEF Closes, ClosedInv, Over
<1> QED BY <1>2, <1>5, <1>6, <1>7, <1>8, Zenon DEF Handle

LEMMA NextCloses ==
    ASSUME SessionInv, ClosedInv, [Next]_vars
    PROVE  Closes /\ issued' \in [Tokens -> 0..2]
<1>1. CASE Background /\ Forget
  <2>1. UNCHANGED <<hand, issued, rejected>>
    BY <1>1, Zenon DEF Background, issuerVars
  <2>2. \A t \in Tokens : Closed(t) => Closed(t)'
    BY <1>1, BackgroundWaits, KeptCloses, Zenon DEF Background
  <2>3. \A t \in Tokens : Over(t) => Over(t)'
    BY <2>1, <2>2, Zenon DEF Over
  <2> QED BY <2>1, <2>2, <2>3, Zenon DEF Closes, ClosedInv
<1>2. CASE UNCHANGED vars
  BY <1>2, Zenon DEF vars, storeVars, issuerVars, Closes, ClosedInv, Closed, Over, Waiting, Exists
<1>3. ASSUME Forget, NEW h \in Handlers, NEW u \in Tokens, Request(h, u)
      PROVE  Closes /\ issued' \in [Tokens -> 0..2]
  BY <1>3, RequestCloses, Zenon DEF ClosedInv
<1> QED BY <1>1, <1>2, <1>3, HandleCloses, Zenon DEF Next

\* Once credentials were sent out or a rejection was confirmed and no other request
\* for the session is being handled, no credentials are sent out any more: every
\* request that comes later reads a session that has ended, and a token request
\* cannot insert another one (process_batch_credential, process_reject_issuance).
THEOREM EndIsTheLastWord == Spec => LastWord
<1>1. Init => ClosedInv
  BY DEF Init, ClosedInv
<1>2. SessionInv /\ ClosedInv /\ [Next]_vars => ClosedInv'
  BY NextCloses, Zenon DEF Closes, ClosedInv
<1>3. Spec => []ClosedInv
  BY <1>1, <1>2, SessionInvariance, PTL DEF Spec
<1> SUFFICES ASSUME NEW t \in Tokens
             PROVE  Spec => /\ [](issued[t] = 1 /\ Quiet(t) => [](issued[t] = 1))
                            /\ [](t \in rejected /\ issued[t] = 0 /\ Quiet(t) => [](issued[t] = 0))
  BY Zenon DEF LastWord
<1> DEFINE OverAt(n) == Over(t) /\ issued[t] = n
<1>4. /\ ClosedInv /\ issued[t] = 1 /\ Quiet(t) => OverAt(1)
      /\ ClosedInv /\ t \in rejected /\ issued[t] = 0 /\ Quiet(t) => OverAt(0)
  BY DEF ClosedInv, Quiet, Over
<1>5. /\ SessionInv /\ ClosedInv /\ OverAt(1) /\ [Next]_vars => OverAt(1)'
      /\ SessionInv /\ ClosedInv /\ OverAt(0) /\ [Next]_vars => OverAt(0)'
  BY NextCloses, Zenon DEF Closes
<1>6. /\ OverAt(1) => issued[t] = 1
      /\ OverAt(0) => issued[t] = 0
  OBVIOUS
<1> HIDE DEF OverAt
<1> QED BY <1>3, <1>4, <1>5, <1>6, SessionInvariance, PTL DEF Spec

-----------------------------------------------------------------------------
(* The configuration.                                                       *)

\* The task exists while the wallet does, and a wallet that does not run has
\* nothing in memory.
Lifetime ==
    /\ running <=> task # "stopped"
    /\ ~running => callback = "none" /\ ~setting

\* What the next start finds is not older than what was taken over, and memory
\* is not older than what came with the app.
Durable ==
    /\ configFile # Torn => default_config(configFile) >= kept
    /\ running => config >= initial

\* No ETag is ahead of the server's, and the one that it serves now stands for
\* the document that it serves now.
TagsAreTrue ==
    /\ etagFile <= published /\ etag <= published /\ response.etag <= published
    /\ task \in {"tag", "body"} /\ response.etag = published => response.version = version

\* As long as nothing was cut short, both files are whole, memory agrees with
\* them, and only a body that is still to be read can be behind its ETag.
Uncut ==
    ~cut =>
        /\ configFile # Torn /\ etagFile # Torn
        /\ running => etag = etagFile
        /\ running /\ task # "store" => default_config(configFile) = config
        /\ task = "body" => response.etag = etagFile
        /\ running /\ task # "body" /\ etagFile = published => config >= version
        /\ ~running /\ etagFile = published => default_config(configFile) >= version

\* The newest stream is up to date from the moment that its callback is called,
\* before it is registered.
StreamIsCurrent ==
    running /\ task \in {"idle", "tag", "body"} /\ (callback = "newest" \/ setting) /\ ~missed
        => shown = config

ConfigInv ==
    ConfigTypeOK /\ Lifetime /\ Durable /\ TakenOverIsKept /\ TagsAreTrue /\ Uncut /\ StreamIsCurrent

USE DEF Versions, Tags, Absent, Torn

LEMMA ConfigInvInit == ConfigInit => ConfigInv
<1> SUFFICES ASSUME ConfigInit PROVE ConfigInv
  OBVIOUS
<1> USE ConfigurationAssumption DEF ConfigInit, NoResponse
<1>1. ConfigTypeOK
  <2>1. running \in BOOLEAN /\ setting \in BOOLEAN /\ cut \in BOOLEAN /\ missed \in BOOLEAN
    BY Zenon
  <2>2. response.etag \in 0..MaxPublications /\ response.version \in 0..MaxVersion
    OBVIOUS
  <2> QED BY <2>1, <2>2 DEF ConfigTypeOK
<1>2. Lifetime BY Zenon DEF Lifetime
<1>3. Durable /\ TakenOverIsKept BY DEF Durable, TakenOverIsKept, default_config
<1>4. TagsAreTrue BY DEF TagsAreTrue
<1>5. Uncut /\ StreamIsCurrent BY DEF Uncut, StreamIsCurrent
<1> QED BY <1>1, <1>2, <1>3, <1>4, <1>5, Zenon DEF ConfigInv

LEMMA ConfigTypeStep == ConfigTypeOK /\ Lifetime /\ [ConfigNext]_configVars => ConfigTypeOK' /\ Lifetime'
<1> SUFFICES ASSUME ConfigTypeOK, Lifetime, [ConfigNext]_configVars PROVE ConfigTypeOK' /\ Lifetime'
  OBVIOUS
<1> USE ConfigurationAssumption DEF ConfigTypeOK, Lifetime, serverVars, fileVars, streamVars, NoResponse
<1>1. CASE Publish BY <1>1, SMTT(30) DEF Publish
<1>2. CASE Kill
  <2>1. (running \in BOOLEAN /\ setting \in BOOLEAN /\ cut \in BOOLEAN /\ missed \in BOOLEAN)'
    BY <1>2, Zenon DEF Kill, Stopped
  <2>2. (response.etag \in 0..MaxPublications /\ response.version \in 0..MaxVersion)'
    BY <1>2 DEF Kill, Stopped
  <2>3. (etagFile \in Tags /\ configFile \in {Torn, Absent} \cup Versions)'
    BY <1>2 DEF Kill, Stopped
  <2> QED BY <1>2, <2>1, <2>2, <2>3 DEF Kill, Stopped
<1>3. CASE UpdateApp BY <1>3 DEF UpdateApp
<1>4. CASE Start BY <1>4, Zenon DEF Start, default_config
<1>5. CASE StartFails BY <1>5 DEF StartFails, FailedWrite
<1>6. CASE FetchAnswered BY <1>6 DEF FetchAnswered, configuration
<1>7. CASE store_latest_etag BY <1>7 DEF store_latest_etag
<1>8. CASE fetch BY <1>8 DEF fetch, IsNewer
<1>9. CASE update_config_file BY <1>9, SMTT(30) DEF update_config_file
<1>10. CASE CallBack BY <1>10, SMTT(30) DEF CallBack
<1>11. CASE FetchLost BY <1>11, SMTT(30) DEF FetchLost
<1>12. CASE EtagFails BY <1>12, SMTT(30) DEF EtagFails, FailedWrite
<1>13. CASE BodyFails BY <1>13 DEF BodyFails
<1>14. CASE StoreFails BY <1>14 DEF StoreFails, FailedWrite
<1>15. CASE set_config_callback BY <1>15, ZenonT(30) DEF set_config_callback
<1>16. CASE register_callback_on_update
  <2>1. running /\ running' /\ task' = task /\ setting' \in BOOLEAN
    BY <1>16, Zenon DEF register_callback_on_update
  <2> QED BY <1>16, <2>1 DEF register_callback_on_update
<1>17. CASE clear_config_callback BY <1>17 DEF clear_config_callback
<1>18. CASE UNCHANGED configVars BY <1>18 DEF configVars
<1> QED
  BY ZenonT(60), <1>1, <1>2, <1>3, <1>4, <1>5, <1>6, <1>7, <1>8, <1>9, <1>10, <1>11, <1>12, <1>13, <1>14,
     <1>15, <1>16, <1>17, <1>18
  DEF ConfigNext, ServerStep, PhoneStep, TaskStep, TaskFault, StreamStep

LEMMA DurableStep == ConfigInv /\ [ConfigNext]_configVars => Durable' /\ TakenOverIsKept'
<1> SUFFICES ASSUME ConfigInv, [ConfigNext]_configVars PROVE Durable' /\ TakenOverIsKept'
  OBVIOUS
<1> USE ConfigurationAssumption DEF ConfigInv, ConfigTypeOK, Lifetime, Durable, TakenOverIsKept,
        default_config, serverVars, fileVars, streamVars, NoResponse
<1>1. CASE Publish BY <1>1, Zenon DEF Publish
<1>2. CASE Kill BY <1>2 DEF Kill, Stopped
<1>3. CASE UpdateApp BY <1>3 DEF UpdateApp
<1>4. CASE Start BY <1>4, SMTT(30) DEF Start
<1>5. CASE StartFails BY <1>5, Zenon DEF StartFails, FailedWrite
<1>6. CASE FetchAnswered BY <1>6, Zenon DEF FetchAnswered, configuration
<1>7. CASE store_latest_etag BY <1>7, Zenon DEF store_latest_etag
<1>8. CASE fetch BY <1>8 DEF fetch, IsNewer
<1>9. CASE update_config_file BY <1>9 DEF update_config_file
<1>10. CASE CallBack BY <1>10, Zenon DEF CallBack
<1>11. CASE FetchLost BY <1>11, Zenon DEF FetchLost
<1>12. CASE EtagFails BY <1>12, Zenon DEF EtagFails, FailedWrite
<1>13. CASE BodyFails BY <1>13, Zenon DEF BodyFails
<1>14. CASE StoreFails BY <1>14, Zenon DEF StoreFails, FailedWrite
<1>15. CASE set_config_callback BY <1>15, Zenon DEF set_config_callback
<1>16. CASE register_callback_on_update BY <1>16, Zenon DEF register_callback_on_update
<1>17. CASE clear_config_callback BY <1>17, Zenon DEF clear_config_callback
<1>18. CASE UNCHANGED configVars BY <1>18, Zenon DEF configVars
<1> QED
  BY Zenon, <1>1, <1>2, <1>3, <1>4, <1>5, <1>6, <1>7, <1>8, <1>9, <1>10, <1>11, <1>12, <1>13, <1>14,
     <1>15, <1>16, <1>17, <1>18
  DEF ConfigNext, ServerStep, PhoneStep, TaskStep, TaskFault, StreamStep

LEMMA TagsStep == ConfigInv /\ [ConfigNext]_configVars => TagsAreTrue'
<1> SUFFICES ASSUME ConfigInv, [ConfigNext]_configVars PROVE TagsAreTrue'
  OBVIOUS
<1> USE ConfigurationAssumption DEF ConfigInv, ConfigTypeOK, Lifetime, TagsAreTrue, serverVars,
        fileVars, streamVars, NoResponse
<1>1. CASE Publish BY <1>1, SMTT(30) DEF Publish
<1>2. CASE Kill BY <1>2 DEF Kill, Stopped
<1>3. CASE UpdateApp BY <1>3, Zenon DEF UpdateApp
<1>4. CASE Start BY <1>4, Zenon DEF Start
<1>5. CASE StartFails BY <1>5, Zenon DEF StartFails, FailedWrite
<1>6. CASE FetchAnswered BY <1>6 DEF FetchAnswered, configuration
<1>7. CASE store_latest_etag BY <1>7, Zenon DEF store_latest_etag
<1>8. CASE fetch BY <1>8 DEF fetch, IsNewer
<1>9. CASE update_config_file BY <1>9, Zenon DEF update_config_file
<1>10. CASE CallBack BY <1>10, Zenon DEF CallBack
<1>11. CASE FetchLost BY <1>11, Zenon DEF FetchLost
<1>12. CASE EtagFails BY <1>12, SMTT(30) DEF EtagFails, FailedWrite
<1>13. CASE BodyFails BY <1>13 DEF BodyFails
<1>14. CASE StoreFails BY <1>14, Zenon DEF StoreFails, FailedWrite
<1>15. CASE set_config_callback BY <1>15, Zenon DEF set_config_callback
<1>16. CASE register_callback_on_update BY <1>16, Zenon DEF register_callback_on_update
<1>17. CASE clear_config_callback BY <1>17, Zenon DEF clear_config_callback
<1>18. CASE UNCHANGED configVars BY <1>18, Zenon DEF configVars
<1> QED
  BY Zenon, <1>1, <1>2, <1>3, <1>4, <1>5, <1>6, <1>7, <1>8, <1>9, <1>10, <1>11, <1>12, <1>13, <1>14,
     <1>15, <1>16, <1>17, <1>18
  DEF ConfigNext, ServerStep, PhoneStep, TaskStep, TaskFault, StreamStep

LEMMA UncutStep == ConfigInv /\ [ConfigNext]_configVars => Uncut'
<1> SUFFICES ASSUME ConfigInv, [ConfigNext]_configVars PROVE Uncut'
  OBVIOUS
<1> USE ConfigurationAssumption DEF ConfigInv, ConfigTypeOK, Lifetime, Durable, TagsAreTrue, Uncut,
        default_config, serverVars, fileVars, streamVars, NoResponse
<1>1. CASE Publish BY <1>1 DEF Publish
<1>2. CASE Kill BY <1>2, ZenonT(60) DEF Kill, Stopped
<1>3. CASE UpdateApp BY <1>3, SMTT(30) DEF UpdateApp
<1>4. CASE Start BY <1>4 DEF Start
<1>5. CASE StartFails BY <1>5, ZenonT(60) DEF StartFails, FailedWrite
<1>6. CASE FetchAnswered BY <1>6, Zenon DEF FetchAnswered, configuration
<1>7. CASE store_latest_etag BY <1>7, SMTT(30) DEF store_latest_etag
<1>8. CASE fetch BY <1>8, SMTT(30) DEF fetch, IsNewer
<1>9. CASE update_config_file BY <1>9, SMTT(30) DEF update_config_file
<1>10. CASE CallBack BY <1>10, Zenon DEF CallBack
<1>11. CASE FetchLost BY <1>11, Zenon DEF FetchLost
<1>12. CASE EtagFails BY <1>12, ZenonT(60) DEF EtagFails, FailedWrite
<1>13. CASE BodyFails BY <1>13, Zenon DEF BodyFails
<1>14. CASE StoreFails BY <1>14, Zenon DEF StoreFails, FailedWrite
<1>15. CASE set_config_callback BY <1>15, Zenon DEF set_config_callback
<1>16. CASE register_callback_on_update BY <1>16, Zenon DEF register_callback_on_update
<1>17. CASE clear_config_callback BY <1>17, Zenon DEF clear_config_callback
<1>18. CASE UNCHANGED configVars BY <1>18, Zenon DEF configVars
<1> QED
  BY ZenonT(60), <1>1, <1>2, <1>3, <1>4, <1>5, <1>6, <1>7, <1>8, <1>9, <1>10, <1>11, <1>12, <1>13, <1>14,
     <1>15, <1>16, <1>17, <1>18
  DEF ConfigNext, ServerStep, PhoneStep, TaskStep, TaskFault, StreamStep

LEMMA StreamStepKeeps == ConfigInv /\ [ConfigNext]_configVars => StreamIsCurrent'
<1> SUFFICES ASSUME ConfigInv, [ConfigNext]_configVars PROVE StreamIsCurrent'
  OBVIOUS
<1> USE ConfigurationAssumption DEF ConfigInv, ConfigTypeOK, Lifetime, StreamIsCurrent, serverVars,
        fileVars, streamVars, NoResponse
<1>1. CASE Publish BY <1>1, Zenon DEF Publish
<1>2. CASE Kill BY <1>2, Zenon DEF Kill, Stopped
<1>3. CASE UpdateApp BY <1>3, Zenon DEF UpdateApp
<1>4. CASE Start BY <1>4, Zenon DEF Start
<1>5. CASE StartFails BY <1>5, Zenon DEF StartFails, FailedWrite
<1>6. CASE FetchAnswered BY <1>6, Zenon DEF FetchAnswered, configuration
<1>7. CASE store_latest_etag BY <1>7, Zenon DEF store_latest_etag
<1>8. CASE fetch BY <1>8, Zenon DEF fetch, IsNewer
<1>9. CASE update_config_file BY <1>9, Zenon DEF update_config_file
<1>10. CASE CallBack BY <1>10, Zenon DEF CallBack
<1>11. CASE FetchLost BY <1>11, Zenon DEF FetchLost
<1>12. CASE EtagFails BY <1>12, Zenon DEF EtagFails, FailedWrite
<1>13. CASE BodyFails BY <1>13, Zenon DEF BodyFails
<1>14. CASE StoreFails BY <1>14, Zenon DEF StoreFails, FailedWrite
<1>15. CASE set_config_callback BY <1>15, Zenon DEF set_config_callback
<1>16. CASE register_callback_on_update BY <1>16, Zenon DEF register_callback_on_update
<1>17. CASE clear_config_callback BY <1>17, Zenon DEF clear_config_callback
<1>18. CASE UNCHANGED configVars BY <1>18, Zenon DEF configVars
<1> QED
  BY Zenon, <1>1, <1>2, <1>3, <1>4, <1>5, <1>6, <1>7, <1>8, <1>9, <1>10, <1>11, <1>12, <1>13, <1>14,
     <1>15, <1>16, <1>17, <1>18
  DEF ConfigNext, ServerStep, PhoneStep, TaskStep, TaskFault, StreamStep

LEMMA ConfigInvStep == ConfigInv /\ [ConfigNext]_configVars => ConfigInv'
BY ConfigTypeStep, DurableStep, TagsStep, UncutStep, StreamStepKeeps, Zenon DEF ConfigInv

LEMMA ConfigInvariance == ConfigSpec => []ConfigInv
BY ConfigInvInit, ConfigInvStep, PTL DEF ConfigSpec

\* Whatever is published and whatever fails, a configuration that fetch or init
\* reported as taken over is never replaced by an older one, in memory or by a
\* restart (HttpConfigurationRepository::fetch, FileStorageConfigurationRepository),
\* and the stream that was set last has been given the one in force, for every
\* interleaving of set_config_callback with the update task.
THEOREM ConfigurationIsKept == ConfigSpec => []InForceIsKept
<1>1. ConfigInv => TakenOverIsKept
  BY Zenon DEF ConfigInv
<1>2. ConfigInv => ShownIsCurrent
  BY Zenon DEF ConfigInv, StreamIsCurrent, ShownIsCurrent
<1> QED BY <1>1, <1>2, ConfigInvariance, PTL DEF InForceIsKept

\* Only a fetch or a file write that is cut short can keep the wallet from the
\* published configuration for good (get_wallet_config stores the ETag first).
THEOREM OnlyCutsWedge == ConfigSpec => []WedgedOnlyIfCut
<1>1. ConfigInv => WedgedOnlyIfCut
  BY DEF ConfigInv, ConfigTypeOK, Lifetime, TagsAreTrue, Uncut, WedgedOnlyIfCut, Wedged, default_config
<1> QED BY <1>1, ConfigInvariance, PTL
=============================================================================
