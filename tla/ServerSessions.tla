--------------------------- MODULE ServerSessions ---------------------------
(***************************************************************************)
(* The two session stores of the wallet server, MemorySessionStore and     *)
(* PostgresSessionStore, and the task that cleans them up.                 *)
(*                                                                         *)
(* The memory store visits the sessions of its map one by one, first to    *)
(* remove and then to expire, while requests go on.  The Postgres store    *)
(* does both in one transaction.  Its rows have a status column beside the *)
(* data; get() combines the two.                                           *)
(***************************************************************************)
EXTENDS SessionData

CONSTANTS Tokens, NoSession,
          MaxLag        \* bound on the ticks between making a state and writing it

ASSUME LagAssumption == MaxLag \in 0..MaxAge

VARIABLES backend,      \* the SessionStoreVariant: "memory" or "postgres"
          rows,         \* the session map, or the session_state table
          sweep         \* the cleanup task

storeVars == <<backend, rows, sweep>>

Idle == [phase |-> "idle", age |-> 0, left |-> {}]

\* SessionStoreVariant::new goes by the scheme of the configured URL.
StoreInit ==
    /\ backend \in {"memory", "postgres"}
    /\ rows = [t \in Tokens |-> NoSession]
    /\ sweep = Idle

-----------------------------------------------------------------------------
(* get and write                                                            *)

\* The Postgres row keeps its data when it is expired; get() replaces it.
get(t) ==
    IF backend = "postgres" /\ rows[t] # NoSession
    THEN [data |-> IF rows[t].status = "Expired" THEN expired ELSE rows[t].data,
          age |-> rows[t].age]
    ELSE rows[t]

Exists(t) == rows[t] # NoSession

\* Mutant: on a conflict every column is updated.
Written_all_columns(t, data, lag) == [data |-> data, age |-> lag, status |-> progress(data)]

\* The row that a write leaves.  On a conflict with an existing row, Postgres
\* updates the data and last_active_date_time columns only.
Written(t, data, lag) ==
    IF backend = "memory" THEN [data |-> data, age |-> lag]
    ELSE [data |-> data, age |-> lag,
          status |-> IF Exists(t) THEN rows[t].status ELSE progress(data)]

write(t, data, lag) ==
    /\ rows' = [rows EXCEPT ![t] = Written(t, data, lag)]
    /\ UNCHANGED backend

-----------------------------------------------------------------------------
(* cleanup                                                                  *)

StartCleanup ==
    /\ sweep.phase = "idle"
    /\ sweep' = [phase |-> IF backend = "memory" THEN "retain" ELSE "transaction",
                 age |-> 0, left |-> Tokens]
    /\ UNCHANGED <<backend, rows>>

\* The loop over the map goes on to the other sessions, then to the next loop.
Visited(t, next) ==
    /\ sweep' = IF sweep.left = {t} THEN next ELSE [sweep EXCEPT !.left = @ \ {t}]
    /\ UNCHANGED backend

\* The closure of retain(): remove what is finished and old.
Retain(t) ==
    /\ sweep.phase = "retain" /\ t \in sweep.left
    /\ rows' = [rows EXCEPT ![t] =
                  IF Exists(t) /\ ToDelete(@.data, @.age, sweep.age) THEN NoSession ELSE @]
    /\ Visited(t, [sweep EXCEPT !.phase = "expire", !.left = Tokens])

\* Mutant: the session is expired without looking at it again.
Expire_blindly(t) ==
    /\ sweep.phase = "expire" /\ t \in sweep.left
    /\ rows' = [rows EXCEPT ![t] =
                  IF Exists(t) /\ Beyond(@.age, sweep.age, "expiration")
                  THEN [data |-> expired, age |-> sweep.age] ELSE @]
    /\ Visited(t, Idle)

\* The loop over iter_mut(): expire what is active and old.
Expire(t) ==
    /\ sweep.phase = "expire" /\ t \in sweep.left
    /\ rows' = [rows EXCEPT ![t] =
                  IF Exists(t) /\ ToExpire(@.data, @.age, sweep.age)
                  THEN [data |-> expired, age |-> sweep.age] ELSE @]
    /\ Visited(t, Idle)

\* The three statements of the transaction, which look at the status column.
StatusTimeout(status) ==
    CASE status = "Active" -> "expiration"
      [] status = "Succeeded" -> "successful_deletion"
      [] OTHER -> "failed_deletion"

\* Mutant: only successful and failed sessions are removed.
CleanedRow_expired_kept(row) ==
    IF row = NoSession \/ ~Beyond(row.age, sweep.age, StatusTimeout(row.status)) THEN row
    ELSE IF row.status = "Active" THEN [row EXCEPT !.status = "Expired", !.age = sweep.age]
    ELSE IF row.status = "Expired" THEN row
    ELSE NoSession

CleanedRow(row) ==
    IF row = NoSession \/ ~Beyond(row.age, sweep.age, StatusTimeout(row.status)) THEN row
    ELSE IF row.status = "Active" THEN [row EXCEPT !.status = "Expired", !.age = sweep.age]
    ELSE NoSession

CommitCleanup ==
    /\ sweep.phase = "transaction"
    /\ rows' = [t \in Tokens |-> CleanedRow(rows[t])]
    /\ sweep' = Idle
    /\ UNCHANGED backend

\* The transaction fails: the task logs it and waits for the next interval.
CleanupFails ==
    /\ sweep.phase = "transaction"
    /\ sweep' = Idle
    /\ UNCHANGED <<backend, rows>>

CleanupStep ==
    \/ StartCleanup
    \/ \E t \in Tokens : Retain(t) \/ Expire(t)
    \/ CommitCleanup

TickStore ==
    /\ sweep.phase # "idle" => sweep.age < MaxSweep
    /\ rows' = [t \in Tokens |->
                  IF Exists(t) THEN [rows[t] EXCEPT !.age = Older(@)] ELSE NoSession]
    /\ sweep' = IF sweep.phase = "idle" THEN sweep ELSE [sweep EXCEPT !.age = @ + 1]
    /\ UNCHANGED backend

-----------------------------------------------------------------------------
(* A store with clients that make and update sessions as they like.         *)

Payload == {[state |-> s] : s \in States \ {"Expired"}}

Put(t, data, lag) == write(t, data, lag) /\ UNCHANGED sweep

StoreNext ==
    \/ \E t \in Tokens, data \in Payload, lag \in 0..MaxLag : Put(t, data, lag)
    \/ CleanupStep
    \/ CleanupFails
    \/ TickStore

StoreSpec == StoreInit /\ [][StoreNext]_storeVars

\* The cleanup task is spawned once and loops for ever, the database does not
\* refuse its transaction every time, and time goes on.
FairCleanup ==
    WF_storeVars(CleanupStep) /\ SF_storeVars(CommitCleanup) /\ WF_storeVars(TickStore)

FairStoreSpec == StoreSpec /\ FairCleanup

-----------------------------------------------------------------------------

\* What get() returns from the memory store.
MemorySession(t) == IF backend = "memory" THEN get(t) ELSE NoSession

Store == INSTANCE SessionStore WITH
    sessions <- [t \in Tokens |-> MemorySession(t)], Data <- Payload

\* Whatever requests do while the memory store's cleanup walks through the map,
\* what get() returns changes only as the SessionStore trait promises.
KeepsPromise == Store!Spec

\* An expiration is for active sessions: a session that has finished is never
\* turned into an expired one by the cleanup.
OnlyActiveExpire ==
    [][\A t \in Tokens :
          Exists(t) /\ progress(get(t).data) # "Active" /\ ~is_expired(get(t).data)
          => get(t)' = NoSession \/ ~is_expired(get(t)'.data)]_storeVars

\* In Postgres an expiration is final: a request that read the session before
\* it expired and writes to it afterwards does not bring it back.
ExpiredIsFinal ==
    [][\A t \in Tokens :
          backend = "postgres" /\ Exists(t) /\ is_expired(get(t).data)
          => get(t)' = NoSession \/ is_expired(get(t)'.data)]_storeVars

\* Sessions do not pile up: one that is not written to any more is removed,
\* however requests and failing transactions interfere with the cleanup.
EverySessionRemoved ==
    \A t \in Tokens :
        \/ []<>~Exists(t)
        \/ []<><<\E data \in Payload, lag \in 0..MaxLag : Put(t, data, lag)>>_storeVars
=============================================================================
