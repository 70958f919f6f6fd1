----------------------------- MODULE SessionData ----------------------------
(***************************************************************************)
(* What the session store looks at in the data of a session.  Disclosure   *)
(* and issuance sessions go through the same states; a session that has    *)
(* ended is named here by its result.                                      *)
(*                                                                         *)
(* Times are ages: a row has the number of ticks since its last_active, so *)
(* the clock itself is not part of the state and needs no bound.           *)
(***************************************************************************)
EXTENDS Naturals

CONSTANTS Timeouts,     \* SessionStoreTimeouts
          MaxSweep      \* bound on the ticks that pass during one cleanup

TimeoutFields == {"expiration", "successful_deletion", "failed_deletion"}

ASSUME TimeoutsAssumption ==
    Timeouts \in [TimeoutFields -> Nat] /\ MaxSweep \in Nat

States == {"Created", "WaitingForResponse", "Done", "Failed", "Cancelled", "Expired"}

progress(data) ==
    IF data.state \in {"Created", "WaitingForResponse"} THEN "Active"
    ELSE IF data.state = "Done" THEN "Succeeded"
    ELSE "Failed"

is_expired(data) == data.state = "Expired"

\* expire() drops whatever the session held.
expired == [state |-> "Expired"]

LongestTimeout ==
    CHOOSE n \in {Timeouts[field] : field \in TimeoutFields} :
        \A field \in TimeoutFields : Timeouts[field] <= n

\* From this age on a row is older than every timeout, also for a cleanup that
\* took the time MaxSweep ticks ago.
MaxAge == MaxSweep + 1 + LongestTimeout
Ages == 0..MaxAge
Older(age) == IF age < MaxAge THEN age + 1 ELSE age

\* A row of the given age is beyond the timeout, for a cleanup that took the
\* time s ticks ago.
Beyond(age, s, timeout) == age > s + Timeouts[timeout]

\* Which deletion timeout applies to a finished session.
DeletionTimeout(data) ==
    IF progress(data) = "Succeeded" THEN "successful_deletion" ELSE "failed_deletion"

ToDelete(data, age, s) ==
    progress(data) # "Active" /\ Beyond(age, s, DeletionTimeout(data))

ToExpire(data, age, s) ==
    progress(data) = "Active" /\ Beyond(age, s, "expiration")
=============================================================================
