---------------------------- MODULE SessionStore ----------------------------
(***************************************************************************)
(* What the SessionStore trait promises to the verifier and the issuer: a  *)
(* map from tokens to session states in which a write replaces the state,  *)
(* and a cleanup that expires inactive sessions and removes finished ones, *)
(* each after its own timeout, and does nothing else.                      *)
(***************************************************************************)
EXTENDS SessionData

CONSTANTS Tokens, NoSession, Data

VARIABLE sessions       \* what get() returns for each token

Init == sessions = [t \in Tokens |-> NoSession]

\* last_active is taken when the state is made, a little before it is written.
Write(t, data, lag) == sessions' = [sessions EXCEPT ![t] = [data |-> data, age |-> lag]]

Swept(row, s) ==
    IF row = NoSession THEN NoSession
    ELSE IF ToDelete(row.data, row.age, s) THEN NoSession
    ELSE IF ToExpire(row.data, row.age, s) THEN [data |-> expired, age |-> s]
    ELSE row

\* One cleanup, or the part of it that reaches the sessions in S.
Cleanup(S, s) ==
    sessions' = [t \in Tokens |-> IF t \in S THEN Swept(sessions[t], s) ELSE sessions[t]]

Tick ==
    sessions' = [t \in Tokens |->
                   IF sessions[t] = NoSession THEN NoSession
                   ELSE [sessions[t] EXCEPT !.age = Older(@)]]

Next ==
    \/ \E t \in Tokens, data \in Data, lag \in Ages : Write(t, data, lag)
    \/ \E S \in SUBSET Tokens, s \in 0..MaxSweep : Cleanup(S, s)
    \/ Tick

Spec == Init /\ [][Next]_sessions
=============================================================================
