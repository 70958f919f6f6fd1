-------------------------- MODULE IssuanceSessions --------------------------
(***************************************************************************)
(* The Issuer of openid4vc.  A client trades its authorization code for an *)
(* access token and previews of its attestations, and then asks for the    *)
(* credentials or rejects them.                                            *)
(*                                                                         *)
(* A session is named by its authorization code and is first stored by the *)
(* token request.  As in the Verifier, a request reads the session and     *)
(* writes it later, with no lock in between.  Requests of one client       *)
(* overlap when it stops waiting for an answer and tries again, which the  *)
(* wallet does: accept_pid_issuance keeps its session until it succeeds.   *)
(* A request that is answered with an error before anything is written     *)
(* changes nothing and is not a step.                                      *)
(***************************************************************************)
EXTENDS ServerSessions

CONSTANTS Handlers,             \* requests that are being handled at a time
          MaxTokens             \* bound on the access tokens made

ASSUME IssuanceAssumption == MaxTokens \in Nat

VARIABLES hand,         \* the requests being handled
          tokens,       \* access tokens made so far: they are 1..tokens
          granted,      \* access tokens that were sent out, per code
          issued,       \* how often credentials were sent out, per code: 0, 1 or more
          rejected,     \* codes whose rejection was confirmed
          gone          \* codes whose session was removed

issuerVars == <<hand, tokens, granted, issued, rejected>>
vars == <<storeVars, issuerVars, gone>>

NoRequest == [pc |-> "idle"]

Init ==
    /\ StoreInit
    /\ hand = [h \in Handlers |-> NoRequest]
    /\ tokens = 0
    /\ granted = [t \in Tokens |-> {}]
    /\ issued = [t \in Tokens |-> 0]
    /\ rejected = {}
    /\ gone = {}

WaitingForResponse(access) == [state |-> "WaitingForResponse", access |-> access]
Done(result) == [state |-> result]

\* What a session can hold when the given access tokens were sent out for it.
EndedSessions == {Done(result) : result \in {"Done", "Failed", "Cancelled", "Expired"}}
SessionsWith(accesses) == {WaitingForResponse(access) : access \in accesses} \cup EndedSessions

\* The rows of either store; none of them is the absent one.
Statuses == {"Active", "Succeeded", "Failed", "Expired"}
RowsWith(datas) ==
    [data : datas, age : Ages] \cup [data : datas, age : Ages, status : Statuses]

ASSUME NoSessionAssumption == NoSession \notin RowsWith(SessionsWith(1..MaxTokens))

\* get_session: the session that a request with an access token is about.
get_session(t) == IF Exists(t) THEN get(t).data ELSE Done("Failed")

\* Handler h has read what it needs.
Received(h, request) ==
    /\ hand[h].pc = "idle"
    /\ hand' = [hand EXCEPT ![h] = request]
    /\ UNCHANGED <<storeVars, tokens, granted, issued, rejected>>

\* Handler h answers, and the next state of the session has been written.
Answered(h, data) ==
    /\ \E lag \in 0..MaxLag : write(hand[h].tok, data, lag)
    /\ hand' = [hand EXCEPT ![h] = NoRequest]
    /\ UNCHANGED sweep

-----------------------------------------------------------------------------
(* process_token_request                                                    *)

TokenRequest(h, t) == ~Exists(t) /\ Received(h, [pc |-> "token", tok |-> t])

\* Mutant: the session is written as an update.
AnsweredNew_update(h, data) == Answered(h, data)

\* write(next, true) is an insertion: it is refused if there is a session by now.
AnsweredNew(h, data) == ~Exists(hand[h].tok) /\ Answered(h, data)

\* The attribute service accepts the code.  It does not do so for ever.
Grant(h) ==
    LET t == hand[h].tok
        access == tokens + 1
    IN  /\ hand[h].pc = "token" /\ t \notin gone /\ tokens < MaxTokens
        /\ AnsweredNew(h, WaitingForResponse(access))
        /\ tokens' = access
        /\ granted' = [granted EXCEPT ![t] = @ \cup {access}]
        /\ UNCHANGED <<issued, rejected>>

\* Another grant type, a bad DPoP header, or a code that is not accepted.
TokenFails(h) ==
    /\ hand[h].pc = "token"
    /\ AnsweredNew(h, Done("Failed"))
    /\ UNCHANGED <<tokens, granted, issued, rejected>>

-----------------------------------------------------------------------------
(* process_credential and process_batch_credential                          *)

\* The access token matches, and so do DPoP header, doctypes and proofs of
\* possession: valid.
CredentialRequest(h, t, access, valid) ==
    LET data == get_session(t)
    IN  /\ data.state = "WaitingForResponse"
        /\ Received(h, [pc |-> "credential", tok |-> t, read |-> data,
                        ok |-> valid /\ data = WaitingForResponse(access)])

\* Send out the credentials, with the given next state of the session.
Issued(h, data) ==
    /\ hand[h].pc = "credential" /\ hand[h].ok
    /\ Answered(h, data)
    /\ issued' = [issued EXCEPT ![hand[h].tok] = IF @ < 2 THEN @ + 1 ELSE @]
    /\ UNCHANGED <<tokens, granted, rejected>>

Issue(h) == Issued(h, Done("Done"))

\* Any other outcome, an unauthorized request included, fails the session.
IssueFails(h) ==
    /\ hand[h].pc = "credential" /\ ~hand[h].ok
    /\ Answered(h, Done("Failed"))
    /\ UNCHANGED <<tokens, granted, issued, rejected>>

-----------------------------------------------------------------------------
(* process_reject_issuance                                                  *)

\* An unauthorized rejection is refused and leaves the session alone.
RejectRequest(h, t, access) ==
    /\ get_session(t) = WaitingForResponse(access)
    /\ Received(h, [pc |-> "reject", tok |-> t, read |-> get_session(t)])

\* Confirm a rejection, with the given next state of the session.
Rejected(h, data) ==
    /\ Answered(h, data)
    /\ rejected' = rejected \cup {hand[h].tok}
    /\ UNCHANGED <<tokens, granted, issued>>

\* Mutant: the rejected session is written back as it was read.
Reject_not_ended(h) == hand[h].pc = "reject" /\ Rejected(h, hand[h].read)

Reject(h) == hand[h].pc = "reject" /\ Rejected(h, Done("Cancelled"))

-----------------------------------------------------------------------------

\* The store refuses the write, or the task is dropped: nothing is written.
Abort(h) ==
    /\ hand[h].pc # "idle"
    /\ hand' = [hand EXCEPT ![h] = NoRequest]
    /\ UNCHANGED <<storeVars, tokens, granted, issued, rejected>>

Request(h, t) ==
    \/ TokenRequest(h, t)
    \/ \E access \in 1..tokens, valid \in BOOLEAN : CredentialRequest(h, t, access, valid)
    \/ \E access \in 1..tokens : RejectRequest(h, t, access)

Handle(h) == Grant(h) \/ TokenFails(h) \/ Issue(h) \/ IssueFails(h) \/ Reject(h) \/ Abort(h)

Background == (CleanupStep \/ CleanupFails \/ TickStore) /\ UNCHANGED issuerVars

\* The attribute service no longer accepts the code of a removed session.
Forget == gone' = gone \cup {t \in Tokens : Exists(t) /\ rows'[t] = NoSession}

Next ==
    /\ \/ \E h \in Handlers, t \in Tokens : Request(h, t)
       \/ \E h \in Handlers : Handle(h)
       \/ Background
    /\ Forget

Spec == Init /\ [][Next]_vars

-----------------------------------------------------------------------------

\* A stored session has been through the token request: none is Created, and one
\* that waits for the wallet has the access token that was sent out.
StoredSessions ==
    \A t \in Tokens : Exists(t) =>
        /\ rows[t].data.state \in {"WaitingForResponse", "Done", "Failed", "Cancelled", "Expired"}
        /\ rows[t].data.state = "WaitingForResponse" => rows[t].data.access \in granted[t]

\* However token requests for a code overlap, fail and are repeated, at most one
\* access token is sent out for it (process_token_request inserts the session).
OneTokenPerCode == \A t \in Tokens : \A a, b \in granted[t] : a = b

\* The credentials of a session are sent out at most once: the first request
\* ends the session (process_credential and process_batch_credential).
IssuedOnce == \A t \in Tokens : issued[t] <= 1

\* Credentials sent out, or a rejection confirmed, while no other request for the
\* session is being handled, are the last word: no credentials are sent out for
\* the session after that, however often the access token is used again.
Quiet(t) == \A h \in Handlers : hand[h].pc = "idle" \/ hand[h].tok # t
LastWord ==
    \A t \in Tokens :
        /\ [](issued[t] = 1 /\ Quiet(t) => [](issued[t] = 1))
        /\ [](t \in rejected /\ issued[t] = 0 /\ Quiet(t) => [](issued[t] = 0))

\* However token requests for a code overlap, fail and are repeated, there is one
\* access token for it, and a stored session that waits, waits for a token that was
\* sent out: no session is replaced by that of another request.
OneSessionPerCode == OneTokenPerCode /\ StoredSessions
=============================================================================
