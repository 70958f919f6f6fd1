------------------------- MODULE DisclosureSessions -------------------------
(***************************************************************************)
(* The Verifier of openid4vc: disclosure sessions that a relying party     *)
(* starts, whose link devices scan, and in which a device asks for the     *)
(* Authorization Request and posts its response.                           *)
(*                                                                         *)
(* A request reads the session from the store, works out the next state    *)
(* and writes it, with no lock in between: other requests and the cleanup  *)
(* of the store interleave with it.  A device's user may at any time give  *)
(* up and scan again.                                                      *)
(***************************************************************************)
EXTENDS ServerSessions

CONSTANTS Devices,
          Handlers,             \* requests that are being handled at a time
          NoHandler,
          ReturnUrl,            \* session_type_return_url of the use case
          LinkValidity,         \* EPHEMERAL_ID_VALIDITY_SECONDS
          MaxNonce              \* bound on the Authorization Requests made

ASSUME DisclosureAssumption ==
    /\ ReturnUrl \in {"Neither", "SameDevice", "Both"}
    /\ LinkValidity \in Nat /\ MaxNonce \in Nat
    /\ NoHandler \notin Handlers

SessionTypes == {"SameDevice", "CrossDevice"}

VARIABLES started,      \* tokens given out; a token is random and never reused
          dev,          \* what each device is doing
          hand,         \* the requests being handled
          nonces,       \* Authorization Requests made so far
          asked         \* which device was sent which Authorization Request

verifierVars == <<started, dev, hand, nonces, asked>>
vars == <<storeVars, verifierVars>>

\* A device is away, has a link, waits for handler "wait", or was authorized.
Away == [phase |-> "away", tok |-> 0, type |-> "CrossDevice", age |-> 0,
         nonce |-> 0, wait |-> NoHandler]
WaitFor(h, t) == [Away EXCEPT !.phase = "waiting", !.tok = t, !.wait = h]
NoRequest == [pc |-> "idle", dev |-> 0, tok |-> 0, type |-> "CrossDevice", next |-> expired]

Init ==
    /\ StoreInit
    /\ started = {}
    /\ dev = [d \in Devices |-> Away]
    /\ hand = [h \in Handlers |-> NoRequest]
    /\ nonces = 0
    /\ asked = {}

InState(t, state) == Exists(t) /\ get(t).data.state = state

\* The device is told, if it still waits for this handler.
Tell(h, d, told) == dev' = IF dev[d].wait = h THEN [dev EXCEPT ![d] = told] ELSE dev

-----------------------------------------------------------------------------
(* The relying party and the web page                                       *)

new_session(t) ==
    /\ t \notin started
    /\ write(t, [state |-> "Created", template |-> ReturnUrl # "Neither"], 0)
    /\ started' = started \cup {t}
    /\ UNCHANGED <<sweep, dev, hand, nonces, asked>>

\* The page polls status_response, shows the link, and a device scans it.
Scan(d, t, type) ==
    /\ InState(t, "Created")
    /\ dev' = [dev EXCEPT ![d] =
                 [Away EXCEPT !.phase = "linked", !.tok = t, !.type = type]]
    /\ UNCHANGED <<storeVars, started, hand, nonces, asked>>

-----------------------------------------------------------------------------
(* process_get_request                                                      *)

verify_ephemeral_id(d) == dev[d].age <= LinkValidity

\* Read the session and check the link.  A link that is too old does not fail
\* the session.
GetRequest(h, d) ==
    LET t == dev[d].tok
        ok == InState(t, "Created") /\ verify_ephemeral_id(d)
    IN  /\ hand[h].pc = "idle" /\ dev[d].phase = "linked"
        /\ hand' = IF ok THEN [hand EXCEPT ![h] = [NoRequest EXCEPT
                                 !.pc = "get", !.dev = d, !.tok = t, !.type = dev[d].type]]
                   ELSE hand
        /\ dev' = [dev EXCEPT ![d] = IF ok THEN WaitFor(h, t) ELSE Away]
        /\ UNCHANGED <<storeVars, started, nonces, asked>>

\* redirect_uri_and_nonce: 0 is no redirect URI.
Redirect(type, nonce) ==
    IF ReturnUrl = "Both" \/ (ReturnUrl = "SameDevice" /\ type = "SameDevice")
    THEN nonce ELSE 0

Waiting(nonce, redirect) ==
    [state |-> "WaitingForResponse", nonce |-> nonce, redirect |-> redirect]

\* The Authorization Request is signed, the session written, the device told.
\* A nonce stands for the request's nonce and its encryption key.
Authorize(h) ==
    LET d == hand[h].dev
        n == nonces + 1
    IN  /\ hand[h].pc = "get" /\ nonces < MaxNonce
        /\ nonces' = n
        /\ \E lag \in 0..MaxLag :
              write(hand[h].tok, Waiting(n, Redirect(hand[h].type, n)), lag)
        /\ Tell(h, d, [dev[d] EXCEPT !.phase = "authorized", !.nonce = n, !.wait = NoHandler])
        /\ asked' = IF dev[d].wait = h THEN asked \cup {<<hand[h].tok, n, d>>} ELSE asked
        /\ hand' = [hand EXCEPT ![h] = NoRequest]
        /\ UNCHANGED <<sweep, started>>

\* A changed use case, key generation or signing fails: so does the session.
AuthorizeFails(h) ==
    /\ hand[h].pc = "get"
    /\ \E lag \in 0..MaxLag : write(hand[h].tok, [state |-> "Failed"], lag)
    /\ Tell(h, hand[h].dev, Away)
    /\ hand' = [hand EXCEPT ![h] = NoRequest]
    /\ UNCHANGED <<sweep, started, nonces, asked>>

-----------------------------------------------------------------------------
(* process_authorization_response                                           *)

Answers == {"Response", "AccessDenied", "OtherError"}

\* Mutant: the response is not checked against the request of the session.
Verified_any(d, data) == TRUE

\* decrypt_and_verify: made for the request that the session remembers.
Verified(d, data) == dev[d].nonce = data.nonce

NextState(d, data, answer) ==
    CASE answer = "AccessDenied" -> [state |-> "Cancelled"]
      [] answer = "Response" /\ Verified(d, data) ->
             [state |-> "Done", from |-> d, nonce |-> data.nonce, redirect |-> data.redirect]
      [] OTHER -> [state |-> "Failed"]

\* Mutant: a session in any state takes a response.
PostResponse_any_state(h, d, answer) ==
    /\ hand[h].pc = "idle" /\ dev[d].phase = "authorized" /\ Exists(dev[d].tok)
    /\ hand' = [hand EXCEPT ![h] = [NoRequest EXCEPT !.pc = "post", !.dev = d,
                  !.tok = dev[d].tok,
                  !.next = NextState(d, [nonce |-> dev[d].nonce, redirect |-> 0], answer)]]
    /\ dev' = [dev EXCEPT ![d] = WaitFor(h, dev[d].tok)]
    /\ UNCHANGED <<storeVars, started, nonces, asked>>

PostResponse(h, d, answer) ==
    LET t == dev[d].tok
        ok == InState(t, "WaitingForResponse")
    IN  /\ hand[h].pc = "idle" /\ dev[d].phase = "authorized"
        /\ hand' = IF ok THEN [hand EXCEPT ![h] = [NoRequest EXCEPT !.pc = "post",
                                 !.dev = d, !.tok = t,
                                 !.next = NextState(d, get(t).data, answer)]]
                   ELSE hand
        /\ dev' = [dev EXCEPT ![d] = IF ok THEN WaitFor(h, t) ELSE Away]
        /\ UNCHANGED <<storeVars, started, nonces, asked>>

Finish(h) ==
    /\ hand[h].pc = "post"
    /\ \E lag \in 0..MaxLag : write(hand[h].tok, hand[h].next, lag)
    /\ Tell(h, hand[h].dev, Away)
    /\ hand' = [hand EXCEPT ![h] = NoRequest]
    /\ UNCHANGED <<sweep, started, nonces, asked>>

\* The store refuses the write, or the task is dropped: nothing is written.
Abort(h) ==
    /\ hand[h].pc # "idle"
    /\ Tell(h, hand[h].dev, Away)
    /\ hand' = [hand EXCEPT ![h] = NoRequest]
    /\ UNCHANGED <<storeVars, started, nonces, asked>>

-----------------------------------------------------------------------------

Clean == (CleanupStep \/ CleanupFails) /\ UNCHANGED verifierVars

\* Links grow old with the sessions.
Tick ==
    /\ TickStore
    /\ dev' = [d \in Devices |->
                 IF dev[d].phase = "linked" /\ dev[d].age <= LinkValidity
                 THEN [dev[d] EXCEPT !.age = @ + 1] ELSE dev[d]]
    /\ UNCHANGED <<started, hand, nonces, asked>>

Handle(h) == Authorize(h) \/ AuthorizeFails(h) \/ Finish(h) \/ Abort(h)

Next ==
    \/ \E t \in Tokens : new_session(t)
    \/ \E d \in Devices, t \in Tokens, type \in SessionTypes : Scan(d, t, type)
    \/ \E h \in Handlers, d \in Devices : GetRequest(h, d)
    \/ \E h \in Handlers, d \in Devices, answer \in Answers : PostResponse(h, d, answer)
    \/ \E h \in Handlers : Handle(h)
    \/ Clean
    \/ Tick

Spec == Init /\ [][Next]_vars

-----------------------------------------------------------------------------

\* However requests overlap, the attributes a relying party can fetch were sent
\* by a device in answer to the Authorization Request that was made for that
\* device in this very session, and so does the redirect URI that it was given.
AnsweredOwnRequest ==
    \A t \in Tokens : InState(t, "Done") =>
        /\ <<t, get(t).data.nonce, get(t).data.from>> \in asked
        /\ get(t).data.redirect \in {0, get(t).data.nonce}

=============================================================================
