------------------------- MODULE AttestationLifecycle -------------------------
(***************************************************************************)
(* An attestation from the issuer, through the wallet, to a verifier.  The *)
(* wallet gets attestations in an issuance session and then discloses      *)
(* attributes of them in sessions with a verifier, ISO 18013 or OpenID4VP. *)
(*                                                                         *)
(* An operation of the wallet, with the requests it makes and what the     *)
(* server does with them, is one step here (how handlers overlap is the    *)
(* subject of IssuanceSessions and DisclosureSessions).  A request may not *)
(* reach the server ("connect"), its answer may not reach the wallet       *)
(* ("lost") or make no sense to it ("garbled"), a report of an error may   *)
(* not reach the server ("report lost"), and the wallet provider may not   *)
(* sign ("pin").                                                           *)
(*                                                                         *)
(* What the parties are configured with, and what the issuer puts in its   *)
(* attestations, is a scene: it is chosen at the start and does not change.*)
(* A scene also bounds the clock, the operations of the wallet in a        *)
(* session, the sessions with a verifier and the faults that may happen.   *)
(***************************************************************************)
EXTENDS CredentialIssuance, VpDisclosure, DocumentMapping

CONSTANT Scenes                 \* a sequence of scenes

ASSUME LifecycleAssumption == \A i \in DOMAIN Scenes : "none" \in Scenes[i].faults

VARIABLES chosen,       \* the number of the scene
          clock,
          issuer,       \* the session at the issuer
          issuance,     \* the issuance session of the wallet, if any
          stored,       \* the attestations of the wallet: copies, and how often each was used
          round,        \* how many sessions with a verifier there have been
          verifier,     \* the session at the verifier
          link,         \* the URL of that session
          disclosure,   \* the disclosure session of the wallet, if any
          events,       \* the events the wallet has logged for this session
          returned,     \* the return URL that the wallet got, if any (its nonce)
          seen,         \* device keys that reached a verifier, per session
          attempt,      \* operations of the wallet in the current session
          last          \* the last operation, its fault and its outcome

\* Named once more, so that TLC evaluates the constant only once.
EveryScene == Scenes
scene == EveryScene[chosen]

lifeVars == <<chosen, clock, issuer, issuance, stored, round, verifier, link, disclosure, events,
              returned, seen, attempt, last>>
issuanceVars == <<issuer, issuance, stored>>
presentationVars == <<round, verifier, link, disclosure, events, returned, seen>>

Operation(name, fault, outcome) == [name |-> name, fault |-> fault, outcome |-> outcome]
Happens(name, fault, outcome) == last' = Operation(name, fault, outcome)

LifeInit ==
    /\ chosen \in DOMAIN EveryScene
    /\ clock = 0
    /\ issuer = [state |-> "none"] /\ issuance = None /\ stored = <<>>
    /\ round = 0 /\ verifier = [state |-> "none"] /\ link = VerifierUrl(scene.session_type, 0)
    /\ disclosure = None /\ events = {} /\ returned = None /\ seen = <<>>
    /\ attempt = 0 /\ last = Operation("none", "none", "none")

Attempt == attempt < scene.max_attempts /\ attempt' = attempt + 1

Reaches(fault) == fault \in {"none", "lost", "garbled", "report lost"}
AnswerArrives(fault) == fault \in {"none", "report lost"}

-----------------------------------------------------------------------------
(* Issuance.                                                                *)

\* The issuer in a preview is registered, and its attributes can be shown.
PreviewShown(preview) ==
    /\ RegistrationFor(preview.issuer, "mdl") # None
    /\ Displayable(scene.mapping, preview.unsigned.doc_type, preview.unsigned.attributes, TRUE)

\* continue_pid_issuance: on any error the session of the wallet is gone.
StartIssuance(fault) ==
    LET dpop == Dpop("dpop key", "token", "POST", None, None)
        granted_ == GrantToken("code", scene.pre_authorized, dpop, Some(scene.previews))
        shown == \A i \in DOMAIN scene.previews : PreviewShown(scene.previews[i])
        ok == /\ fault = "none" /\ granted_.ok
              /\ PreviewsVerify(granted_.response, clock, scene.issuer_anchors)
              /\ shown
    IN  /\ issuer.state = "none" /\ Attempt
        /\ issuer' = IF Reaches(fault) THEN granted_.next ELSE [state |-> "absent"]
        /\ issuance' = IF ok THEN Some(IssuanceState(granted_.response, "dpop key", granted_.dpop_nonce))
                       ELSE None
        /\ Happens("start issuance", fault, IF ok THEN "ok" ELSE "error")
        /\ UNCHANGED <<chosen, clock, stored, presentationVars>>

\* What the issuer sends, given what it should send.
Sent(credentials) ==
    CASE scene.sends = "all" -> credentials
      [] scene.sends = "reversed" -> Reverse(credentials)
      [] scene.sends = "fewer" -> Tail(credentials)

\* The keys are new in every attempt.
NewKeys(n) == [i \in 1..n |-> <<"key", attempt, i>>]

IssuerRegistered(issuer_signed) == RegistrationFor(issuer_signed.issuer_auth.certificate, "mdl") # None

\* The answer of the issuer to the proofs of possession of new keys.
CredentialsFor(ids) ==
    IF issuer.state # "WaitingForResponse" THEN [ok |-> FALSE, next |-> issuer]
    ELSE BatchCredential(issuer, CredentialRequests(issuance[1], ids), auth_headers(issuance[1], "POST"),
                         scene.pairs, scene.signs, scene.random_length)

\* What the wallet does with the copies it accepted, if any: the session is kept
\* unless the attestations were received.  They are stored with copies that have
\* not been used.
Keep(fault, copies) ==
    LET ok == copies # None /\ \A i \in DOMAIN copies[1] : IssuerRegistered(copies[1][i][1].issuer_signed)
    IN  /\ issuance' = IF copies # None THEN None ELSE issuance
        /\ stored' = IF ~ok THEN stored
                     ELSE [i \in DOMAIN copies[1] |->
                              [copies |-> copies[1][i], used |-> [k \in DOMAIN copies[1][i] |-> 0]]]
        /\ Happens("accept issuance", fault, IF ok THEN "ok" ELSE "error")

\* accept_pid_issuance.
AcceptIssuance(fault) ==
    LET ids == NewKeys(Len(doctypes(issuance[1].previews)))
    IN  /\ issuance # None /\ Attempt
        /\ \E answer \in {CredentialsFor(ids)} :
              /\ issuer' = IF Reaches(fault) THEN answer.next ELSE issuer
              /\ \E copies \in {IF fault = "none" /\ answer.ok
                                THEN AcceptedCopies(issuance[1], ids, Sent(answer.credentials), clock,
                                                    scene.issuer_anchors)
                                ELSE None} : Keep(fault, copies)
        /\ UNCHANGED <<chosen, clock, presentationVars>>

\* cancel_pid_issuance: the session of the wallet is gone in any case.
CancelIssuance(fault) ==
    LET answer == RejectIssuance(issuer, auth_headers(issuance[1], "DELETE"))
    IN  /\ issuance # None /\ Attempt
        /\ issuance' = None
        /\ issuer' = IF Reaches(fault) /\ issuer.state = "WaitingForResponse" THEN answer.next ELSE issuer
        /\ Happens("cancel issuance", fault, "ok")
        /\ UNCHANGED <<chosen, clock, stored, presentationVars>>

-----------------------------------------------------------------------------
(* The attestations the wallet looks at.                                    *)

\* Mutant: always the first copy.
LeastUsed_first(attestation) == {1}

\* query_unique_mdocs: any one of the copies that have been used least.
LeastUsed(attestation) ==
    {k \in DOMAIN attestation.copies :
        \A j \in DOMAIN attestation.copies : attestation.used[k] <= attestation.used[j]}

Picks == {pick \in [DOMAIN stored -> UNION {DOMAIN stored[i].copies : i \in DOMAIN stored}] :
             \A i \in DOMAIN stored : pick[i] \in LeastUsed(stored[i])}

\* mdoc_by_doc_types: one copy of each attestation, grouped by type.
mdoc_by_doc_types(pick, requests) ==
    LET copies == [i \in DOMAIN stored |-> [id |-> <<i, pick[i]>>, mdoc |-> stored[i].copies[pick[i]]]]
        wanted == SelectSeq(copies, LAMBDA c : c.mdoc.doc_type \in DocTypes(requests))
        ofType(t) == SelectSeq(wanted, LAMBDA c : c.mdoc.doc_type = t)
        first == SelectSeq([i \in DOMAIN wanted |-> i],
                           LAMBDA i : \A j \in 1..(i - 1) :
                                          wanted[j].mdoc.doc_type # wanted[i].mdoc.doc_type)
    IN  [g \in DOMAIN first |-> ofType(wanted[first[g]].mdoc.doc_type)]

-----------------------------------------------------------------------------
(* A session with the verifier.                                             *)

\* new_session.  The wallet turns to a verifier when it is done with the issuer.
NewSession ==
    /\ issuance = None /\ issuer.state # "none" /\ disclosure = None /\ ~IsActive(verifier)
    /\ round < scene.max_rounds
    /\ scene.requests # <<>> /\ ReturnUrlConfigured(scene.use_case, scene.return_url)
    /\ round' = round + 1
    /\ verifier' = IF scene.protocol = "iso"
                   THEN IsoCreated(scene.requests, scene.return_url, <<"reader key", round + 1>>)
                   ELSE VpCreated(scene.requests, scene.return_url, scene.use_case.pair.certificate.dns[1])
    /\ link' = VerifierUrl(scene.session_type, clock)
    /\ events' = {} /\ returned' = None /\ seen' = Append(seen, {}) /\ attempt' = 0
    /\ Happens("new session", "none", "ok")
    /\ UNCHANGED <<chosen, clock, issuanceVars, disclosure>>

\* status_response gives a newer URL, as long as the wallet has not answered.
StatusResponse ==
    /\ verifier.state = "Created" /\ link.time # clock
    /\ link' = VerifierUrl(scene.session_type, clock)
    /\ Happens("status", "none", "ok")
    /\ UNCHANGED <<chosen, clock, issuanceVars, round, verifier, disclosure, events, returned, seen, attempt>>

IsoHandle(session, message) ==
    IsoProcess(session, message, link, clock, scene.use_case_later, scene.verifier_anchors)

\* A report to the verifier is sent once; its answer and its loss are ignored.
Reported(session, message, delivered) ==
    CASE ~delivered -> session
      [] delivered /\ scene.protocol = "iso" -> IsoHandle(session, message).next
      [] delivered /\ scene.protocol = "vp" ->
             process_authorization_response(session, message, clock, scene.verifier_anchors).next

\* A start that ends before there is a request to look at.
NotStarted(kind, session) == [result |-> [kind |-> kind], next |-> session]

\* The ISO session once the request has been looked at.  An error is reported.
IsoStarted(fault, keys, answer, result) ==
    [result |-> result, key |-> keys.device_key,
     return_url |-> IF result.kind = "proposal" THEN Plaintext(answer.reply).return_url ELSE None,
     next |-> IF result.kind \in {"error", "multiple"}
              THEN Reported(answer.next, IsoReport(answer.reply, keys.reader_key), fault # "report lost")
              ELSE answer.next]

\* What the wallet makes of the answer to its engagement.
IsoAnswered(fault, pick, keys, answer) ==
    LET groups == mdoc_by_doc_types(pick, ItemsRequestsOf(Plaintext(answer.reply)))
    IN  CASE ~answer.ok -> NotStarted("refused", answer.next)
          [] fault = "lost" /\ answer.ok -> NotStarted("no answer", answer.next)
          [] fault = "garbled" /\ answer.ok ->
                 NotStarted("no answer", Reported(answer.next, StatusData("decoding_error"), TRUE))
          [] OTHER -> IsoStarted(fault, keys, answer,
                                 IF ~Decrypts(answer.reply, keys.reader_key) THEN [kind |-> "error"]
                                 ELSE verify_device_request(Plaintext(answer.reply), keys.transcript, groups,
                                                            clock, scene.reader_anchors))

\* start of the ISO session: the outcome for the wallet, and the session it leaves.
IsoStart(fault, pick) ==
    LET engagement == DeviceEngagement(<<"device key", round, attempt>>)
    IN  IF ~Reaches(fault) THEN NotStarted("no answer", verifier)
        ELSE IsoAnswered(fault, pick, HolderKeys(ReaderEngagement(<<"reader key", round>>, link), engagement),
                         IsoHandle(verifier, engagement))

\* start of the OpenID4VP session.  What is wrong with the request itself, or
\* with the stored attestations, is not reported.
VpStarted(fault, mdoc_nonce, answer, result) ==
    [result |-> result, auth_request |-> FromVpAuthorizationRequest(answer.reply.payload[1]), mdoc_nonce |-> mdoc_nonce,
     next |-> IF result.kind = "error"
              THEN Reported(answer.next, VpError("invalid_request"), fault # "report lost")
              ELSE answer.next]

VpAnswered(fault, pick, wallet_nonce, answer) ==
    LET mdoc_nonce == <<"mdoc nonce", round, attempt>>
        request == FromVpAuthorizationRequest(answer.reply.payload[1])
        groups == mdoc_by_doc_types(pick, request.items_requests)
    IN  CASE ~answer.ok -> NotStarted("refused", answer.next)
          [] fault \in {"lost", "garbled"} /\ answer.ok -> NotStarted("no answer", answer.next)
          [] AnswerArrives(fault) /\ answer.ok ->
                 IF ~AuthorizationRequestVerifies(answer.reply, wallet_nonce, clock, scene.reader_anchors)
                 THEN NotStarted("error", answer.next)
                 ELSE VpStarted(fault, mdoc_nonce, answer,
                                process_request(answer.reply, verifier.client_id, mdoc_nonce, groups))

VpStart(fault, pick) ==
    LET wallet_nonce == <<"wallet nonce", round, attempt>>
    IN  IF ~Reaches(fault) THEN NotStarted("no answer", verifier)
        ELSE VpAnswered(fault, pick, wallet_nonce,
                        process_get_request(verifier, link, wallet_nonce, clock, scene.use_case_later))

Start(fault, pick) ==
    IF scene.protocol = "iso" THEN IsoStart(fault, pick) ELSE VpStart(fault, pick)

\* What the user is shown: what is missing or what is proposed.
DocumentShown(document) ==
    /\ IssuerRegistered(document.issuer_signed)
    /\ Displayable(scene.mapping, document.doc_type, Shown(document.issuer_signed.name_spaces), FALSE)

Outcome(result) ==
    CASE result.kind = "missing" /\ ~MissingDisplayable(scene.mapping, result.missing) -> "missing, not shown"
      [] result.kind = "proposal" /\ (\E i \in DOMAIN result.documents : ~DocumentShown(result.documents[i])) ->
             "proposal, not shown"
      [] OTHER -> result.kind

\* start_disclosure: nothing is sent if the link does not fit its source.  If the
\* attributes cannot be shown the session is dropped and the verifier not told.
StartDisclosure(fault) ==
    /\ round > 0 /\ disclosure = None /\ Attempt
    /\ IF ExpectedType(scene.source) # link.session_type
       THEN /\ Happens("start", fault, "mismatch")
            /\ UNCHANGED <<verifier, disclosure>>
       ELSE \E pick \in Picks :
            \E started \in {Start(fault, pick)} :
                /\ verifier' = started.next
                /\ disclosure' = IF Outcome(started.result) \in {"missing", "proposal"} THEN Some(started)
                                 ELSE None
                /\ Happens("start", fault, Outcome(started.result))
    /\ UNCHANGED <<chosen, clock, issuanceVars, round, link, events, returned, seen>>

-----------------------------------------------------------------------------
(* Disclosing.                                                              *)

Proposed == disclosure[1].result.documents

\* increment_mdoc_copies_usage_count
Incremented(attestations, sources) ==
    [i \in DOMAIN attestations |->
        [attestations[i] EXCEPT !.used = [k \in DOMAIN @ |-> @[k] + Cardinality({<<i, k>>} \cap sources)]]]

proposed_attributes(documents) == DisclosedAttributes(documents)

\* Mutant: data counts as shared only if the verifier has answered.
DataShared_answered(fault) == fault = "none"

\* The error of a failed request says whether the verifier may have the data.
DataShared(fault) == fault \in {"none", "lost", "garbled"}

WalletEvent(status, shared) == [status |-> status, shared |-> shared]

\* The request that discloses, and whether the answer to it is good.
DisclosedTo(answer, fault) ==
    LET accepted == answer.ok /\ (scene.protocol = "iso" => IsoAccepted(answer.reply))
        return_url == IF scene.protocol = "iso" THEN disclosure[1].return_url ELSE answer.reply
    IN  IF fault = "none" /\ accepted THEN [ok |-> TRUE, next |-> answer.next, return_url |-> return_url]
        ELSE [ok |-> FALSE, next |-> answer.next]

Disclose(fault, response) ==
    IF ~Reaches(fault) THEN [ok |-> FALSE, next |-> verifier]
    ELSE DisclosedTo(IF scene.protocol = "iso" THEN IsoHandle(verifier, encrypt(response, disclosure[1].key))
                     ELSE process_authorization_response(
                              verifier, new_encrypted(response, disclosure[1].auth_request, disclosure[1].mdoc_nonce),
                              clock, scene.verifier_anchors),
                     fault)

\* accept_disclosure: the copies count as used before anything is sent, and the
\* session is kept unless all went well.
AcceptDisclosure(fault) ==
    LET shared == Some(proposed_attributes(Proposed))
        keys == {PublicKey(Proposed[i].private_key_id) : i \in DOMAIN Proposed}
    IN  /\ disclosure # None /\ disclosure[1].result.kind = "proposal" /\ Attempt
        /\ stored' = Incremented(stored, {Proposed[i].source : i \in DOMAIN Proposed})
        /\ \E sent \in {Disclose(fault, sign_multiple(Proposed))} :
               /\ verifier' = sent.next
               /\ disclosure' = IF sent.ok THEN None ELSE disclosure
               /\ events' = events \cup {IF sent.ok THEN WalletEvent("success", shared)
                                         ELSE WalletEvent("error", IF DataShared(fault) THEN shared ELSE None)}
               /\ returned' = IF sent.ok THEN sent.return_url ELSE returned
               /\ Happens("accept", fault, IF sent.ok THEN "ok" ELSE "error")
        /\ seen' = IF Reaches(fault) THEN [seen EXCEPT ![round] = @ \cup keys] ELSE seen
        /\ UNCHANGED <<chosen, clock, issuer, issuance, round, link>>

\* cancel_disclosure, and the end of a session on a PIN timeout: the session is
\* gone, and the event is logged if the verifier answered.
CancelDisclosure(fault) ==
    LET message == IF scene.protocol = "iso" THEN StatusData("termination") ELSE VpError("access_denied")
        ok == /\ fault = "none"
              /\ IF scene.protocol = "iso" THEN IsoHandle(verifier, message).ok
                 ELSE process_authorization_response(verifier, message, clock, scene.verifier_anchors).ok
    IN  /\ disclosure # None /\ Attempt
        /\ disclosure' = None
        /\ verifier' = Reported(verifier, message, Reaches(fault))
        /\ events' = IF ok THEN events \cup {WalletEvent("cancelled", None)} ELSE events
        /\ Happens("cancel", fault, IF ok THEN "ok" ELSE "error")
        /\ UNCHANGED <<chosen, clock, issuanceVars, round, link, returned, seen>>

-----------------------------------------------------------------------------

\* The cleanup of a session store ends a session that was not used for a while.
Expires ==
    /\ \/ "expire" \in scene.faults /\ IsActive(verifier) /\ verifier' = Ended("Expired") /\ UNCHANGED issuer
       \/ "expire" \in scene.issuance_faults /\ issuer.state = "WaitingForResponse" /\ issuer' = Ended("Expired") /\ UNCHANGED verifier
    /\ Happens("expire", "none", "ok")
    /\ UNCHANGED <<chosen, clock, issuance, stored, round, link, disclosure, events, returned, seen, attempt>>

Tick ==
    /\ clock < scene.max_clock
    /\ clock' = clock + 1
    /\ Happens("tick", "none", "ok")
    /\ UNCHANGED <<chosen, issuanceVars, presentationVars, attempt>>

LifeNext ==
    \/ \E fault \in scene.issuance_faults \cap {"none", "connect", "lost"} :
           StartIssuance(fault) \/ CancelIssuance(fault)
    \/ \E fault \in scene.issuance_faults \cap {"none", "connect", "lost", "pin"} : AcceptIssuance(fault)
    \/ NewSession \/ StatusResponse
    \/ \E fault \in scene.faults \cap {"none", "connect", "lost", "garbled", "report lost"} :
           StartDisclosure(fault)
    \/ \E fault \in scene.faults \cap {"none", "connect", "lost", "garbled", "pin"} : AcceptDisclosure(fault)
    \/ \E fault \in scene.faults \cap {"none", "connect", "lost"} : CancelDisclosure(fault)
    \/ Expires \/ Tick

LifeSpec == LifeInit /\ [][LifeNext]_lifeVars

-----------------------------------------------------------------------------
(* Properties of issuance.                                                  *)

\* Whatever the issuer sends, in whatever order: a stored copy can be used with
\* the key it is stored with, and says what the preview at its place said, by the
\* issuer that the user saw (accept_issuance pairs keys, requests and answers by
\* position, into_mdoc checks each).
StoredAsPreviewed ==
    \A i \in DOMAIN stored : \A k \in DOMAIN stored[i].copies :
        LET mdoc == stored[i].copies[k]
            preview == scene.previews[i]
        IN  /\ Mso(mdoc.issuer_signed).device_key = PublicKey(mdoc.private_key_id)
            /\ compare_unsigned(mdoc, preview.unsigned)
            /\ mdoc.issuer_signed.issuer_auth.certificate = preview.issuer

\* An issuer that sends what it announced, signed with what it announced.
HonestIssuer ==
    /\ scene.sends = "all" /\ scene.signs = scene.previews
    /\ scene.random_length >= ATTR_RANDOM_LENGTH
    /\ \A i \in DOMAIN scene.previews :
           LET preview == scene.previews[i]
           IN  /\ preview.unsigned.doc_type \in DOMAIN scene.pairs
               /\ scene.pairs[preview.unsigned.doc_type].certificate = preview.issuer
               /\ clock <= preview.unsigned.period.until
               /\ CertificateVerify(preview.issuer, "mdl", clock, scene.issuer_anchors)

\* If the session at the issuer is still waiting and no message is lost, the user
\* who accepts what an honest issuer announced gets it, however many types and
\* copies there are (accept_issuance and process_batch_credential flatten and
\* split the copies in the same way).
HonestIssuanceSucceeds ==
    issuer.state = "WaitingForResponse" /\ HonestIssuer
        => last' # Operation("accept issuance", "none", "error")

-----------------------------------------------------------------------------
(* Properties of matching a request with the attestations.                  *)

Requested(t) == RequestedFor(scene.requests, t)

\* The attestations of type t that have everything that is requested of it.
Satisfying(t) ==
    {i \in DOMAIN stored :
        /\ scene.previews[i].unsigned.doc_type = t
        /\ \A a \in Requested(t) :
               /\ a[2] \in DOMAIN scene.previews[i].unsigned.attributes
               /\ \E e \in ToSet(scene.previews[i].unsigned.attributes[a[2]]) : e.name = a[3]}

\* DisclosureRequestMatch::new says what there is: something is missing only if no
\* single attestation of some type has all that is requested of it, a proposal has
\* the only such attestation of each type, and it gives up otherwise only if a type
\* that is stored was requested without attributes.
MatchIsExact ==
    last.name = "start" =>
        /\ last.outcome \in {"missing", "missing, not shown"} =>
               \E t \in DocTypes(scene.requests) : Requested(t) # {} /\ Satisfying(t) = {}
        /\ last.outcome = "proposal" =>
               \A t \in DocTypes(scene.requests) : Requested(t) = {} \/ Cardinality(Satisfying(t)) = 1
        /\ last.outcome = "multiple" =>
               \E t \in DocTypes(scene.requests) : Cardinality(Satisfying(t)) > 1
        /\ last.outcome = "panic" =>
               \E t \in DocTypes(scene.requests) : Requested(t) = {} /\ Satisfying(t) # {}

\* What the wallet has stored it can show: a proposal never fails to be shown and
\* never lacks the registration of its issuer, as start_disclosure expects, since
\* the previews were shown before they were accepted.
ProposalIsShown == last.outcome # "proposal, not shown"

\* A wallet that goes no further with a request, and whose report arrives, leaves
\* the verifier waiting only where it means to: it could not show what is missing,
\* or crashed; or, in OpenID4VP, it has several candidates or the request itself
\* did not verify (report_error_back).
GivingUpIsReported ==
    LET untrusted == ~CertificateVerify(scene.use_case_later[1].pair.certificate, "reader", clock,
                                        scene.reader_anchors)
    IN  last.name = "start" /\ last.fault = "none" /\ verifier.state = "WaitingForResponse" =>
            \/ disclosure # None
            \/ last.outcome \in {"missing, not shown", "panic", "refused"}
            \/ scene.protocol = "vp" /\ last.outcome = "multiple"
            \/ scene.protocol = "vp" /\ (untrusted \/ AllIdentifiers(scene.requests) = {})

-----------------------------------------------------------------------------
(* Properties of disclosure.                                                *)

\* What a verifier accepts is what it requested, no more and no less, with the
\* values that the issuer announced, and the reader is registered for it.
DisclosedAsIssued ==
    verifier.state = "Done" =>
        /\ AllIdentifiers(scene.requests) \subseteq scene.use_case_later[1].pair.certificate.registration[1]
        /\ \A t \in DOMAIN verifier.attributes :
               LET disclosed == Flattened(t, verifier.attributes[t])
               IN  /\ {<<d[1], d[2], d[3]>> : d \in disclosed} = Requested(t)
                   /\ \E i \in Satisfying(t) :
                          disclosed \subseteq Flattened(t, scene.previews[i].unsigned.attributes)
        /\ \A t \in DocTypes(scene.requests) : t \in DOMAIN verifier.attributes \/ Requested(t) = {}

\* If the verifier has the attributes, the wallet has logged that it shared them,
\* also if the answer of the verifier never came (data_shared).
SharedIsRecorded ==
    verifier.state = "Done" => \E e \in events : e.shared = Some(verifier.attributes)

\* If the wallet tells the user that it succeeded, the verifier has accepted just
\* what the wallet logged.
SuccessIsReceived ==
    \A e \in events : e.status = "success" => verifier.state = "Done" /\ e.shared = Some(verifier.attributes)

\* The verifier can check what it is shown: all of it is valid now, from an issuer
\* that it trusts.
ProposedIsValid ==
    \A i \in DOMAIN Proposed :
        LET mso == Mso(Proposed[i].issuer_signed)
        IN  /\ mso.validity.from <= clock /\ clock <= mso.validity.until
            /\ CertificateVerify(Proposed[i].issuer_signed.issuer_auth.certificate, "mdl", clock,
                                 scene.verifier_anchors)

\* A verifier that waits accepts a proposal exactly if it is valid: both sides
\* derive the same transcript and keys, in both protocols, for one document or
\* more, after any number of failed attempts.
ValidIsAccepted ==
    last'.name = "accept" /\ last'.fault = "none" /\ verifier.state = "WaitingForResponse"
        => verifier'.state = IF ProposedIsValid THEN "Done" ELSE "Failed"

\* If the use case wants a return URL, the result is given only to who comes from
\* that URL, and the wallet that disclosed was given the right one.
ResultNeedsReturn ==
    verifier.state = "Done" =>
        /\ WantsReturnUrl(scene.use_case_later[1], link.session_type)
               => disclosed_attributes(verifier, None) = None
        /\ (\E e \in events : e.status = "success") => disclosed_attributes(verifier, returned) # None

\* A verifier sees a copy that another session has seen only if no unused copy of
\* the attestation was left, whatever was lost (increment_mdoc_copies_usage_count
\* comes before the first message).
CopiesAreFresh ==
    \A i \in DOMAIN stored : \A k \in DOMAIN stored[i].copies :
        LET key == PublicKey(stored[i].copies[k].private_key_id)
        IN  Cardinality({r \in DOMAIN seen : key \in seen[r]}) > 1
                => \A j \in DOMAIN stored[i].used : stored[i].used[j] > 0

-----------------------------------------------------------------------------
(* And together.                                                            *)

\* What should succeed does: accepting an honest issuer's attestations, and showing
\* valid ones to a verifier that waits, which accepts nothing else.
HonestSucceeds == [][HonestIssuanceSucceeds /\ ValidIsAccepted]_lifeVars

\* What the wallet makes of a request is right: it finds exactly what there is, it
\* can show what it proposes, and the verifier hears of it if it goes no further.
RequestIsAnswered == MatchIsExact /\ ProposalIsShown /\ GivingUpIsReported

\* Issuer, wallet and verifier agree on what was disclosed, whatever was lost: what
\* the verifier accepted was requested and issued, the wallet has logged just that,
\* and the result goes to who returns from the wallet.
DisclosureAgrees == DisclosedAsIssued /\ SharedIsRecorded /\ SuccessIsReceived /\ ResultNeedsReturn
=============================================================================
