----------------------------- MODULE IsoDisclosure -----------------------------
(***************************************************************************)
(* Disclosure as in ISO 18013: what the Verifier of the mdoc crate does    *)
(* with each message (verifier.rs), and what the holder sends and checks   *)
(* (holder/disclosure).  A Verifier session is a record; a handler gives   *)
(* the answer and the next session.                                        *)
(*                                                                         *)
(* A message is recognised by its kind: what cannot be deserialised as the *)
(* type that a state expects is refused before anything happens.           *)
(***************************************************************************)
EXTENDS RequestMatching

-----------------------------------------------------------------------------
(* Sessions of a verifier, in either protocol.                              *)

Ended(result) == [state |-> result]
Finished(attributes, nonce) == [state |-> "Done", attributes |-> attributes, nonce |-> nonce]

IsActive(session) == session.state \in {"Created", "WaitingForResponse"}

\* A use case wants a return URL for some types of session.
WantsReturnUrl(use_case, session_type) ==
    \/ use_case.return_url = "both"
    \/ use_case.return_url = "same_device" /\ session_type = "same_device"

\* The nonce in the return URL.  It is new for every answer, so it is named by
\* what the wallet engaged with.
ReturnUrlNonce(use_case, session_type, engagement) ==
    IF WantsReturnUrl(use_case, session_type) THEN Some([nonce_for |-> engagement]) ELSE None

\* new_session: a return URL is given exactly if the use case may need one.
ReturnUrlConfigured(use_case, return_url) ==
    IF use_case.return_url = "neither" THEN return_url = None ELSE return_url # None

\* The URL of the verifier in a link or a QR code; it is good for a while.
EphemeralIdValidity == 1
VerifierUrl(session_type, time) == [session_type |-> session_type, time |-> time]
verify_ephemeral_id(url, now) == ~(now - EphemeralIdValidity > url.time)

\* The type of session that a link or a QR code should be for.
ExpectedType(source) == IF source = "link" THEN "same_device" ELSE "cross_device"

\* Who asks for the result needs the nonce that was in the return URL.
disclosed_attributes(session, nonce) ==
    IF session.state = "Done" /\ (session.nonce = None \/ nonce = session.nonce)
    THEN Some(session.attributes) ELSE None

-----------------------------------------------------------------------------
(* Engagements, the transcript of the session and the keys made from it.    *)

ReaderEngagement(key, url) == [key |-> key, url |-> url]

OriginInfos == <<[cat |-> "received", typ |-> "website"], [cat |-> "delivered", typ |-> "message"]>>
DeviceEngagement(key) == [kind |-> "engagement", key |-> key, origin_infos |-> OriginInfos]
verify_origin_infos(engagement) == engagement.origin_infos = OriginInfos

\* Only a link is part of the transcript.
new_iso(session_type, reader_engagement, device_engagement) ==
    [device_engagement |-> device_engagement, reader_key |-> reader_engagement.key,
     handover |-> IF session_type = "same_device" THEN Some(reader_engagement) ELSE None]

SessionKey(ours, theirs, transcript, user) ==
    [dh |-> {ours, theirs}, salt |-> transcript, user |-> user]

\* Session data holds a ciphertext or a status.
StatusData(status) == [kind |-> "data", data |-> None, status |-> Some(status)]
encrypt(payload, key) ==
    [kind |-> "data", data |-> Some([key |-> key, payload |-> payload]), status |-> None]
Decrypts(data, key) == data.data # None /\ data.data[1].key = key
Plaintext(data) == data.data[1].payload

-----------------------------------------------------------------------------
(* The verifier.                                                            *)

IsoCreated(requests, return_url, key) ==
    [state |-> "Created", requests |-> requests, return_url |-> return_url, key |-> key]

\* A detached signature over the transcript and one items request.
ReaderAuthentication(transcript, request) == [transcript |-> transcript, request |-> request]
DocRequest(request, transcript, pair) ==
    [request |-> request,
     reader_auth |-> Some(Detached(Cose(pair, ReaderAuthentication(transcript, request))))]
new_device_request(requests, transcript, return_url, pair) ==
    [doc_requests |-> [i \in DOMAIN requests |-> DocRequest(requests[i], transcript, pair)],
     return_url |-> return_url]

\* process_device_engagement: any failure ends the session and is reported as a
\* decoding error.
process_device_engagement(session, engagement, url, use_case) ==
    LET transcript == new_iso(url.session_type, ReaderEngagement(session.key, url), engagement)
        wants == WantsReturnUrl(use_case[1], url.session_type)
        nonce == ReturnUrlNonce(use_case[1], url.session_type, engagement.key)
        request == new_device_request(session.requests, transcript, nonce, use_case[1].pair)
        key(user) == SessionKey(session.key, engagement.key, transcript, user)
    IN  IF ~verify_origin_infos(engagement) \/ use_case = None \/ (wants /\ session.return_url = None)
        THEN [reply |-> StatusData("decoding_error"), next |-> Ended("Failed")]
        ELSE [reply |-> encrypt(request, key("reader")),
              next |-> [state |-> "WaitingForResponse", requests |-> session.requests, nonce |-> nonce,
                        their_key |-> key("device"), transcript |-> transcript]]

\* The status that ends a session decides how it ends.
StatusResult(status) == IF status = "termination" THEN "Cancelled" ELSE "Failed"

ResponseVerifies(session, data, now, anchors) ==
    /\ Decrypts(data, session.their_key)
    /\ DeviceResponseVerify(Plaintext(data), session.transcript, now, anchors)
    /\ match_against_response(session.requests, Plaintext(data))

process_response(session, data, now, anchors) ==
    CASE data.status # None ->
             [reply |-> StatusData("termination"), next |-> Ended(StatusResult(data.status[1]))]
      [] data.status = None /\ ResponseVerifies(session, data, now, anchors) ->
             [reply |-> StatusData("termination"),
              next |-> Finished(DisclosedAttributes(Plaintext(data)), session.nonce)]
      [] OTHER -> [reply |-> StatusData("decoding_error"), next |-> Ended("Failed")]

\* process_message.  The ephemeral id is checked first, so that a client may try
\* again with a newer one.
IsoProcess(session, message, url, now, use_case, anchors) ==
    LET refused == [ok |-> FALSE, next |-> session]
        answered(r) == [ok |-> TRUE, reply |-> r.reply, next |-> r.next]
    IN  CASE session.state = "Created" /\ verify_ephemeral_id(url, now) /\ message.kind = "engagement" ->
                 answered(process_device_engagement(session, message, url, use_case))
          [] session.state = "WaitingForResponse" /\ message.kind = "data" ->
                 answered(process_response(session, message, now, anchors))
          [] OTHER -> refused

-----------------------------------------------------------------------------
(* The holder.                                                              *)

\* transcript_and_keys_for_device_engagement
HolderKeys(reader_engagement, engagement) ==
    LET transcript == new_iso(reader_engagement.url.session_type, reader_engagement, engagement)
        key(user) == SessionKey(engagement.key, reader_engagement.key, transcript, user)
    IN  [transcript |-> transcript, reader_key |-> key("reader"), device_key |-> key("device")]

DocRequestVerifies(doc_request, transcript, now, anchors) ==
    CoseVerifyAgainst(Attached(doc_request.reader_auth[1],
                               ReaderAuthentication(transcript, doc_request.request)),
                      "reader", now, anchors)

ItemsRequestsOf(request) == [i \in DOMAIN request.doc_requests |-> request.doc_requests[i].request]
Certificates(request) ==
    {request.doc_requests[i].reader_auth[1].certificate : i \in DOMAIN request.doc_requests}

\* DeviceRequest::verify: all requests are signed, by one reader, who is
\* registered and may ask for these attributes.
DeviceRequestVerifies(request, transcript, now, anchors) ==
    /\ request.doc_requests # <<>>
    /\ \A i \in DOMAIN request.doc_requests :
           /\ request.doc_requests[i].reader_auth # None
           /\ DocRequestVerifies(request.doc_requests[i], transcript, now, anchors)
    /\ \A certificate \in Certificates(request) :
           /\ Certificates(request) = {certificate}
           /\ RegistrationFor(certificate, "reader") # None
           /\ verify_requested_attributes(RegistrationFor(certificate, "reader")[1],
                                          ItemsRequestsOf(request))

\* verify_device_request: an error, missing attributes or a proposal.  groups:
\* the stored attestations of the requested types.
verify_device_request(request, transcript, groups, now, anchors) ==
    LET requests == ItemsRequestsOf(request)
    IN  IF AllIdentifiers(requests) # {} /\ DeviceRequestVerifies(request, transcript, now, anchors)
        THEN CheckResult(requests, groups, transcript)
        ELSE [kind |-> "error"]

\* report_error_back: how an error in the first answer is told to the verifier.
IsoReport(answer, key) ==
    IF ~Decrypts(answer, key) THEN StatusData("encryption_error") ELSE StatusData("termination")

\* The answer to a response is good unless its status is an error.
IsoAccepted(reply) == reply.status = None \/ reply.status[1] = "termination"
=============================================================================
