----------------------------- MODULE VpDisclosure -----------------------------
(***************************************************************************)
(* Disclosure with OpenID4VP: what the Verifier of openid4vc does with     *)
(* each request (verifier.rs), and what the wallet sends and checks        *)
(* (disclosure_session.rs, openid4vp.rs, presentation_exchange.rs).        *)
(***************************************************************************)
EXTENDS IsoDisclosure

-----------------------------------------------------------------------------
(* Requests.  A presentation definition has an input descriptor for every   *)
(* items request; its id is the document type, its fields are the paths of  *)
(* the attributes.                                                          *)

PresentationDefinition(id, requests) ==
    [id |-> id,
     input_descriptors |-> [i \in DOMAIN requests |->
         [id |-> requests[i].doc_type, fields |-> {[path |-> <<"$", a[1], a[2]>>] : a \in requests[i].items}]]]

parse_paths(fields) == {<<f.path[2], f.path[3]>> : f \in fields}

\* The conversion back.
ItemsRequestsFrom(definition) ==
    LET descriptors == definition.input_descriptors
    IN  [i \in DOMAIN descriptors |->
            ItemsRequest(descriptors[i].id, parse_paths(descriptors[i].fields))]

new_oid4vp(response_uri, client_id, nonce, mdoc_nonce) ==
    [client_id_hash |-> <<client_id, mdoc_nonce>>, response_uri_hash |-> <<response_uri, mdoc_nonce>>,
     nonce |-> nonce]

\* A verifier is asked for by the DNS name in its certificate.  Nonce, key and
\* definition are named by the wallet's nonce: they are new for every request.
IsoVpAuthorizationRequest(requests, certificate, wallet_nonce) ==
    [client_id |-> certificate.dns[1], nonce |-> <<"nonce", wallet_nonce>>,
     encryption_pubkey |-> [kty |-> "EC", crv |-> "P-256", key |-> <<"encryption", wallet_nonce>>],
     response_uri |-> "response_uri", items_requests |-> requests,
     presentation_definition |-> PresentationDefinition(<<"definition", wallet_nonce>>, requests),
     state |-> None, wallet_nonce |-> wallet_nonce]

\* What goes over the wire has more fields, and most of them are optional.
IntoVpAuthorizationRequest(request) ==
    [client_id |-> request.client_id, response_type |-> "vp_token",
     absent |-> {"authorization_details", "code_challenge", "redirect_uri", "scope", "request_uri", "state"},
     nonce |-> Some(request.nonce), response_mode |-> Some("direct_post.jwt"),
     client_id_scheme |-> Some("x509_san_dns"), response_uri |-> Some(request.response_uri),
     presentation_definition |-> <<"direct", request.presentation_definition>>,
     client_metadata |-> Some(<<"direct", [jwks |-> <<"direct", <<request.encryption_pubkey>>>>]>>),
     wallet_nonce |-> request.wallet_nonce]

validate(jwk) == jwk.kty = "EC" /\ jwk.crv = "P-256"

\* IsoVpAuthorizationRequest::try_from: the profile says which fields there are.
FitsProfile(request) ==
    /\ {"authorization_details", "code_challenge", "redirect_uri", "scope", "request_uri"} \subseteq request.absent
    /\ request.nonce # None /\ request.response_uri # None /\ request.client_metadata # None
    /\ request.response_type = "vp_token"
    /\ request.response_mode = Some("direct_post.jwt") /\ request.client_id_scheme = Some("x509_san_dns")
    /\ request.presentation_definition[1] = "direct" /\ request.client_metadata[1][1] = "direct"
    /\ LET jwks == request.client_metadata[1][2].jwks
       IN  jwks[1] = "direct" /\ Len(jwks[2]) = 1 /\ validate(jwks[2][1])
    /\ \E i \in DOMAIN request.presentation_definition[2].input_descriptors :
           request.presentation_definition[2].input_descriptors[i].fields # {}

FromVpAuthorizationRequest(request) ==
    [client_id |-> request.client_id, nonce |-> request.nonce[1],
     encryption_pubkey |-> request.client_metadata[1][2].jwks[2][1],
     response_uri |-> request.response_uri[1],
     items_requests |-> ItemsRequestsFrom(request.presentation_definition[2]),
     presentation_definition |-> request.presentation_definition[2],
     state |-> None, wallet_nonce |-> request.wallet_nonce]

\* A JWT carries the certificate of its signer.
sign_with_certificate(request, pair) == Cose(pair, request)

-----------------------------------------------------------------------------
(* The verifier.                                                            *)

VpCreated(requests, return_url, client_id) ==
    [state |-> "Created", requests |-> requests, return_url |-> return_url, client_id |-> client_id]

\* process_get_request.  A failure ends the session, except that of an ephemeral
\* id that is too old.
process_get_request(session, url, wallet_nonce, now, use_case) ==
    LET redirect == ReturnUrlNonce(use_case[1], url.session_type, wallet_nonce)
        request == IsoVpAuthorizationRequest(session.requests, use_case[1].pair.certificate, wallet_nonce)
        broken == \/ use_case = None
                  \/ WantsReturnUrl(use_case[1], url.session_type) /\ session.return_url = None
                  \/ use_case[1].pair.certificate.dns = None
    IN  CASE session.state # "Created" \/ ~verify_ephemeral_id(url, now) ->
                 [ok |-> FALSE, next |-> session]
          [] session.state = "Created" /\ verify_ephemeral_id(url, now) /\ broken ->
                 [ok |-> FALSE, next |-> Ended("Failed")]
          [] OTHER ->
                 [ok |-> TRUE, reply |-> sign_with_certificate(IntoVpAuthorizationRequest(request), use_case[1].pair),
                  next |-> [state |-> "WaitingForResponse", requests |-> session.requests,
                            auth_request |-> request, redirect_uri |-> redirect]]

\* PresentationSubmission::verify
SubmissionVerifies(submission, documents, definition) ==
    /\ submission.definition_id = definition.id
    /\ submission.descriptor_map = [i \in DOMAIN documents |->
                                       [id |-> documents[i].doc_type, path |-> "$"]]

\* decrypt: a JWE is for one key and names the nonces of both sides.
DecryptsJwe(jwe, auth_request) ==
    jwe.to = auth_request.encryption_pubkey /\ jwe.apv = auth_request.nonce

\* VpAuthorizationResponse::verify
VpResponseVerifies(auth_request, response, mdoc_nonce, now, anchors) ==
    LET transcript == new_oid4vp(auth_request.response_uri, auth_request.client_id,
                                 auth_request.nonce, mdoc_nonce)
    IN  /\ Len(response.vp_token) = 1
        /\ DeviceResponseVerify(response.vp_token[1], transcript, now, anchors)
        /\ match_against_response(auth_request.items_requests, response.vp_token[1])
        /\ SubmissionVerifies(response.submission, response.vp_token[1],
                              auth_request.presentation_definition)
        /\ response.state = auth_request.state

decrypt_and_verify(auth_request, jwe, now, anchors) ==
    /\ DecryptsJwe(jwe, auth_request)
    /\ VpResponseVerifies(auth_request, jwe.payload, jwe.apu, now, anchors)

\* process_authorization_response: what the wallet sends is a response or an
\* error; an error is confirmed.
process_authorization_response(session, message, now, anchors) ==
    CASE session.state # "WaitingForResponse" -> [ok |-> FALSE, next |-> session]
      [] session.state = "WaitingForResponse" /\ message.kind = "error" ->
             [ok |-> TRUE, reply |-> session.redirect_uri,
              next |-> Ended(IF message.code = "access_denied" THEN "Cancelled" ELSE "Failed")]
      [] session.state = "WaitingForResponse" /\ message.kind = "response" ->
             IF decrypt_and_verify(session.auth_request, message.jwe, now, anchors)
             THEN [ok |-> TRUE, reply |-> session.redirect_uri,
                   next |-> Finished(DisclosedAttributes(message.jwe.payload.vp_token[1]),
                                     session.redirect_uri)]
             ELSE [ok |-> FALSE, next |-> Ended("Failed")]

-----------------------------------------------------------------------------
(* The wallet.                                                              *)

\* VpAuthorizationRequest::verify: the signer is trusted, speaks for the client
\* id and answers this wallet, and the request fits the profile.
AuthorizationRequestVerifies(jws, wallet_nonce, now, anchors) ==
    LET request == jws.payload[1]
    IN  /\ CoseVerifyAgainst(jws, "reader", now, anchors)
        /\ jws.certificate.dns = Some(request.client_id)
        /\ request.wallet_nonce = wallet_nonce
        /\ FitsProfile(request)

\* process_request, and whether its error is reported to the verifier.  groups:
\* the stored attestations of the requested types.
process_request(jws, client_id, mdoc_nonce, groups) ==
    LET request == FromVpAuthorizationRequest(jws.payload[1])
        requests == request.items_requests
        registration == RegistrationFor(jws.certificate, "reader")
        transcript == new_oid4vp(request.response_uri, request.client_id, request.nonce, mdoc_nonce)
    IN  IF \/ request.client_id # client_id
           \/ registration = None
           \/ ~verify_requested_attributes(registration[1], requests)
        THEN [kind |-> "error"]
        ELSE CheckResult(requests, groups, transcript)

VpError(code) == [kind |-> "error", code |-> code]

VpAuthorizationResponse(documents, request) ==
    [vp_token |-> <<documents>>, state |-> request.state,
     submission |-> [definition_id |-> request.presentation_definition.id,
                     descriptor_map |-> [i \in DOMAIN documents |->
                         [id |-> documents[i].doc_type, path |-> "$"]]]]

encrypt_jwe(payload, request, mdoc_nonce) ==
    [to |-> request.encryption_pubkey, apu |-> mdoc_nonce, apv |-> request.nonce, payload |-> payload]

new_encrypted(documents, request, mdoc_nonce) ==
    [kind |-> "response",
     jwe |-> encrypt_jwe(VpAuthorizationResponse(documents, request), request, mdoc_nonce)]
=============================================================================
