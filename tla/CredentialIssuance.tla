-------------------------- MODULE CredentialIssuance --------------------------
(***************************************************************************)
(* The messages of an issuance session, at both ends: the client of the    *)
(* wallet (issuance_session.rs) asks for a token and then for credentials, *)
(* and checks what it gets; the issuer (issuer.rs) checks what it is asked *)
(* and signs.  Keys, proofs of possession, credential requests and         *)
(* responses are paired by their position in a flat list.                  *)
(***************************************************************************)
EXTENDS Attestation

-----------------------------------------------------------------------------
(* DPoP headers: a signature over the request, and the key to check it with.*)

DpopPayload(url, method, token, nonce) ==
    [url |-> url, method |-> method, token |-> token, nonce |-> nonce]

Dpop(key, url, method, token, nonce) ==
    LET payload == DpopPayload(url, method, token, nonce)
    IN  [jwk |-> key, payload |-> payload, signature |-> Signature(key, payload)]

\* The first request of a session: the key in the header is taken over.
DpopVerify(dpop, url, method, token) ==
    /\ dpop.signature = Signature(dpop.jwk, dpop.payload)
    /\ dpop.payload = DpopPayload(url, method, token, None)

DpopVerifyExpectingKey(dpop, key, url, method, token, nonce) ==
    /\ dpop.signature = Signature(key, dpop.payload)
    /\ dpop.payload = DpopPayload(url, method, token, nonce)
    /\ dpop.jwk = key

-----------------------------------------------------------------------------
(* The token request.                                                       *)

\* An access token ends with the code of its session.
AccessToken(code) == [random |-> "token", code |-> code]

AttestationPreview(unsigned, issuer) == [unsigned |-> unsigned, issuer |-> issuer]

\* process_token_request of the issuer.  What the attribute service answers is
\* given: previews, unless it does not accept the code.
GrantToken(code, pre_authorized, dpop, previews) ==
    IF ~pre_authorized \/ ~DpopVerify(dpop, "token", "POST", None) \/ previews = None
    THEN [ok |-> FALSE, next |-> [state |-> "Failed"]]
    ELSE [ok |-> TRUE, dpop_nonce |-> Some("dpop nonce"),
          response |-> [access_token |-> AccessToken(code), c_nonce |-> Some("c nonce"),
                        previews |-> previews[1]],
          next |-> [state |-> "WaitingForResponse", access_token |-> AccessToken(code),
                    c_nonce |-> "c nonce", previews |-> previews[1],
                    dpop_public_key |-> dpop.jwk, dpop_nonce |-> "dpop nonce"]]

\* start_issuance of the client: the certificates in the previews are trusted.
PreviewsVerify(response, time, anchors) ==
    /\ \A i \in DOMAIN response.previews :
           CertificateVerify(response.previews[i].issuer, "mdl", time, anchors)
    /\ response.c_nonce # None

IssuanceState(response, dpop_key, dpop_nonce) ==
    [access_token |-> response.access_token, c_nonce |-> response.c_nonce[1],
     previews |-> response.previews, dpop_key |-> dpop_key, dpop_nonce |-> dpop_nonce]

-----------------------------------------------------------------------------
(* Credential requests.  Every copy of every attestation is asked for.      *)

RepeatCopies(previews) ==
    FlattenSeq([i \in DOMAIN previews |->
                   [k \in 1..previews[i].unsigned.copies |-> previews[i].unsigned]])

doctypes(previews) ==
    LET copies == RepeatCopies(previews)
    IN  [i \in DOMAIN copies |-> copies[i].doc_type]

ProofPayload(nonce) == [nonce |-> nonce, iss |-> "wallet", aud |-> "issuer"]

\* CredentialRequestProof::new_multiple with sign_jwts.  A proof names its key.
new_multiple(nonce, ids) ==
    LET payloads == [i \in DOMAIN ids |->
                        [jwk |-> PublicKey(ids[i]), claims |-> ProofPayload(nonce)]]
        signatures == SignEach(payloads, ids)
    IN  [i \in DOMAIN ids |-> [payload |-> payloads[i], signature |-> signatures[i]]]

CredentialRequests(state, ids) ==
    LET types == doctypes(state.previews)
        proofs == new_multiple(state.c_nonce, ids)
    IN  [i \in DOMAIN ids |-> [doctype |-> types[i], proof |-> proofs[i]]]

auth_headers(state, method) ==
    [dpop |-> Dpop(state.dpop_key, "batch_credential", method, Some(state.access_token), state.dpop_nonce),
     access_token |-> state.access_token]

-----------------------------------------------------------------------------
(* The issuer answers.                                                      *)

ProofVerifies(proof, nonce) ==
    /\ proof.signature = Signature(proof.payload.jwk, proof.payload)
    /\ proof.payload.claims = ProofPayload(nonce)

Authorized(session, headers, method) ==
    /\ session.access_token = headers.access_token
    /\ DpopVerifyExpectingKey(headers.dpop, session.dpop_public_key, "batch_credential", method,
                              Some(session.access_token), Some(session.dpop_nonce))

\* verify_pop_and_sign_attestation.  pairs: the key pair for a document type, if any.
MaySign(nonce, request, unsigned, pairs) ==
    /\ request.doctype = unsigned.doc_type
    /\ ProofVerifies(request.proof, nonce)
    /\ unsigned.doc_type \in DOMAIN pairs

\* process_batch_credential: request i is for attestation i of the flat list, and
\* the shorter of the two lists counts.  signs: what the issuer puts in its
\* attestations; length: how many random bytes it adds to an attribute.
BatchCredential(session, requests, headers, pairs, signs, length) ==
    LET offered == RepeatCopies(session.previews)
        signed == RepeatCopies(signs)
        n == Min({Len(requests), Len(offered)})
        ok == /\ Authorized(session, headers, "POST")
              /\ \A i \in 1..n : MaySign(session.c_nonce, requests[i], offered[i], pairs)
    IN  IF ~ok THEN [ok |-> FALSE, next |-> [state |-> "Failed"]]
        ELSE [ok |-> TRUE, next |-> [state |-> "Done"],
              credentials |-> [i \in 1..n |->
                  IssuerSignedSign(signed[i], requests[i].proof.payload.jwk,
                                   pairs[signed[i].doc_type], length)]]

\* process_reject_issuance: an unauthorized request leaves the session alone.
RejectIssuance(session, headers) ==
    IF Authorized(session, headers, "DELETE")
    THEN [ok |-> TRUE, next |-> [state |-> "Cancelled"]]
    ELSE [ok |-> FALSE, next |-> session]

-----------------------------------------------------------------------------
(* The client turns the answers into attestations.                          *)

AllRandoms(issuer_signed) ==
    UNION {{item.random.length : item \in ToSet(issuer_signed.name_spaces[ns])} :
              ns \in DOMAIN issuer_signed.name_spaces}

\* Mutant: the key in the attestation is not compared with ours.
into_mdoc_any_key(credential, id, preview, time, anchors) ==
    /\ \A length \in AllRandoms(credential) : length >= ATTR_RANDOM_LENGTH
    /\ credential.issuer_auth.certificate = preview.issuer
    /\ IssuerSignedVerify(credential, TRUE, time, anchors)
    /\ compare_unsigned(Mdoc(id, credential), preview.unsigned)

\* What into_mdoc requires of the credential for key id and this preview.  It may
\* not be valid yet.
into_mdoc(credential, id, preview, time, anchors) ==
    /\ Mso(credential).device_key = PublicKey(id)
    /\ \A length \in AllRandoms(credential) : length >= ATTR_RANDOM_LENGTH
    /\ credential.issuer_auth.certificate = preview.issuer
    /\ IssuerSignedVerify(credential, TRUE, time, anchors)
    /\ compare_unsigned(Mdoc(id, credential), preview.unsigned)

\* Where the copies of preview i are in the flat list (drain).
Before(previews, i) ==
    FoldSeq(LAMBDA p, n : p.unsigned.copies + n, 0, SubSeq(previews, 1, i - 1))

CopiesOf(previews, i) ==
    [k \in 1..previews[i].unsigned.copies |-> Before(previews, i) + k]

\* accept_issuance, given the answer: the copies of every attestation.
AcceptedCopies(state, ids, credentials, time, anchors) ==
    LET places(i) == CopiesOf(state.previews, i)
        ok == /\ Len(credentials) = Len(ids)
              /\ \A i \in DOMAIN state.previews : \A k \in DOMAIN places(i) :
                     LET at == places(i)[k]
                     IN  into_mdoc(credentials[at], ids[at], state.previews[i], time, anchors)
    IN  IF ~ok THEN None
        ELSE Some([i \in DOMAIN state.previews |->
                      [k \in DOMAIN places(i) |->
                          Mdoc(ids[places(i)[k]], credentials[places(i)[k]])]])
=============================================================================
