---------------------------- MODULE ErrorReports ----------------------------
(***************************************************************************)
(* What the user is told when a call of the app fails: an error of the     *)
(* wallet provider, the issuer or a verifier becomes an HTTP answer, the   *)
(* answer or its absence an error of one of the wallet's clients, that one *)
(* an error of the wallet's operation, and that one the result or the      *)
(* error type that the app gets.                                           *)
(*                                                                         *)
(* An error is the path of enum variants from the outermost one inwards,   *)
(* with the data that the innermost one carries.  A successful result has  *)
(* the empty path.                                                         *)
(***************************************************************************)
EXTENDS Integers, Sequences

CONSTANTS PinFailures,  \* <<attempts left in the round, whether it is the final round>>
          TimeoutsMs    \* <<milliseconds>>

VARIABLES holder,    \* the wallet: registered, locked, its sessions
          account,   \* "active" or "blocked" at the wallet provider
          ongoing,   \* the call of the app that is being handled
          report,    \* what the app was told about the last call
          fate       \* what really happened during the last call (history variable)

errorVars == <<holder, account, ongoing, report, fate>>

-----------------------------------------------------------------------------
(* Paths of variants.                                                       *)

Error(path, data) == [path |-> path, data |-> data]
Plain(path) == Error(path, <<>>)
Fine == Plain(<<>>)

Under(prefix, e) == Len(prefix) <= Len(e.path) /\ SubSeq(e.path, 1, Len(prefix)) = prefix
Wrap(prefix, e) == IF e = Fine THEN Fine ELSE [e EXCEPT !.path = prefix \o @]
Within(n, e) == [e EXCEPT !.path = SubSeq(@, n + 1, Len(@))]
VariantsOf(prefix, names) == {Plain(prefix \o <<v>>) : v \in names}

-----------------------------------------------------------------------------
(* Errors of the wallet provider.                                           *)

WalletCertificateErrors ==
    {"PinPubKeyEncoding", "PinPubKeyDecoding", "HwPubKeyMismatch", "PinPubKeyMismatch", "Validation",
     "UserNotRegistered", "Persistence", "HsmError"}

ChallengeErrors ==
    VariantsOf(<<"Challenge">>, {"ChallengeSigning", "Storage", "Validation", "SequenceNumberValidation"})
        \cup VariantsOf(<<"Challenge", "WalletCertificate">>, WalletCertificateErrors)

UserBlocked == Plain(<<"Challenge", "WalletCertificate", "UserBlocked">>)

RegistrationErrors ==
    VariantsOf(<<"Registration">>,
        {"ChallengeDecoding", "ChallengeValidation", "MessageParsing", "MessageValidation",
         "SerialNumberMismatch", "JwtSigning", "CertificateStorage", "PinPubKeyEncoding",
         "WalletCertificate", "HsmError"})

InstructionErrors ==
    VariantsOf(<<"Instruction">>, {"WalletCertificate", "Validation", "Signing", "Storage", "HsmError"})

\* What the PIN policy decides about an instruction.
Evaluations ==
    {Error(<<"Failed">>, f) : f \in PinFailures}
        \cup {Error(<<v>>, t) : v \in {"Timeout", "InTimeout"}, t \in TimeoutsMs}
        \cup {Plain(<<"BlockedPermanently">>)}

InstructionError_from(evaluation) ==
    LET v == evaluation.path[1]
    IN  CASE v = "Failed" -> Error(<<"Instruction", "IncorrectPin">>, evaluation.data)
          [] v \in {"Timeout", "InTimeout"} -> Error(<<"Instruction", "PinTimeout">>, evaluation.data)
          [] v = "BlockedPermanently" -> Plain(<<"Instruction", "AccountBlocked">>)

AccountError_from(e) ==
    LET v == e.path[2]
    IN  CASE e.path[1] = "Challenge" ->
               Plain(IF e = UserBlocked THEN <<"AccountBlocked">> ELSE <<"ChallengeValidation">>)
          [] e.path[1] = "Registration" ->
               Plain(CASE v \in {"ChallengeDecoding", "ChallengeValidation"} -> <<"ChallengeValidation">>
                       [] v \in {"MessageParsing", "MessageValidation", "SerialNumberMismatch"} ->
                              <<"RegistrationParsing">>
                       [] OTHER -> <<"Unexpected">>)
          [] e.path[1] = "Instruction" ->
               CASE v \in {"IncorrectPin", "PinTimeout"} -> Within(1, e)
                 [] v = "AccountBlocked" -> Plain(<<"AccountBlocked">>)
                 [] v = "Validation" -> Plain(<<"InstructionValidation">>)
                 [] OTHER -> Plain(<<"Unexpected">>)

account_status_code(type) ==
    CASE type = "Unexpected" -> 500
      [] type \in {"ChallengeValidation", "AccountBlocked"} -> 401
      [] type = "RegistrationParsing" -> 400
      [] type \in {"IncorrectPin", "PinTimeout", "InstructionValidation"} -> 403

-----------------------------------------------------------------------------
(* Errors of the issuer and the verifier, and their error codes.            *)

IssuanceErrors == {"UnexpectedState", "UnknownSession", "SessionStore", "DpopInvalid"}
SessionErrors == {"UnexpectedState", "Expired", "UnknownSession", "SessionStore"}

TokenRequestErrors ==
    VariantsOf(<<"IssuanceError">>, IssuanceErrors)
        \cup VariantsOf(<<>>, {"UnsupportedTokenRequestType", "AttributeService"})

CredentialRequestErrors ==
    VariantsOf(<<"IssuanceError">>, IssuanceErrors)
        \cup VariantsOf(<<>>,
               {"Unauthorized", "MalformedToken", "DoctypeNotOffered", "UseBatchIssuance",
                "UnsupportedCredentialFormat", "MissingJwk", "IncorrectNonce", "UnsupportedJwtAlgorithm",
                "JwtDecodingFailed", "JwkConversion", "CoseKeyConversion", "MissingPrivateKey",
                "AttestationSigning", "CborSerialization", "JsonSerialization", "DoctypeMismatch",
                "MissingCredentialRequestPoP"})

GetAuthRequestErrors ==
    VariantsOf(<<"Session">>, SessionErrors)
        \cup VariantsOf(<<>>,
               {"InvalidEphemeralId", "ExpiredEphemeralId", "EncryptionKey", "AuthRequest", "Jwt",
                "ReturnUrlConfigurationMismatch", "UnknownUseCase", "QueryParametersMissing",
                "QueryParametersDeserialization"})

PostAuthResponseErrors == VariantsOf(<<"Session">>, SessionErrors) \cup VariantsOf(<<>>, {"AuthResponse"})

\* Errors that say that the server is broken, not that the request was wrong.
OwnFailures ==
    {"SessionStore", "AttributeService", "CoseKeyConversion", "MissingPrivateKey", "AttestationSigning",
     "CborSerialization", "JsonSerialization", "EncryptionKey", "AuthRequest", "Jwt",
     "ReturnUrlConfigurationMismatch", "UnknownUseCase"}
IsOwnFailure(e) == e.path[Len(e.path)] \in OwnFailures

TokenErrorCode(e) ==
    CASE e.path = <<"IssuanceError", "SessionStore">> \/ Under(<<"AttributeService">>, e) -> "server_error"
      [] Under(<<"IssuanceError">>, e) /\ e.path[2] # "SessionStore" -> "invalid_request"
      [] Under(<<"UnsupportedTokenRequestType">>, e) -> "unsupported_grant_type"

CredentialErrorCode(e) ==
    LET v == e.path[1]
    IN  CASE e.path = <<"IssuanceError", "SessionStore">>
             \/ v \in {"CoseKeyConversion", "MissingPrivateKey", "AttestationSigning", "CborSerialization",
                       "JsonSerialization"} -> "server_error"
          [] (v = "IssuanceError" /\ e.path[2] # "SessionStore") \/ v = "UseBatchIssuance" -> "invalid_request"
          [] v \in {"Unauthorized", "MalformedToken"} -> "invalid_token"
          [] v \in {"UnsupportedJwtAlgorithm", "MissingJwk", "IncorrectNonce", "JwtDecodingFailed",
                    "JwkConversion", "MissingCredentialRequestPoP"} -> "invalid_proof"
          [] v \in {"DoctypeMismatch", "DoctypeNotOffered"} -> "invalid_credential_request"
          [] v = "UnsupportedCredentialFormat" -> "unsupported_credential_format"

GetRequestErrorCode(e) ==
    LET v == e.path[Len(e.path)]
    IN  CASE v = "ExpiredEphemeralId" -> "expired_ephemeral_id"
          [] v = "Expired" -> "expired_session"
          [] v = "UnknownSession" -> "unknown_session"
          [] v \in {"EncryptionKey", "AuthRequest", "Jwt", "ReturnUrlConfigurationMismatch",
                    "UnknownUseCase", "SessionStore"} -> "server_error"
          [] v \in {"QueryParametersMissing", "QueryParametersDeserialization", "InvalidEphemeralId",
                    "UnexpectedState"} -> "invalid_request"

PostAuthResponseErrorCode(e) ==
    LET v == e.path[Len(e.path)]
    IN  CASE v = "Expired" -> "expired_session"
          [] v = "SessionStore" -> "server_error"
          [] v = "UnknownSession" -> "unknown_session"
          [] v \in {"AuthResponse", "UnexpectedState"} -> "invalid_request"

issuance_status_code(code) ==
    CASE code = "server_error" -> 500
      [] code \in {"invalid_token", "invalid_client"} -> 401
      [] OTHER -> 400

verifier_status_code(code) ==
    CASE code = "server_error" -> 500
      [] code \in {"expired_session", "unknown_session"} -> 404
      [] code = "invalid_request" -> 400
      [] code = "expired_ephemeral_id" -> 401

-----------------------------------------------------------------------------
(* Answers.  The body of an answer that is read as JSON has a type, and     *)
(* possibly data.  A body may arrive whole, garbled, or not before the time *)
(* limit.  Without an answer there is the kind of the reqwest error.        *)

Answer(status, content, type, data) ==
    [kind |-> "response", status |-> status, content |-> content, type |-> type, data |-> data,
     read |-> "whole"]
NoAnswer(kind) == [Answer(0, "empty", "", <<>>) EXCEPT !.kind = kind, !.read = "stalled"]
Refused(a) == a.kind = "response" /\ a.status >= 400

\* HttpJsonError::into_response.
HttpJsonError(e) == Answer(account_status_code(e.path[1]), "problem+json", e.path[1], e.data)

\* wallet_server's ErrorResponse::into_response.
ErrorResponse(code, status) == Answer(status, "json", code, <<>>)

\* What proxies and gateways answer when they cannot reach the server.
GatewayAnswers ==
    {Answer(502, "html", "", <<>>), Answer(503, "empty", "", <<>>), Answer(429, "plain", "", <<>>),
     Answer(400, "json", "about:blank", <<>>), Answer(200, "html", "", <<>>)}

Unanswered == {NoAnswer(k) : k \in {"timeout", "connect", "request"}}
Damaged(a) == {[a EXCEPT !.read = r] : r \in {"garbled", "stalled"}}

\* The kind of the reqwest error when the body cannot be read.
ReadError(a) == IF a.read = "stalled" THEN "timeout" ELSE "decode"
Whole(a) == a.read = "whole" /\ a.content \in {"json", "problem+json"}

-----------------------------------------------------------------------------
(* The clients.                                                             *)

AccountErrorTypes ==
    {"Unexpected", "ChallengeValidation", "RegistrationParsing", "IncorrectPin", "PinTimeout",
     "AccountBlocked", "InstructionValidation"}

try_from_type_and_data(type, data) ==
    IF type \in {"IncorrectPin", "PinTimeout"} THEN Error(<<type>>, data) ELSE Plain(<<type>>)

from_json_body(a) ==
    IF a.read = "whole" /\ a.type \in AccountErrorTypes
    THEN Wrap(<<"Account">>, try_from_type_and_data(a.type, a.data))
    ELSE Plain(<<"Text">>)

AccountProviderResponseError(a) ==
    CASE a.content \in {"json", "problem+json"} /\ a.read # "stalled" -> from_json_body(a)
      [] a.content = "plain" /\ a.read # "stalled" -> Plain(<<"Text">>)
      [] a.content \in {"empty", "html"} \/ a.read = "stalled" -> Plain(<<"Status">>)

send_json_request(a) ==
    CASE a.kind # "response" -> Plain(<<"Networking", "reqwest", a.kind>>)
      [] Refused(a) -> Wrap(<<"Response">>, AccountProviderResponseError(a))
      [] a.kind = "response" /\ ~Refused(a) ->
             IF Whole(a) THEN Fine ELSE Plain(<<"Networking", "reqwest", ReadError(a)>>)

\* error_for_status, and a body that is read as JSON.
CheckedRequest(a) ==
    CASE a.kind # "response" -> Plain(<<"reqwest", a.kind>>)
      [] Refused(a) -> Plain(<<"reqwest", "status">>)
      [] a.kind = "response" /\ ~Refused(a) -> IF Whole(a) THEN Fine ELSE Plain(<<"reqwest", ReadError(a)>>)

\* A refusal is parsed as an ErrorResponse, with its code.
OpenidRequest(a, network, refusal, codes) ==
    CASE a.kind # "response" -> Plain(<<network, "reqwest", a.kind>>)
      [] Refused(a) -> IF Whole(a) /\ a.type \in codes THEN Plain(<<refusal, a.type>>)
                       ELSE Plain(<<network, "reqwest", ReadError(a)>>)
      [] a.kind = "response" /\ ~Refused(a) ->
             IF Whole(a) THEN Fine ELSE Plain(<<network, "reqwest", ReadError(a)>>)

TokenErrorCodes == {"invalid_request", "invalid_client", "unsupported_grant_type", "server_error"}
CredentialErrorCodes ==
    {"invalid_credential_request", "unsupported_credential_format", "invalid_proof", "invalid_request",
     "invalid_token", "server_error"}
VerifierErrorCodes ==
    {"invalid_request", "expired_ephemeral_id", "expired_session", "unknown_session", "server_error"}

RequestToken(a) == OpenidRequest(a, "Network", "TokenRequest", TokenErrorCodes)
request_credentials(a) == OpenidRequest(a, "Network", "CredentialRequest", CredentialErrorCodes)

\* The body of a successful answer is not read.
reject(a) ==
    IF a.kind = "response" /\ ~Refused(a) THEN Fine
    ELSE OpenidRequest(a, "Network", "CredentialRequest", CredentialErrorCodes)

\* The body is a signed request, whatever the type of its content is said to be.
get_authorization_request(a) ==
    IF a.kind = "response" /\ ~Refused(a) /\ a.read = "whole"
    THEN IF a.content = "json" THEN Fine ELSE Plain(<<"AuthRequestValidation">>)
    ELSE Wrap(<<"Request">>, OpenidRequest(a, "Http", "ErrorResponse", VerifierErrorCodes))

VpResponse(a) ==
    CASE a.read = "stalled" -> Plain(<<"Http", "reqwest", "timeout">>)
      [] a.read # "stalled" /\ (Whole(a) \/ a.content = "empty") -> Fine
      [] a.read # "stalled" /\ ~(Whole(a) \/ a.content = "empty") -> Plain(<<"Json">>)

send_authorization_response(a) ==
    Wrap(<<"Request">>,
         IF a.kind = "response" /\ ~Refused(a) THEN VpResponse(a)
         ELSE OpenidRequest(a, "Http", "ErrorResponse", VerifierErrorCodes))

send_error(a) ==
    Wrap(<<"Request">>,
         IF a.kind = "response" /\ ~Refused(a) THEN VpResponse(a) ELSE Wrap(<<"Http">>, CheckedRequest(a)))

\* CborHttpClient::post.
IsoPost(a) ==
    Wrap(<<"Holder", "RequestError">>,
         IF a.kind = "response" /\ ~Refused(a) /\ a.read # "stalled"
         THEN IF Whole(a) THEN Fine ELSE Plain(<<"Cbor">>)
         ELSE Wrap(<<"Request">>, CheckedRequest(a)))

-----------------------------------------------------------------------------
(* Errors of the wallet's operations.                                       *)

InstructionErrorFrom(e) ==
    LET of == IF Under(<<"Response", "Account">>, e) THEN e.path[3] ELSE ""
    IN  CASE of = "IncorrectPin" -> Error(<<"IncorrectPin">>, e.data)
          [] of = "PinTimeout" -> Error(<<"Timeout">>, e.data)
          [] of = "AccountBlocked" -> Plain(<<"Blocked">>)
          [] of = "InstructionValidation" -> Plain(<<"InstructionValidation">>)
          [] of \notin {"IncorrectPin", "PinTimeout", "AccountBlocked", "InstructionValidation"} ->
                 Wrap(<<"ServerError">>, e)

\* accept_pid_issuance: errors of the remote keys are taken out of the session's error.
PidIssuanceErrorFrom(e) ==
    LET remote == {<<"PrivateKeyGeneration">>, <<"Jwt", "Signing">>}
    IN  IF \E p \in remote : Under(p, e)
        THEN Wrap(<<"PidIssuance">>, Within(Len(CHOOSE p \in remote : Under(p, e)), e))
        ELSE Wrap(<<"PidIssuance", "PidIssuer">>, e)

\* Mutant: an instruction that fails while an OpenID4VP answer is signed stays where it is.
DisclosureErrorFrom_iso(e) ==
    LET iso == <<"Iso", "Cose", "Signing">>
    IN  CASE Under(iso \o <<"Instruction">>, e) -> Wrap(<<"Disclosure">>, Within(3, e))
          [] Under(<<"Iso">>, e) /\ ~Under(iso \o <<"Instruction">>, e) ->
                 Wrap(<<"Disclosure", "IsoDisclosureSession">>, Within(1, e))
          [] Under(<<"Vp">>, e) -> Wrap(<<"Disclosure", "VpDisclosureSession">>, Within(1, e))

DisclosureErrorFrom(e) ==
    LET iso == Under(<<"Iso", "Cose", "Signing", "Instruction">>, e)
        vp == Under(<<"Vp", "DeviceResponse", "Cose", "Signing", "Instruction">>, e)
    IN  CASE iso -> Wrap(<<"Disclosure">>, Within(3, e))
          [] vp -> Wrap(<<"Disclosure">>, Within(4, e))
          [] Under(<<"Iso">>, e) /\ ~iso -> Wrap(<<"Disclosure", "IsoDisclosureSession">>, Within(1, e))
          [] Under(<<"Vp">>, e) /\ ~vp -> Wrap(<<"Disclosure", "VpDisclosureSession">>, Within(1, e))

PinCalls == {"unlock", "accept_pid", "accept_disclosure"}

\* A key of the wallet provider is used within a layer of the protocol.
RemoteKeyError(call, use, protocol, e) ==
    CASE call = "accept_pid" ->
             PidIssuanceErrorFrom(Wrap(IF use = "generate" THEN <<"PrivateKeyGeneration">> ELSE <<"Jwt", "Signing">>, e))
      [] call = "accept_disclosure" ->
             DisclosureErrorFrom(Wrap(IF protocol = "iso" THEN <<"Iso", "Cose", "Signing">>
                                      ELSE <<"Vp", "DeviceResponse", "Cose", "Signing">>, e))

InstructionFails(call, use, protocol, e) ==
    IF call = "unlock" THEN Wrap(<<"WalletUnlock", "Instruction">>, e)
    ELSE RemoteKeyError(call, use, protocol, Wrap(<<"Instruction">>, e))

VerifierFails(protocol, e) == DisclosureErrorFrom(Wrap(IF protocol = "iso" THEN <<"Iso">> ELSE <<"Vp">>, e))

\* The error of the operation when its client gets this answer.
ExchangeError(call, step, protocol, a) ==
    LET to == step.to
        Verifier(e) == IF e = Fine THEN Fine ELSE VerifierFails(protocol, e)
        Issuer(e) == IF e = Fine THEN Fine ELSE PidIssuanceErrorFrom(e)
    IN  CASE to = "enroll" -> Wrap(<<"WalletRegistration", "ChallengeRequest">>, send_json_request(a))
          [] to = "createwallet" -> Wrap(<<"WalletRegistration", "RegistrationRequest">>, send_json_request(a))
          [] to \in {"challenge", "instruction"} ->
                 LET e == send_json_request(a)
                 IN  IF e = Fine THEN Fine ELSE InstructionFails(call, step.use, protocol, InstructionErrorFrom(e))
          [] to = "discover" -> Wrap(<<"PidIssuance", "DigidSessionStart", "Oidc", "Http">>, CheckedRequest(a))
          [] to \in {"auth", "acs"} ->
                 Wrap(<<"PidIssuance", IF to = "auth" THEN "DigidSessionStart" ELSE "DigidSessionFinish">>,
                      IF a.kind = "response" /\ a.status < 400
                      THEN IF a.status = 307 THEN Fine ELSE Plain(<<"ExpectedRedirect">>)
                      ELSE Wrap(<<"Http">>, CheckedRequest(a)))
          [] to = "metadata" -> Issuer(Wrap(<<"OpenId4vciDiscovery">>, CheckedRequest(a)))
          [] to = "oauth" -> Issuer(Wrap(IF a.kind = "response" /\ ~Refused(a) THEN <<"OauthDiscovery">>
                                         ELSE <<"Network">>, CheckedRequest(a)))
          [] to = "token" -> Issuer(RequestToken(a))
          [] to = "credential" -> Issuer(request_credentials(a))
          [] to = "reject" -> Issuer(reject(a))
          [] to = "request" -> Verifier(IF protocol = "iso" THEN IsoPost(a) ELSE get_authorization_request(a))
          [] to = "response" -> Verifier(IF protocol = "iso" THEN IsoPost(a) ELSE send_authorization_response(a))
          [] to = "terminate" -> Verifier(IF protocol = "iso" THEN IsoPost(a) ELSE send_error(a))

\* The errors of the parts of an operation that are not exchanges.
LocalErrors(call, step, protocol) ==
    LET at == step.to
        Remote(names) == {RemoteKeyError(call, step.use, protocol, e) : e \in VariantsOf(<<>>, names)}
        Instruction(names) == {InstructionFails(call, step.use, protocol, e) : e \in VariantsOf(<<>>, names)}
        Verifier(names) == {VerifierFails(protocol, e) : e \in names}
    IN  CASE at = "pin" -> VariantsOf(<<"WalletRegistration">>, {"InvalidPin"})
          [] at = "hardware key" -> VariantsOf(<<"WalletRegistration">>, {"HardwarePublicKey", "Signing"})
          [] at = "certificate" -> VariantsOf(<<"WalletRegistration">>,
                                       {"CertificateValidation", "PublicKeyMismatch", "StoreCertificate"})
          [] at = "message" -> Instruction({"StoreInstructionSequenceNumber", "Signing"})
          [] at = "result" -> Instruction({"InstructionResultValidation"})
          [] at = "signatures" -> Remote({"Signature", "MissingSignature", "KeyNotFound"})
          [] at = "app" -> VariantsOf(<<"PidIssuance", "DigidSessionFinish">>, {"MissingLocationQuery", "App2AppError"})
          [] at = "redirect" -> VariantsOf(<<"PidIssuance", "DigidSessionFinish", "Oidc">>,
                                    {"RedirectUriMismatch", "NoAuthCode", "RedirectUriError", "StateTokenMismatch"})
          [] at = "previews" -> VariantsOf(<<"PidIssuance", "PidIssuer">>, {"MissingNonce", "Certificate"})
                                    \cup VariantsOf(<<"PidIssuance">>, {"AttestationPreview", "MdocDocument"})
          [] at = "mdocs" -> VariantsOf(<<"PidIssuance", "PidIssuer">>,
                                 {"UnexpectedCredentialResponseCount", "PublicKeyMismatch", "MdocVerification",
                                  "IssuedAttributesMismatch", "IssuerCertificateMismatch"})
          [] at = "store" -> VariantsOf(<<"PidIssuance">>,
                                 {"InvalidIssuerCertificate", "MissingIssuerRegistration", "MdocStorage",
                                  "EventStorage", "Document"})
          [] at = "uri" -> {Plain(<<"Disclosure", "DisclosureUri">>)} \cup
                 Verifier({Plain(IF protocol = "iso" THEN <<"Holder", "DisclosureUriSourceMismatch">>
                                 ELSE <<"DisclosureUriSourceMismatch">>)})
          [] at = "proposal" -> VariantsOf(<<"Disclosure">>,
                                    {"HistoryRetrieval", "AttributesNotAvailable", "MdocAttributes"})
                 \cup Verifier({Plain(IF protocol = "iso" THEN <<"Holder", "MultipleCandidates">>
                                      ELSE <<"MultipleCandidates">>)})
          [] at = "usage" -> {Plain(<<"Disclosure", "IncrementUsageCount">>)}
          [] at = "log" -> {Plain(<<"Disclosure", "EventStorage">>)}
          [] at = "events" -> {Plain(<<"History", "Storage">>)}

-----------------------------------------------------------------------------
(* What the app is told.                                                    *)

\* The reqwest error in the chain of sources, if there is one, and its kind.
HasReqwest(e) == \E i \in DOMAIN e.path : e.path[i] = "reqwest"
ReqwestKind(e) == e.path[Len(e.path)]

ReqwestType(kind) ==
    CASE kind \in {"timeout", "request", "connect"} -> "Networking"
      [] kind = "status" -> "Server"
      [] kind \notin {"timeout", "request", "connect", "status"} -> "Generic"

detect_networking_error(e, otherwise) == IF HasReqwest(e) THEN ReqwestType(ReqwestKind(e)) ELSE otherwise

AccountProviderErrorType(e) ==
    CASE Under(<<"Response">>, e) -> "Server"
      [] Under(<<"Networking">>, e) -> ReqwestType(ReqwestKind(e))

InstructionErrorType(e) ==
    CASE Under(<<"ServerError">>, e) -> AccountProviderErrorType(Within(1, e))
      [] Under(<<"InstructionValidation">>, e) -> "Server"
      [] e.path[1] \notin {"ServerError", "InstructionValidation"} -> "Generic"

WalletRegistrationErrorType(v, e) ==
    CASE v = "AlreadyRegistered" -> "WalletState"
      [] v = "HardwarePublicKey" -> "HardwareKeyUnsupported"
      [] v \in {"ChallengeRequest", "RegistrationRequest"} -> AccountProviderErrorType(Within(1, e))
      [] v \notin {"AlreadyRegistered", "HardwarePublicKey", "ChallengeRequest", "RegistrationRequest"} -> "Generic"

WalletUnlockErrorType(v, e) == IF v = "Instruction" THEN InstructionErrorType(Within(1, e)) ELSE "WalletState"

PidIssuanceErrorType(v, e) ==
    detect_networking_error(e,
        CASE v \in {"NotRegistered", "Locked", "SessionState"} -> "WalletState"
          [] Under(<<"DigidSessionFinish", "Oidc", "RedirectUriError">>, e) -> "RedirectUri"
          [] Under(<<"PidIssuer", "TokenRequest">>, e) \/ Under(<<"PidIssuer", "CredentialRequest">>, e) -> "Server"
          [] OTHER -> "Generic")

DisclosureErrorType(v, e) ==
    CASE v \in {"NotRegistered", "Locked", "SessionState"} -> "WalletState"
      [] v \in {"IsoDisclosureSession", "VpDisclosureSession"} ->
             IF e.path[Len(e.path)] = "DisclosureUriSourceMismatch" THEN "DisclosureSourceMismatch"
             ELSE detect_networking_error(e, "Generic")
      [] v = "Instruction" -> InstructionErrorType(Within(1, e))
      [] v \in {"DisclosureUri", "HistoryRetrieval", "AttributesNotAvailable", "MdocAttributes",
                "IncrementUsageCount", "EventStorage"} -> "Generic"

HistoryErrorType(v, e) == IF v \in {"NotRegistered", "Locked"} THEN "WalletState" ELSE "Generic"

\* FlutterApiError::try_from: by downcasting to the error of the operation.
FlutterApiErrorType(e) ==
    LET of == e.path[1]
        inner == Within(1, e)
        v == IF Len(e.path) > 1 THEN e.path[2] ELSE ""
    IN  CASE of = "WalletRegistration" -> WalletRegistrationErrorType(v, inner)
          [] of = "WalletUnlock" -> WalletUnlockErrorType(v, inner)
          [] of = "PidIssuance" -> PidIssuanceErrorType(v, inner)
          [] of = "Disclosure" -> DisclosureErrorType(v, inner)
          [] of = "History" -> HistoryErrorType(v, inner)
          [] of \in {"Reset", "UrlParse"} -> "WalletState"

FlutterApiError(e) == Plain(<<"Error", FlutterApiErrorType(e)>>)

\* Only these errors of an instruction are a result of the call.
WalletInstructionError(e) == e.path[1] \in {"IncorrectPin", "Timeout", "Blocked"}

WalletInstructionResult(of, e) ==
    IF Under(<<of, "Instruction">>, e) /\ WalletInstructionError(Within(2, e))
    THEN Wrap(<<"InstructionError">>, Within(2, e))
    ELSE FlutterApiError(e)

DisclosureStartResult(e) ==
    IF Under(<<"Disclosure", "AttributesNotAvailable">>, e) THEN Plain(<<"RequestAttributesMissing">>)
    ELSE FlutterApiError(e)

\* The functions of the app's interface.
Succeeded == Plain(<<"Ok">>)
AppIsTold(call, e) ==
    CASE e = Fine -> Succeeded
      [] e # Fine /\ call = "unlock" -> WalletInstructionResult("WalletUnlock", e)
      [] e # Fine /\ call = "accept_pid" -> WalletInstructionResult("PidIssuance", e)
      [] e # Fine /\ call = "accept_disclosure" -> WalletInstructionResult("Disclosure", e)
      [] e # Fine /\ call = "start_disclosure" -> DisclosureStartResult(e)
      [] e # Fine /\ call \notin PinCalls \cup {"start_disclosure"} -> FlutterApiError(e)

-----------------------------------------------------------------------------
(* The operations as steps: exchanges, and parts that can fail by           *)
(* themselves.                                                              *)

Step(use, to) == [use |-> use, to |-> to]
StepsOf(tos) == [i \in DOMAIN tos |-> Step("", tos[i])]

\* InstructionClient::send: a challenge, then the instruction itself.
Instruct(use) ==
    [i \in 1..5 |-> Step(use, <<"message", "challenge", "message", "instruction", "result">>[i])]

AcceptPidSteps ==
    Instruct("generate") \o Instruct("sign") \o <<Step("sign", "signatures")>>
        \o StepsOf(<<"metadata", "credential", "mdocs", "store">>)
AcceptDisclosureSteps ==
    StepsOf(<<"usage">>) \o Instruct("sign") \o <<Step("sign", "signatures")>> \o StepsOf(<<"response", "log">>)

CallSteps(call, app2app) ==
    CASE call = "register" -> StepsOf(<<"pin", "enroll", "hardware key", "createwallet", "certificate">>)
      [] call = "unlock" -> Instruct("check")
      [] call = "create_pid" -> StepsOf(IF app2app THEN <<"discover", "discover", "auth">>
                                        ELSE <<"discover", "discover">>)
      [] call = "continue_pid" ->
             StepsOf((IF holder.issuance = "app2app" THEN <<"app", "acs">> ELSE <<>>)
                         \o <<"redirect", "metadata", "oauth", "token", "previews">>)
      [] call = "accept_pid" -> AcceptPidSteps
      [] call = "cancel_pid" -> IF holder.issuance = "openid4vci" THEN StepsOf(<<"reject">>) ELSE <<>>
      [] call = "start_disclosure" -> StepsOf(<<"uri", "request", "proposal">>)
      [] call = "accept_disclosure" -> AcceptDisclosureSteps
      [] call = "cancel_disclosure" -> StepsOf(<<"terminate", "log">>)
      [] call = "history" -> StepsOf(<<"events">>)
      [] call \in {"lock", "reset"} -> <<>>

Exchanges ==
    {"enroll", "createwallet", "challenge", "instruction", "discover", "auth", "acs", "metadata", "oauth",
     "token", "credential", "reject", "request", "response", "terminate"}
PidCalls == {"create_pid", "continue_pid", "accept_pid", "cancel_pid"}
DisclosureCalls == {"start_disclosure", "accept_disclosure", "cancel_disclosure"}

NoDisclosure == [protocol |-> "none", missing |-> FALSE]
InitialHolder == [registered |-> FALSE, locked |-> TRUE, issuance |-> "none", disclosure |-> NoDisclosure]

\* The session that an operation needs.
SessionFits(call) ==
    CASE call = "create_pid" -> holder.issuance = "none"
      [] call = "continue_pid" -> holder.issuance \in {"digid", "app2app"}
      [] call = "accept_pid" -> holder.issuance = "openid4vci"
      [] call = "cancel_pid" -> holder.issuance # "none"
      [] call = "start_disclosure" -> holder.disclosure = NoDisclosure
      [] call = "accept_disclosure" -> holder.disclosure # NoDisclosure /\ ~holder.disclosure.missing
      [] call = "cancel_disclosure" -> holder.disclosure # NoDisclosure
      [] call \notin PidCalls \cup DisclosureCalls -> TRUE

CheckError(call) ==
    LET of == CASE call = "register" -> "WalletRegistration" [] call = "unlock" -> "WalletUnlock"
                [] call \in PidCalls -> "PidIssuance" [] call \in DisclosureCalls -> "Disclosure"
                [] call = "history" -> "History" [] call \in {"lock", "reset"} -> "Reset"
    IN  CASE call = "lock" -> Fine
          [] call = "register" -> IF holder.registered THEN Plain(<<of, "AlreadyRegistered">>) ELSE Fine
          [] call \notin {"lock", "register"} ->
                 CASE ~holder.registered -> Plain(<<of, "NotRegistered">>)
                   [] holder.registered /\ call = "reset" -> Fine
                   [] holder.registered /\ call = "unlock" ->
                          IF holder.locked THEN Fine ELSE Plain(<<of, "NotLocked">>)
                   [] holder.registered /\ call \notin {"reset", "unlock"} ->
                          IF holder.locked THEN Plain(<<of, "Locked">>)
                          ELSE IF SessionFits(call) THEN Fine ELSE Plain(<<of, "SessionState">>)

\* Sessions that are taken out before anything is sent.
HolderBegun(call) ==
    CASE call \in {"continue_pid", "cancel_pid"} -> [holder EXCEPT !.issuance = "none"]
      [] call = "cancel_disclosure" -> [holder EXCEPT !.disclosure = NoDisclosure]
      [] call = "lock" -> [holder EXCEPT !.locked = TRUE]
      [] call = "reset" -> InitialHolder
      [] call \notin {"continue_pid", "cancel_pid", "cancel_disclosure", "lock", "reset"} -> holder

\* What the wallet keeps when a step has succeeded; last says whether it is the last one.
HolderStepped(call, to, last) ==
    CASE call = "register" /\ last -> [holder EXCEPT !.registered = TRUE, !.locked = FALSE]
      [] call = "unlock" /\ last -> [holder EXCEPT !.locked = FALSE]
      [] call = "create_pid" /\ last -> [holder EXCEPT !.issuance = IF to = "auth" THEN "app2app" ELSE "digid"]
      [] call = "continue_pid" /\ last -> [holder EXCEPT !.issuance = "openid4vci"]
      [] call = "accept_pid" /\ to = "mdocs" -> [holder EXCEPT !.issuance = "none"]
      [] call = "start_disclosure" /\ last ->
             [holder EXCEPT !.disclosure = [protocol |-> ongoing.protocol, missing |-> FALSE]]
      [] call = "accept_disclosure" /\ to = "response" -> [holder EXCEPT !.disclosure = NoDisclosure]
      [] OTHER -> holder

\* Mutant: the wallet is not wiped when the PIN is refused for good.
HolderFailed_timeout(call, e) ==
    CASE call = "accept_pid" /\ Under(<<"PidIssuance", "Instruction", "Timeout">>, e) -> InitialHolder
      [] call = "accept_disclosure" /\ Under(<<"Disclosure", "Instruction", "Timeout">>, e) ->
             [holder EXCEPT !.disclosure = NoDisclosure, !.locked = TRUE]
      [] Under(<<"Disclosure", "AttributesNotAvailable">>, e) ->
             [holder EXCEPT !.disclosure = [protocol |-> ongoing.protocol, missing |-> TRUE]]
      [] OTHER -> holder

\* What the wallet keeps when the operation fails.
HolderFailed(call, e) ==
    LET refused(of) == \E v \in {"Timeout", "Blocked"} : Under(<<of, "Instruction", v>>, e)
    IN  CASE call = "accept_pid" /\ refused("PidIssuance") -> InitialHolder
          [] call = "accept_disclosure" /\ refused("Disclosure") ->
                 [holder EXCEPT !.disclosure = NoDisclosure, !.locked = TRUE]
          [] Under(<<"Disclosure", "AttributesNotAvailable">>, e) ->
                 [holder EXCEPT !.disclosure = [protocol |-> ongoing.protocol, missing |-> TRUE]]
          [] OTHER -> holder

-----------------------------------------------------------------------------
(* What the servers answer.  A verdict is what the PIN policy decided.      *)

Served(answer, error, verdict) == [answer |-> answer, error |-> error, verdict |-> verdict]
Good == Answer(200, "json", "", <<>>)

ProviderServes(errors) == {Served(HttpJsonError(AccountError_from(e)), Fine, Fine) : e \in errors}
Evaluated(v) == Served(HttpJsonError(AccountError_from(InstructionError_from(v))), Fine, v)
Blocking == Plain(<<"BlockedPermanently">>)

TokenServes == {Served(ErrorResponse(TokenErrorCode(e), issuance_status_code(TokenErrorCode(e))), e, Fine) :
                    e \in TokenRequestErrors}
CredentialServes == {Served(ErrorResponse(CredentialErrorCode(e), issuance_status_code(CredentialErrorCode(e))), e, Fine) :
                        e \in CredentialRequestErrors}
GetRequestServes == {Served(ErrorResponse(GetRequestErrorCode(e), verifier_status_code(GetRequestErrorCode(e))), e, Fine) :
                        e \in GetAuthRequestErrors}
PostResponseServes ==
    {Served(ErrorResponse(PostAuthResponseErrorCode(e), verifier_status_code(PostAuthResponseErrorCode(e))), e, Fine) :
        e \in PostAuthResponseErrors}
OtherServes == {Served(Answer(status, "empty", "", <<>>), Fine, Fine) : status \in {400, 500}}

Serves(to, protocol) ==
    CASE to = "enroll" -> {Served(Good, Fine, Fine)} \cup ProviderServes({Plain(<<"Challenge", "ChallengeSigning">>)})
      [] to = "createwallet" -> {Served(Good, Fine, Fine)} \cup ProviderServes(RegistrationErrors)
      [] to = "challenge" ->
             IF account = "blocked" THEN {Served(HttpJsonError(AccountError_from(UserBlocked)), Fine, Blocking)}
             ELSE {Served(Good, Fine, Fine)} \cup ProviderServes(ChallengeErrors)
      [] to = "instruction" ->
             {Served(Good, Fine, Fine)} \cup ProviderServes(InstructionErrors) \cup {Evaluated(v) : v \in Evaluations}
      [] to \in {"auth", "acs"} -> {Served(Answer(307, "empty", "", <<>>), Fine, Fine)} \cup OtherServes
      [] to = "token" -> {Served(Good, Fine, Fine)} \cup TokenServes
      [] to \in {"credential", "reject"} -> {Served(Good, Fine, Fine)} \cup CredentialServes
      [] to = "request" /\ protocol = "vp" -> {Served(Good, Fine, Fine)} \cup GetRequestServes
      [] to \in {"response", "terminate"} /\ protocol = "vp" -> {Served(Good, Fine, Fine)} \cup PostResponseServes
      [] to \in {"discover", "metadata", "oauth"} \/ (protocol = "iso" /\ to \in {"request", "response", "terminate"}) ->
             {Served(Good, Fine, Fine)} \cup OtherServes

-----------------------------------------------------------------------------
(* Calls of the app.                                                        *)

AppCalls == {"register", "unlock", "lock", "history", "reset"} \cup PidCalls \cup DisclosureCalls
NotCalled == [call |-> "none", steps |-> <<>>, protocol |-> "none"]

\* Nothing has been sent yet in this call.
Unsent == [answer |-> NoAnswer("none"), error |-> Fine, verdict |-> Fine]
FateOf(call) == [call |-> call, before |-> holder, step |-> "check", sent |-> FALSE, last |-> Unsent]

InitErrors ==
    /\ holder = InitialHolder
    /\ account = "active"
    /\ ongoing = NotCalled
    /\ report = Fine
    /\ fate = FateOf("none")

\* Continuing with the step after this one, or telling that all has succeeded.
Proceed ==
    LET call == ongoing.call
        last == Len(ongoing.steps) = 1
    IN  /\ holder' = HolderStepped(call, Head(ongoing.steps).to, last)
        /\ ongoing' = IF last THEN NotCalled ELSE [ongoing EXCEPT !.steps = Tail(@)]
        /\ report' = IF last THEN Succeeded ELSE report

Fail(e) ==
    /\ holder' = HolderFailed(ongoing.call, e)
    /\ ongoing' = NotCalled
    /\ report' = AppIsTold(ongoing.call, e)

\* The app calls a function; the URL of a redirect or a disclosure may not be one.
CallFunction(call, protocol, app2app) ==
    LET steps == CallSteps(call, app2app)
        used == IF call = "start_disclosure" THEN protocol ELSE holder.disclosure.protocol
    IN  /\ ongoing = NotCalled
        /\ fate' = FateOf(call)
        /\ IF CheckError(call) # Fine
           THEN report' = AppIsTold(call, CheckError(call)) /\ UNCHANGED <<holder, ongoing>>
           ELSE /\ holder' = HolderBegun(call)
                /\ ongoing' = IF steps = <<>> THEN NotCalled
                              ELSE [call |-> call, steps |-> steps, protocol |-> used]
                /\ report' = IF steps = <<>> THEN Succeeded ELSE Fine
        /\ UNCHANGED account

CallWithoutUrl(call) ==
    /\ ongoing = NotCalled
    /\ call \in {"continue_pid", "start_disclosure"}
    /\ fate' = FateOf(call)
    /\ report' = AppIsTold(call, Plain(<<"UrlParse">>))
    /\ UNCHANGED <<holder, account, ongoing>>

LocalStep ==
    /\ ongoing # NotCalled
    /\ LET step == Head(ongoing.steps)
       IN  /\ step.to \notin Exchanges
           /\ fate' = [fate EXCEPT !.step = step.to]
           /\ account' = IF step.to = "certificate" THEN "active" ELSE account
           /\ \/ Proceed
              \/ \E e \in LocalErrors(ongoing.call, step, ongoing.protocol) : Fail(e)

\* A request is sent; what comes back is the server's answer, a damaged one,
\* a gateway's, or none.  Without an answer the server may have acted.
Receive(step, a, served) ==
    /\ fate' = [fate EXCEPT !.step = step.to, !.sent = TRUE,
                !.last = IF a = served.answer THEN served ELSE [Unsent EXCEPT !.answer = a]]
    /\ account' = IF served.verdict = Blocking THEN "blocked" ELSE account
    /\ \E e \in {ExchangeError(ongoing.call, step, ongoing.protocol, a)} :
          IF e = Fine THEN Proceed ELSE Fail(e)

Exchange ==
    /\ ongoing # NotCalled
    /\ LET step == Head(ongoing.steps)
       IN  /\ step.to \in Exchanges
           /\ \E served \in Serves(step.to, ongoing.protocol) \cup {Unsent} :
                 \E a \in IF served = Unsent THEN GatewayAnswers \cup Unanswered
                         ELSE {served.answer} \cup Damaged(served.answer) \cup {NoAnswer("timeout")} :
                     Receive(step, a, served)

NextErrors ==
    \/ \E call \in AppCalls, protocol \in {"iso", "vp"}, app2app \in BOOLEAN :
           CallFunction(call, protocol, app2app)
    \/ \E call \in AppCalls : CallWithoutUrl(call)
    \/ LocalStep
    \/ Exchange

-----------------------------------------------------------------------------
(* Properties.                                                              *)

CallEnded == ongoing = NotCalled
TypeTold == IF Under(<<"Error">>, report) THEN report.path[2] ELSE "none"

\* What the user should see of a decision of the PIN policy.
ToldOf(verdict) ==
    CASE verdict.path[1] = "Failed" -> Error(<<"InstructionError", "IncorrectPin">>, verdict.data)
      [] verdict.path[1] \in {"Timeout", "InTimeout"} -> Error(<<"InstructionError", "Timeout">>, verdict.data)
      [] verdict.path[1] = "BlockedPermanently" -> Plain(<<"InstructionError", "Blocked">>)

\* The decision of the wallet provider's PIN policy about an instruction reaches
\* the user as it is: whenever its answer arrives undamaged, in unlocking as well
\* as inside the key factories of issuance and of both disclosure protocols, the
\* result of the call is that decision with its numbers.  And no other answer or
\* failure is shown as a decision about the PIN.
VerdictIsTold ==
    CallEnded /\ fate.call \in PinCalls =>
        IF fate.last.verdict # Fine THEN report = ToldOf(fate.last.verdict)
        ELSE ~Under(<<"InstructionError">>, report)

\* A call with a PIN that fails leaves the wallet as it was, so that the user can
\* try again, with two exceptions.  If the provider has refused the PIN for some
\* time or for good, issuing wipes the wallet and disclosing ends the session and
\* locks the wallet.  And if the issuer or the verifier has had its part, the
\* session is over even when storing the result fails.
FailureKeepsWallet ==
    CallEnded /\ fate.call \in PinCalls /\ report # Plain(<<"Ok">>) =>
        LET refused == fate.last.verdict # Fine /\ fate.last.verdict.path[1] # "Failed"
            before == fate.before
        IN  holder = CASE refused /\ fate.call = "accept_pid" -> InitialHolder
                       [] refused /\ fate.call = "accept_disclosure" ->
                              [before EXCEPT !.disclosure = NoDisclosure, !.locked = TRUE]
                       [] fate.step = "store" -> [before EXCEPT !.issuance = "none"]
                       [] fate.step = "log" -> [before EXCEPT !.disclosure = NoDisclosure]
                       [] OTHER -> before

\* How the last request of a call that has ended went, if that ended it: nothing came
\* back; the body of an answer was not there in time; or a server, and not something
\* in front of it, refused the request in an answer that arrived whole.
LastAnswer == fate.last.answer
EndedByRequest == CallEnded /\ fate.step \in Exchanges
Unheard == EndedByRequest /\ LastAnswer.kind # "response"
BodyLate == EndedByRequest /\ LastAnswer.kind = "response" /\ LastAnswer.read = "stalled"
ServerRefused ==
    /\ EndedByRequest /\ Refused(LastAnswer) /\ LastAnswer.read = "whole"
    /\ LastAnswer \notin GatewayAnswers /\ fate.last.verdict = Fine

\* The refusals that are not told as such: the ErrorResponse of a verifier, and those
\* of the wallet provider while its keys are used in issuance.
UntoldRefusal ==
    \/ fate.step \in {"request", "response"} /\ Whole(LastAnswer)
    \/ fate.call = "accept_pid" /\ fate.step \in {"challenge", "instruction"}

\* The app learns why a call failed (FlutterApiErrorType).  Without an answer to the
\* last request it is told of the network, and so it is if the body of an answer that
\* was no refusal came too late and the call failed for that; it is told of the network
\* for no reason but these two and a refusal whose body came too late.  It is told of
\* the server only if the last request was refused, and always if a server refused it
\* and the answer arrived whole, but for the two kinds of UntoldRefusal, for which
\* RefusalIsTold fails.  It is told of the state of the wallet only if nothing was sent
\* and nothing changed, and of the redirect URI only when a login is continued.
FailureIsTold ==
    /\ Unheard \/ (BodyLate /\ ~Refused(LastAnswer) /\ report # Succeeded) => TypeTold = "Networking"
    /\ CallEnded /\ TypeTold = "Networking" => Unheard \/ BodyLate
    /\ CallEnded /\ TypeTold = "Server" => EndedByRequest /\ Refused(LastAnswer)
    /\ ServerRefused => (TypeTold = "Server" <=> ~UntoldRefusal)
    /\ CallEnded /\ TypeTold = "WalletState" => ~fate.sent /\ holder = fate.before
    /\ CallEnded /\ TypeTold = "RedirectUri" => fate.call = "continue_pid" /\ fate.step = "redirect"

\* Whenever a server has refused a request and its answer has arrived, and it is not a
\* decision about the PIN, the app is told of the server, as the documentation of that
\* error type says: "The request failed, but the server did send a response."
RefusalIsTold == ServerRefused => TypeTold = "Server"

\* The issuer's and the verifier's answers to the wallet have a 5xx status exactly
\* if the failure is the server's own: its session store, its keys or certificates,
\* its signing or its configuration, and not something in the request.
StatusTellsWhoFailed ==
    fate.last.error # Fine => (fate.last.answer.status >= 500 <=> IsOwnFailure(fate.last.error))

\* Through all layers of errors it is told what really happened: the decision about
\* a PIN as it was taken, the kind of failure as it occurred, and whose failure it
\* was (the From implementations, FlutterApiErrorType and the HTTP status codes).
ReasonIsTold == VerdictIsTold /\ FailureIsTold /\ StatusTellsWhoFailed
=============================================================================
