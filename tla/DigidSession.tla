----------------------------- MODULE DigidSession -----------------------------
(***************************************************************************)
(* Logging in with DigiD, from the wallet's authorization URL to the PID   *)
(* that the user is shown.  The user may cancel and start again, so there  *)
(* are several logins, and redirects of older ones reach the wallet late   *)
(* or more than once.  The identity provider (rdo-max and DigiD) is not    *)
(* part of the repository.                                                 *)
(*                                                                         *)
(* A login is a number; what is random in it is named by that number.      *)
(* What the converter, the issuer and the wallet make of what the register *)
(* says of a person are parameters; DigidLogin has them.                   *)
(***************************************************************************)
EXTENDS Options, Naturals

CONSTANTS LoginScenes,
          RequestPersonen(_),        \* the answer of the converter to what the register says
          PidAttributes(_, _, _, _), \* the previews that the issuer makes of it, if any
          CanDisplay(_),             \* whether the wallet can show previews
          NoopAnswer                 \* the register that knows of nobody

\* A redirect from elsewhere has no code, or not the state token of a login, which is
\* random, and it has no artifact of the DigiD app.
ForeignQuery(query) == query.kind = "error" \/ (query.kind = "code" /\ query.state \notin Nat \ {0})

ASSUME LoginScenesAssumption ==
    \A s \in DOMAIN LoginScenes :
        /\ 0 \notin LoginScenes[s].people
        /\ \A uri \in LoginScenes[s].other_uris : uri.query = None \/ ForeignQuery(uri.query[1])

VARIABLES
    at_scene,       \* the scene this behaviour is in
    digid,          \* the issuance session of the wallet: None, or Digid, or Openid4vci
    logins,         \* the logins that the identity provider knows of
    uris,           \* the redirects that have been sent to the phone
    identified,     \* a redirect that the app is about to continue with
    converted,      \* the last answer of the converter
    exchanges,      \* the token requests that the issuer passed on
    did             \* the last operation

\* Named once more, so that TLC evaluates the constant only once.
EveryLoginScene == LoginScenes
LoginScene == EveryLoginScene[at_scene]
loginVars == <<at_scene, digid, logins, uris, identified, converted, exchanges, did>>

Did(name, fault, outcome) == did' = [name |-> name, fault |-> fault, outcome |-> outcome]

LoginInit ==
    /\ at_scene \in DOMAIN EveryLoginScene
    /\ digid = None /\ logins = <<>> /\ uris = {} /\ identified = None
    /\ converted = [kind |-> "none"] /\ exchanges = {}
    /\ did = [name |-> "none", fault |-> "none", outcome |-> "none"]

-----------------------------------------------------------------------------
(* The OpenID Connect client of the wallet.                                 *)

Uri(base, query) == [base |-> base, query |-> query]
CodeQuery(code, state) == [kind |-> "code", code |-> code, state |-> state]
ErrorQuery(state) == [kind |-> "error", state |-> state]
AppQuery(artifact, error) == [kind |-> "app", artifact |-> artifact, error |-> error]

S256PkcePair(verifier) == [verifier |-> verifier, challenge |-> <<"S256", verifier>>]

\* Mutant: the values are made once and used in every session.
HttpOidcClient_constant(n) ==
    [client_id |-> "wallet", redirect_uri |-> "issuance", state |-> 0, pkce_pair |-> S256PkcePair(0)]

HttpOidcClient(n) ==
    [client_id |-> "wallet", redirect_uri |-> "issuance", state |-> n, pkce_pair |-> S256PkcePair(n)]

\* Config::discover and the keys of the provider: nothing is done without them.
Discovered(fault) == fault # "connect"

url_encoded_auth_request(client) ==
    [client_id |-> client.client_id, redirect_uri |-> client.redirect_uri, state |-> client.state,
     code_challenge |-> client.pkce_pair.challenge]

\* start: the client, and the request that its authorization URL holds.
OidcStart(n) == LET client == HttpOidcClient(n) IN [client |-> client, request |-> url_encoded_auth_request(client)]

matches_received_redirect_uri(client, uri) == uri.base = client.redirect_uri

\* An error is believed without looking at the state token.
authorization_code(client, uri) ==
    IF /\ matches_received_redirect_uri(client, uri) /\ uri.query # None
       /\ uri.query[1].kind = "code" /\ uri.query[1].state = client.state
    THEN Some(uri.query[1].code) ELSE None

OidcTokenRequest(client, code) ==
    [code |-> code, code_verifier |-> client.pkce_pair.verifier,
     client_id |-> client.client_id, redirect_uri |-> client.redirect_uri]

-----------------------------------------------------------------------------
(* The identity provider: what it knows of a login is the request, who      *)
(* logged in (0 for nobody) and whether the code has been used.             *)

NewLogin(request, app2app) == [request |-> request, app2app |-> app2app, person |-> 0, used |-> FALSE]

\* It answers a redirect with the code of login n, if somebody logged in.
CodeRedirect(n) == Uri(logins[n].request.redirect_uri, Some(CodeQuery(n, logins[n].request.state)))

Exchangeable(request) ==
    /\ request.code \in DOMAIN logins
    /\ LET login == logins[request.code]
       IN  /\ login.person # 0 /\ ~login.used
           /\ login.request.code_challenge = S256PkcePair(request.code_verifier).challenge
           /\ login.request.client_id = request.client_id
           /\ login.request.redirect_uri = request.redirect_uri

-----------------------------------------------------------------------------
(* The DigiD session of the wallet.                                         *)

\* create_pid_issuance_auth_url.  With app2app the wallet follows the first redirect
\* of the provider itself, and hands the parameters to the DigiD app.
CreateAuthUrl(app2app, fault) ==
    LET n == Len(logins) + 1
        started == OidcStart(n)
    IN  /\ digid = None /\ n <= LoginScene.max_logins
        /\ digid' = IF Discovered(fault) THEN Some([kind |-> "Digid", login |-> n, client |-> started.client, app2app |-> app2app])
                    ELSE None
        /\ logins' = IF Discovered(fault) THEN Append(logins, NewLogin(started.request, app2app))
                     ELSE logins
        /\ Did("create", fault, IF Discovered(fault) THEN "ok" ELSE "error")
        /\ UNCHANGED <<at_scene, uris, identified, converted, exchanges>>

\* The user logs in at the provider, as somebody or not at all.
LogIn(n, person) ==
    /\ logins[n].person = 0
    /\ logins' = [logins EXCEPT ![n].person = person]
    /\ uris' = uris \cup {IF logins[n].app2app THEN Uri("issuance", Some(AppQuery(n, FALSE)))
                          ELSE CodeRedirect(n)}
    /\ Did("log in", "none", "ok")
    /\ UNCHANGED <<at_scene, digid, identified, converted, exchanges>>

LogInFails(n) ==
    /\ logins[n].person = 0
    /\ uris' = uris \cup {IF logins[n].app2app THEN Uri("issuance", Some(AppQuery(n, TRUE)))
                          ELSE Uri("issuance", Some(ErrorQuery(logins[n].request.state)))}
    /\ Did("log in", "none", "error")
    /\ UNCHANGED <<at_scene, digid, logins, identified, converted, exchanges>>

\* identify_uri: a redirect of a login only while there is a DigiD session.
UriType(uri) ==
    CASE digid # None /\ digid[1].kind = "Digid" /\ uri.base = "issuance" -> "PidIssuance"
      [] uri.base = "disclosure" -> "Disclosure"
      [] OTHER -> "Unknown"

Identify(uri) ==
    /\ identified = None
    /\ identified' = IF UriType(uri) = "PidIssuance" THEN Some(uri) ELSE None
    /\ Did("identify", "none", UriType(uri))
    /\ UNCHANGED <<at_scene, digid, logins, uris, converted, exchanges>>

\* The location that the OpenID Connect client is given.  With app2app the provider
\* is asked for it, with the artifact from the DigiD app.
Location(session, uri, fault) ==
    LET app == uri.query[1]
    IN  CASE ~session.app2app -> Some(uri)
          [] session.app2app /\ (uri.query = None \/ uri.query[1].kind # "app") -> None
          [] OTHER -> IF app.error \/ fault = "acs" THEN None ELSE Some(CodeRedirect(app.artifact))

into_token_request(session, uri, fault) ==
    LET location == Location(session, uri, fault)
        code == IF location = None THEN None ELSE authorization_code(session.client, location[1])
    IN  IF code = None THEN None ELSE Some(OidcTokenRequest(session.client, code[1]))

-----------------------------------------------------------------------------
(* The PID issuer and the register.                                         *)

request_token(request) == IF Exchangeable(request) THEN Some(request.code) ELSE None

decrypt_jwe(jwe) == jwe.enc = "A128CBC-HS256"

\* A JWE for the issuer that holds a JWS of the provider, which names a person.
request_userinfo(token, fault) ==
    LET jwe == LoginScene.userinfo
    IN  IF /\ fault # "userinfo" /\ decrypt_jwe(jwe)
           /\ jwe.alg = "RS256" /\ jwe.key \in LoginScene.jwks /\ ~jwe.expired
        THEN Some(logins[token].person) ELSE None

\* OpenIdClient::bsn: the person that the provider names for the code.
bsn(request, fault) ==
    LET token == request_token(request)
    IN  IF token = None THEN None ELSE request_userinfo(token[1], fault)

\* FileGbavClient, and the client it falls back on.
vraag(person) ==
    CASE LoginScene.files[person] # None -> LoginScene.files[person]
      [] LoginScene.files[person] = None /\ LoginScene.noop -> Some(NoopAnswer)
      [] OTHER -> LoginScene.register[person]

\* What the user is shown of the previews from the issuer, if there are any.
ShowPreviews(previews, fault) ==
    LET shown == previews # None /\ fault # "lost" /\ CanDisplay(previews[1])
    IN  /\ digid' = IF shown THEN Some([kind |-> "Openid4vci", login |-> digid[1].login, previews |-> previews[1]])
                    ELSE None
        /\ Did("continue", fault, IF shown THEN "ok" ELSE "error")

\* The token request at the issuer, which asks the provider for the person and the
\* converter for the attributes.
AskIssuer(request, fault) ==
    /\ exchanges' = exchanges \cup {request}
    /\ logins' = IF Exchangeable(request) THEN [logins EXCEPT ![request.code].used = TRUE] ELSE logins
    /\ \E person \in {bsn(request, fault)} :
           IF person = None THEN ShowPreviews(None, fault) /\ UNCHANGED converted
           ELSE /\ converted' = RequestPersonen(vraag(person[1]))
                /\ \E previews \in {PidAttributes(converted', LoginScene.only_requested, 0, LoginScene.certificates)} :
                       ShowPreviews(previews, fault)

\* continue_pid_issuance: the DigiD session is gone whatever happens.
Continue(fault) ==
    /\ identified # None
    /\ IF digid = None \/ digid[1].kind # "Digid"
       THEN Did("continue", fault, "session state") /\ UNCHANGED <<digid, logins, converted, exchanges>>
       ELSE \E request \in {into_token_request(digid[1], identified[1], fault)} :
               IF request # None /\ fault # "connect" THEN AskIssuer(request[1], fault)
               ELSE ShowPreviews(None, fault) /\ UNCHANGED <<logins, converted, exchanges>>
    /\ identified' = None
    /\ UNCHANGED <<at_scene, uris>>

\* cancel_pid_issuance
Cancel ==
    /\ digid # None /\ digid' = None
    /\ Did("cancel", "none", "ok")
    /\ UNCHANGED <<at_scene, logins, uris, identified, converted, exchanges>>

LoginNext ==
    \/ \E app2app \in LoginScene.app2app, fault \in LoginScene.faults \cap {"none", "connect"} :
           CreateAuthUrl(app2app, fault)
    \/ \E n \in DOMAIN logins : (\E person \in LoginScene.people : LogIn(n, person)) \/ LogInFails(n)
    \/ \E uri \in uris \cup LoginScene.other_uris : Identify(uri)
    \/ \E fault \in LoginScene.faults : Continue(fault)
    \/ Cancel

LoginSpec == LoginInit /\ [][LoginNext]_loginVars

-----------------------------------------------------------------------------
(* Properties.                                                              *)

PidShown == digid # None /\ digid[1].kind = "Openid4vci"

\* What the user is shown is what the register and the issuer make of the person who
\* logged in for this very session, with a code that has been used up, whatever
\* redirects of other logins reach the wallet, in any order.
OwnPersonShown ==
    PidShown => LET login == logins[digid[1].login]
                    made == PidAttributes(RequestPersonen(vraag(login.person)), LoginScene.only_requested, 0,
                                          LoginScene.certificates)
                IN  /\ login.used /\ login.person \in LoginScene.people
                    /\ made # None /\ digid[1].previews = made[1]

\* The wallet hands a code over only together with the verifier that belongs to it:
\* a redirect of another login never gets as far as the issuer (the state token).
CodesFitVerifiers ==
    \A request \in exchanges :
        logins[request.code].request.code_challenge = S256PkcePair(request.code_verifier).challenge
=============================================================================
