---------------------------- MODULE MCAttestations ----------------------------
(***************************************************************************)
(* The issuer with overlapping requests, the life of an attestation,       *)
(* logins with DigiD, what the app shows, what it is told of failures, and *)
(* the encoding of what is signed, in one run: a behaviour is one of one   *)
(* of the six.                                                             *)
(* A scene differs from an ordinary one in one respect, or in a few that   *)
(* matter together.                                                        *)
(***************************************************************************)
EXTENDS MCIssuanceSessions, AttestationLifecycle, DigidLogin, WalletApp, ErrorReports, Encodings

VARIABLE component

allVars == <<component, vars, lifeVars, loginVars, appVars, errorVars, encodingVars>>

Always == [from |-> 0, until |-> 9]

IssuerCert(key, ca, registration) == Certificate(key, ca, "mdl", Always, registration, None)
Cert == IssuerCert("issuer key", "issuer ca", Some("issuer"))
OtherCert == IssuerCert("other key", "issuer ca", Some("issuer"))

Registration == {<<"pid", "pid", "name">>, <<"pid", "pid", "age">>, <<"pid", "pid", "number">>,
                 <<"address", "address", "street">>, <<"address", "address", "city">>}
ReaderCert(registration, ca, dns) == Certificate("reader key", ca, "reader", Always, registration, dns)
Reader == ReaderCert(Some(Registration), "reader ca", Some("rp"))

UseCase(return_url, certificate) == [return_url |-> return_url, pair |-> KeyPair(certificate)]

Pid(period, copies) ==
    [doc_type |-> "pid", period |-> period, copies |-> copies,
     attributes |-> [ns \in {"pid"} |-> <<Entry("name", Text("A")), Entry("age", Bool(TRUE)),
                                          Entry("number", Text("1"))>>]]
Address(period, copies) ==
    [doc_type |-> "address", period |-> period, copies |-> copies,
     attributes |-> [ns \in {"address"} |-> <<Entry("street", Text("B"))>>]]

\* The number is not mandatory, and a city is not in the mapping.
Mapping ==
    [t \in {"pid", "address"} |->
        IF t = "pid"
        THEN [at \in {<<"pid", "name">>, <<"pid", "age">>, <<"pid", "number">>} |->
                 Mapped(at[2] # "number", IF at[2] = "age" THEN "Bool" ELSE "String")]
        ELSE [at \in {<<"address", "street">>} |-> Mapped(TRUE, "String")]]

PidName == ItemsRequest("pid", {<<"pid", "name">>})
Ordinary(protocol) ==
    LET previews == <<AttestationPreview(Pid(Always, 2), Cert), AttestationPreview(Address(Always, 1), Cert)>>
    IN  [pre_authorized |-> TRUE, previews |-> previews, signs |-> previews, sends |-> "all",
         random_length |-> ATTR_RANDOM_LENGTH, pairs |-> [t \in {"pid", "address"} |-> KeyPair(Cert)],
         issuer_anchors |-> {"issuer ca"}, reader_anchors |-> {"reader ca"},
         verifier_anchors |-> {"issuer ca"}, mapping |-> Mapping,
         protocol |-> protocol, session_type |-> "same_device", source |-> "link",
         requests |-> <<PidName, ItemsRequest("address", {<<"address", "street">>})>>,
         use_case |-> UseCase("same_device", Reader),
         use_case_later |-> Some(UseCase("same_device", Reader)), return_url |-> Some("return url"),
         max_clock |-> 0, max_attempts |-> 3, max_rounds |-> 1,
         issuance_faults |-> {"none"}, faults |-> {"none", "lost", "report lost"}]

AllFaults == {"none", "connect", "lost", "garbled", "report lost", "pin", "expire"}
Troubled(s) == [s EXCEPT !.faults = AllFaults, !.max_clock = 2]
TroubledIssuance(s) == [s EXCEPT !.issuance_faults = AllFaults, !.faults = {"none"}]
Twice(s) == [s EXCEPT !.max_rounds = 2]

With(s, previews) == [s EXCEPT !.previews = previews, !.signs = previews]
Asking(s, requests) == [s EXCEPT !.requests = requests]
Configured(s, use_case) == [s EXCEPT !.use_case = use_case, !.use_case_later = Some(use_case)]

Late == [from |-> 1, until |-> 9]
Short == [from |-> 0, until |-> 1]
Unknown(copies) == [Address(Always, copies) EXCEPT !.attributes["address"] = @ \o <<Entry("city", Text("C"))>>]
Doubled == [Pid(Always, 1) EXCEPT !.attributes["pid"] = @ \o <<Entry("name", Text("Z"))>>]
Numberless == [Pid(Always, 1) EXCEPT !.attributes["pid"] = SubSeq(@, 1, 2)]
OnlyPid(pid, cert) == <<AttestationPreview(pid, cert)>>

\* What the issuer does.
IssuerScenes(s) ==
    <<TroubledIssuance(s), [s EXCEPT !.pre_authorized = FALSE],
     [s EXCEPT !.sends = "reversed"],
     [With(s, OnlyPid(Pid(Always, 2), Cert)) EXCEPT !.sends = "reversed"],
     TroubledIssuance([s EXCEPT !.sends = "fewer"]),
     [s EXCEPT !.random_length = ATTR_RANDOM_LENGTH - 1],
     [s EXCEPT !.pairs["pid"] = KeyPair(OtherCert)],
     [s EXCEPT !.pairs = [t \in {"pid"} |-> KeyPair(Cert)]],
     [s EXCEPT !.signs[1].unsigned.attributes["pid"][1] = Entry("name", Text("Z"))],
     [s EXCEPT !.issuer_anchors = {"reader ca"}],
     With(s, OnlyPid(Pid(Always, 1), IssuerCert("issuer key", "issuer ca", None))),
     Asking(With(s, <<AttestationPreview(Unknown(1), Cert)>>), <<ItemsRequest("address", {<<"address", "city">>})>>),
     With(s, OnlyPid(Doubled, Cert)),
     With(s, OnlyPid([Pid(Always, 1) EXCEPT !.attributes["pid"] = Tail(@)], Cert))>>

\* What is stored and what is requested.
RequestScenes(s) ==
    <<s, Troubled(s),
     Twice([Asking(With(s, OnlyPid(Pid(Always, 2), Cert)), <<PidName>>) EXCEPT !.faults = @ \cup {"connect", "pin"}]),
     [With(s, <<AttestationPreview(Pid(Late, 2), Cert), AttestationPreview(Address(Short, 2), Cert)>>)
         EXCEPT !.max_clock = 2],
     Asking(With(s, OnlyPid(Pid(Always, 1), Cert) \o OnlyPid(Pid(Always, 1), Cert)), <<PidName>>),
     Asking(With(s, OnlyPid(Numberless, Cert) \o OnlyPid(Pid(Always, 1), Cert)),
            <<ItemsRequest("pid", {<<"pid", "number">>})>>),
     Asking(With(s, OnlyPid(Numberless, Cert)),
            <<PidName, ItemsRequest("pid", {<<"pid", "age">>})>>),
     Asking(With(s, OnlyPid(Numberless, Cert)), <<ItemsRequest("pid", {<<"pid", "name">>, <<"pid", "number">>})>>),
     Asking(s, <<ItemsRequest("address", {<<"address", "city">>})>>),
     Asking(s, <<ItemsRequest("pid", {}), ItemsRequest("address", {<<"address", "street">>})>>),
     Asking(s, <<ItemsRequest("pid", {})>>),
     Asking(With(s, <<AttestationPreview(Address(Always, 1), Cert)>>), <<PidName>>)>>

\* How the verifier and the wallet are configured.
ReaderScenes(s) ==
    <<[s EXCEPT !.verifier_anchors = {}],
     [s EXCEPT !.reader_anchors = {}],
     [s EXCEPT !.source = "qr"],
     [s EXCEPT !.session_type = "cross_device", !.source = "qr"],
     [Configured(s, UseCase("both", Reader)) EXCEPT !.session_type = "cross_device", !.source = "qr"],
     [Configured(s, UseCase("neither", Reader)) EXCEPT !.return_url = None],
     [Configured(s, UseCase("neither", Reader)) EXCEPT !.return_url = None,
                 !.use_case_later = Some(UseCase("both", Reader))],
     [s EXCEPT !.use_case_later = None],
     [s EXCEPT !.use_case_later = Some(UseCase("same_device", ReaderCert(Some(Registration), "reader ca", Some("rp2"))))],
     [s EXCEPT !.use_case_later = Some(UseCase("same_device", ReaderCert(Some(Registration), "reader ca", None)))],
     Configured(s, UseCase("same_device", ReaderCert(Some(Registration \ {<<"pid", "pid", "name">>}),
                                                     "reader ca", Some("rp")))),
     Configured(s, UseCase("same_device", ReaderCert(None, "reader ca", Some("rp"))))>>

AllScenes(s) == RequestScenes(s) \o ReaderScenes(s)
MCScenes == IssuerScenes([Ordinary("iso") EXCEPT !.faults = {"none"}]) \o AllScenes(Ordinary("iso")) \o AllScenes(Ordinary("vp"))

-----------------------------------------------------------------------------

MCNationalityTable == [c \in {"0001"} |-> "Nederlandse"]
MCMunicipalityTable == [c \in {"0518"} |-> "'s-Gravenhage"]
MCCountryTable == [c \in {"6030"} |-> "Nederland"]
MCFourDigits == {"0518", "9999"}
MCNumbers == [n \in {"7", "0007"} |-> 7]
MCAgeOn == [d \in {"20000101", "20200101"} |-> IF d = "20000101" THEN 24 ELSE 4]

\* All sequences of n elements of a sequence.
Products(of, n) ==
    [k \in 1..(Len(of) ^ n) |-> [i \in 1..n |-> of[(((k - 1) \div (Len(of) ^ (i - 1))) % Len(of)) + 1]]]

\* The items of a category, from a function.
ElementNames ==
    <<"Bsn", "Voornamen", "Voorvoegsel", "Geslachtsnaam", "Geboortedatum", "Geboorteplaats", "Geboorteland",
      "Geslacht", "Nationality", "DatumAangaanHuwelijk", "PlaatsAangaanHuwelijk", "DatumOntbindingHuwelijk",
      "Straatnaam", "NaamOpenbareRuimte", "Huisnummer", "Huisletter", "Postcode", "Woonplaats",
      "SoortVerbintenis", "RedenBeeindigenNationaliteit", "AanduidingBijzonderNederlanderschap",
      "AangifteAdreshouding", "AanduidingInOnderzoek">>
Items(of) ==
    LET names == SelectSeq(ElementNames, LAMBDA n : n \in DOMAIN of)
    IN  [i \in DOMAIN names |-> Entry(names[i], of[names[i]])]
PersonItems(number) ==
    [Bsn |-> number, Geslacht |-> "V", Geslachtsnaam |-> "Jansen", Voornamen |-> "Frouke",
     Geboortedatum |-> "20000101", Geboorteplaats |-> "0518", Geboorteland |-> "6030"]
AddressItems ==
    [Straatnaam |-> "Turfmarkt", NaamOpenbareRuimte |-> "Turfmarkt", Huisnummer |-> "7",
     Postcode |-> "2511DP", Woonplaats |-> "Den Haag"]
Without(of, name) == [n \in DOMAIN of \ {name} |-> of[n]]
Xml(person, others, address) ==
    [results |-> <<[code |-> "00", letter |-> "A"]>>,
     voorkomens |-> <<Voorkomen("Person", Items(person))>> \o others \o <<Voorkomen("Address", Items(address))>>]
Frouke == PersonItems("111")

NationalityItems == <<[Nationality |-> "0001"], [Nationality |-> "0055"], [RedenBeeindigenNationaliteit |-> "401"],
                     [Nationality |-> "0001", RedenBeeindigenNationaliteit |-> "401"],
                     [AanduidingBijzonderNederlanderschap |-> "B"]>>
NationalityLists == Products(NationalityItems, 3) \o
    <<<<[Nationality |-> "0001"], [Nationality |-> "0055"], [RedenBeeindigenNationaliteit |-> "401"],
        [RedenBeeindigenNationaliteit |-> "401"]>>>>

Partner(kind, dates) == dates @@ [Geslachtsnaam |-> "Pieters", SoortVerbintenis |-> kind]
Begun == [DatumAangaanHuwelijk |-> "20200101", PlaatsAangaanHuwelijk |-> "0518"]
Ended2 == Begun @@ [DatumOntbindingHuwelijk |-> "20200101"]
PartnerItems == <<Partner("H", Begun), Partner("P", Ended2), Partner(".", Begun), Partner("P", [Geslacht |-> "V"])>>
PartnerLists == Products(PartnerItems, 2) \o
    <<<<Without(Partner("H", Begun), "SoortVerbintenis")>>, <<Without(Partner("H", Begun), "Geslachtsnaam")>>>>
Of(category, list) == [i \in DOMAIN list |-> Voorkomen(category, Items(list[i]))]

PersonVariants ==
    [i \in 1..7 |-> Without(Frouke, <<"Bsn", "Geslacht", "Geslachtsnaam", "Voornamen", "Geboortedatum",
                                      "Geboorteplaats", "Geboorteland">>[i])] \o
    <<[Frouke EXCEPT !.Geslacht = "X"], [Frouke EXCEPT !.Geboortedatum = "20000000"],
      [Frouke EXCEPT !.Geboortedatum = "20200101"], [Frouke EXCEPT !.Geboorteplaats = "Parijs"],
      [Frouke EXCEPT !.Geboorteplaats = "9999"], [Frouke EXCEPT !.Geboorteland = "0000"],
      Frouke @@ [Voorvoegsel |-> "de", AanduidingInOnderzoek |-> "010000"]>>
AddressVariants ==
    [i \in 1..5 |-> Without(AddressItems, <<"Straatnaam", "NaamOpenbareRuimte", "Huisnummer", "Postcode",
                                            "Woonplaats">>[i])] \o
    <<[AddressItems EXCEPT !.Huisnummer = "7a"], [AddressItems EXCEPT !.Huisnummer = "0007"],
      [Without(AddressItems, "Woonplaats") EXCEPT !.Huisnummer = "7a"],
      AddressItems @@ [Huisletter |-> "a", AangifteAdreshouding |-> "W"]>>

Usual == Xml(Frouke, <<>>, AddressItems)
Variants ==
    [i \in DOMAIN PersonVariants |-> Xml(PersonVariants[i], <<>>, AddressItems)] \o
    [i \in DOMAIN AddressVariants |-> Xml(Frouke, <<>>, AddressVariants[i])] \o
    [i \in DOMAIN NationalityLists |-> Xml(Frouke, Of("Nationality", NationalityLists[i]), AddressItems)] \o
    [i \in DOMAIN PartnerLists |-> Xml(Frouke, Of("MarriagePartnership", PartnerLists[i]), AddressItems)] \o
    <<[Usual EXCEPT !.voorkomens = Front(@)], [Usual EXCEPT !.voorkomens = Tail(@)],
      [Usual EXCEPT !.results = <<>>], [Usual EXCEPT !.results = <<[code |-> "01", letter |-> "X"]>>],
      [Usual EXCEPT !.results = Append(@, EmptyResult)],
      [results |-> <<EmptyResult>>, voorkomens |-> <<>>],
      [Usual EXCEPT !.voorkomens[1].items = Append(@, Entry("Voornamen", "Karel"))]>>

Login(xml, only_requested) ==
    [files |-> <<Some(xml), None>>, register |-> <<None, Some(Xml(PersonItems("222"), <<>>, AddressItems))>>,
     noop |-> FALSE, bsn |-> <<"111", "222">>, people |-> {1}, only_requested |-> only_requested,
     certificates |-> [t \in {PID_DOCTYPE, ADDRESS_DOCTYPE} |-> "certificate"],
     userinfo |-> ProperUserInfo, jwks |-> {"provider"}, app2app |-> {FALSE}, max_logins |-> 1, faults |-> {"none"}, other_uris |-> {}]

OtherUris == {Uri("disclosure", None), Uri("other", None), Uri("issuance", None)}
MCLoginScenes ==
    <<[Login(Usual, FALSE) EXCEPT !.max_logins = 2, !.people = {1, 2}, !.other_uris = OtherUris],
      [Login(Usual, FALSE) EXCEPT !.max_logins = 2, !.people = {1, 2}, !.app2app = BOOLEAN],
      [Login(Usual, FALSE) EXCEPT !.max_logins = 2, !.app2app = BOOLEAN,
                           !.faults = {"none", "connect", "acs", "userinfo", "lost"}],
      [Login(Usual, FALSE) EXCEPT !.people = {1, 2}, !.noop = TRUE],
      [Login(Usual, FALSE) EXCEPT !.people = {1, 2}, !.register = <<None, None>>],
      [Login(Usual, FALSE) EXCEPT !.userinfo.enc = "A256GCM"],
      [Login(Usual, FALSE) EXCEPT !.userinfo.alg = "HS256"],
      [Login(Usual, FALSE) EXCEPT !.userinfo.expired = TRUE],
      [Login(Usual, FALSE) EXCEPT !.jwks = {"older key"}],
      [Login(Usual, FALSE) EXCEPT !.certificates = [t \in {PID_DOCTYPE} |-> "certificate"]]>> \o
    [i \in DOMAIN Variants |-> Login(Variants[i], FALSE)] \o
    [i \in DOMAIN PartnerLists |->
        Login(Xml(Frouke, Of("MarriagePartnership", PartnerLists[i]), AddressItems), TRUE)]

-----------------------------------------------------------------------------

\* The birth date is mandatory and the gender is not, and neither is a house number.
MCAppMapping ==
    [t \in {"pid", "address"} |->
        IF t = "pid"
        THEN [at \in {<<"pid", "bsn">>, <<"pid", "birth_date">>, <<"pid", "gender">>} |->
                 Mapped(at[2] # "gender", CASE at[2] = "bsn" -> "String" [] at[2] = "birth_date" -> "Date"
                                            [] at[2] = "gender" -> "Gender")]
        ELSE [at \in {<<"address", "street">>} |-> Mapped(TRUE, "String")]]
MCAppOrder ==
    [t \in {"pid", "address"} |->
        IF t = "pid" THEN <<<<"pid", "birth_date">>, <<"pid", "gender">>, <<"pid", "bsn">>>> ELSE <<<<"address", "street">>>>]

AppDocument(doc_type, entries) ==
    [doc_type |-> doc_type, issuer |-> [registration |-> Some("issuer")], attributes |-> (doc_type :> entries)]
AppPid(more) == AppDocument("pid", <<Entry("bsn", Text("1")), Entry("birth_date", DateText("2000-01-01"))>> \o more)
BothCards == <<AppDocument("address", <<Entry("street", Text("B"))>>), AppPid(<<Entry("gender", Integer(2))>>)>>
OneCard == <<AppPid(<<>>)>>

AppReader(organization, retain) ==
    [registration |-> Some(ReaderRegistration(organization, "purpose", retain, Some(60), FALSE, TRUE))]
Wanted(doc_type, names) == [doc_type |-> doc_type, names |-> names]
LoginRequest == [certificate |-> AppReader("shop", FALSE), wanted |-> <<Wanted("pid", {"bsn"})>>]
TwoCardsRequest ==
    [certificate |-> AppReader("shop", FALSE), wanted |-> <<Wanted("address", {"street"}), Wanted("pid", {"birth_date", "bsn"})>>]
GenderRequest == [certificate |-> AppReader("bank", TRUE), wanted |-> <<Wanted("pid", {"gender"})>>]

\* The calls of the app around one issuance, what is in the history, and how it ages.
AppHistory(first) ==
    [issuances |-> {first}, requests |-> {LoginRequest, TwoCardsRequest, GenderRequest}, times |-> {0},
     faults |-> {"none"}, calls |-> {}, max_events |-> 3]
MCAppScenes ==
    <<[AppHistory(BothCards) EXCEPT !.requests = {LoginRequest}, !.faults = {"none", "log", "recent", "documents"},
                                    !.calls = {"streams", "lock", "end"}, !.max_events = 1],
      [AppHistory(BothCards) EXCEPT !.requests = {LoginRequest}, !.faults = {"none", "log", "recent", "documents"},
                                    !.max_events = 2],
      [AppHistory(OneCard) EXCEPT !.requests = {LoginRequest}, !.calls = {"lock", "end"}, !.max_events = 2],
      AppHistory(BothCards), AppHistory(OneCard),
      [AppHistory(OneCard) EXCEPT !.requests = {LoginRequest}, !.times = {0, 1, 62, 63, 64}, !.max_events = 2]>>

-----------------------------------------------------------------------------

MCPinFailures == {<<1, FALSE>>, <<1, TRUE>>}
MCTimeoutsMs == {<<60000>>}

-----------------------------------------------------------------------------

MCItems(doc_type, names, info) == [doc_type |-> doc_type, name_spaces |-> <<<<doc_type, names>>>>, info |-> info]
MCRequestedItems == {MCItems("pid", <<"age", "name">>, None), MCItems("pid", <<"name", "age">>, Some("info")),
                     MCItems("address", <<"street">>, None)}
MCOid4vpSessions ==
    {[client_id |-> "shop", response_uri |-> "u1", nonce |-> "n1", mdoc_nonce |-> m] : m \in {"m1", "m2"}} \cup
    {[client_id |-> "bank", response_uri |-> "u1", nonce |-> "n1", mdoc_nonce |-> "m1"],
     [client_id |-> "shop", response_uri |-> "u2", nonce |-> "n1", mdoc_nonce |-> "m1"],
     [client_id |-> "shop", response_uri |-> "u1", nonce |-> "n2", mdoc_nonce |-> "m1"]}

-----------------------------------------------------------------------------

\* A component that does nothing while another is looked at.
IssuerRests == Init /\ backend = "memory"
LifeRests == LifeInit /\ chosen = 1
LoginRests == LoginInit /\ at_scene = 1
AppRests == InitApp /\ at_app_scene = 1

OthersRest == InitErrors /\ InitEncodings

AllInit ==
    \/ component = "issuer" /\ Init /\ LifeRests /\ LoginRests /\ AppRests /\ OthersRest
    \/ component = "attestation" /\ LifeInit /\ IssuerRests /\ LoginRests /\ AppRests /\ OthersRest
    \/ component = "login" /\ LoginInit /\ IssuerRests /\ LifeRests /\ AppRests /\ OthersRest
    \/ component = "app" /\ InitApp /\ IssuerRests /\ LifeRests /\ LoginRests /\ OthersRest
    \/ component \in {"errors", "encodings"} /\ OthersRest /\ IssuerRests /\ LifeRests /\ LoginRests /\ AppRests

AllNext ==
    \/ component = "issuer" /\ Next /\ UNCHANGED <<component, lifeVars, loginVars, appVars, errorVars, encodingVars>>
    \/ component = "attestation" /\ LifeNext /\ UNCHANGED <<component, vars, loginVars, appVars, errorVars, encodingVars>>
    \/ component = "login" /\ LoginNext /\ UNCHANGED <<component, vars, lifeVars, appVars, errorVars, encodingVars>>
    \/ component = "app" /\ NextApp /\ UNCHANGED <<component, vars, lifeVars, loginVars, errorVars, encodingVars>>
    \/ component = "errors" /\ NextErrors /\ UNCHANGED <<component, vars, lifeVars, loginVars, appVars, encodingVars>>
    \/ component = "encodings" /\ NextEncodings /\ UNCHANGED <<component, vars, lifeVars, loginVars, appVars, errorVars>>

AllSpec == AllInit /\ [][AllNext]_allVars

\* Only what the app shows, and only what it is told of failures.
ShownSpec == component = "app" /\ AllSpec
ToldSpec == component = "errors" /\ AllSpec
=============================================================================
