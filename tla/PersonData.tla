------------------------------ MODULE PersonData ------------------------------
(***************************************************************************)
(* The data of a person on their way into the wallet: the answer of the    *)
(* municipal register (GBA-V, an XML document of numbered categories and   *)
(* elements), what the converter makes of it, what the BRP proxy answers,  *)
(* and the PID and address attestations that the PID issuer announces.     *)
(*                                                                         *)
(* An element is named as in the converter instead of numbered.  Texts are *)
(* not looked into, except where the code parses them: the constants say   *)
(* which texts are numbers, dates and codes.                               *)
(***************************************************************************)
EXTENDS DocumentMapping

CONSTANTS NationalityTable, MunicipalityTable, CountryTable,  \* [code -> description]
          FourDigits,       \* the texts of four digits
          Numbers,          \* [text -> number]: the texts that are a u32
          AgeOn              \* [date -> age]: the dates that are complete

Get(elements, name) == IF name \in DOMAIN elements THEN Some(elements[name]) ELSE None
Has(elements, names) == names \subseteq DOMAIN elements

-----------------------------------------------------------------------------
(* The answer of the register.                                              *)

\* unwrap_list: of two items with the same number the last counts.
unwrap_list(items) == [n \in {item.name : item \in ToSet(items)} |-> LastValue(items, n)]

Voorkomen(category, items) == [category |-> category, items |-> items]

\* parse_response_xml: the last result counts, and there must be one.
parse_response_xml(xml) ==
    IF xml.results = <<>> THEN None
    ELSE Some([result |-> Last(xml.results),
               voorkomens |-> [i \in DOMAIN xml.voorkomens |->
                   [category |-> xml.voorkomens[i].category,
                    elements |-> unwrap_list(xml.voorkomens[i].items)]]])

get_voorkomens(response, category) ==
    LET found == SelectSeq(response.voorkomens, LAMBDA v : v.category = category)
    IN  [i \in DOMAIN found |-> found[i].elements]

EmptyResult == [code |-> "33", letter |-> "G"]
is_empty(response) == response.result = EmptyResult /\ response.voorkomens = <<>>
is_error(response) == response.result.letter \notin {"A", "G"}

-----------------------------------------------------------------------------
(* The converter: from the register to Haal-Centraal.                       *)

CodeDescription(table, code) == [code |-> Some(code), description |-> Get(table, code)]

municipalities_code_description(code) ==
    IF code \in FourDigits THEN CodeDescription(MunicipalityTable, code)
    ELSE [code |-> None, description |-> Some(code)]
country_code_description(code) == CodeDescription(CountryTable, code)
nationality_code_description(code) == CodeDescription(NationalityTable, code)

MapOption(Op(_), option) == IF option = None THEN None ELSE Some(Op(option[1]))

NameMandatory == {"Geslachtsnaam"}
GbaName(e) ==
    [given_names |-> Get(e, "Voornamen"), family_name_prefix |-> Get(e, "Voorvoegsel"),
     family_name |-> e["Geslachtsnaam"],
     name_usage |-> IF Has(e, {"IndicatieNaamgebruik"}) THEN e["IndicatieNaamgebruik"] ELSE "E"]

GbaBirth(e) ==
    [date |-> e["Geboortedatum"],
     place |-> MapOption(municipalities_code_description, Get(e, "Geboorteplaats")),
     country |-> MapOption(country_code_description, Get(e, "Geboorteland"))]

GbaInvestigation(e) ==
    IF Has(e, {"AanduidingInOnderzoek"})
    THEN Some([data_investigated |-> Get(e, "AanduidingInOnderzoek"), start_date |-> Get(e, "DatumIngangOnderzoek")])
    ELSE None

GbaNationality(e) ==
    [nationality |-> MapOption(nationality_code_description, Get(e, "Nationality")),
     indication_special_citizenship |-> Get(e, "AanduidingBijzonderNederlanderschap"),
     reason_intake |-> Get(e, "RedenOpnameNationaliteit"),
     reason_termination |-> Get(e, "RedenBeeindigenNationaliteit"),
     date_start_validity |-> Get(e, "IngangsdatumGeldigheid"), investigation |-> GbaInvestigation(e)]

PartnerMandatory == NameMandatory \cup {"SoortVerbintenis"}
GbaPartner(e) ==
    [name |-> GbaName(e), birth |-> IF Has(e, {"Geboortedatum"}) THEN Some(GbaBirth(e)) ELSE None,
     gender |-> Get(e, "Geslacht"), kind |-> e["SoortVerbintenis"],
     start |-> Get(e, "DatumAangaanHuwelijk"), end |-> Get(e, "DatumOntbindingHuwelijk"),
     investigation |-> GbaInvestigation(e)]

AddressMandatory == {"Straatnaam", "NaamOpenbareRuimte", "Huisnummer", "Woonplaats"}
GbaAddress(e) ==
    [short_street_name |-> e["Straatnaam"], official_street_name |-> e["NaamOpenbareRuimte"],
     house_number |-> Numbers[e["Huisnummer"]], house_letter |-> Get(e, "Huisletter"),
     house_number_addition |-> Get(e, "Huisnummertoevoeging"), postal_code |-> Get(e, "Postcode"),
     city |-> e["Woonplaats"], address_function |-> Get(e, "AangifteAdreshouding")]

GbaPerson(person, nationalities, partners, address) ==
    [bsn |-> person["Bsn"], gender |-> person["Geslacht"], name |-> GbaName(person),
     birth |-> GbaBirth(person), nationalities |-> [i \in DOMAIN nationalities |-> GbaNationality(nationalities[i])],
     partners |-> [i \in DOMAIN partners |-> GbaPartner(partners[i])], address |-> GbaAddress(address),
     investigation |-> GbaInvestigation(person)]

\* Vec<GbaPerson>::try_from: a person, none, an error, or a panic at a house number
\* that is no number.
PersonMandatory == {"Bsn", "Geslacht", "Geboortedatum"} \cup NameMandatory
GbaPersons(response) ==
    LET person == get_voorkomens(response, "Person")
        nationalities == get_voorkomens(response, "Nationality")
        partners == get_voorkomens(response, "MarriagePartnership")
        address == get_voorkomens(response, "Address")
    IN  CASE is_empty(response) -> [kind |-> "ok", persons |-> <<>>]
          [] ~is_empty(response) /\
             (\/ person = <<>> \/ address = <<>> \/ ~Has(person[1], PersonMandatory)
              \/ \E i \in DOMAIN partners : ~Has(partners[i], PartnerMandatory)
              \/ ~Has(address[1], AddressMandatory \ {"Woonplaats"})) -> [kind |-> "conversion"]
          [] OTHER ->
             IF address[1]["Huisnummer"] \notin DOMAIN Numbers THEN [kind |-> "panic"]
             ELSE IF ~Has(address[1], AddressMandatory) THEN [kind |-> "conversion"]
             ELSE [kind |-> "ok", persons |-> <<GbaPerson(person[1], nationalities, partners, address[1])>>]

\* A termination discards the nationality before it.
Terminate(keep) == Front(keep)

filter_terminated_nationalities(list) ==
    FoldLeft(LAMBDA keep, n :
                 CASE n.reason_termination = None /\ n.nationality # None -> Append(keep, n)
                   [] n.reason_termination # None /\ keep # <<>> -> Terminate(keep)
                   [] OTHER -> keep,
             <<>>, list)

\* request_personen, given the answer to vraag; and the status it is answered with.
request_personen(xml) ==
    LET response == parse_response_xml(xml[1])
        converted == GbaPersons(response[1])
    IN  CASE xml = None -> [kind |-> "transport"]
          [] xml # None /\ (response = None \/ is_error(response[1])) -> [kind |-> "gba"]
          [] OTHER ->
             IF converted.kind # "ok" THEN converted
             ELSE [kind |-> "ok", persons |-> [i \in DOMAIN converted.persons |->
                      [converted.persons[i] EXCEPT !.nationalities = filter_terminated_nationalities(@)]]]

StatusCode(kind) ==
    CASE kind = "ok" -> 200 [] kind \in {"gba", "conversion"} -> 412 [] kind \in {"transport", "panic"} -> 500

-----------------------------------------------------------------------------
(* The BRP proxy, which is not part of the repository: it adds the age and  *)
(* the names of places, and may leave out what was not asked for.  The PID  *)
(* issuer does not ask when a partnership began or ended.                   *)

BrpAnswer(person, only_requested) ==
    [person EXCEPT !.birth = [date |-> @.date, age |-> Get(AgeOn, @.date),
                              country |-> IF @.country = None THEN None ELSE @.country[1].description,
                              place |-> IF @.place = None THEN None ELSE @.place[1].description],
                   !.partners = [i \in DOMAIN @ |->
                       [kind |-> @[i].kind,
                        start |-> IF only_requested THEN None ELSE @[i].start,
                        end |-> IF only_requested THEN None ELSE @[i].end]],
                   !.address = [official_street_name |-> Some(@.official_street_name),
                                short_street_name |-> Some(@.short_street_name),
                                house_number |-> @.house_number, postal_code |-> @.postal_code,
                                city |-> @.city, country |-> None]]

-----------------------------------------------------------------------------
(* The PID issuer.                                                          *)

GenderCode == [O |-> 0, M |-> 1, V |-> 2]

\* serde: what BrpPerson requires.
BrpPersonDeserializes(person) ==
    /\ person.gender \in DOMAIN GenderCode
    /\ person.birth.age # None /\ person.birth.country # None /\ person.birth.place # None
    /\ person.address.postal_code # None

is_over_18(person) == person.birth.age[1] >= 18

\* The most recent partnership is the first.
has_spouse_or_partner(person) ==
    /\ person.partners # <<>>
    /\ LET partner == person.partners[1]
       IN  partner.kind \in {"H", "P"} /\ partner.start # None /\ partner.end = None

Optional(name, option) == IF option = None THEN <<>> ELSE <<Entry(name, Text(option[1]))>>

PID_DOCTYPE == "com.example.pid"
ADDRESS_DOCTYPE == "com.example.address"

\* Mutant: an attribute has another name than the wallet expects.
PidEntries_prefix(person) ==
    <<Entry("bsn", Text(person.bsn)), Entry("family_name", Text(person.name.family_name))>>
    \o Optional("prefix", person.name.family_name_prefix)
    \o Optional("given_name", person.name.given_names)
    \o <<Entry("birth_date", DateText(person.birth.date)), Entry("age_over_18", Bool(is_over_18(person))),
         Entry("has_spouse_or_partner", Bool(has_spouse_or_partner(person)))>>

PidEntries(person) ==
    <<Entry("bsn", Text(person.bsn)), Entry("family_name", Text(person.name.family_name))>>
    \o Optional("family_name_prefix", person.name.family_name_prefix)
    \o Optional("given_name", person.name.given_names)
    \o <<Entry("birth_date", DateText(person.birth.date)),
         Entry("birth_country", Text(person.birth.country[1])),
         Entry("birth_city", Text(person.birth.place[1])),
         Entry("age_over_18", Bool(is_over_18(person))),
         Entry("gender", Integer(GenderCode[person.gender])),
         Entry("has_spouse_or_partner", Bool(has_spouse_or_partner(person)))>>

street(address) ==
    IF address.official_street_name # None THEN address.official_street_name ELSE address.short_street_name

AddressEntries(person) ==
    <<Entry("resident_country", Text(IF person.address.country = None THEN "Nederland"
                                     ELSE person.address.country[1]))>>
    \o Optional("resident_street", street(person.address)) \o
    <<Entry("resident_postal_code", Text(person.address.postal_code[1])),
      Entry("resident_house_number", Text(ToString(person.address.house_number))),
      Entry("resident_city", Text(person.address.city))>>

UnsignedMdocs(person, today) ==
    LET mdoc(doc_type, entries) ==
            [doc_type |-> doc_type, copies |-> 2, period |-> [from |-> today, until |-> today + 365],
             attributes |-> [ns \in {doc_type} |-> entries]]
    IN  <<mdoc(PID_DOCTYPE, PidEntries(person)), mdoc(ADDRESS_DOCTYPE, AddressEntries(person))>>

\* BrpPidAttributeService::attributes, once the BSN is known: the previews of the
\* first person, if there is a certificate for every document type.
attributes(answer, only_requested, today, certificates) ==
    IF StatusCode(answer.kind) # 200 \/ answer.persons = <<>> THEN None
    ELSE LET person == BrpAnswer(answer.persons[1], only_requested)
         IN  IF ~BrpPersonDeserializes(person) THEN None
             ELSE LET mdocs == UnsignedMdocs(person, today)
                  IN  IF \E i \in DOMAIN mdocs : mdocs[i].doc_type \notin DOMAIN certificates THEN None
                      ELSE Some([i \in DOMAIN mdocs |->
                               [unsigned |-> mdocs[i], issuer |-> certificates[mdocs[i].doc_type]]])

-----------------------------------------------------------------------------
(* How the wallet shows the two.                                            *)

MandatoryPid == {"given_name", "family_name", "birth_date", "age_over_18", "bsn"}
OptionalPid == {"family_name_prefix", "given_name_birth", "family_name_birth", "gender", "birth_place",
                "birth_city", "birth_state", "birth_country", "has_spouse_or_partner"}

PidMapping ==
    [at \in {PID_DOCTYPE} \X (MandatoryPid \cup OptionalPid) |->
        Mapped(at[2] \in MandatoryPid,
               CASE at[2] = "gender" -> "Gender" [] at[2] = "birth_date" -> "Date"
                 [] at[2] \in {"age_over_18", "has_spouse_or_partner"} -> "Bool" [] OTHER -> "String")]

AddressMapping ==
    [at \in {ADDRESS_DOCTYPE} \X {"resident_address", "resident_street", "resident_house_number",
                                  "resident_postal_code", "resident_city", "resident_state", "resident_country"} |->
        Mapped(FALSE, "String")]

MDOC_DOCUMENT_MAPPING ==
    [t \in {PID_DOCTYPE, ADDRESS_DOCTYPE} |-> IF t = PID_DOCTYPE THEN PidMapping ELSE AddressMapping]
=============================================================================
