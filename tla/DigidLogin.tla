------------------------------ MODULE DigidLogin ------------------------------
(***************************************************************************)
(* Logins with DigiD, with what becomes of the data of a person on the way *)
(* from the register to the screen of the wallet.                          *)
(***************************************************************************)
EXTENDS DigidSession, PersonData

\* NoopGbavClient
NoopVraag == [results |-> <<EmptyResult>>, voorkomens |-> <<>>]

\* Every preview can be shown as a card.
PreviewsDisplayable(previews) ==
    \A i \in DOMAIN previews :
        Displayable(MDOC_DOCUMENT_MAPPING, previews[i].unsigned.doc_type, previews[i].unsigned.attributes, TRUE)

-----------------------------------------------------------------------------
(* Properties.                                                              *)

ShownValue(name) ==
    LET entries == digid[1].previews[1].unsigned.attributes[PID_DOCTYPE]
    IN  LastValue(entries, name)

\* The PID that is shown is that of the person who logged in, and has the BSN of that
\* person, through all conversions.
OwnLoginShown ==
    OwnPersonShown /\ (PidShown => ShownValue("bsn") = Text(LoginScene.bsn[logins[digid[1].login].person]))

\* What the register must say of a person who can have a PID.
ItemsOf(xml, category) ==
    LET found == SelectSeq(xml.voorkomens, LAMBDA v : v.category = category)
    IN  [i \in DOMAIN found |-> unwrap_list(found[i].items)]
Complete(xml) ==
    /\ xml.results # <<>> /\ Last(xml.results).letter \in {"A", "G"}
    /\ ItemsOf(xml, "Person") # <<>> /\ ItemsOf(xml, "Address") # <<>>
    /\ LET person == ItemsOf(xml, "Person")[1]
           address == ItemsOf(xml, "Address")[1]
       IN  /\ Has(person, PersonMandatory \cup {"Voornamen", "Geboorteplaats", "Geboorteland"})
           /\ person["Geslacht"] \in {"M", "V", "O"} /\ person["Geboortedatum"] \in DOMAIN AgeOn
           /\ person["Geboorteplaats"] \notin FourDigits \ DOMAIN MunicipalityTable
           /\ person["Geboorteland"] \in DOMAIN CountryTable
           /\ Has(address, AddressMandatory \cup {"Postcode"}) /\ address["Huisnummer"] \in DOMAIN Numbers
    /\ \A i \in DOMAIN ItemsOf(xml, "MarriagePartnership") :
           Has(ItemsOf(xml, "MarriagePartnership")[i], PartnerMandatory)

ProperUserInfo == [enc |-> "A128CBC-HS256", alg |-> "RS256", key |-> "provider", expired |-> FALSE]

\* A person of whom the register knows enough is shown a PID when the redirect of
\* their login arrives in time and nothing fails, and nobody else is: converter,
\* issuer and wallet agree on which attributes there are, what they are called and
\* what is mandatory, and the code is exchanged with the right verifier.
LoginSucceeds ==
    [][did'.name = "continue" /\ did'.fault = "none" /\ did'.outcome # "session state" =>
           LET n == digid[1].login
               own == /\ identified[1] \in {CodeRedirect(n), Uri("issuance", Some(AppQuery(n, FALSE)))}
                      /\ digid[1].app2app = (identified[1].query[1].kind = "app")
               answer == vraag(logins[n].person)
           IN  did'.outcome = "ok" <=>
                   /\ LoginScene.userinfo = ProperUserInfo /\ ProperUserInfo.key \in LoginScene.jwks
                   /\ own /\ ~logins[n].used /\ answer # None /\ Complete(answer[1])
                   /\ {PID_DOCTYPE, ADDRESS_DOCTYPE} \subseteq DOMAIN LoginScene.certificates]_loginVars

\* Nobody is shown as married or in a partnership whose last partnership has not
\* begun, has ended or is unknown; if the proxy answers all it knows, everybody
\* else who has one is.
SpouseIsTrue ==
    PidShown =>
        LET partners == ItemsOf(vraag(logins[digid[1].login].person)[1], "MarriagePartnership")
            married == /\ partners # <<>> /\ partners[1]["SoortVerbintenis"] \in {"H", "P"}
                       /\ Has(partners[1], {"DatumAangaanHuwelijk"})
                       /\ ~Has(partners[1], {"DatumOntbindingHuwelijk"})
        IN  /\ ShownValue("has_spouse_or_partner") = Bool(TRUE) => married
            /\ married /\ ~LoginScene.only_requested => ShownValue("has_spouse_or_partner") = Bool(TRUE)

\* How many more nationalities than terminations there are in a part of the list.
Counted(list, from, to) ==
    Cardinality({i \in from..to : ~Has(list[i], {"RedenBeeindigenNationaliteit"}) /\ Has(list[i], {"Nationality"})})
        - Cardinality({i \in from..to : Has(list[i], {"RedenBeeindigenNationaliteit"})})

\* A nationality is kept exactly if the terminations after it never outnumber the
\* nationalities after it: each ends the last one that has not been ended
\* (filter_terminated_nationalities).
NationalitiesFiltered ==
    converted.kind = "ok" /\ converted.persons # <<>> =>
        LET list == ItemsOf(vraag(1)[1], "Nationality")
            kept == {i \in DOMAIN list :
                        /\ Counted(list, i, i) = 1
                        /\ \A j \in i..Len(list) : Counted(list, i + 1, j) >= 0}
            places == SetToSortSeq(kept, <)
        IN  converted.persons[1].bsn = LoginScene.bsn[1] =>
                converted.persons[1].nationalities = [k \in DOMAIN places |-> GbaNationality(list[places[k]])]

\* The PID that the user is shown is theirs and true: it is that of the login for
\* this session, whose code went with its own verifier, and it says of partners and
\* nationalities what the register says, however its entries are ordered and ended.
PidIsTrue == OwnLoginShown /\ CodesFitVerifiers /\ SpouseIsTrue /\ NationalitiesFiltered
=============================================================================
