------------------------------- MODULE WalletApp -------------------------------
(***************************************************************************)
(* What the app shows: the cards, the history and the request that a user  *)
(* accepts.  Between a call to the wallet and the screen are the tables of *)
(* the history, in which attributes are kept as JSON and document types in *)
(* tables of their own, and the conversions to the types of the app.       *)
(*                                                                         *)
(* The calls hold the write lock of the wallet, so one runs at a time, but *)
(* any of the accesses to the storage in it may fail.  The wallet is a     *)
(* record, phone, with what it has stored and what it holds in memory, and *)
(* the streams and answers that the app got are another one, screen.  A    *)
(* scene has the mdocs that are issued together, what relying parties ask  *)
(* for, the times at which something happens, which accesses fail, which   *)
(* calls the app makes more than it has to, and a bound on the events.     *)
(***************************************************************************)
EXTENDS DocumentMapping

CONSTANTS AppMapping,       \* per document type, what is shown of a name space and name
          AppOrder,         \* per document type, the entries of the mapping in order
          AppScenes         \* what may happen in a behaviour

VARIABLES phone, screen, at_app_scene

appVars == <<phone, screen, at_app_scene>>

EveryAppScene == AppScenes
AppScene == EveryAppScene[at_app_scene]

\* The mapping of the wallet is a constant: its entries and their order.
DisplayMapping == AppMapping
MappingOrder == AppOrder

-----------------------------------------------------------------------------
(* Documents, as the app shows them.                                        *)

GenderAttributeValue == [i \in GenderValues |->
    CASE i = 0 -> "Unknown" [] i = 1 -> "Male" [] i = 2 -> "Female" [] i = 9 -> "NotApplicable"]

\* A text that is a date is parsed.
AttributeValue(value_type, value) ==
    CASE value_type = "Gender" -> <<"Gender", GenderAttributeValue[value[2]]>>
      [] value_type = "Date" -> <<"Date", [date |-> value[2]]>>
      [] OTHER -> <<value_type, value[2]>>

\* The attributes that are there, in the order of the mapping.
document_attributes(doc_type, attributes) ==
    LET found == SelectSeq(MappingOrder[doc_type], LAMBDA at : Position(attributes, at[1], at[2]) # None)
    IN  [i \in DOMAIN found |->
            LET ns == found[i][1]
                place == Position(attributes, ns, found[i][2])[1]
            IN  [key |-> found[i], value |-> AttributeValue(DisplayMapping[doc_type][found[i]].value_type,
                                                            attributes[ns][place].value)]]

\* For the app a date is written as a text again.
CardValue(value) == IF value[1] = "Date" THEN <<"Date", value[2].date>> ELSE value
into_card_attributes(attributes) == [i \in DOMAIN attributes |-> [attributes[i] EXCEPT !.value = CardValue(@)]]
Card(document) == [document EXCEPT !.attributes = into_card_attributes(@)]

\* An issuer certificate is its registration, if it has one.
IssuerRegistration(certificate) == certificate.registration

\* Document::from_mdoc_attributes: everything that is mandatory is there.
Document_from_mdoc(persistence, doc_type, attributes, registration) ==
    IF Displayable(DisplayMapping, doc_type, attributes, TRUE)
    THEN Some([persistence |-> persistence, doc_type |-> doc_type, issuer |-> registration,
               attributes |-> document_attributes(doc_type, attributes)])
    ELSE None

\* DisclosureDocument::from_mdoc_attributes: a part of a document.
DisclosureDocument_from_mdoc(doc_type, document) ==
    IF Displayable(DisplayMapping, doc_type, document.attributes, FALSE)
    THEN Some([doc_type |-> doc_type, issuer |-> IssuerRegistration(document.issuer)[1],
               attributes |-> document_attributes(doc_type, document.attributes)])
    ELSE None

\* collect::<Result<Vec<_>, _>>: all of them, or an error.
Collected(options) ==
    IF \E i \in DOMAIN options : options[i] = None THEN None
    ELSE Some([i \in DOMAIN options |-> options[i][1]])

doc_type_priority(doc_type) == CASE doc_type = "pid" -> 0 [] doc_type = "address" -> 1 [] OTHER -> 2

\* sort_by_key is stable.
ByPriority(documents) ==
    LET before(i, j) == LET p == doc_type_priority(documents[i].doc_type)
                            q == doc_type_priority(documents[j].doc_type)
                        IN  p < q \/ (p = q /\ i < j)
        order == SetToSortSeq(DOMAIN documents, before)
    IN  [i \in DOMAIN order |-> documents[order[i]]]

\* The retention, sharing and deletion policies are part of the registration of a reader.
ReaderRegistration(organization, purpose, retain, max_duration, share, delete) ==
    [organization |-> organization, purpose |-> purpose, retain |-> retain, max_duration |-> max_duration,
     share |-> share, delete |-> delete]

\* What the app shows of a registration, of its policy in particular.
RequestPolicy(registration) ==
    [data_storage_duration |-> IF registration.retain THEN registration.max_duration ELSE None,
     data_shared |-> registration.share, data_deletion_possible |-> registration.delete]
RelyingParty(registration) ==
    [organization |-> registration.organization, purpose |-> registration.purpose, policy |-> RequestPolicy(registration)]

-----------------------------------------------------------------------------
(* Events.                                                                  *)

EventAttributes(issuer, attributes) ==
    [issuer |-> issuer, attributes |-> [ns \in DOMAIN attributes |-> IndexMap(attributes[ns])]]

\* TryFrom<Vec<Mdoc>> and From<ProposedAttributes>: one entry for a document type.
EventDocuments(documents) ==
    IndexMap([i \in DOMAIN documents |->
        Entry(documents[i].doc_type, EventAttributes(documents[i].issuer, documents[i].attributes))])

new_issuance(id, timestamp, documents) ==
    [id |-> id, timestamp |-> timestamp, documents |-> EventDocuments(documents)]
new_disclosure(id, timestamp, documents, certificate, status, type) ==
    [id |-> id, timestamp |-> timestamp, reader_certificate |-> certificate, status |-> status, type |-> type,
     documents |-> IF documents = None THEN None ELSE Some(EventDocuments(documents[1]))]

\* Exactly one attribute, the BSN of the PID, makes it a login.
DisclosureType(proposed) ==
    IF /\ Len(proposed) = 1 /\ proposed[1].doc_type = "pid" /\ DOMAIN proposed[1].attributes = {"pid"}
       /\ Len(proposed[1].attributes["pid"]) = 1 /\ proposed[1].attributes["pid"][1].name = "bsn"
    THEN "Login" ELSE "Regular"

IsIssuance(event) == "status" \notin DOMAIN event

associated_doc_types(event) ==
    LET documents == IF IsIssuance(event) THEN event.documents
                     ELSE IF event.documents = None THEN <<>> ELSE event.documents[1]
    IN  {documents[i].name : i \in DOMAIN documents}

\* serde_json: texts become strings, and booleans and integers what they are in JSON.
JsonType(value) ==
    CASE value[1] \in {"text", "date"} -> "string" [] value[1] = "bool" -> "boolean" [] value[1] = "integer" -> "number"
to_value(documents) ==
    [i \in DOMAIN documents |->
        [documents[i] EXCEPT !.value.attributes =
            [ns \in DOMAIN @ |-> [j \in DOMAIN @[ns] |-> [@[ns][j] EXCEPT !.value = [type |-> JsonType(@), of |-> @]]]]]]
from_value(documents) ==
    [i \in DOMAIN documents |->
        [documents[i] EXCEPT !.value.attributes =
            [ns \in DOMAIN @ |-> [j \in DOMAIN @[ns] |-> [@[ns][j] EXCEPT !.value = @.of]]]]]

\* WalletEventModel::try_from and WalletEvent_try_from::try_from
WalletEventModel(event) ==
    [event EXCEPT !.documents = IF IsIssuance(event) THEN to_value(@)
                                ELSE IF @ = None THEN None ELSE Some(to_value(@[1]))]
WalletEvent_try_from(model) ==
    [model EXCEPT !.documents = IF IsIssuance(model) THEN from_value(@)
                                ELSE IF @ = None THEN None ELSE Some(from_value(@[1]))]

-----------------------------------------------------------------------------
(* The tables of the history.                                               *)

NoHistory ==
    [issuance |-> {}, disclosure |-> {}, doc_types |-> {},
     issuance_doc_types |-> {}, disclosure_doc_types |-> {}]

\* Rows of the two tables that link an event and a document type.
IssuanceDocType(event, doc_type) == [issuance_history_event_id |-> event.id, history_doc_type_id |-> doc_type.id]
DisclosureDocType(event, doc_type) == [disclosure_history_event_id |-> event.id, history_doc_type_id |-> doc_type.id]

\* Mutant: only the document types that are new are linked to the event.
insert_history_event_new_only(history, event, new, existing) ==
    LET tables == [history EXCEPT !.doc_types = @ \cup new]
    IN  IF IsIssuance(event)
        THEN [tables EXCEPT !.issuance = @ \cup {WalletEventModel(event)},
                            !.issuance_doc_types = @ \cup {IssuanceDocType(event, t) : t \in new}]
        ELSE [tables EXCEPT !.disclosure = @ \cup {WalletEventModel(event)},
                            !.disclosure_doc_types = @ \cup {DisclosureDocType(event, t) : t \in new}]

\* insert_history_event_and_doc_type_mappings
insert_history_event(history, event, new, existing) ==
    LET linked == new \cup existing
        tables == [history EXCEPT !.doc_types = @ \cup new]
    IN  IF IsIssuance(event)
        THEN [tables EXCEPT !.issuance = @ \cup {WalletEventModel(event)},
                            !.issuance_doc_types = @ \cup {IssuanceDocType(event, t) : t \in linked}]
        ELSE [tables EXCEPT !.disclosure = @ \cup {WalletEventModel(event)},
                            !.disclosure_doc_types = @ \cup {DisclosureDocType(event, t) : t \in linked}]

\* In one transaction.  The identifier of a new document type is a new one.
log_wallet_event(history, event) ==
    LET types == associated_doc_types(event)
        existing == {t \in history.doc_types : t.doc_type \in types}
        new == {[id |-> <<event.id, t>>, doc_type |-> t] : t \in types \ {e.doc_type : e \in existing}}
    IN  insert_history_event(history, event, new, existing)

combine_history_events(issuance, disclosure) ==
    LET newest(a, b) == a.timestamp[1] > b.timestamp[1] \/ (a.timestamp[1] = b.timestamp[1] /\ a.timestamp[2] > b.timestamp[2])
        models == SetToSortSeq(issuance \cup disclosure, newest)
    IN  [i \in DOMAIN models |-> WalletEvent_try_from(models[i])]

fetch_wallet_events(history) == combine_history_events(history.issuance, history.disclosure)

\* Time is counted in half days, so that two times of one day are told apart.
DateOf(time) == time \div 2
Days(n) == 2 * n

\* Mutant: a month of thirty days.
newer_than_31_days_short(event, now) == DateOf(event.timestamp[1]) >= DateOf(now - Days(30))

\* The query compares texts.  The date of a stored time is followed by a T and that of
\* DATETIME('now', '-31 day') by a space, which sorts before it, so that of two times
\* on the same date the stored one is always the greater.
newer_than_31_days(event, now) == DateOf(event.timestamp[1]) >= DateOf(now - Days(31))

fetch_recent_wallet_events(history, now) ==
    combine_history_events({e \in history.issuance : newer_than_31_days(e, now)},
                           {e \in history.disclosure : newer_than_31_days(e, now)})

\* The document types, by the name a card has.
HistoryDocTypes(history, doc_type) == {t \in history.doc_types : t.doc_type = doc_type}

fetch_wallet_events_by_doc_type(history, doc_type) ==
    LET types == HistoryDocTypes(history, doc_type)
    IN  combine_history_events(
            {e \in history.issuance : \E t \in types : IssuanceDocType(e, t) \in history.issuance_doc_types},
            {e \in history.disclosure : \E t \in types : DisclosureDocType(e, t) \in history.disclosure_doc_types})

did_share_data_with(history, certificate) ==
    \E e \in history.disclosure : e.reader_certificate = certificate /\ e.status = "Success" /\ e.documents # None

-----------------------------------------------------------------------------
(* From events to what the app shows of them.                               *)

\* HistoryEvent::try_from, for the documents of an issuance and of a disclosure.
IssuedDocuments(documents) ==
    Collected([i \in DOMAIN documents |->
        AndThen(IssuerRegistration(documents[i].value.issuer), LAMBDA registration :
            Document_from_mdoc("InMemory", documents[i].name, documents[i].value.attributes, registration))])

SharedDocuments(documents) ==
    Collected([i \in DOMAIN documents |-> DisclosureDocument_from_mdoc(documents[i].name, documents[i].value)])

\* An Option<Vec> that cannot be made, one that is absent, and one that is there.
HistoryEvent_try_from(event) ==
    IF IsIssuance(event)
    THEN AndThen(IssuedDocuments(event.documents), LAMBDA documents :
             Some([id |-> event.id, timestamp |-> event.timestamp, mdocs |-> documents]))
    ELSE LET shared == IF event.documents = None THEN Some(None)
                       ELSE AndThen(SharedDocuments(event.documents[1]), LAMBDA documents : Some(Some(documents)))
         IN  AndThen(shared, LAMBDA documents :
                 AndThen(event.reader_certificate.registration, LAMBDA registration :
                     Some([id |-> event.id, timestamp |-> event.timestamp, status |-> event.status, type |-> event.type,
                           relying_party |-> RelyingParty(registration), documents |-> documents])))

CardsOf(documents) == [i \in DOMAIN documents |-> Card(documents[i])]

\* WalletEvents::from: an issuance becomes an entry for every card.
WalletEvents_from(event) ==
    IF "mdocs" \in DOMAIN event
    THEN [i \in DOMAIN event.mdocs |-> [id |-> event.id, date_time |-> event.timestamp, card |-> Card(event.mdocs[i])]]
    ELSE <<[id |-> event.id, date_time |-> event.timestamp, status |-> event.status, type |-> event.type,
            relying_party |-> event.relying_party,
            requested_cards |-> IF event.documents = None THEN None ELSE Some(CardsOf(event.documents[1]))]>>

\* All events, or none when one of them cannot be converted.
ForApp(events) ==
    AndThen(Collected([i \in DOMAIN events |-> HistoryEvent_try_from(events[i])]), LAMBDA converted :
        Some(FlattenSeq([i \in DOMAIN converted |-> WalletEvents_from(converted[i])])))

IsAbout(entry, doc_type) == "card" \in DOMAIN entry => entry.card.doc_type = doc_type

CanAskHistory(p) == p.registered /\ ~p.locked
get_history(p) ==
    IF CanAskHistory(p) THEN ForApp(fetch_wallet_events(p.history)) ELSE None
get_history_for_card(p, doc_type) ==
    IF ~CanAskHistory(p) THEN None
    ELSE AndThen(ForApp(fetch_wallet_events_by_doc_type(p.history, doc_type)), LAMBDA entries :
             Some(SelectSeq(entries, LAMBDA e : IsAbout(e, doc_type))))

-----------------------------------------------------------------------------
(* The wallet in memory and the streams to the app.  A stream is absent, or *)
(* it is open and has shown nothing yet or what was last sent on it.        *)

Wiped(p) == [p EXCEPT !.registered = FALSE, !.locked = TRUE, !.mdocs = {}, !.history = NoHistory, !.session = None]

Timestamp(p) == <<p.now, p.serial>>
NotSent(s, streams) == [s EXCEPT !.late = @ \cup streams]
SentOn(stream, content) == IF stream = None THEN None ELSE Some(Some(content))

Documents(p) ==
    LET stored == SetToSortSeq(p.mdocs, LAMBDA a, b : a.id < b.id)
    IN  Collected([i \in DOMAIN stored |->
            Document_from_mdoc(<<"Stored", stored[i].id>>, stored[i].doc_type, stored[i].attributes,
                               IssuerRegistration(stored[i].issuer)[1])])

emit_documents(p, s) ==
    [s EXCEPT !.cards = SentOn(@, CardsOf(ByPriority(Documents(p)[1]))), !.late = @ \ {"cards"}]

RecentHistory(p) == ForApp(fetch_recent_wallet_events(p.history, p.now))

\* The outcome of a call: the wallet, what the app got, and whether it succeeded.
Result(p, s, ok) == [phone |-> p, screen |-> s, ok |-> ok]

\* Nothing is sent if the events cannot be fetched or converted.
emit_recent_history(p, s, recent) ==
    IF recent = None THEN Result(p, NotSent(s, {"recent"}), FALSE)
    ELSE Result(p, [s EXCEPT !.recent = SentOn(@, [at |-> p.now, events |-> recent[1]]), !.late = @ \ {"recent"}], TRUE)
EmitRecent(p, s, fault) == emit_recent_history(p, s, IF fault = "recent" THEN None ELSE RecentHistory(p))

\* The event is in the database even if the app is not told of it.
store_history_event(p, s, event, fault) ==
    IF fault = "log" THEN Result([p EXCEPT !.serial = @ + 1], s, FALSE)
    ELSE EmitRecent([p EXCEPT !.history = log_wallet_event(@, event), !.serial = @ + 1], s, fault)

\* The call ends with this outcome.
Becomes(result) == phone' = result.phone /\ screen' = result.screen

Faults == {"none", "log", "recent"} \cap AppScene.faults

CanMakeEvents(n) == phone.registered /\ ~phone.locked /\ phone.serial + n <= AppScene.max_events

InitApp ==
    /\ at_app_scene \in DOMAIN EveryAppScene
    /\ phone = [registered |-> FALSE, locked |-> TRUE, mdocs |-> {}, history |-> NoHistory, session |-> None,
                now |-> Min(AppScene.times), serial |-> 0]
    /\ screen = [cards |-> None, recent |-> None, late |-> {}, request |-> None, told |-> {}]

-----------------------------------------------------------------------------
(* Issuance.                                                                *)

WithCards(stored, fault) ==
    [stored EXCEPT !.screen = IF stored.ok /\ fault # "documents" THEN emit_documents(stored.phone, @)
                              ELSE NotSent(@, {"cards"})]

\* Storing the mdocs, the event and the two streams may each fail, and what comes
\* after is then not done.
AcceptPidIssuance(documents, fault) ==
    /\ CanMakeEvents(1) /\ fault \in AppScene.faults
    /\ \A i \in DOMAIN documents : IssuerRegistration(documents[i].issuer) # None
    /\ LET new == {[id |-> 10 * phone.serial + i, doc_type |-> documents[i].doc_type, issuer |-> documents[i].issuer,
                    attributes |-> documents[i].attributes] : i \in DOMAIN documents}
       IN  Becomes(WithCards(store_history_event([phone EXCEPT !.mdocs = @ \cup new], screen,
                                                 new_issuance(phone.serial, Timestamp(phone), documents), fault),
                             fault))

\* A PIN timeout while accepting wipes the wallet, as does a reset by the user.
ResetWallet ==
    /\ phone.registered
    /\ phone' = Wiped(phone)
    /\ screen' = NotSent([screen EXCEPT !.request = None], {"cards", "recent"})

-----------------------------------------------------------------------------
(* Disclosure.  A request names the entries it wants per document type, in  *)
(* the name space of that type.                                             *)

\* The mdocs of a type that have all that is wanted of it.
CandidatesOf(mdocs, wanted) ==
    {d \in mdocs : d.doc_type = wanted.doc_type /\ \A name \in wanted.names : Position(d.attributes, d.doc_type, name) # None}

ProposalOf(mdoc, wanted) ==
    [doc_type |-> mdoc.doc_type, issuer |-> mdoc.issuer,
     attributes |-> (mdoc.doc_type :> SelectSeq(mdoc.attributes[mdoc.doc_type], LAMBDA e : e.name \in wanted.names))]

\* With two candidates for a type there is no session.
Ambiguous(request) == \E w \in ToSet(request.wanted) : Cardinality(CandidatesOf(phone.mdocs, w)) > 1
Missing(request) == \E w \in ToSet(request.wanted) : CandidatesOf(phone.mdocs, w) = {}
proposals(request) ==
    [i \in DOMAIN request.wanted |->
        ProposalOf(CHOOSE d \in CandidatesOf(phone.mdocs, request.wanted[i]) : TRUE, request.wanted[i])]

\* What StartDisclosureResult has for a proposal and for missing attributes.
StartDisclosureResult(request, cards, type) ==
    [relying_party |-> RelyingParty(request.certificate.registration[1]), requested_cards |-> cards,
     request_type |-> type, shared_before |-> did_share_data_with(phone.history, request.certificate)]

Propose(request, proposed) ==
    \E documents \in {Collected([i \in DOMAIN proposed |-> DisclosureDocument_from_mdoc(proposed[i].doc_type, proposed[i])])} :
        /\ documents # None
        /\ phone' = [phone EXCEPT !.session = Some([certificate |-> request.certificate, proposed |-> Some(proposed)])]
        /\ screen' = [screen EXCEPT !.request = Some(StartDisclosureResult(request, Some(CardsOf(documents[1])), Some(DisclosureType(proposed))))]

StartShowing(request) ==
    /\ phone.registered /\ ~phone.locked /\ phone.session = None /\ phone.serial < AppScene.max_events
    /\ Missing(request) \/ ~Ambiguous(request)
    /\ IF Missing(request)
       THEN /\ phone' = [phone EXCEPT !.session = Some([certificate |-> request.certificate, proposed |-> None])]
            /\ screen' = [screen EXCEPT !.request = Some(StartDisclosureResult(request, None, None))]
       ELSE Propose(request, proposals(request))

\* Ghost: what the user had been shown when an event was made, and whether data left the phone.
Told(s, id, shared) == [s EXCEPT !.told = @ \cup {[id |-> id, request |-> s.request[1], shared |-> shared]}]

\* The terminated session leaves an event without documents.
CancelledEvent(p) ==
    LET session == p.session[1]
    IN  new_disclosure(p.serial, Timestamp(p), None, session.certificate, "Cancelled",
                       IF session.proposed = None THEN "Regular" ELSE DisclosureType(session.proposed[1]))

terminate_disclosure_session(p, s, fault) ==
    store_history_event([p EXCEPT !.session = None], Told(s, p.serial, FALSE), CancelledEvent(p), fault)

\* The request is no longer on the screen.
Closed(result) == [result EXCEPT !.screen.request = None]

StopShowing(fault) ==
    /\ CanMakeEvents(1) /\ phone.session # None
    /\ Becomes(Closed(terminate_disclosure_session(phone, screen, fault)))

HasProposal(p) == p.session # None /\ p.session[1].proposed # None

\* An event about the proposal, with its documents if they may have been shared.
ProposalEvent(p, status, shared) ==
    LET session == p.session[1]
    IN  new_disclosure(p.serial, Timestamp(p), IF shared THEN session.proposed ELSE None, session.certificate, status,
                       DisclosureType(session.proposed[1]))

\* The session stays, and the user may try again.
log_disclosure_error(p, s, data_shared, fault) ==
    store_history_event(p, Told(s, p.serial, data_shared), ProposalEvent(p, "Error", data_shared), fault)

AcceptShown(fault) ==
    /\ CanMakeEvents(1) /\ HasProposal(phone)
    /\ Becomes(Closed(store_history_event([phone EXCEPT !.session = None], Told(screen, phone.serial, TRUE),
                                          ProposalEvent(phone, "Success", TRUE), fault)))

AcceptShownFails(data_shared, fault) ==
    /\ CanMakeEvents(1) /\ HasProposal(phone)
    /\ Becomes(log_disclosure_error(phone, screen, data_shared, fault))

TerminatedAfter(logged, fault) == terminate_disclosure_session(logged.phone, logged.screen, fault)
LockedAfter(ended) == [ended EXCEPT !.phone.locked = TRUE]

\* The PIN was wrong too often: the error is logged, the session is ended and that is
\* logged as well, whether or not either succeeds, and the wallet is locked.
AcceptShownTimeout(fault, fault_ending) ==
    /\ CanMakeEvents(2) /\ HasProposal(phone)
    /\ Becomes(Closed(LockedAfter(
           TerminatedAfter(log_disclosure_error(phone, screen, FALSE, fault), fault_ending))))

-----------------------------------------------------------------------------
(* The other calls of the app, and what happens around it.                  *)

\* The database is open only when the wallet is registered.
SetCardsStream ==
    LET opened == [screen EXCEPT !.cards = Some(None)]
    IN  screen' = (IF phone.registered THEN emit_documents(phone, opened) ELSE opened) /\ UNCHANGED phone
ClearCardsStream == screen' = [screen EXCEPT !.cards = None] /\ UNCHANGED phone

SetRecentHistoryStream ==
    LET opened == [screen EXCEPT !.recent = Some(None)]
    IN  Becomes(IF phone.registered THEN EmitRecent(phone, opened, "none") ELSE Result(phone, opened, TRUE))
ClearRecentHistoryStream == screen' = [screen EXCEPT !.recent = None] /\ UNCHANGED phone

RegisterWallet ==
    /\ ~phone.registered
    /\ phone' = [phone EXCEPT !.registered = TRUE, !.locked = FALSE]
    /\ UNCHANGED screen

LockWallet == phone' = [phone EXCEPT !.locked = TRUE] /\ UNCHANGED screen
UnlockWallet == phone.registered /\ phone' = [phone EXCEPT !.locked = FALSE] /\ UNCHANGED screen

\* The process ends: what is in memory and the streams are gone.
RestartApp ==
    /\ phone' = [phone EXCEPT !.locked = TRUE, !.session = None]
    /\ screen' = [screen EXCEPT !.cards = None, !.recent = None, !.late = {}, !.request = None]

TimePasses == \E time \in AppScene.times : time > phone.now /\ phone' = [phone EXCEPT !.now = time] /\ UNCHANGED screen

\* Calls without which nothing happens are made in every scene.
Calls(name) == name \in AppScene.calls

AppStep ==
    \/ \E documents \in AppScene.issuances, fault \in AppScene.faults : AcceptPidIssuance(documents, fault)
    \/ \E request \in AppScene.requests : StartShowing(request)
    \/ \E fault \in Faults : StopShowing(fault) \/ AcceptShown(fault)
    \/ \E data_shared \in BOOLEAN, fault \in Faults : AcceptShownFails(data_shared, fault)
    \/ \E fault, fault_ending \in Faults : AcceptShownTimeout(fault, fault_ending)
    \/ (screen.cards = None \/ Calls("streams")) /\ SetCardsStream
    \/ (screen.recent = None \/ Calls("streams")) /\ SetRecentHistoryStream
    \/ Calls("streams") /\ (ClearCardsStream \/ ClearRecentHistoryStream)
    \/ RegisterWallet \/ UnlockWallet \/ TimePasses
    \/ Calls("lock") /\ LockWallet
    \/ Calls("end") /\ (ResetWallet \/ RestartApp)

NextApp == AppStep /\ UNCHANGED at_app_scene

-----------------------------------------------------------------------------
(* Properties.                                                              *)

History == fetch_wallet_events(phone.history)
WholeHistory == ForApp(History)

\* Unless a call that should have updated the cards said that it failed, or the wallet
\* was reset, the cards that the app shows are those of the mdocs in the database, one
\* for each of them (emit_documents after set_documents_callback and accept_pid_issuance).
CardsAreCurrent ==
    (phone.registered /\ screen.cards # None /\ "cards" \notin screen.late /\ screen.cards[1] # None) =>
        {<<c.persistence[2], c.doc_type>> : c \in ToSet(screen.cards[1][1])} = {<<d.id, d.doc_type>> : d \in phone.mdocs}

\* The list that the app shows was sent, and no call since then that should have
\* updated it said that it failed.
RecentIsShown == phone.registered /\ screen.recent # None /\ "recent" \notin screen.late /\ screen.recent[1] # None
RecentShown == screen.recent[1][1]

\* The events that were less than so many days old when the list was sent.
NewerThan(days) == {e \in ToSet(History) : RecentShown.at - e.timestamp[1] < Days(days)}
Ids(events) == {e.id : e \in events}

\* The list of recent events in the app has every event of the history that was newer
\* than 31 days when it was sent, and none that was 32 days old or more, newest first,
\* unless a call that should have updated it said that it failed, or the wallet was
\* reset (emit_recent_history, newer_than_31_days).  Of the events in between the list
\* has some and not others: see OnlyRecentIsShown.
RecentIsComplete ==
    RecentIsShown =>
        /\ Ids(NewerThan(31)) \subseteq Ids(ToSet(RecentShown.events))
        /\ Ids(ToSet(RecentShown.events)) \subseteq Ids(NewerThan(32))
        /\ \A i, j \in DOMAIN RecentShown.events : i < j => RecentShown.events[i].id >= RecentShown.events[j].id

\* No event in the list of recent events was older than 31 days when the list was sent:
\* the comment on newer_than_31_days says "newer than 31 days", and the filter of the
\* mock storage keeps just those.
OnlyRecentIsShown ==
    RecentIsShown => \A e \in ToSet(RecentShown.events) : RecentShown.at - e.date_time[1] <= Days(31)

\* The history of a card is that part of the whole history that is about the card: the
\* issuance of a card of its type, and disclosures in which its type was shared
\* (the tables that link events to document types, and the filter of get_history_for_card).
CardHistoryIsExact ==
    \A whole \in ToSet(WholeHistory), t \in DOMAIN DisplayMapping :
        LET about(e) == IF "card" \in DOMAIN e THEN e.card.doc_type = t
                        ELSE e.requested_cards # None /\ \E c \in ToSet(e.requested_cards[1]) : c.doc_type = t
        IN  CanAskHistory(phone) => get_history_for_card(phone, t) = Some(SelectSeq(whole, about))

\* Everything that the wallet puts in the history it can show again: no event makes the
\* whole history fail to load (HistoryEvent::try_from).
HistoryIsReadable == CanAskHistory(phone) => get_history(phone) # None

\* An entry in the history tells what the user was shown when it was made: the same
\* relying party, policy and kind of request, and the cards that were on the screen if
\* they left the phone and none otherwise (EventDocuments, JSON and back, RequestPolicy).
HistoryTellsWhatWasShown ==
    \A whole \in ToSet(WholeHistory) :
        \A entry \in ToSet(whole), told \in screen.told :
            ("status" \in DOMAIN entry /\ entry.id = told.id) =>
                /\ entry.relying_party = told.request.relying_party
                /\ entry.requested_cards = IF told.shared THEN told.request.requested_cards ELSE None
                /\ told.request.request_type # None => Some(entry.type) = told.request.request_type

\* What the app shows is what the wallet has: its cards and its recent events follow
\* every issuance and disclosure, unless it was told that the update failed.
ScreenIsCurrent == CardsAreCurrent /\ RecentIsComplete

\* The history, through its tables and JSON and back, is as it was: it can always be
\* read, tells what the user was shown, and is told apart by card without loss.
HistoryIsFaithful == HistoryIsReadable /\ HistoryTellsWhatWasShown /\ CardHistoryIsExact
=============================================================================
