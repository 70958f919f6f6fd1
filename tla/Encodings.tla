------------------------------ MODULE Encodings ------------------------------
(***************************************************************************)
(* How the messages of an ISO disclosure become CBOR and are read back     *)
(* (mdoc/src/utils/serialization.rs, iso/engagement.rs), and the bytes     *)
(* that the holder and the verifier sign.                                  *)
(*                                                                         *)
(* Neither side keeps the bytes that it received: it reads them into a     *)
(* structure, and what is signed or verified is that structure, written    *)
(* again.  So reading and writing have to be each other's inverse, and     *)
(* what is written has to tell sessions apart.                             *)
(*                                                                         *)
(* A CBOR item is a tuple that starts with its kind.  A byte string is     *)
(* what its bytes encode: CBOR itself is unambiguous.  A value that cannot *)
(* be read is None.                                                        *)
(***************************************************************************)
EXTENDS Attestation

CONSTANTS
    ReaderKeys, DeviceKeys,     \* ephemeral keys
    VerifierUrls,               \* where the verifier listens
    RequestedItems,             \* items requests
    Oid4vpSessions,             \* what OpenID4VP sessions are about
    MaxTalks                    \* bound on the number of sessions

VARIABLES
    talk,       \* the session under way
    signed      \* what was signed, with the bytes

encodingVars == <<talk, signed>>

-----------------------------------------------------------------------------
(* CBOR items.                                                              *)

CborNull == <<"null">>
CborInteger(n) == <<"integer", n>>
CborText(s) == <<"text", s>>
CborBytes(content) == <<"bytes", content>>
CborArray(items) == <<"array", items>>
CborMap(entries) == <<"map", entries>>

IsKind(item, kind) == item[1] = kind

CBOR_TAG_ENC_CBOR == 24
TaggedBytes(item) == <<"tag", CBOR_TAG_ENC_CBOR, CborBytes(item)>>
UntaggedBytes(item) ==
    IF IsKind(item, "tag") /\ item[2] = CBOR_TAG_ENC_CBOR /\ IsKind(item[3], "bytes")
    THEN Some(item[3][2]) ELSE None

\* CBOR in a text, for links and for JSON.
CborBase64(item) == <<"base64", item>>
FromCborBase64(text) == IF IsKind(text, "base64") THEN Some(text[2]) ELSE None

\* A constant: nothing else is written.
RequiredValue(text) == CborText(text)

-----------------------------------------------------------------------------
(* Structures.  Serde writes one as a map from the names of its fields to   *)
(* their values, in the order of the declaration, and reads one from such a *)
(* map in any order.                                                        *)

Struct(fields) == CborMap([i \in DOMAIN fields |-> <<CborText(fields[i][1]), fields[i][2]>>])

\* skip_serializing_none: a field that has no value is left out.
SkipNone(fields) == SelectSeq(fields, LAMBDA field : field[2] # CborNull)

\* The value of a field, if the map has it once.  A null is no value for an optional field.
FieldOf(map, name) ==
    LET places == {i \in DOMAIN map[2] : map[2][i][1] = CborText(name)}
    IN  IF IsKind(map, "map") /\ Cardinality(places) = 1
        THEN Some(map[2][CHOOSE i \in places : TRUE][2]) ELSE None
OptionalField(map, name) == IF FieldOf(map, name) = Some(CborNull) THEN None ELSE FieldOf(map, name)

\* A structure as an array of the values.
CborSeq(struct) == CborArray([i \in DOMAIN struct[2] |-> struct[2][i][2]])

\* Names and values are zipped: what is too many on either side is dropped.
FromCborSeq(names, item) ==
    IF IsKind(item, "array")
    THEN Some(Struct([i \in 1..Min({Len(names), Len(item[2])}) |-> <<names[i], item[2][i]>>]))
    ELSE None

IndexOfField(names, key) == CborInteger((CHOOSE i \in DOMAIN names : CborText(names[i]) = key) - 1)

\* A structure as a map from the places of the fields to their values.
CborIntMap(names, struct) ==
    LET present == SelectSeq(struct[2], LAMBDA entry : entry[2] # CborNull)
    IN  CborMap([i \in DOMAIN present |-> <<IndexOfField(names, present[i][1]), present[i][2]>>])

\* A key that is not the place of a field cannot be read.
FromCborIntMap(names, item) ==
    IF /\ IsKind(item, "map")
       /\ \A i \in DOMAIN item[2] : IsKind(item[2][i][1], "integer") /\ item[2][i][1][2] \in 0..(Len(names) - 1)
    THEN Some(Struct([i \in DOMAIN item[2] |-> <<names[item[2][i][1][2] + 1], item[2][i][2]>>]))
    ELSE None

\* All the values in a sequence of optional values, if all are there.
AllRead(results) ==
    IF \A i \in DOMAIN results : results[i] # None THEN Some([i \in DOMAIN results |-> results[i][1]]) ELSE None

-----------------------------------------------------------------------------
(* Keys.                                                                    *)

KTY == 1
EC2 == 2
P_256 == 1

\* CoseKeyBuilder::new_ec2_pub_key: the curve, then the two coordinates.
CoseKey(key) ==
    CborMap(<<<<CborInteger(KTY), CborInteger(EC2)>>, <<CborInteger(-1), CborInteger(P_256)>>,
              <<CborInteger(-2), CborBytes(<<"x", key>>)>>, <<CborInteger(-3), CborBytes(<<"y", key>>)>>>>)

\* The parameters are taken by their place, after which the labels are compared.
VerifyingKey(cose_key) ==
    LET entries == cose_key[2]
        params == SelectSeq(entries, LAMBDA entry : entry[1] # CborInteger(KTY))
    IN  IF /\ <<CborInteger(KTY), CborInteger(EC2)>> \in ToSet(entries)
           /\ Len(params) >= 3
           /\ params[1] = <<CborInteger(-1), CborInteger(P_256)>>
           /\ params[2][1] = CborInteger(-2) /\ params[3][1] = CborInteger(-3)
           /\ params[2][2][2][2] = params[3][2][2][2]
        THEN Some(params[2][2][2][2]) ELSE None

-----------------------------------------------------------------------------
(* Engagements.                                                             *)

EngagementFields == <<"version", "security", "connection_methods", "origin_infos">>
SecurityFields == <<"cipher_suite_identifier", "e_sender_key_bytes">>
MethodFields == <<"typ", "version", "connection_options">>

SecurityItem(key) ==
    CborSeq(Struct(<<<<"cipher_suite_identifier", CborInteger(1)>>, <<"e_sender_key_bytes", TaggedBytes(CoseKey(key))>>>>))
ReadSecurity(item) ==
    LET struct == FromCborSeq(SecurityFields, item)
        bytes == UntaggedBytes(FieldOf(struct[1], "e_sender_key_bytes")[1])
    IN  IF struct # None /\ FieldOf(struct[1], "cipher_suite_identifier") = Some(CborInteger(1)) /\ bytes # None
        THEN VerifyingKey(bytes[1]) ELSE None

MethodItem(url) ==
    CborSeq(Struct(<<<<"typ", CborInteger(4)>>, <<"version", CborInteger(1)>>,
                     <<"connection_options", CborSeq(Struct(<<<<"uri", CborText(url)>>>>))>>>>))
ReadMethod(item) ==
    LET struct == FromCborSeq(MethodFields, item)
        options == FromCborSeq(<<"uri">>, FieldOf(struct[1], "connection_options")[1])
    IN  IF /\ struct # None /\ options # None
           /\ FieldOf(struct[1], "typ") = Some(CborInteger(4)) /\ FieldOf(struct[1], "version") = Some(CborInteger(1))
        THEN Some(FieldOf(options[1], "uri")[1][2]) ELSE None

\* The type and its details become fields of the origin info itself.
OriginInfoTypeFields(typ) ==
    CASE typ[1] = "Website" ->
             <<<<"type", CborInteger(1)>>, <<"Details", Struct(<<<<"ReferrerUrl", CborText(typ[2])>>>>)>>>>
      [] typ[1] = "OnDeviceQRCode" -> <<<<"type", CborInteger(2)>>, <<"Details", CborNull>>>>
      [] typ[1] = "MessageData" -> <<<<"type", CborInteger(4)>>, <<"Details", CborNull>>>>

ReadOriginInfoType(map) ==
    LET typ == FieldOf(map, "type")
    IN  CASE typ = Some(CborInteger(1)) -> Some(<<"Website", FieldOf(FieldOf(map, "Details")[1], "ReferrerUrl")[1][2]>>)
          [] typ = Some(CborInteger(2)) -> Some(<<"OnDeviceQRCode">>)
          [] typ = Some(CborInteger(4)) -> Some(<<"MessageData">>)
          [] OTHER -> None

Direction == [Delivered |-> 0, Received |-> 1]
OriginInfoItem(info) == Struct(<<<<"cat", CborInteger(Direction[info.cat])>>>> \o OriginInfoTypeFields(info.typ))
ReadOriginInfo(map) ==
    LET typ == ReadOriginInfoType(map)
        cats == {c \in DOMAIN Direction : FieldOf(map, "cat") = Some(CborInteger(Direction[c]))}
    IN  IF typ # None /\ cats # {} THEN Some([cat |-> CHOOSE c \in cats : TRUE, typ |-> typ[1]]) ELSE None

\* Methods and security may be absent; a list of origins that is empty is not written.
EngagementItem(engagement) ==
    CborIntMap(EngagementFields, Struct(SkipNone(
        <<<<"version", CborText("1.0")>>,
          <<"security", IF engagement.security = None THEN CborNull ELSE SecurityItem(engagement.security[1])>>,
          <<"connection_methods", IF engagement.methods = None THEN CborNull
             ELSE CborArray([i \in DOMAIN engagement.methods[1] |-> MethodItem(engagement.methods[1][i])])>>,
          <<"origin_infos", IF engagement.origin_infos = <<>> THEN CborNull
             ELSE CborArray([i \in DOMAIN engagement.origin_infos |-> OriginInfoItem(engagement.origin_infos[i])])>>>>)))

\* All of the items of a list, if each can be read.
ReadList(list, Read(_)) == AllRead([i \in DOMAIN list[2] |-> Read(list[2][i])])
\* An optional field is absent, or there and readable.
ReadOptional(field, absent, Read(_)) == IF field = None THEN Some(absent) ELSE Read(field[1])

EngagementOf(security, methods, origins) ==
    IF security = None \/ methods = None \/ origins = None THEN None
    ELSE Some([security |-> security[1], methods |-> methods[1], origin_infos |-> origins[1]])

ReadEngagement(item) ==
    AndThen(FromCborIntMap(EngagementFields, item), LAMBDA struct :
        IF FieldOf(struct, "version") # Some(CborText("1.0")) THEN None
        ELSE EngagementOf(
                 ReadOptional(OptionalField(struct, "security"), None,
                              LAMBDA field : AllRead(<<ReadSecurity(field)>>)),
                 ReadOptional(OptionalField(struct, "connection_methods"), None,
                              LAMBDA field : AllRead(<<ReadList(field, ReadMethod)>>)),
                 ReadOptional(OptionalField(struct, "origin_infos"), <<>>,
                              LAMBDA field : ReadList(field, ReadOriginInfo))))

NewReaderEngagement(key, url) == [security |-> Some(key), methods |-> Some(<<url>>), origin_infos |-> <<>>]
REFERRER_URL == "https://referrer.url/"
NewDeviceEngagement(key) ==
    [security |-> Some(key), methods |-> None,
     origin_infos |-> <<[cat |-> "Received", typ |-> <<"Website", REFERRER_URL>>],
                        [cat |-> "Delivered", typ |-> <<"MessageData">>]>>]

-----------------------------------------------------------------------------
(* What is signed.                                                          *)

\* Mutant: the handover is a QR code for everybody.
HandoverItem_qr(session_type, reader) == CborNull

HandoverItem(session_type, reader) ==
    IF session_type = "same_device" THEN TaggedBytes(EngagementItem(reader)) ELSE CborNull

IsoTranscript(session_type, reader, device) ==
    CborSeq(Struct(<<<<"device_engagement_bytes", TaggedBytes(EngagementItem(device))>>,
                     <<"ereader_key_bytes", TaggedBytes(CoseKey(reader.security[1]))>>,
                     <<"handover", HandoverItem(session_type, reader)>>>>))

HashOf(texts) == CborBytes(<<"sha256", CborArray([i \in DOMAIN texts |-> CborText(texts[i])])>>)
Oid4vpTranscript(of) ==
    CborSeq(Struct(<<<<"device_engagement_bytes", CborNull>>, <<"ereader_key_bytes", CborNull>>,
                     <<"handover", CborSeq(Struct(<<<<"client_id_hash", HashOf(<<of.client_id, of.mdoc_nonce>>)>>,
                                                    <<"response_uri_hash", HashOf(<<of.response_uri, of.mdoc_nonce>>)>>,
                                                    <<"nonce", CborText(of.nonce)>>>>))>>>>))

\* RequiredValue: each kind of authentication starts with its own text.
DeviceAuthenticationItem(doc_type, transcript) ==
    TaggedBytes(CborSeq(Struct(<<<<"device_authentication", RequiredValue("DeviceAuthentication")>>,
                                 <<"session_transcript", transcript>>, <<"doc_type", CborText(doc_type)>>,
                                 <<"device_name_spaces_bytes", TaggedBytes(CborMap(<<>>))>>>>)))

\* The map of names keeps the order in which they were asked.
NameSpacesItem(spaces) ==
    CborMap([i \in DOMAIN spaces |->
        <<CborText(spaces[i][1]),
          CborMap([j \in DOMAIN spaces[i][2] |-> <<CborText(spaces[i][2][j]), <<"bool", FALSE>>>>])>>])
ReadNameSpaces(item) ==
    [i \in DOMAIN item[2] |-> <<item[2][i][1][2], [j \in DOMAIN item[2][i][2][2] |-> item[2][i][2][2][j][1][2]]>>]

ItemsRequestItem(request) ==
    Struct(SkipNone(<<<<"docType", CborText(request.doc_type)>>, <<"nameSpaces", NameSpacesItem(request.name_spaces)>>,
                      <<"requestInfo", IF request.info = None THEN CborNull ELSE CborText(request.info[1])>>>>))
ReadItemsRequest(map) ==
    LET doc_type == FieldOf(map, "docType")
        spaces == FieldOf(map, "nameSpaces")
        info == OptionalField(map, "requestInfo")
    IN  IF doc_type = None \/ spaces = None THEN None
        ELSE Some([doc_type |-> doc_type[1][2], name_spaces |-> ReadNameSpaces(spaces[1]),
                   info |-> IF info = None THEN None ELSE Some(info[1][2])])

ReaderAuthenticationItem(request, transcript) ==
    TaggedBytes(CborSeq(Struct(<<<<"reader_auth_string", RequiredValue("ReaderAuthentication")>>,
                                 <<"session_transcript", transcript>>,
                                 <<"items_request_bytes", TaggedBytes(ItemsRequestItem(request))>>>>)))

-----------------------------------------------------------------------------
(* A session: the verifier invites with a link or a QR code, the wallet     *)
(* engages, the verifier signs its request, the wallet signs its answer.    *)

NoTalk == [stage |-> "idle"]
FailedTalk == [stage |-> "failed"]

\* What the parties of a session mean to sign.
AboutIso(t) == <<"iso", t.device_key, t.reader_key, IF t.type = "same_device" THEN Some(t.url) ELSE None>>
SaysRequest(request, about) == <<"request", about, request>>
SaysDevice(doc_type, about) == <<"device", about, doc_type>>

Signing(says, bytes) == signed' = signed \cup {[says |-> says, bytes |-> bytes]}

Talks == Cardinality({s.says[2] : s \in signed})

InitEncodings == talk = NoTalk /\ signed = {}

\* The verifier writes its engagement into the link.
Invite ==
    /\ talk.stage = "idle" /\ Talks < MaxTalks
    /\ \E key \in ReaderKeys, url \in VerifierUrls, type \in {"same_device", "cross_device"} :
           talk' = [stage |-> "invited", type |-> type, reader_key |-> key, url |-> url,
                    link |-> CborBase64(EngagementItem(NewReaderEngagement(key, url)))]
    /\ UNCHANGED signed

\* The wallet reads the link, and makes a transcript of what it read and its own engagement.
EngageDevice ==
    /\ talk.stage = "invited"
    /\ \E key \in DeviceKeys, reader \in {AndThen(FromCborBase64(talk.link), ReadEngagement)} :
           LET device == NewDeviceEngagement(key)
           IN  talk' = IF reader = None \/ reader[1].security = None THEN FailedTalk
                       ELSE [stage |-> "engaged", type |-> talk.type, reader_key |-> talk.reader_key, url |-> talk.url,
                             device_key |-> key, message |-> EngagementItem(device),
                             transcript |-> IsoTranscript(talk.type, reader[1], device)]
    /\ UNCHANGED signed

\* SessionTranscriptData: both engagements are written in the session and read again later.
Restored(engagement) == ReadEngagement(FromCborBase64(CborBase64(EngagementItem(engagement)))[1])[1]
StoredTranscript(type, reader, device) == IsoTranscript(type, Restored(reader), Restored(device))

\* The verifier reads the engagement, makes its own again from the URL that was used,
\* and signs its request and the transcript.
RequestItems ==
    /\ talk.stage = "engaged"
    /\ \E device \in {ReadEngagement(talk.message)} :
          IF device = None \/ device[1].security = None
          THEN talk' = FailedTalk /\ UNCHANGED signed
          ELSE \E ours \in {StoredTranscript(talk.type, NewReaderEngagement(talk.reader_key, talk.url), device[1])},
                  request \in RequestedItems :
                   /\ talk' = [stage |-> "requested", about |-> AboutIso(talk), transcript |-> talk.transcript,
                               ours |-> ours, request |-> ItemsRequestItem(request),
                               reader_auth |-> ReaderAuthenticationItem(request, ours)]
                   /\ Signing(SaysRequest(request, AboutIso(talk)), talk'.reader_auth)

\* The wallet verifies the signature over what it read, and signs a document of the type asked.
AnswerItems ==
    /\ talk.stage = "requested"
    /\ \E request \in {ReadItemsRequest(talk.request)} :
          IF request = None \/ ReaderAuthenticationItem(request[1], talk.transcript) # talk.reader_auth
          THEN talk' = FailedTalk /\ UNCHANGED signed
          ELSE /\ talk' = [stage |-> "answered", doc_type |-> request[1].doc_type, ours |-> talk.ours,
                           device_auth |-> DeviceAuthenticationItem(request[1].doc_type, talk.transcript)]
               /\ Signing(SaysDevice(request[1].doc_type, talk.about), talk'.device_auth)

\* The verifier compares with what it would have signed.
VerifyAnswer ==
    /\ talk.stage = "answered"
    /\ talk' = IF DeviceAuthenticationItem(talk.doc_type, talk.ours) = talk.device_auth THEN NoTalk ELSE FailedTalk
    /\ UNCHANGED signed

\* In OpenID4VP both sides make the transcript from the authorization request and the nonce of the wallet.
AnswerVp ==
    /\ talk.stage = "idle" /\ Talks < MaxTalks
    /\ \E of \in Oid4vpSessions, request \in RequestedItems :
           Signing(SaysDevice(request.doc_type, <<"oid4vp", of>>),
                   DeviceAuthenticationItem(request.doc_type, Oid4vpTranscript(of)))
    /\ UNCHANGED talk

NextEncodings == Invite \/ EngageDevice \/ RequestItems \/ AnswerItems \/ VerifyAnswer \/ AnswerVp

-----------------------------------------------------------------------------

\* The wallet and the verifier each make the transcript from a message that they
\* read and one that they wrote, the verifier from a stored copy of both.  What the
\* one signs is what the other verifies: a session between them does not fail over
\* the way its messages are written.
SidesAgree == talk.stage # "failed"

\* Bytes that were signed mean one thing.  A signature of one session, over one
\* request or for one document type, is not one for another session, in the same
\* protocol or in the other, and a request is not an answer.  A QR code is not
\* part of what is signed; a link is.
SignedMeansOneThing == \A s, t \in signed : s.bytes = t.bytes => s.says = t.says

\* Wallet and verifier mean the same by what is signed: each arrives at the bytes of
\* the other, and these bytes are those of no other session, request or answer.
SignedIsAgreed == SidesAgree /\ SignedMeansOneThing
=============================================================================
