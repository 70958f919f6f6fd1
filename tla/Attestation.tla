----------------------------- MODULE Attestation -----------------------------
(***************************************************************************)
(* Attestations (mdocs): how the issuer signs one, what the holder checks  *)
(* when it receives one, and what a verifier checks when part of one is    *)
(* disclosed to it.                                                        *)
(*                                                                         *)
(* Cryptography is symbolic.  A key pair is named by its public key; a     *)
(* signature records who made it and over what; a digest is the item it is *)
(* taken of, wrapped.                                                      *)
(***************************************************************************)
EXTENDS Options, Integers, Sequences, SequencesExt, FiniteSetsExt

-----------------------------------------------------------------------------
(* Certificates.  One that the code handles is signed by a trust anchor or  *)
(* by somebody else; ca says by whom.                                       *)

Certificate(key, ca, usage, period, registration, dns) ==
    [key |-> key, ca |-> ca, usage |-> usage, period |-> period,
     registration |-> registration, dns |-> dns]

KeyPair(certificate) == [key |-> certificate.key, certificate |-> certificate]

\* webpki checks the signature, the period of validity and the extended key usage.
CertificateVerify(certificate, usage, time, anchors) ==
    /\ certificate.usage = usage
    /\ certificate.ca \in anchors
    /\ certificate.period.from <= time /\ time <= certificate.period.until

\* CertificateType::from_certificate: the registration, if it is one for this usage.
RegistrationFor(certificate, usage) ==
    IF certificate.usage = usage THEN certificate.registration ELSE None

-----------------------------------------------------------------------------
(* Signatures.  The wallet provider holds the keys of the wallet; it is     *)
(* asked for signatures by key identifier.                                  *)

Signature(key, payload) == [by |-> key, over |-> payload]

\* The key that the wallet provider made for an identifier.
PublicKey(identifier) == <<"public", identifier>>

\* A message with several keys gets several signatures, all in the order asked.
sign_multiple_with_existing_keys(messages_and_ids) ==
    [i \in DOMAIN messages_and_ids |->
        [j \in DOMAIN messages_and_ids[i][2] |->
            Signature(PublicKey(messages_and_ids[i][2][j]), messages_and_ids[i][1])]]

\* One signature for every message, by the key at the same position.
SignEach(messages, ids) ==
    LET answers == sign_multiple_with_existing_keys([i \in DOMAIN ids |-> <<messages[i], <<ids[i]>>>>])
    IN  [i \in DOMAIN answers |-> answers[i][1]]

-----------------------------------------------------------------------------
(* COSE signatures, with or without their payload.                          *)

Cose(pair, payload) ==
    [signature |-> Signature(pair.key, payload), certificate |-> pair.certificate,
     payload |-> Some(payload)]

\* clone_without_payload and clone_with_payload.
Detached(cose) == [cose EXCEPT !.payload = None]
Attached(cose, payload) == [cose EXCEPT !.payload = Some(payload)]

CoseVerify(cose, key) ==
    /\ cose.payload # None
    /\ cose.signature = Signature(key, cose.payload[1])

CoseVerifyAgainst(cose, usage, time, anchors) ==
    /\ CertificateVerify(cose.certificate, usage, time, anchors)
    /\ CoseVerify(cose, cose.certificate.key)

-----------------------------------------------------------------------------
(* Attributes.  Entries that have the same name become one attribute, at    *)
(* the place of the first and with the value of the last (an IndexMap).     *)

Entry(name, value) == [name |-> name, value |-> value]

IsFirst(entries, i) == \A j \in 1..(i - 1) : entries[j].name # entries[i].name
LastValue(entries, name) ==
    entries[Max({i \in DOMAIN entries : entries[i].name = name})].value

IndexMap(entries) ==
    LET places == SetToSortSeq({i \in DOMAIN entries : IsFirst(entries, i)}, <)
    IN  [i \in DOMAIN places |->
            Entry(entries[places[i]].name, LastValue(entries, entries[places[i]].name))]

\* The random bytes of an item are fresh: they are named by the key of the copy.
Random(length, device_key) == [length |-> length, of |-> device_key]

IssuerSignedItem(id, random, entry) ==
    [digest_id |-> id, random |-> random, name |-> entry.name, value |-> entry.value]

Attributes(entries, random) ==
    LET map == IndexMap(entries)
    IN  [i \in DOMAIN map |-> IssuerSignedItem(i - 1, random, map[i])]

IssuerNameSpaces(attributes, random) ==
    [ns \in DOMAIN attributes |-> Attributes(attributes[ns], random)]

cbor_digest(item) == [digest |-> item]

DigestIDs(items) == [id \in 0..(Len(items) - 1) |-> cbor_digest(items[id + 1])]
ValueDigests(spaces) == [ns \in DOMAIN spaces |-> DigestIDs(spaces[ns])]

ToEntries(items) == [i \in DOMAIN items |-> Entry(items[i].name, items[i].value)]

-----------------------------------------------------------------------------
(* Issuing.  An unsigned mdoc is a document type, a period of validity,     *)
(* entries per name space and a number of copies.                           *)

ATTR_RANDOM_LENGTH == 32

IssuerSignedSign(unsigned, device_key, pair, length) ==
    LET spaces == IssuerNameSpaces(unsigned.attributes, Random(length, device_key))
        mso == [doc_type |-> unsigned.doc_type, value_digests |-> ValueDigests(spaces),
                device_key |-> device_key, validity |-> unsigned.period]
    IN  [name_spaces |-> spaces, issuer_auth |-> Cose(pair, mso)]

\* dangerous_parse_unverified: what the issuer signed, whoever it was.
Mso(issuer_signed) == issuer_signed.issuer_auth.payload[1]

ValidAt(period, time, not_yet) == (not_yet \/ period.from <= time) /\ time <= period.until

DigestVerifies(mso, ns, item) ==
    /\ ns \in DOMAIN mso.value_digests
    /\ item.digest_id \in DOMAIN mso.value_digests[ns]
    /\ mso.value_digests[ns][item.digest_id] = cbor_digest(item)

IssuerSignedVerify(issuer_signed, not_yet, time, anchors) ==
    /\ CoseVerifyAgainst(issuer_signed.issuer_auth, "mdl", time, anchors)
    /\ ValidAt(Mso(issuer_signed).validity, time, not_yet)
    /\ \A ns \in DOMAIN issuer_signed.name_spaces :
           \A i \in DOMAIN issuer_signed.name_spaces[ns] :
               DigestVerifies(Mso(issuer_signed), ns, issuer_signed.name_spaces[ns][i])

\* The entries that a disclosed document shows, per name space.
Shown(spaces) == [ns \in DOMAIN spaces |-> ToEntries(spaces[ns])]

-----------------------------------------------------------------------------
(* What the holder keeps.                                                   *)

Mdoc(key_id, issuer_signed) ==
    [doc_type |-> Mso(issuer_signed).doc_type, private_key_id |-> key_id,
     issuer_signed |-> issuer_signed]

\* flatten_map: the last entry for an attribute counts.
Flattened(doc_type, attributes) ==
    UNION {{<<doc_type, ns, e.name, LastValue(attributes[ns], e.name)>> : e \in ToSet(attributes[ns])} :
              ns \in DOMAIN attributes}

compare_unsigned(mdoc, unsigned) ==
    Flattened(mdoc.doc_type, Shown(mdoc.issuer_signed.name_spaces))
        = Flattened(unsigned.doc_type, unsigned.attributes)

-----------------------------------------------------------------------------
(* Disclosed documents.  The holder signs the transcript of the session.    *)

DeviceAuthentication(doc_type, transcript) ==
    [doc_type |-> doc_type, transcript |-> transcript]

Document(doc_type, issuer_signed, signature) ==
    [doc_type |-> doc_type, issuer_signed |-> issuer_signed, device_signed |-> signature]

DocumentVerify(doc, transcript, time, anchors) ==
    /\ IssuerSignedVerify(doc.issuer_signed, FALSE, time, anchors)
    /\ doc.doc_type = Mso(doc.issuer_signed).doc_type
    /\ doc.device_signed = Signature(Mso(doc.issuer_signed).device_key,
                                     DeviceAuthentication(doc.doc_type, transcript))

DeviceResponseVerify(documents, transcript, time, anchors) ==
    \A i \in DOMAIN documents : DocumentVerify(documents[i], transcript, time, anchors)

\* attrs.insert: of two documents of the same type the last is kept.
DisclosedAttributes(documents) ==
    [t \in {documents[i].doc_type : i \in DOMAIN documents} |->
        LET last == Max({i \in DOMAIN documents : documents[i].doc_type = t})
        IN  Shown(documents[last].issuer_signed.name_spaces)]
=============================================================================
