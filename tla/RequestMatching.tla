--------------------------- MODULE RequestMatching ---------------------------
(***************************************************************************)
(* What a wallet does with a request for attributes, whichever protocol    *)
(* brought it: it checks that the reader may ask for them, looks for them  *)
(* in its attestations, proposes what it would disclose, and signs that    *)
(* once the user agrees; and how the reader compares what it received with *)
(* its request.                                                            *)
(*                                                                         *)
(* An items request is a document type and a set of pairs of a name space  *)
(* and a name.  An attribute identifier is <<document type, name space,    *)
(* name>>.                                                                 *)
(***************************************************************************)
EXTENDS Attestation

ItemsRequest(doc_type, items) == [doc_type |-> doc_type, items |-> items]

-----------------------------------------------------------------------------
(* Attribute identifiers.                                                   *)

RequestIdentifiers(request) == {<<request.doc_type, i[1], i[2]>> : i \in request.items}

AllIdentifiers(requests) == UNION {RequestIdentifiers(requests[i]) : i \in DOMAIN requests}

IssuerSignedIdentifiers(doc_type, issuer_signed) ==
    UNION {{<<doc_type, ns, item.name>> : item \in ToSet(issuer_signed.name_spaces[ns])} :
              ns \in DOMAIN issuer_signed.name_spaces}

\* A registration is the set of attribute identifiers the reader may ask for.
verify_requested_attributes(registration, requests) == AllIdentifiers(requests) \subseteq registration

-----------------------------------------------------------------------------
(* Matching a request with the stored attestations.  These come grouped:    *)
(* a group holds the attestations of one requested document type.           *)

DocTypes(requests) == {requests[i].doc_type : i \in DOMAIN requests}

\* requested_attributes_by_doc_type: several requests may be about one type.
RequestedFor(requests, doc_type) == {a \in AllIdentifiers(requests) : a[1] = doc_type}

MissingFrom(mdoc, requested) == requested \ IssuerSignedIdentifiers(mdoc.doc_type, mdoc.issuer_signed)

GroupType(group) == group[1].mdoc.doc_type

\* Only the requested attributes of an attestation are kept.
Restricted(issuer_signed, doc_type, requested) ==
    LET kept(ns) == SelectSeq(issuer_signed.name_spaces[ns],
                              LAMBDA item : <<doc_type, ns, item.name>> \in requested)
    IN  [issuer_signed EXCEPT !.name_spaces =
            [ns \in {n \in DOMAIN @ : kept(n) # <<>>} |-> kept(ns)]]

ProposedDocument(stored, requested, transcript) ==
    LET mdoc == stored.mdoc
    IN  [source |-> stored.id, private_key_id |-> mdoc.private_key_id, doc_type |-> mdoc.doc_type,
         issuer_signed |-> Restricted(mdoc.issuer_signed, mdoc.doc_type, requested),
         challenge |-> DeviceAuthentication(mdoc.doc_type, transcript)]

Candidates(group, requested, transcript) ==
    LET satisfying == SelectSeq(group, LAMBDA s : MissingFrom(s.mdoc, requested) = {})
    IN  [i \in DOMAIN satisfying |-> ProposedDocument(satisfying[i], requested, transcript)]

\* The missing attributes of the first attestation in the group that lacks some.
FirstMissing(group, requested) ==
    LET lacking == SelectSeq(group, LAMBDA s : MissingFrom(s.mdoc, requested) # {})
    IN  IF lacking = <<>> THEN {} ELSE MissingFrom(lacking[1].mdoc, requested)

\* Mutant: one attestation of the type that has all attributes is not required.
Matching_any(requests, groups, transcript) ==
    LET requested(t) == RequestedFor(requests, t)
        found == {GroupType(groups[i]) : i \in DOMAIN groups}
        unseen == {a \in AllIdentifiers(requests) : a[1] \notin found}
        one(g) == ProposedDocument(g[1], requested(GroupType(g)), transcript)
    IN  IF unseen # {} THEN [kind |-> "missing", missing |-> unseen]
        ELSE [kind |-> "candidates",
              candidates |-> [i \in DOMAIN groups |-> <<one(groups[i])>>]]

\* DisclosureRequestMatch::new.  A group of a type that is requested without any
\* attributes is not expected: the entry for its type cannot be removed.
Matching(requests, groups, transcript) ==
    LET requested(i) == RequestedFor(requests, GroupType(groups[i]))
        found == {GroupType(groups[i]) : i \in DOMAIN groups}
        candidates == [i \in DOMAIN groups |-> Candidates(groups[i], requested(i), transcript)]
        unseen == {a \in AllIdentifiers(requests) : a[1] \notin found}
        lacking == UNION {FirstMissing(groups[i], requested(i)) : i \in DOMAIN groups}
    IN  CASE \E i \in DOMAIN groups : requested(i) = {} -> [kind |-> "panic"]
          [] unseen # {} \/ \E i \in DOMAIN groups : candidates[i] = <<>> ->
                 [kind |-> "missing", missing |-> lacking \cup unseen]
          [] OTHER -> [kind |-> "candidates", candidates |-> candidates]

\* What the session makes of it: a proposal has one candidate for every type.
ResultOf(match) ==
    CASE match.kind # "candidates" -> match
      [] \E i \in DOMAIN match.candidates : Len(match.candidates[i]) > 1 -> [kind |-> "multiple"]
      [] OTHER -> [kind |-> "proposal", documents |-> FlattenSeq(match.candidates)]
CheckResult(requests, groups, transcript) == ResultOf(Matching(requests, groups, transcript))

-----------------------------------------------------------------------------
(* Signing what was proposed.                                               *)

\* Mutant: all documents are signed with the key of the first.
new_signatures_first_key(keys, challenges) == SignEach(challenges, [i \in DOMAIN keys |-> keys[1]])

\* DeviceSigned::new_signatures with sign_coses: signature i is for challenge i.
new_signatures(keys, challenges) == SignEach(challenges, keys)

sign_multiple(proposed) ==
    LET signed == new_signatures([i \in DOMAIN proposed |-> proposed[i].private_key_id],
                                 [i \in DOMAIN proposed |-> proposed[i].challenge])
    IN  [i \in DOMAIN proposed |->
            Document(proposed[i].doc_type, proposed[i].issuer_signed, signed[i])]

-----------------------------------------------------------------------------
(* The reader: every items request is met by the first document of its type.*)

MissingFromDocument(request, doc) ==
    RequestIdentifiers(request) \ IssuerSignedIdentifiers(doc.doc_type, doc.issuer_signed)

NotFound(request, documents) ==
    LET ofType == SelectSeq(documents, LAMBDA d : d.doc_type = request.doc_type)
    IN  IF ofType = <<>> THEN RequestIdentifiers(request) ELSE MissingFromDocument(request, ofType[1])

match_against_response(requests, documents) ==
    \A i \in DOMAIN requests : NotFound(requests[i], documents) = {}
=============================================================================
