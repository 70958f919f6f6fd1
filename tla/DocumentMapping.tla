---------------------------- MODULE DocumentMapping ----------------------------
(***************************************************************************)
(* How the wallet shows attributes: a mapping says, per document type, at  *)
(* which name space and name an attribute is found, whether it must be     *)
(* there and what its value is like.  What is not in the mapping cannot be *)
(* shown, and then the wallet goes no further.                             *)
(*                                                                         *)
(* A value is a pair of its CBOR type and the value itself; a text that is *)
(* a date in the form the wallet expects has the type "date".              *)
(***************************************************************************)
EXTENDS Attestation

Text(of) == <<"text", of>>
DateText(of) == <<"date", of>>
Bool(of) == <<"bool", of>>
Integer(of) == <<"integer", of>>

Mapped(mandatory, value_type) == [mandatory |-> mandatory, value_type |-> value_type]

GenderValues == {0, 1, 2, 9}

\* AttributeValue::try_from
HasValueType(value, value_type) ==
    CASE value_type = "String" -> value[1] \in {"text", "date"}
      [] value_type = "Bool" -> value[1] = "bool"
      [] value_type = "Date" -> value[1] = "date"
      [] value_type = "Gender" -> value[1] = "integer" /\ value[2] \in GenderValues

\* The place of the first entry with this name, if any.
Position(attributes, ns, name) ==
    LET places == {i \in DOMAIN attributes[ns] : attributes[ns][i].name = name}
    IN  IF ns \notin DOMAIN attributes \/ places = {} THEN None ELSE Some(Min(places))

\* document_attributes_from_mdoc_attributes, where it succeeds: every mapped entry
\* is found or may be absent, and no entry is left over.
Displayable(mapping, doc_type, attributes, error_on_missing) ==
    /\ doc_type \in DOMAIN mapping
    /\ \A at \in DOMAIN mapping[doc_type] :
           LET place == Position(attributes, at[1], at[2])
               mapped == mapping[doc_type][at]
           IN  IF place = None THEN ~mapped.mandatory \/ ~error_on_missing
               ELSE HasValueType(attributes[at[1]][place[1]].value, mapped.value_type)
    /\ \A ns \in DOMAIN attributes : \A i \in DOMAIN attributes[ns] :
           /\ <<ns, attributes[ns][i].name>> \in DOMAIN mapping[doc_type]
           /\ IsFirst(attributes[ns], i)

\* MissingDisclosureAttributes::from_mdoc_missing_attributes
MissingDisplayable(mapping, missing) ==
    \A a \in missing : a[1] \in DOMAIN mapping /\ <<a[2], a[3]>> \in DOMAIN mapping[a[1]]
=============================================================================
