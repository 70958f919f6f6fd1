------------------------------- MODULE Options -------------------------------
(***************************************************************************)
(* Rust's Option: an optional value is a sequence of length 0 or 1.        *)
(***************************************************************************)
EXTENDS Sequences

None == <<>>
Some(x) == <<x>>
\* Option::and_then, and what ? and match make of an absent value.
AndThen(option, Then(_)) == IF option = None THEN None ELSE Then(option[1])
=============================================================================
