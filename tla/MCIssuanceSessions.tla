------------------------- MODULE MCIssuanceSessions -------------------------
(***************************************************************************)
(* Small instances of the issuer: one authorization code and two requests  *)
(* at a time.                                                              *)
(***************************************************************************)
EXTENDS IssuanceSessions, TLC

ShortTimeouts == [expiration |-> 1, successful_deletion |-> 0, failed_deletion |-> 1]

HandlerSymmetry == Permutations(Handlers)
=============================================================================
