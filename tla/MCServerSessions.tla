-------------------------- MODULE MCServerSessions --------------------------
(***************************************************************************)
(* Small instances of the session stores.  The three timeouts differ, and  *)
(* a cleanup can be overtaken by a tick and by a write.                    *)
(***************************************************************************)
EXTENDS ServerSessions

ShortTimeouts == [expiration |-> 1, successful_deletion |-> 0, failed_deletion |-> 2]
=============================================================================
