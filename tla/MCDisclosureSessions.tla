------------------------ MODULE MCDisclosureSessions ------------------------
(***************************************************************************)
(* Small instances of the verifier: one session, two devices, two requests *)
(* at a time, timeouts of at most a tick.  It is recorded how a session    *)
(* was seen to have ended when no request for it was being handled.        *)
(***************************************************************************)
EXTENDS DisclosureSessions

VARIABLE ended

mcVars == <<vars, ended>>

ShortTimeouts == [expiration |-> 1, successful_deletion |-> 0, failed_deletion |-> 0]

Ends == {"Done", "Failed", "Cancelled"}
Quiet(t) == \A h \in Handlers : hand[h].pc = "idle" \/ hand[h].tok # t
EndedWith(t) ==
    IF \E end \in Ends : InState(t, end) /\ Quiet(t) THEN get(t).data.state ELSE "none"

MCInit == Init /\ ended = [t \in Tokens |-> "none"]

MCNext ==
    /\ Next
    /\ ended' = [t \in Tokens |-> IF ended[t] = "none" THEN EndedWith(t)' ELSE ended[t]]

MCSpec == MCInit /\ [][MCNext]_mcVars

\* A session that has ended while no other request for it is being handled keeps
\* its result for good, whatever requests come later: each of them finds it in the
\* wrong state, or removed.
EndIsKept ==
    \A t \in Tokens :
        ended[t] # "none" => ~Exists(t) \/ get(t).data.state \in {ended[t], "Expired"}
=============================================================================
