------------------------ MODULE MCConcurrentRequests ------------------------
(***************************************************************************)
(* Two handlers of the account server at work at the same time.  Their     *)
(* requests are either those of anyone, in any order and number, or those  *)
(* that the wallet's InstructionClient sends.  Which of the two it is, is  *)
(* chosen at the start.                                                    *)
(***************************************************************************)
EXTENDS MCInstructionProtocol

VARIABLE sender

\* The wallet sends nothing and waits for none of the answers.
ClientRests ==
    cpc = "idle" /\ cseq = 0 /\ want = NoWant /\ net = {} /\ known = {} /\ abandoned = TRUE

ConcurrentInit ==
    \/ sender = "anyone" /\ Init /\ ClientRests
    \/ sender = "wallet" /\ ProtocolInit

\* Anyone's requests all arrive at time 0.
ConcurrentNext ==
    \/ sender = "anyone" /\ Next /\ UNCHANGED <<sender, clientVars, now>>
    \/ sender = "wallet" /\ ProtocolNext /\ UNCHANGED sender

ConcurrentSpec == ConcurrentInit /\ [][ConcurrentNext]_<<sender, allVars>>
=============================================================================
