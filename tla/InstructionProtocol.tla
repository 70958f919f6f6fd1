------------------------ MODULE InstructionProtocol -------------------------
(***************************************************************************)
(* The wallet's InstructionClient talking to the account server over a     *)
(* network that may delay or lose requests and answers.                    *)
(*                                                                         *)
(* An instruction takes two requests, for a challenge and for the          *)
(* instruction itself, each with the next sequence number, which is stored *)
(* before the request is sent.  The client holds the storage lock all the  *)
(* while, so the wallet has one request outstanding; but it gives up after *)
(* the HTTP client's timeout, or dies, without knowing whether the server  *)
(* is still working on the request.                                        *)
(***************************************************************************)
EXTENDS AccountServer

CONSTANTS MaxSeq,       \* bound on the sequence numbers
          Operations,   \* the instructions a user may start
          Pins          \* whether the PIN entered is right

ASSUME ProtocolAssumption ==
    /\ MaxSeq \in Nat
    /\ Operations \subseteq {"CheckPin", "GenerateKey", "Sign"}
    /\ Pins \subseteq BOOLEAN

VARIABLES cpc,          \* where the client is
          cseq,         \* the stored instruction_sequence_number
          want,         \* the instruction being sent
          net,          \* requests on their way
          known,        \* keys whose public key the wallet has received
          abandoned     \* has the wallet ever given up on a request

clientVars == <<cpc, cseq, want, net, known, abandoned>>
allVars == <<vars, clientVars>>

NoWant == [op |-> "none", key |-> 0, pin |-> FALSE]

ProtocolInit ==
    /\ user = [NewUser EXCEPT !.registered = TRUE]
    /\ chal = NoChallenge /\ keys = {}
    /\ userLock = NoOne /\ chalLock = NoOne
    /\ pc = [h \in Handlers |-> "idle"]
    /\ msg = [h \in Handlers |-> NoMessage]
    /\ snap = [h \in Handlers |-> NoSnapshot]
    /\ eval = [h \in Handlers |-> "none"]
    /\ reply = [h \in Handlers |-> "none"]
    /\ received = 0 /\ now = 0
    /\ cpc = "idle" /\ cseq = 0 /\ want = NoWant
    /\ net = {} /\ known = {} /\ abandoned = FALSE

-----------------------------------------------------------------------------
(* InstructionClient                                                        *)

\* Store the next sequence number, then send the request made with it.
NextNumber == cseq + 1
with_sequence_number(request) ==
    /\ cseq < MaxSeq
    /\ cseq' = NextNumber
    /\ net' = net \cup {request}

ChallengeRequest == Message("challenge", NextNumber, 0, TRUE, TRUE, "none", 0)
InstructionRequest(h, seq) ==
    Message("instruction", seq, msg[h].nonce, TRUE, want.pin, want.op, want.key)

\* Keys get a random identifier: here one that was never asked for before.
FreshKey == NextNumber

Send(op, pin) ==
    /\ cpc = "idle"
    /\ cseq + 2 <= MaxSeq
    /\ \E key \in IF op = "Sign" THEN known ELSE {FreshKey} :
          want' = [op |-> op, key |-> key, pin |-> pin]
    /\ with_sequence_number(ChallengeRequest)
    /\ cpc' = "challenge"
    /\ UNCHANGED <<vars, known, abandoned>>

\* The answer of handler h is the one the client waits for.
Awaited(h) == pc[h] = "done" /\ msg[h].seq = cseq /\ cpc = msg[h].kind

ChallengeAnswered(h) ==
    /\ Awaited(h) /\ cpc = "challenge"
    /\ \/ /\ reply[h] = "Ok"
          /\ with_sequence_number(InstructionRequest(h, NextNumber))
          /\ cpc' = "instruction"
          /\ UNCHANGED want
       \/ /\ reply[h] # "Ok"
          /\ cpc' = "idle" /\ want' = NoWant
          /\ UNCHANGED <<cseq, net>>
    /\ Respond(h)
    /\ UNCHANGED <<known, abandoned>>

\* The instruction is over; a key is known from then on if ok says so.
Concluded(h, ok) ==
    /\ Awaited(h) /\ cpc = "instruction"
    /\ known' = IF ok /\ want.op = "GenerateKey" THEN known \cup {want.key} ELSE known
    /\ cpc' = "idle" /\ want' = NoWant
    /\ Respond(h)
    /\ UNCHANGED <<cseq, net, abandoned>>

\* Mutant: the answer is not looked at.
InstructionAnswered_unread(h) == Concluded(h, TRUE)

InstructionAnswered(h) == Concluded(h, reply[h] = "Ok")

\* The client forgets the request and goes on from the given sequence number.
GiveUpAt(seq) ==
    /\ cpc # "idle"
    /\ cpc' = "idle" /\ want' = NoWant
    /\ cseq' = seq
    /\ abandoned' = TRUE
    /\ UNCHANGED <<vars, net, known>>

\* Mutant: the number is stored only when the answer has come.
GiveUp_number_lost == GiveUpAt(cseq - 1)

\* The request times out, the app is killed, or the connection breaks.
GiveUp == GiveUpAt(cseq)

-----------------------------------------------------------------------------
(* The network, and the server on its own                                   *)

Deliver(h, m) ==
    /\ Receive(h, m)
    /\ net' = net \ {m}
    /\ UNCHANGED <<cpc, cseq, want, known, abandoned>>

LoseRequest(m) ==
    /\ net' = net \ {m}
    /\ UNCHANGED <<vars, cpc, cseq, want, known, abandoned>>

LoseAnswer(h) == Respond(h) /\ UNCHANGED clientVars

Server ==
    /\ \/ \E h \in Handlers : Step(h) \/ Abort(h) \/ Resolve(h)
       \/ Tick
    /\ UNCHANGED clientVars

ProtocolNext ==
    \/ \E op \in Operations, pin \in Pins : Send(op, pin)
    \/ \E h \in Handlers : ChallengeAnswered(h) \/ InstructionAnswered(h) \/ LoseAnswer(h)
    \/ GiveUp
    \/ \E h \in Handlers, m \in net : Deliver(h, m)
    \/ \E m \in net : LoseRequest(m)
    \/ Server

ProtocolSpec == ProtocolInit /\ [][ProtocolNext]_allVars

-----------------------------------------------------------------------------

\* Delays, losses and crashes never leave the server ahead of the wallet: the
\* request the wallet is waiting on always passes the sequence number checks
\* of instruction_challenge and verify_instruction, so the wallet can go on.
CurrentRequestIsFresh ==
    \A h \in Handlers :
        pc[h] \in {"challenge_update", "verify"} /\ msg[h].seq = cseq => SequenceNumberOk(h)

\* As long as the wallet has never given up on a request, an instruction signed
\* with the right PIN is never counted as a failed attempt by handle_instruction.
RightPinNotCounted ==
    ~abandoned => \A h \in Handlers : pc[h] = "reject" => ~msg[h].signed

\* The wallet only knows keys whose rows are committed, whatever was lost, so
\* the lookup in the Sign instruction finds them and does not panic.
KnownKeysAreStored == known \subseteq keys /\ \A h \in Handlers : reply[h] # "Panic"
=============================================================================
