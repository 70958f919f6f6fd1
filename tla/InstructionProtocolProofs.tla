--------------------- MODULE InstructionProtocolProofs ----------------------
(***************************************************************************)
(* For any number of handlers, instructions and sequence numbers, and with *)
(* requests and answers delayed and lost at will: the wallet's current     *)
(* request is never refused for its sequence number, the keys that the     *)
(* wallet knows are in the database, and a wallet that waits for its       *)
(* answers is not charged for the right PIN.                               *)
(***************************************************************************)
EXTENDS InstructionProtocol, AccountServerProofs

ClientInv ==
    /\ IInv
    /\ cseq \in Nat
    /\ cpc \in {"idle", "challenge", "instruction"}
    /\ want.op \in {"none", "CheckPin", "GenerateKey", "Sign"}
    /\ want.key \in Nat /\ want.pin \in BOOLEAN
    /\ known \subseteq Nat
    /\ net \subseteq {m \in MessageTypes : m.kind \in {"challenge", "instruction"}}
    /\ \A h \in Handlers : pc[h] # "register"

\* The request with the sequence number that the wallet stored last is in one
\* place only, and as long as it may still be carried out the server has only
\* seen smaller numbers.
FreshInv ==
    /\ user.seq <= cseq
    /\ \A m \in net : m.seq <= cseq
    /\ \A h \in Handlers : pc[h] # "idle" => msg[h].seq <= cseq
    /\ \A m \in net : m.seq = cseq =>
           /\ user.seq < cseq
           /\ \A n \in net : n.seq = cseq => n = m
           /\ \A h \in Handlers : pc[h] # "idle" => msg[h].seq # cseq
    /\ \A h \in Handlers : pc[h] \in Open /\ msg[h].seq = cseq =>
           /\ user.seq < cseq
           /\ \A k \in Handlers \ {h} : pc[k] # "idle" => msg[k].seq # cseq
    /\ \A h \in Handlers : pc[h] \in HasRead /\ msg[h].seq = cseq => snap[h].user.seq < cseq

\* A server step without handlers, or with one of them.
LEMMA ServerEffect ==
    ASSUME ClientInv, Server
    PROVE  UNCHANGED <<user, pc, msg, snap>> \/ \E h \in Handlers : Effect(h)
<1>1. CASE Tick BY <1>1, Zenon DEF Tick, db
<1>2. ASSUME NEW h \in Handlers, Step(h) \/ Abort(h) \/ Resolve(h) PROVE Effect(h)
  BY <1>2, StepEffect, Zenon DEF ClientInv
<1> QED BY <1>1, <1>2, Zenon DEF Server

\* The request that with_sequence_number sends.
LEMMA RequestTypes ==
    ASSUME ClientInv
    PROVE  /\ ChallengeRequest \in MessageTypes
           /\ ChallengeRequest.kind = "challenge" /\ ChallengeRequest.seq = cseq + 1
           /\ \A h \in Handlers :
                 LET m == InstructionRequest(h, NextNumber)
                 IN  /\ m \in MessageTypes /\ m.kind = "instruction" /\ m.seq = cseq + 1
                     /\ m.op = want.op /\ m.key = want.key
<1>1. cseq + 1 \in Nat /\ \A h \in Handlers : msg[h].nonce \in Nat
  BY DEF ClientInv, IInv, TypeOK, MessageTypes
<1> QED
  BY <1>1, Zenon DEF ClientInv, ChallengeRequest, InstructionRequest, NextNumber, Message, MessageTypes

\* What Receive makes of a request.
LEMMA ReceiveEffect ==
    ASSUME ClientInv, NEW h \in Handlers, NEW m \in net, Receive(h, m)
    PROVE  /\ pc[h] = "idle" /\ UNCHANGED <<db, snap, reply>>
           /\ \E l \in {"challenge_begin", "find"} : pc' = [pc EXCEPT ![h] = l]
           /\ \A k \in Handlers \ {h} : msg'[k] = msg[k]
           /\ msg'[h].seq = m.seq /\ msg'[h].kind = m.kind
           /\ msg'[h].op = m.op /\ msg'[h].key = m.key
           /\ pc'[h] = "challenge_begin" => m.kind = "challenge"
           /\ pc'[h] = "find" => m.kind = "instruction"
<1>1. m \in MessageTypes /\ m.kind \in {"challenge", "instruction"}
  BY Zenon DEF ClientInv
<1>2. pc[h] = "idle" /\ UNCHANGED <<db, snap, reply>> /\ pc' = [pc EXCEPT ![h] = EntryPoint(m.kind)]
  BY Zenon DEF Receive, Goto
<1>3. PICK n : /\ n.seq = m.seq /\ n.kind = m.kind /\ n.op = m.op /\ n.key = m.key
               /\ msg' = [msg EXCEPT ![h] = n]
  <2>1. CASE m.kind = "challenge"
    <3> DEFINE c == [m EXCEPT !.nonce = received + 1]
    <3>1. c.seq = m.seq /\ c.kind = m.kind /\ c.op = m.op /\ c.key = m.key
      BY <1>1, Zenon DEF MessageTypes
    <3>2. msg' = [msg EXCEPT ![h] = c]
      BY <2>1, Zenon DEF Receive
    <3> QED BY <3>1, <3>2, Zenon
  <2>2. CASE m.kind # "challenge"
    BY <2>2, Zenon DEF Receive
  <2> QED BY <2>1, <2>2, Zenon
<1> QED
  BY <1>1, <1>2, <1>3, Zenon DEF ClientInv, IInv, TypeOK, EntryPoint

LEMMA ClientInvInit == ProtocolInit => ClientInv /\ FreshInv
<1> SUFFICES ASSUME ProtocolInit PROVE ClientInv /\ FreshInv
  OBVIOUS
<1>1. IInv
  <2>1. user \in UserRows /\ Consistent(user) /\ user.seq = 0
    BY RowTypes, Zenon DEF ProtocolInit, NewUser, UserRows, Consistent
  <2>2. TypeOK
    BY <2>1, RowTypes, AccountAssumption DEF ProtocolInit, TypeOK, Labels, Replies
  <2>3. \A h \in Handlers : Consistent(snap[h].user)
    BY RowTypes, Zenon DEF ProtocolInit, NoSnapshot
  <2>4. LocksAreReleased
    BY Zenon DEF ProtocolInit, LocksAreReleased
  <2> QED BY <2>1, <2>2, <2>3, <2>4, Zenon DEF IInv
<1>2. ClientInv
  BY <1>1, Zenon DEF ProtocolInit, ClientInv, NoWant
<1>3. FreshInv
  BY DEF ProtocolInit, FreshInv, NewUser, Open, HasRead
<1> QED BY <1>2, <1>3, Zenon

LEMMA ClientInvStep == ClientInv /\ [ProtocolNext]_allVars => ClientInv'
<1> SUFFICES ASSUME ClientInv, [ProtocolNext]_allVars PROVE ClientInv'
  OBVIOUS
<1> USE DEF ClientInv
<1>0. UNCHANGED vars => IInv'
  BY NextIInv, Zenon
<1>1. ASSUME NEW op \in Operations, NEW pin \in Pins, Send(op, pin) PROVE ClientInv'
  <2>1. PICK key \in Nat : want' = [op |-> op, key |-> key, pin |-> pin]
    BY <1>1 DEF Send, FreshKey, NextNumber
  <2>2. net' = net \cup {ChallengeRequest} /\ cseq' = cseq + 1
    BY <1>1, Zenon DEF Send, with_sequence_number, NextNumber
  <2>3. UNCHANGED <<vars, known>> /\ cpc' = "challenge"
    BY <1>1, Zenon DEF Send
  <2> QED BY <1>0, <2>1, <2>2, <2>3, RequestTypes, ProtocolAssumption DEF vars
<1>2. ASSUME NEW h \in Handlers, ChallengeAnswered(h) PROVE ClientInv'
  <2>1. IInv' /\ known' = known
    BY <1>2, RespondIInv, Zenon DEF ChallengeAnswered
  <2>2. \A k \in Handlers : pc'[k] # "register"
    BY <1>2, Zenon DEF ChallengeAnswered, Respond, Goto, IInv, TypeOK
  <2>3. CASE with_sequence_number(InstructionRequest(h, NextNumber)) /\ cpc' = "instruction"
             /\ want' = want
    BY <2>1, <2>2, <2>3, RequestTypes DEF with_sequence_number, NextNumber
  <2>4. CASE cpc' = "idle" /\ want' = NoWant /\ UNCHANGED <<cseq, net>>
    BY <2>1, <2>2, <2>4, Zenon DEF NoWant
  <2> QED BY <1>2, <2>3, <2>4, Zenon DEF ChallengeAnswered
<1>3. ASSUME NEW h \in Handlers, InstructionAnswered(h) PROVE ClientInv'
  <2>1. IInv'
    BY <1>3, RespondIInv, Zenon DEF InstructionAnswered, Concluded
  <2>2. \A k \in Handlers : pc'[k] # "register"
    BY <1>3, Zenon DEF InstructionAnswered, Concluded, Respond, Goto, IInv, TypeOK
  <2> QED BY <1>3, <2>1, <2>2, Zenon DEF InstructionAnswered, Concluded, NoWant
<1>4. ASSUME NEW h \in Handlers, LoseAnswer(h) PROVE ClientInv'
  <2>1. IInv'
    BY <1>4, RespondIInv, Zenon DEF LoseAnswer
  <2>2. \A k \in Handlers : pc'[k] # "register"
    BY <1>4, Zenon DEF LoseAnswer, Respond, Goto, IInv, TypeOK
  <2> QED BY <1>4, <2>1, <2>2, Zenon DEF LoseAnswer, clientVars
<1>5. CASE GiveUp
  BY <1>0, <1>5, Zenon DEF GiveUp, GiveUpAt, NoWant, vars
<1>6. ASSUME NEW h \in Handlers, NEW m \in net, Deliver(h, m) PROVE ClientInv'
  <2>1. IInv'
    BY <1>6, ReceiveIInv, Zenon DEF Deliver
  <2>2. \A k \in Handlers : pc'[k] # "register"
    BY <1>6, ReceiveEffect DEF Deliver, IInv, TypeOK
  <2> QED BY <1>6, <2>1, <2>2, Zenon DEF Deliver
<1>7. ASSUME NEW m \in net, LoseRequest(m) PROVE ClientInv'
  BY <1>0, <1>7, Zenon DEF LoseRequest, vars
<1>8. CASE Server
  <2>1. IInv'
    BY <1>8, ServerIInv, Zenon DEF Server
  <2>2. \A k \in Handlers : pc'[k] # "register"
    <3>1. ASSUME NEW h \in Handlers, Effect(h), NEW k \in Handlers PROVE pc'[k] # "register"
      BY <3>1, Zenon DEF Effect
    <3> QED BY <1>8, <3>1, ServerEffect, Zenon
  <2> QED BY <1>8, <2>1, <2>2, Zenon DEF Server, clientVars
<1>9. CASE UNCHANGED allVars
  BY <1>0, <1>9, Zenon DEF allVars, vars, clientVars
<1> QED
  BY <1>1, <1>2, <1>3, <1>4, <1>5, <1>6, <1>7, <1>8, <1>9, Zenon DEF ProtocolNext

-----------------------------------------------------------------------------
(* Sequence numbers.                                                        *)

\* A new request has a number that nothing else has.
LEMMA FreshSend ==
    ASSUME ClientInv, FreshInv, NEW m, m.seq = cseq + 1, cseq' = cseq + 1,
           net' = net \cup {m}, UNCHANGED user,
           \A h \in Handlers : pc'[h] # "idle" => pc'[h] = pc[h] /\ msg'[h] = msg[h] /\ snap'[h] = snap[h]
    PROVE  FreshInv'
<1> USE DEF Open, HasRead
<1>1. cseq \in Nat /\ user.seq \in Nat
  BY Zenon DEF ClientInv, IInv, TypeOK, UserRows
<1>2. \A n \in net : n.seq \in Nat /\ n.seq <= cseq
  BY Zenon DEF ClientInv, FreshInv, MessageTypes
<1>3. \A h \in Handlers : pc'[h] # "idle" => msg'[h].seq \in Nat /\ msg'[h].seq <= cseq
  BY Zenon DEF ClientInv, FreshInv, IInv, TypeOK, MessageTypes
<1> QED BY <1>1, <1>2, <1>3 DEF FreshInv

\* Requests that are lost or answered only take numbers away.
LEMMA FreshLess ==
    ASSUME ClientInv, FreshInv, cseq' = cseq, net' \subseteq net, UNCHANGED user,
           \A h \in Handlers : pc'[h] # "idle" => pc'[h] = pc[h] /\ msg'[h] = msg[h] /\ snap'[h] = snap[h]
    PROVE  FreshInv'
BY DEF FreshInv, Open, HasRead

LEMMA FreshDeliver ==
    ASSUME ClientInv, FreshInv, NEW h \in Handlers, NEW m \in net, Deliver(h, m)
    PROVE  FreshInv'
<1>1. net' = net \ {m} /\ cseq' = cseq /\ Receive(h, m)
  BY Zenon DEF Deliver
<1>2. PICK l \in {"challenge_begin", "find"} : pc' = [pc EXCEPT ![h] = l]
  BY <1>1, ReceiveEffect, Zenon
<1>3. /\ pc[h] = "idle" /\ UNCHANGED <<user, snap>> /\ msg'[h].seq = m.seq
      /\ \A k \in Handlers \ {h} : msg'[k] = msg[k]
  BY <1>1, ReceiveEffect, Zenon DEF db
<1>4. pc'[h] = l /\ \A k \in Handlers \ {h} : pc'[k] = pc[k]
  BY <1>2, Zenon DEF ClientInv, IInv, TypeOK
<1> QED
  BY <1>1, <1>3, <1>4 DEF FreshInv, Open, HasRead

LEMMA FreshServer ==
    ASSUME ClientInv, FreshInv, NEW k \in Handlers, Effect(k), UNCHANGED clientVars
    PROVE  FreshInv'
<1>1. /\ cseq \in Nat /\ user.seq \in Nat /\ user'.seq \in Nat
      /\ \A h \in Handlers : msg[h].seq \in Nat
  BY DEF ClientInv, IInv, TypeOK, UserRows, MessageTypes, Effect
<1>2. net' = net /\ cseq' = cseq /\ msg' = msg
  BY Zenon DEF clientVars, Effect
<1>3. CASE user'.seq = user.seq
  BY <1>1, <1>2, <1>3 DEF Effect, FreshInv, Open, HasRead
<1>4. CASE user'.seq # user.seq
  <2>1. user'.seq = msg[k].seq /\ pc[k] \in Open /\ pc'[k] \notin Open
    BY <1>4, Zenon DEF Effect
  <2> QED BY <1>1, <1>2, <2>1 DEF Effect, FreshInv, Open, HasRead
<1> QED BY <1>3, <1>4, Zenon

LEMMA FreshStep == ClientInv /\ FreshInv /\ [ProtocolNext]_allVars => FreshInv'
<1> SUFFICES ASSUME ClientInv, FreshInv, [ProtocolNext]_allVars PROVE FreshInv'
  OBVIOUS
<1>0. ASSUME NEW h \in Handlers, Respond(h)
      PROVE  /\ UNCHANGED user
             /\ \A k \in Handlers :
                   pc'[k] # "idle" => pc'[k] = pc[k] /\ msg'[k] = msg[k] /\ snap'[k] = snap[k]
  BY <1>0, Zenon DEF Respond, Goto, db, ClientInv, IInv, TypeOK
<1>1. ASSUME NEW op \in Operations, NEW pin \in Pins, Send(op, pin) PROVE FreshInv'
  BY <1>1, RequestTypes, FreshSend, Zenon DEF Send, with_sequence_number, NextNumber, vars, db
<1>2. ASSUME NEW h \in Handlers, ChallengeAnswered(h) PROVE FreshInv'
  <2>1. CASE with_sequence_number(InstructionRequest(h, NextNumber))
    BY <1>0, <1>2, <2>1, RequestTypes, FreshSend
    DEF ChallengeAnswered, with_sequence_number, NextNumber
  <2>2. CASE UNCHANGED <<cseq, net>>
    BY <1>0, <1>2, <2>2, FreshLess, Zenon DEF ChallengeAnswered
  <2> QED BY <1>2, <2>1, <2>2, Zenon DEF ChallengeAnswered
<1>3. ASSUME NEW h \in Handlers, InstructionAnswered(h) \/ LoseAnswer(h) PROVE FreshInv'
  BY <1>0, <1>3, FreshLess, Zenon DEF InstructionAnswered, Concluded, LoseAnswer, clientVars
<1>4. CASE GiveUp \/ (\E m \in net : LoseRequest(m)) \/ UNCHANGED allVars
  BY <1>4, FreshLess, Zenon DEF GiveUp, GiveUpAt, LoseRequest, allVars, vars, db, clientVars
<1>5. ASSUME NEW h \in Handlers, NEW m \in net, Deliver(h, m) PROVE FreshInv'
  BY <1>5, FreshDeliver, Zenon
<1>6. CASE Server
  <2>1. CASE UNCHANGED <<user, pc, msg, snap>>
    BY <1>6, <2>1, FreshLess, Zenon DEF Server, clientVars
  <2> QED BY <1>6, <2>1, ServerEffect, FreshServer, Zenon DEF Server
<1> QED
  BY <1>1, <1>2, <1>3, <1>4, <1>5, <1>6, Zenon DEF ProtocolNext

LEMMA FreshInvariance == ProtocolSpec => [](ClientInv /\ FreshInv)
BY ClientInvInit, ClientInvStep, FreshStep, PTL DEF ProtocolSpec

\* Whatever is delayed, lost or abandoned, the server never gets ahead of the
\* wallet: instruction_challenge and verify_instruction accept the sequence
\* number of the request that the wallet is waiting on.
THEOREM WalletIsNeverBehind == ProtocolSpec => []CurrentRequestIsFresh
<1>1. ClientInv /\ FreshInv => CurrentRequestIsFresh
  BY DEF ClientInv, FreshInv, CurrentRequestIsFresh, SequenceNumberOk, HasRead, IInv, TypeOK, UserRows
<1> QED BY <1>1, FreshInvariance, PTL

-----------------------------------------------------------------------------
(* Keys.                                                                    *)

\* The instruction that the wallet waits on is the one that it wants.
IsWanted(m) == cpc = "instruction" /\ m.seq = cseq => m.op = want.op /\ m.key = want.key

KeyInv ==
    /\ known \subseteq keys
    /\ cpc # "idle" /\ want.op = "Sign" => want.key \in keys
    /\ \A m \in net : RequestKeys(m) /\ IsWanted(m)
    /\ \A h \in Handlers : HandlerKeys(h)
    /\ \A h \in Handlers : pc[h] # "idle" => IsWanted(msg[h])

LEMMA KeyInvInit == ProtocolInit => KeyInv
<1> SUFFICES ASSUME ProtocolInit PROVE KeyInv
  OBVIOUS
<1>1. \A h \in Handlers : pc[h] = "idle" /\ reply[h] = "none"
  BY Zenon DEF ProtocolInit
<1>2. net = {} /\ known = {} /\ cpc = "idle"
  BY Zenon DEF ProtocolInit
<1> QED BY <1>1, <1>2, Zenon DEF KeyInv, HandlerKeys, HasSucceeded, ChallengeSteps

\* Keys are never removed.
LEMMA KeyServer ==
    ASSUME KeyInv, NEW k \in Handlers, KeyEffect(k), UNCHANGED clientVars
    PROVE  KeyInv'
<1>1. UNCHANGED <<net, known, cpc, cseq, want, msg>> /\ keys \subseteq keys'
  BY Zenon DEF clientVars, KeyEffect
<1>2. \A m : RequestKeys(m) => RequestKeys(m)'
  BY <1>1, Zenon DEF RequestKeys
<1>3. \A m : IsWanted(m) => IsWanted(m)'
  BY <1>1, Zenon DEF IsWanted
<1>4. \A h \in Handlers \ {k} : HandlerKeys(h)'
  BY <1>1, Zenon DEF KeyInv, KeyEffect, HandlerKeys, RequestKeys, GeneratesKey, HasSucceeded
<1>5. HandlerKeys(k)'
  BY <1>1, Zenon DEF KeyInv, KeyEffect, HandlerKeys, RequestKeys, GeneratesKey, HasSucceeded
<1>6. \A h \in Handlers : (pc[h] # "idle" => IsWanted(msg[h]))'
  BY <1>1, Zenon DEF KeyInv, KeyEffect, IsWanted
<1> QED BY <1>1, <1>2, <1>3, <1>4, <1>5, <1>6, Zenon DEF KeyInv

\* An answered request leaves its handler free.
LEMMA RespondKeys ==
    ASSUME IInv, KeyInv, NEW h \in Handlers, Respond(h)
    PROVE  /\ keys' = keys
           /\ \A k \in Handlers : HandlerKeys(k)'
           /\ \A k \in Handlers : pc'[k] # "idle" => pc'[k] = pc[k] /\ msg'[k] = msg[k]
<1>1. /\ keys' = keys
      /\ \A k \in Handlers \ {h} : pc'[k] = pc[k] /\ msg'[k] = msg[k] /\ reply'[k] = reply[k]
      /\ pc'[h] = "idle" /\ reply'[h] = "none"
  BY Zenon DEF Respond, Goto, db, IInv, TypeOK
<1>2. HandlerKeys(h)'
  BY <1>1, Zenon DEF HandlerKeys, HasSucceeded, ChallengeSteps
<1>3. \A k \in Handlers \ {h} : HandlerKeys(k)'
  BY <1>1 DEF KeyInv, HandlerKeys, RequestKeys, GeneratesKey, HasSucceeded
<1> QED BY <1>1, <1>2, <1>3, Zenon

LEMMA KeyStep == ClientInv /\ FreshInv /\ KeyInv /\ [ProtocolNext]_allVars => KeyInv'
<1> SUFFICES ASSUME ClientInv, FreshInv, KeyInv, [ProtocolNext]_allVars PROVE KeyInv'
  OBVIOUS
<1>0. /\ cseq \in Nat
      /\ \A m \in net : m.seq \in Nat /\ m.seq <= cseq
      /\ \A h \in Handlers : msg[h].seq \in Nat /\ (pc[h] # "idle" => msg[h].seq <= cseq)
  BY Zenon DEF ClientInv, FreshInv, IInv, TypeOK, MessageTypes
<1>1. ASSUME NEW op \in Operations, NEW pin \in Pins, Send(op, pin) PROVE KeyInv'
  <2>1. /\ UNCHANGED <<keys, pc, msg, reply, known>>
        /\ net' = net \cup {ChallengeRequest} /\ cseq' = cseq + 1 /\ cpc' = "challenge"
        /\ want'.op = "Sign" => want'.key \in known
    BY <1>1 DEF Send, with_sequence_number, NextNumber, vars, db
  <2>2. ChallengeRequest.op = "none"
    BY Zenon DEF ChallengeRequest, Message
  <2>3. \A h \in Handlers : HandlerKeys(h)'
    BY <2>1, Zenon DEF KeyInv, HandlerKeys, RequestKeys, GeneratesKey, HasSucceeded
  <2> QED BY <2>1, <2>2, <2>3, Zenon DEF KeyInv, RequestKeys, IsWanted
<1>2. ASSUME NEW h \in Handlers, ChallengeAnswered(h) PROVE KeyInv'
  <2>1. /\ keys' = keys /\ known' = known
        /\ \A k \in Handlers : HandlerKeys(k)'
        /\ \A k \in Handlers : pc'[k] # "idle" => pc'[k] = pc[k] /\ msg'[k] = msg[k]
    BY <1>2, RespondKeys, Zenon DEF ChallengeAnswered, ClientInv
  <2>2. CASE with_sequence_number(InstructionRequest(h, NextNumber)) /\ cpc' = "instruction"
             /\ want' = want
    <3>0. PICK m : m = InstructionRequest(h, NextNumber)
      BY Zenon
    <3>1. m.seq = cseq + 1 /\ m.op = want.op /\ m.key = want.key
      BY <3>0, RequestTypes, Zenon
    <3>2. net' = net \cup {m} /\ cseq' = cseq + 1 /\ cpc = "challenge"
      BY <1>2, <2>2, <3>0, Zenon DEF with_sequence_number, NextNumber, ChallengeAnswered
    <3>3. RequestKeys(m)' /\ IsWanted(m)'
      BY <2>1, <2>2, <3>1, <3>2, Zenon DEF KeyInv, RequestKeys, IsWanted
    <3>4. \A n \in net : RequestKeys(n)'
      BY <2>1, Zenon DEF KeyInv, RequestKeys
    <3>5. \A n : n.seq \in Nat /\ n.seq <= cseq => IsWanted(n)'
      BY <1>0, <3>2 DEF IsWanted
    <3>6. \A k \in Handlers : pc'[k] # "idle" => IsWanted(msg[k])'
      BY <1>0, <2>1, <3>2 DEF IsWanted
    <3>7. \A n \in net' : RequestKeys(n)' /\ IsWanted(n)'
      BY <1>0, <3>2, <3>3, <3>4, <3>5, Zenon
    <3>8. known' \subseteq keys' /\ (cpc' # "idle" /\ want'.op = "Sign" => want'.key \in keys')
      BY <2>1, <2>2, <3>2, Zenon DEF KeyInv
    <3> QED BY <2>1, <3>6, <3>7, <3>8, Zenon DEF KeyInv
  <2>3. CASE cpc' = "idle" /\ want' = NoWant /\ UNCHANGED <<cseq, net>>
    BY <2>1, <2>3, Zenon DEF KeyInv, RequestKeys, IsWanted
  <2> QED BY <1>2, <2>2, <2>3, Zenon DEF ChallengeAnswered
<1>3. ASSUME NEW h \in Handlers, InstructionAnswered(h) PROVE KeyInv'
  <2>1. /\ keys' = keys /\ cpc' = "idle" /\ UNCHANGED <<cseq, net>>
        /\ \A k \in Handlers : HandlerKeys(k)'
        /\ \A k \in Handlers : pc'[k] # "idle" => pc'[k] = pc[k] /\ msg'[k] = msg[k]
    BY <1>3, RespondKeys, Zenon DEF InstructionAnswered, Concluded, ClientInv
  <2>2. known' \subseteq keys
    <3>1. CASE reply[h] = "Ok" /\ want.op = "GenerateKey"
      <4>1. msg[h].kind = "instruction" /\ msg[h].op = "GenerateKey" /\ msg[h].key = want.key
            /\ pc[h] = "done"
        BY <1>3, <3>1, Zenon DEF InstructionAnswered, Concluded, Awaited, KeyInv, IsWanted
      <4>2. want.key \in keys
        BY <3>1, <4>1, Zenon DEF KeyInv, HandlerKeys, GeneratesKey, HasSucceeded
      <4> QED BY <1>3, <4>2, Zenon DEF InstructionAnswered, Concluded, KeyInv
    <3>2. CASE ~(reply[h] = "Ok" /\ want.op = "GenerateKey")
      BY <1>3, <3>2, Zenon DEF InstructionAnswered, Concluded, KeyInv
    <3> QED BY <3>1, <3>2, Zenon
  <2> QED BY <2>1, <2>2, Zenon DEF KeyInv, RequestKeys, IsWanted
<1>4. ASSUME NEW h \in Handlers, LoseAnswer(h) PROVE KeyInv'
  <2>1. UNCHANGED <<net, known, cpc, cseq, want>>
    BY <1>4, Zenon DEF LoseAnswer, clientVars
  <2>2. /\ keys' = keys
        /\ \A k \in Handlers : HandlerKeys(k)'
        /\ \A k \in Handlers : pc'[k] # "idle" => pc'[k] = pc[k] /\ msg'[k] = msg[k]
    BY <1>4, RespondKeys, Zenon DEF LoseAnswer, ClientInv
  <2> QED BY <2>1, <2>2, Zenon DEF KeyInv, RequestKeys, IsWanted
<1>5. CASE GiveUp
  BY <1>5, Zenon DEF GiveUp, GiveUpAt, KeyInv, HandlerKeys, RequestKeys, GeneratesKey,
              HasSucceeded, IsWanted, vars, db
<1>6. ASSUME NEW h \in Handlers, NEW m \in net, Deliver(h, m) PROVE KeyInv'
  <2>1. UNCHANGED <<known, cpc, cseq, want>> /\ net' = net \ {m} /\ Receive(h, m)
    BY <1>6, Zenon DEF Deliver
  <2>2. /\ UNCHANGED <<keys, reply>>
        /\ msg'[h].kind = m.kind /\ msg'[h].op = m.op /\ msg'[h].key = m.key /\ msg'[h].seq = m.seq
        /\ \A k \in Handlers \ {h} : msg'[k] = msg[k]
    BY <2>1, ReceiveEffect DEF db
  <2>a. PICK l \in {"challenge_begin", "find"} : pc' = [pc EXCEPT ![h] = l]
    BY <2>1, ReceiveEffect, Zenon
  <2>b. pc = [k \in Handlers |-> pc[k]]
    BY Zenon DEF ClientInv, IInv, TypeOK
  <2>3. pc'[h] \in {"challenge_begin", "find"} /\ \A k \in Handlers \ {h} : pc'[k] = pc[k]
    BY <2>a, <2>b, Zenon
  <2>4. pc'[h] = "challenge_begin" => m.kind = "challenge"
    BY <2>1, ReceiveEffect, Zenon
  <2>5. \A k \in Handlers \ {h} : HandlerKeys(k)'
    BY <2>2, <2>3 DEF KeyInv, HandlerKeys, RequestKeys, GeneratesKey, HasSucceeded
  <2>6. HandlerKeys(h)'
    BY <2>2, <2>3, <2>4, Zenon DEF KeyInv, HandlerKeys, RequestKeys, GeneratesKey, HasSucceeded, ChallengeSteps
  <2>7. \A k \in Handlers : (pc[k] # "idle" => IsWanted(msg[k]))'
    BY <2>1, <2>2, <2>3 DEF KeyInv, IsWanted
  <2> QED BY <2>1, <2>2, <2>5, <2>6, <2>7, Zenon DEF KeyInv, RequestKeys, IsWanted
<1>7. ASSUME NEW m \in net, LoseRequest(m) PROVE KeyInv'
  BY <1>7, Zenon DEF LoseRequest, KeyInv, HandlerKeys, RequestKeys, GeneratesKey,
              HasSucceeded, IsWanted, vars, db
<1>8. CASE Server
  <2>1. CASE Tick
    BY <1>8, <2>1, Zenon DEF Server, Tick, KeyInv, HandlerKeys, RequestKeys, GeneratesKey,
                      HasSucceeded, IsWanted, clientVars, db
  <2>2. ASSUME NEW h \in Handlers, Step(h) \/ Abort(h) \/ Resolve(h) PROVE KeyInv'
    <3>1. HandlerKeys(h) /\ pc[h] # "register" /\ IInv
      BY Zenon DEF KeyInv, ClientInv
    <3>2. KeyEffect(h)
      BY <2>2, <3>1, StepKeyEffect, Zenon
    <3>3. UNCHANGED clientVars
      BY <1>8, Zenon DEF Server
    <3> QED BY <3>2, <3>3, KeyServer, Zenon
  <2> QED BY <1>8, <2>1, <2>2, Zenon DEF Server
<1>9. CASE UNCHANGED allVars
  BY <1>9, Zenon DEF allVars, vars, db, clientVars, KeyInv, HandlerKeys, RequestKeys, GeneratesKey,
              HasSucceeded, IsWanted
<1> QED
  BY <1>1, <1>2, <1>3, <1>4, <1>5, <1>6, <1>7, <1>8, <1>9, Zenon DEF ProtocolNext

\* A key whose public key reached the wallet is committed, so that the lookup in
\* the Sign instruction never panics, whichever answers were lost.
THEOREM SignFindsItsKey == ProtocolSpec => []KnownKeysAreStored
<1>1. KeyInv => KnownKeysAreStored
  BY Zenon DEF KeyInv, HandlerKeys, KnownKeysAreStored
<1> QED BY <1>1, KeyInvInit, KeyStep, FreshInvariance, PTL DEF ProtocolSpec

-----------------------------------------------------------------------------
(* The right PIN.                                                           *)

InstructionSteps == {"find", "begin", "clear", "verify", "accept", "reject", "handle", "sign_result"}

\* The request in handler h is the one that the wallet waits on, and the challenge
\* that it carries is the one of the row, and of the copy of the row once it was read.
Agrees(h) ==
    /\ msg[h].kind = cpc /\ msg[h].seq = cseq
    /\ pc[h] \in ChallengeSteps => cpc = "challenge"
    /\ pc[h] \in InstructionSteps => cpc = "instruction"
    /\ pc[h] = "challenge_upsert" => snap[h].chal.nonce = msg[h].nonce
    /\ pc[h] = "done" /\ cpc = "challenge" /\ reply[h] = "Ok" => chal.nonce = msg[h].nonce
    /\ pc[h] = "find" => chal.nonce = msg[h].nonce
    /\ pc[h] \in {"begin", "clear", "verify"} => snap[h].chal.nonce = msg[h].nonce
    /\ pc[h] = "reject" => ~msg[h].signed

\* A wallet that never gave up has one request at most, on its way or in one
\* handler, and none when it waits on nothing.
AloneInv ==
    ~abandoned =>
        /\ cpc = "idle" => net = {}
        /\ \A m \in net :
              /\ m.kind = cpc /\ m.seq = cseq
              /\ m.kind = "instruction" => m.nonce = chal.nonce
              /\ \A h \in Handlers : pc[h] = "idle"
        /\ \A h, k \in Handlers : pc[h] # "idle" /\ pc[k] # "idle" => h = k
        /\ \A h \in Handlers : pc[h] # "idle" => Agrees(h)

LEMMA AloneInit == ProtocolInit => AloneInv
<1> SUFFICES ASSUME ProtocolInit PROVE AloneInv
  OBVIOUS
<1>1. net = {} /\ \A h \in Handlers : pc[h] = "idle"
  BY Zenon DEF ProtocolInit
<1> QED BY <1>1, Zenon DEF AloneInv

\* A step that moves handler h on from one place to another, with its copy of
\* the row and the row as they were.
LEMMA AgreesMove ==
    ASSUME IInv, NEW h \in Handlers, Agrees(h), NEW l, pc' = [pc EXCEPT ![h] = l],
           UNCHANGED <<clientVars, msg, snap, chal>>,
           \/ l \in {"handle", "sign_result", "accept"} /\ pc[h] \in InstructionSteps
           \/ l = "challenge_find" /\ pc[h] = "challenge_begin"
           \/ l = "clear" /\ pc[h] = "begin"
           \/ l = "verify" /\ pc[h] = "clear"
           \/ l = "done" /\ reply'[h] # "Ok"
           \/ l = "done" /\ pc[h] \in InstructionSteps
           \/ l = "reject" /\ pc[h] = "verify" /\ ~msg[h].signed
    PROVE  Agrees(h)'
<1>1. pc'[h] = l
  BY Zenon DEF IInv, TypeOK
<1>2. UNCHANGED <<cpc, cseq, msg, snap, chal>>
  BY Zenon DEF clientVars
<1> QED BY <1>1, <1>2, Zenon DEF Agrees, ChallengeSteps, InstructionSteps

LEMMA AgreesFail ==
    ASSUME IInv, NEW h \in Handlers, Agrees(h), NEW e, e # "Ok", Fail(h, e), UNCHANGED clientVars
    PROVE  Agrees(h)'
<1>1. pc' = [pc EXCEPT ![h] = "done"] /\ reply' = [reply EXCEPT ![h] = e]
      /\ UNCHANGED <<clientVars, msg, snap, chal>>
  BY Zenon DEF Fail, Answer, Goto, db
<1>2. reply'[h] = e
  BY <1>1, Zenon DEF IInv, TypeOK
<1> QED BY <1>1, <1>2, AgreesMove, Zenon

\* The row and the copy of it that verify_wallet_certificate makes.
LEMMA AgreesFind ==
    ASSUME IInv, NEW h \in Handlers, Agrees(h), UNCHANGED <<clientVars, msg, chal>>,
           NEW l, pc' = [pc EXCEPT ![h] = l], snap' = [snap EXCEPT ![h] = Snapshot],
           \/ l = "challenge_update" /\ pc[h] = "challenge_find"
           \/ l = "begin" /\ pc[h] = "find"
    PROVE  Agrees(h)'
<1>1. pc'[h] = l /\ snap'[h].chal = chal
  BY Zenon DEF IInv, TypeOK, Snapshot
<1>2. UNCHANGED <<cpc, cseq, msg, chal>>
  BY Zenon DEF clientVars
<1> QED BY <1>1, <1>2, Zenon DEF Agrees, ChallengeSteps, InstructionSteps

LEMMA AgreesStep ==
    ASSUME IInv, CurrentRequestIsFresh, NEW h \in Handlers, Agrees(h), pc[h] # "register",
           Step(h) \/ Abort(h) \/ Resolve(h), UNCHANGED clientVars
    PROVE  Agrees(h)'
<1> USE DEF Goto, Answer, db
<1>a. CASE \E e : e # "Ok" /\ Fail(h, e)
  BY <1>a, AgreesFail, Zenon
<1> SUFFICES ASSUME ~\E e : e # "Ok" /\ Fail(h, e) PROVE Agrees(h)'
  BY <1>a, Zenon
<1>b. \A kind : UnexpectedError(kind) # "Ok"
  BY Zenon DEF UnexpectedError
<1>1. CASE Abort(h) \/ Resolve(h)
  BY <1>1, <1>b, Zenon DEF Abort, Resolve, AcquireTimeout, DeadlockVictim
<1>2. CASE BeginChallenge(h) \/ BeginInstruction(h)
  BY <1>2, AgreesMove, Zenon DEF BeginChallenge, BeginInstruction
<1>3. CASE FindForChallenge(h)
  BY <1>3, <1>b, AgreesFind, Zenon DEF FindForChallenge, VerifyWalletCertificate
<1>4. CASE Find(h)
  BY <1>4, <1>b, AgreesFind, Zenon DEF Find, VerifyWalletCertificate
<1>5. CASE UpdateSequenceNumber(h)
  <2>1. /\ snap' = [snap EXCEPT ![h].chal = [nonce |-> msg[h].nonce, exp |-> now + ChallengeTimeout]]
        /\ pc' = [pc EXCEPT ![h] = "challenge_upsert"] /\ UNCHANGED msg /\ pc[h] = "challenge_update"
    BY <1>5, Zenon DEF UpdateSequenceNumber
  <2>2. pc'[h] = "challenge_upsert" /\ snap'[h].chal.nonce = msg[h].nonce
    BY <2>1, Zenon DEF IInv, TypeOK
  <2> QED BY <2>1, <2>2, Zenon DEF Agrees, clientVars, ChallengeSteps, InstructionSteps
<1>6. CASE UpsertChallenge(h)
  <2>1. /\ pc' = [pc EXCEPT ![h] = "done"] /\ UNCHANGED <<msg, snap>>
        /\ chal' = snap[h].chal /\ pc[h] = "challenge_upsert"
    BY <1>6, Zenon DEF UpsertChallenge, Upserted
  <2>2. pc'[h] = "done"
    BY <2>1, Zenon DEF IInv, TypeOK
  <2> QED BY <2>1, <2>2, Zenon DEF Agrees, clientVars, ChallengeSteps, InstructionSteps
<1>7. CASE ClearChallenge(h)
  <2>1. CASE PinEval(h) = "InTimeout"
    <3>1. pc' = [pc EXCEPT ![h] = "done"] /\ UNCHANGED <<msg, snap>> /\ pc[h] = "clear"
      BY <1>7, <2>1, Zenon DEF ClearChallenge
    <3>2. pc'[h] = "done"
      BY <3>1, Zenon DEF IInv, TypeOK
    <3> QED BY <3>1, <3>2, Zenon DEF Agrees, clientVars, ChallengeSteps, InstructionSteps
  <2>2. CASE PinEval(h) # "InTimeout"
    BY <1>7, <2>2, AgreesMove, Zenon DEF ClearChallenge
  <2> QED BY <2>1, <2>2, Zenon
<1>8. CASE VerifyInstruction(h)
  <2>1. SequenceNumberOk(h) /\ msg[h].nonce = snap[h].chal.nonce /\ pc[h] = "verify"
    BY <1>8, Zenon DEF VerifyInstruction, Agrees, CurrentRequestIsFresh
  <2>2. Verifies(h) <=> msg[h].signed
    BY <2>1, Zenon DEF Verifies
  <2>3. /\ pc' = [pc EXCEPT ![h] = IF Verifies(h) THEN "accept" ELSE "reject"]
        /\ UNCHANGED <<msg, snap, chal>>
    BY <1>8, Zenon DEF VerifyInstruction
  <2>4. CASE msg[h].signed
    BY <2>1, <2>2, <2>3, <2>4, AgreesMove, Zenon DEF InstructionSteps
  <2>5. CASE ~msg[h].signed
    BY <2>1, <2>2, <2>3, <2>5, AgreesMove, Zenon DEF InstructionSteps
  <2> QED BY <2>4, <2>5, Zenon
<1>9. CASE Accept(h) \/ Reject(h)
  <2>1. PICK l \in {"handle", "done"} : pc' = [pc EXCEPT ![h] = l]
    BY <1>9, Zenon DEF Accept, Accepted, Reject, Rejected
  <2>2. UNCHANGED <<msg, snap>> /\ pc[h] \in {"accept", "reject"}
    BY <1>9, Zenon DEF Accept, Accepted, Reject, Rejected
  <2>3. pc'[h] = l
    BY <2>1, Zenon DEF IInv, TypeOK
  <2> QED BY <2>2, <2>3, Zenon DEF Agrees, clientVars, ChallengeSteps, InstructionSteps
<1>10. CASE HandleInstruction(h)
  BY <1>10, AgreesMove, Zenon DEF HandleInstruction, InstructionSteps
<1>11. CASE SignInstructionResult(h)
  BY <1>11, AgreesMove, Zenon DEF SignInstructionResult, InstructionSteps
<1> QED
  BY <1>1, <1>2, <1>3, <1>4, <1>5, <1>6, <1>7, <1>8, <1>9, <1>10, <1>11, Zenon DEF Step, Register

\* A request that is answered leaves nothing behind: it was the only one.
LEMMA AloneRespond ==
    ASSUME ClientInv, AloneInv, ~abandoned, NEW h \in Handlers, Respond(h)
    PROVE  /\ net = {} /\ \A k \in Handlers : pc'[k] = "idle"
           /\ chal' = chal
<1>1. pc[h] = "done" /\ pc' = [pc EXCEPT ![h] = "idle"] /\ chal' = chal
  BY Zenon DEF Respond, Goto, db
<1>2. \A k \in Handlers \ {h} : pc[k] = "idle"
  BY <1>1, Zenon DEF AloneInv
<1> QED BY <1>1, <1>2, Zenon DEF AloneInv, ClientInv, IInv, TypeOK

LEMMA AloneStep ==
    ClientInv /\ FreshInv /\ CurrentRequestIsFresh /\ AloneInv /\ [ProtocolNext]_allVars => AloneInv'
<1> SUFFICES ASSUME ClientInv, FreshInv, CurrentRequestIsFresh, AloneInv, [ProtocolNext]_allVars
             PROVE  AloneInv'
  OBVIOUS
<1>0. abandoned' = abandoned \/ GiveUp
  <2>1. ASSUME NEW op \in Operations, NEW pin \in Pins, Send(op, pin) PROVE abandoned' = abandoned
    BY <2>1, Zenon DEF Send
  <2>2. ASSUME NEW h \in Handlers, ChallengeAnswered(h) \/ InstructionAnswered(h) \/ LoseAnswer(h)
        PROVE  abandoned' = abandoned
    BY <2>2, Zenon DEF ChallengeAnswered, InstructionAnswered, Concluded, LoseAnswer, clientVars
  <2>3. ASSUME NEW m \in net, LoseRequest(m) \/ \E h \in Handlers : Deliver(h, m)
        PROVE  abandoned' = abandoned
    BY <2>3, Zenon DEF LoseRequest, Deliver
  <2>4. CASE Server \/ UNCHANGED allVars
    BY <2>4, Zenon DEF Server, allVars, clientVars
  <2> QED BY <2>1, <2>2, <2>3, <2>4, Zenon DEF ProtocolNext
<1> SUFFICES ASSUME ~abandoned, ~abandoned' PROVE AloneInv'
  BY <1>0, Zenon DEF AloneInv, GiveUp, GiveUpAt
<1>1. ASSUME NEW op \in Operations, NEW pin \in Pins, Send(op, pin) PROVE AloneInv'
  <2>1. UNCHANGED <<pc, chal>> /\ net' = net \cup {ChallengeRequest} /\ cseq' = cseq + 1
        /\ cpc = "idle" /\ cpc' = "challenge"
    BY <1>1, Zenon DEF Send, with_sequence_number, NextNumber, vars, db
  <2>2. \A h \in Handlers : pc[h] = "idle"
    BY <2>1, Zenon DEF AloneInv, Agrees, ClientInv, IInv, TypeOK, MessageTypes
  <2>3. net' = {ChallengeRequest}
    BY <2>1, Zenon DEF AloneInv
  <2> QED BY <2>1, <2>2, <2>3, RequestTypes, Zenon DEF AloneInv
<1>2. ASSUME NEW h \in Handlers, ChallengeAnswered(h) PROVE AloneInv'
  <2>1. net = {} /\ chal' = chal /\ \A k \in Handlers : pc'[k] = "idle"
    BY <1>2, AloneRespond, Zenon DEF ChallengeAnswered
  <2>2. CASE with_sequence_number(InstructionRequest(h, NextNumber)) /\ cpc' = "instruction" /\ reply[h] = "Ok"
    <3>0. PICK m : m = InstructionRequest(h, NextNumber)
      BY Zenon
    <3>1. m.kind = "instruction" /\ m.seq = cseq + 1 /\ m.nonce = msg[h].nonce
      BY <3>0, RequestTypes, Zenon DEF InstructionRequest, Message
    <3>2. chal.nonce = msg[h].nonce
      BY <1>2, <2>2, Zenon DEF ChallengeAnswered, Awaited, AloneInv, Agrees
    <3>3. net' = {m} /\ cseq' = cseq + 1
      BY <2>1, <2>2, <3>0, Zenon DEF with_sequence_number, NextNumber
    <3> QED BY <2>1, <2>2, <3>1, <3>2, <3>3, Zenon DEF AloneInv
  <2>3. CASE cpc' = "idle" /\ UNCHANGED <<cseq, net>>
    BY <2>1, <2>3, Zenon DEF AloneInv
  <2> QED BY <1>2, <2>2, <2>3, Zenon DEF ChallengeAnswered
<1>3. ASSUME NEW h \in Handlers, InstructionAnswered(h) \/ LoseAnswer(h) PROVE AloneInv'
  <2>1. net = {} /\ \A k \in Handlers : pc'[k] = "idle"
    BY <1>3, AloneRespond, Zenon DEF InstructionAnswered, Concluded, LoseAnswer
  <2>2. net' = net
    BY <1>3, Zenon DEF InstructionAnswered, Concluded, LoseAnswer, clientVars
  <2> QED BY <2>1, <2>2, Zenon DEF AloneInv
<1>4. CASE GiveUp
  BY <1>4, Zenon DEF GiveUp, GiveUpAt
<1>5. ASSUME NEW h \in Handlers, NEW m \in net, Deliver(h, m) PROVE AloneInv'
  <2>1. UNCHANGED <<cpc, cseq>> /\ net' = net \ {m} /\ Receive(h, m)
    BY <1>5, Zenon DEF Deliver
  <2>2. net = {m}
    BY DEF AloneInv, FreshInv
  <2>3. /\ m \in MessageTypes /\ m.kind = cpc /\ m.seq = cseq
        /\ m.kind = "instruction" => m.nonce = chal.nonce
        /\ \A k \in Handlers : pc[k] = "idle"
    BY Zenon DEF AloneInv, ClientInv
  <2>4. PICK l \in {"challenge_begin", "find"} : pc' = [pc EXCEPT ![h] = l]
    BY <2>1, ReceiveEffect, Zenon
  <2>5. pc'[h] = l /\ \A k \in Handlers \ {h} : pc'[k] = "idle"
    BY <2>3, <2>4, Zenon DEF ClientInv, IInv, TypeOK
  <2>6. /\ msg'[h].kind = m.kind /\ msg'[h].seq = m.seq /\ chal' = chal
        /\ l = "challenge_begin" => m.kind = "challenge"
        /\ l = "find" => m.kind = "instruction"
    BY <2>1, <2>5, ReceiveEffect, Zenon DEF db
  <2>7. m.kind = "instruction" => msg'[h].nonce = m.nonce
    BY <2>1, Zenon DEF Receive, ClientInv, IInv, TypeOK
  <2>8. Agrees(h)'
    BY <2>1, <2>3, <2>5, <2>6, <2>7, Zenon DEF Agrees, ChallengeSteps, InstructionSteps
  <2> QED BY <2>1, <2>2, <2>5, <2>8, Zenon DEF AloneInv
<1>6. ASSUME NEW m \in net, LoseRequest(m) PROVE AloneInv'
  <2>1. UNCHANGED <<cpc, cseq, pc, chal>> /\ net' = net \ {m}
    BY <1>6, Zenon DEF LoseRequest, vars, db
  <2>2. \A k \in Handlers : pc[k] = "idle"
    BY Zenon DEF AloneInv
  <2> QED BY <2>1, <2>2, Zenon DEF AloneInv
<1>7. ASSUME NEW h \in Handlers, Step(h) \/ Abort(h) \/ Resolve(h), UNCHANGED clientVars PROVE AloneInv'
  <2>1. pc[h] # "idle" /\ \A k \in Handlers \ {h} : pc'[k] = pc[k]
    BY <1>7, StepEffect, Zenon DEF ClientInv, Effect
  <2>2. net = {} /\ \A k \in Handlers \ {h} : pc[k] = "idle"
    BY <2>1, Zenon DEF AloneInv
  <2>3. Agrees(h)'
    BY <1>7, <2>1, AgreesStep, Zenon DEF ClientInv, AloneInv
  <2> QED BY <1>7, <2>1, <2>2, <2>3, Zenon DEF AloneInv, clientVars
<1>8. CASE (Tick /\ UNCHANGED clientVars) \/ UNCHANGED allVars
  BY <1>8 DEF Tick, db, allVars, vars, clientVars, AloneInv, Agrees
<1> QED
  BY <1>1, <1>2, <1>3, <1>4, <1>5, <1>6, <1>7, <1>8, Zenon DEF ProtocolNext, Server

\* A wallet that waits for each answer is never charged for the right PIN: when
\* handle_instruction counts a failed attempt, the instruction was signed with
\* another PIN, whichever requests and answers were lost or refused before.
THEOREM RightPinIsNotCounted == ProtocolSpec => []RightPinNotCounted
<1>1. ClientInv /\ FreshInv => CurrentRequestIsFresh
  BY DEF ClientInv, FreshInv, CurrentRequestIsFresh, SequenceNumberOk, HasRead, IInv, TypeOK, UserRows
<1>2. AloneInv => RightPinNotCounted
  BY Zenon DEF AloneInv, Agrees, RightPinNotCounted
<1> QED BY <1>1, <1>2, AloneInit, AloneStep, FreshInvariance, PTL DEF ProtocolSpec
=============================================================================
