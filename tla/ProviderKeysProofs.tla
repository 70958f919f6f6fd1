------------------------- MODULE ProviderKeysProofs --------------------------
(***************************************************************************)
(* The keys that the wallet provider keeps for wallets serve them, for any *)
(* number of wallets, HSM sessions, keys, instructions and restarts.       *)
(*                                                                         *)
(* Every wrapped key in the database is the one that was made for the      *)
(* identifier of its row by the wallet whose certificate names the row's   *)
(* account.  A future that is polled holds nothing but that key; an answer *)
(* reports nothing but rows that were committed, or signatures by those    *)
(* keys.  Two wallets have different accounts, because an account is only  *)
(* made for an id that no account has.                                     *)
(***************************************************************************)
EXTENDS ProviderKeys, TLAPS

WrappingKey == Settings.attestation_wrapping_key

\* The key that is made for identifier x of wallet u, wrapped; and its row.
WrappedKey(u, x) == [with |-> WrappingKey, key |-> <<u, x>>]
Row(u, id, x) == [wallet_user_id |-> id, identifier |-> x, key |-> WrappedKey(u, x)]

Account(u, id) ==
    [wallet_id |-> id, hw_pubkey |-> HwKey(u),
     encrypted_pin_pubkey |-> HsmEncrypt(Settings.pin_pubkey_encryption_key, PinKeyOf(u), id)]

Id(w) == w.certificate[1].claims.payload.wallet_id

\* What a wallet is told of a key.
Told(u) == [identifier : Nat, public_key : {u} \X Nat]

\* Keys of which the wallet was told, each with its row.
AreKept(u, id, keys, rows) ==
    \A i \in DOMAIN keys :
        /\ keys[i].public_key = <<u, keys[i].identifier>>
        /\ Row(u, id, keys[i].identifier) \in rows

IsKnown(x, known) == \E i \in DOMAIN known : known[i].identifier = x

WalletFields == {"challenges", "challenge", "certificate", "known", "identifiers",
                 "sent", "signed", "next", "failed"}

WalletInv(u, w, rows, accts) ==
    /\ DOMAIN w = WalletFields /\ w.identifiers \in Nat
    /\ w.known \in Seq(Told(u))
    /\ w.certificate = None => w.known = <<>>
    /\ w.certificate # None =>
          /\ w.challenge = None
          /\ w.certificate[1] = new_wallet_certificate(Id(w), HwKey(u), PinKeyOf(u))
          /\ Account(u, Id(w)) \in accts
    /\ AreKept(u, Id(w), w.known, rows)
    /\ w.next # None => DOMAIN w.next[1] = {"message", "keys"} /\ w.next[1].keys \in Seq(Told(u))
    /\ w.next # None => \A i \in DOMAIN w.next[1].keys : IsKnown(w.next[1].keys[i].identifier, w.known)
    /\ \A s \in w.signed : VerifiedBy(s.public_key, s.message, s.signature)

FutureInv(u, op, message, x, f) ==
    /\ DOMAIN f = {"at", "object", "wrapped", "result"}
    /\ f.at \in {"new", "made", "wrapped", "done"}
    /\ f.at = "wrapped" => op = "GenerateKey"
    /\ f.at \in {"made", "wrapped"} => f.object[1].key = <<u, x>>
    /\ op = "GenerateKey" /\ f.at \in {"wrapped", "done"} => f.wrapped[1] = WrappedKey(u, x)
    /\ f.at = "done" =>
          f.result[1] = IF op = "Sign" THEN HsmSign(<<u, x>>, "Ecdsa256", message) ELSE <<u, x>>

\* The messages of an instruction: the new identifiers, or known keys.
MessagesInv(op, messages, known) ==
    /\ op \in {"GenerateKey", "Sign"}
    /\ op = "GenerateKey" => DOMAIN messages = {1} /\ messages[1][2] \in Seq(Nat)
    /\ op = "Sign" =>
          \A i \in DOMAIN messages : \A j \in DOMAIN messages[i][2] : IsKnown(messages[i][2][j], known)

FuturesInv(u, op, messages, futures) ==
    /\ DOMAIN futures = DOMAIN messages
    /\ \A i \in DOMAIN messages :
          /\ DOMAIN futures[i] = DOMAIN messages[i][2]
          /\ \A j \in DOMAIN messages[i][2] :
                FutureInv(u, op, messages[i][1], messages[i][2][j], futures[i][j])

RunningInv(u, ins, id) ==
    /\ FuturesInv(u, ins.op, ins.messages, ins.futures)
    /\ ins.op = "Sign" =>
          /\ \A i \in DOMAIN ins.messages : \A j \in DOMAIN ins.messages[i][2] :
                \E r \in ins.keys : r.identifier = ins.messages[i][2][j]
          /\ \A r \in ins.keys : r = Row(u, id, r.identifier)

AnswerInv(u, op, messages, answer, id, rows) ==
    /\ answer.keys \in Seq(Told(u)) /\ AreKept(u, id, answer.keys, rows)
    /\ op = "GenerateKey" => answer.signatures = <<>>
    /\ DOMAIN answer.signatures \subseteq DOMAIN messages
    /\ \A i \in DOMAIN answer.signatures :
          /\ DOMAIN answer.signatures[i] \subseteq DOMAIN messages[i][2]
          /\ \A j \in DOMAIN answer.signatures[i] :
                answer.signatures[i][j] = HsmSign(<<u, messages[i][2][j]>>, "Ecdsa256", messages[i][1])

InstructionInv(u, ins, id, known, rows) ==
    /\ DOMAIN ins = {"op", "messages", "keys", "answer", "futures"}
    /\ MessagesInv(ins.op, ins.messages, known)
    /\ ins.answer = None => RunningInv(u, ins, id)
    /\ ins.answer # None => AnswerInv(u, ins.op, ins.messages, ins.answer[1], id, rows)

RowInv(r) ==
    \E v \in Users : wallets[v].certificate # None /\ r = Row(v, Id(wallets[v]), r.identifier)

\* The inductive invariant.
KeysInv ==
    /\ key_scene \in DOMAIN KeyScenes
    /\ DOMAIN wallets = Users /\ DOMAIN asked = Users
    /\ \A a, b \in accounts : a.wallet_id = b.wallet_id => a = b
    /\ \A u \in Users : WalletInv(u, wallets[u], key_rows, accounts)
    /\ \A u \in Users : asked[u] # None =>
          /\ wallets[u].certificate # None
          /\ InstructionInv(u, asked[u][1], Id(wallets[u]), wallets[u].known, key_rows)
    /\ \A r \in key_rows : RowInv(r)

-----------------------------------------------------------------------------
(* Steps that leave the database, and the certificates of the wallets, alone. *)

LEMMA SomeIsNotNone ==
    ASSUME NEW x PROVE Some(x) # None /\ Some(x)[1] = x
  BY Zenon DEF Some, None

\* Only the instruction of one wallet changes.
LEMMA OnlyAsked ==
    ASSUME KeysInv, NEW u \in Users, UNCHANGED <<key_scene, key_rows, accounts, wallets>>,
           DOMAIN asked' = Users, \A v \in Users \ {u} : asked'[v] = asked[v],
           asked'[u] # None =>
              /\ wallets[u].certificate # None
              /\ InstructionInv(u, asked'[u][1], Id(wallets[u]), wallets[u].known, key_rows)
    PROVE  KeysInv'
<1>1. \A v \in Users : asked'[v] # None =>
          /\ wallets[v].certificate # None
          /\ InstructionInv(v, asked'[v][1], Id(wallets[v]), wallets[v].known, key_rows)
  <2> TAKE v \in Users
  <2>1. CASE v = u
    BY <2>1, Zenon
  <2>2. CASE v # u
    BY <2>2, Zenon DEF KeysInv
  <2> QED BY <2>1, <2>2, Zenon
<1>2. \A r \in key_rows' : RowInv(r)'
  BY Zenon DEF KeysInv, RowInv
<1> QED BY <1>1, <1>2, Zenon DEF KeysInv

\* One wallet changes, not its certificate, and its instruction with it.
LEMMA OnlyWallet ==
    ASSUME KeysInv, NEW u \in Users, UNCHANGED <<key_scene, key_rows, accounts>>,
           DOMAIN asked' = Users, \A v \in Users \ {u} : asked'[v] = asked[v],
           DOMAIN wallets' = Users, \A v \in Users \ {u} : wallets'[v] = wallets[v],
           wallets'[u].certificate = wallets[u].certificate,
           WalletInv(u, wallets'[u], key_rows, accounts),
           asked'[u] # None =>
              /\ wallets[u].certificate # None
              /\ InstructionInv(u, asked'[u][1], Id(wallets[u]), wallets'[u].known, key_rows)
    PROVE  KeysInv'
<1>1. \A v \in Users : wallets'[v].certificate = wallets[v].certificate /\ Id(wallets'[v]) = Id(wallets[v])
  BY Zenon DEF Id
<1>2. \A v \in Users : asked'[v] # None =>
          /\ wallets'[v].certificate # None
          /\ InstructionInv(v, asked'[v][1], Id(wallets'[v]), wallets'[v].known, key_rows)
  <2> TAKE v \in Users
  <2>1. CASE v = u
    BY <1>1, <2>1, Zenon
  <2>2. CASE v # u
    BY <1>1, <2>2, Zenon DEF KeysInv
  <2> QED BY <2>1, <2>2, Zenon
<1>3. \A v \in Users : WalletInv(v, wallets'[v], key_rows, accounts)
  BY Zenon DEF KeysInv
<1>4. \A r \in key_rows' : RowInv(r)'
  <2> SUFFICES ASSUME NEW r \in key_rows PROVE RowInv(r)'
    OBVIOUS
  <2>1. PICK v \in Users : wallets[v].certificate # None /\ r = Row(v, Id(wallets[v]), r.identifier)
    BY Zenon DEF KeysInv, RowInv
  <2>2. wallets'[v].certificate # None /\ r = Row(v, Id(wallets'[v]), r.identifier)
    BY <1>1, <2>1, Zenon
  <2> QED BY <2>2, Zenon DEF RowInv
<1> QED BY <1>2, <1>3, <1>4, Zenon DEF KeysInv

\* An instruction is answered and its futures are dropped.
LEMMA AnsweredStep ==
    ASSUME KeysInv, NEW u \in Users, asked[u] # None, NEW answer, Answered(u, answer)
    PROVE  /\ DOMAIN asked' = Users /\ \A v \in Users \ {u} : asked'[v] = asked[v]
           /\ asked'[u] # None
           /\ DOMAIN asked'[u][1] = DOMAIN asked[u][1]
           /\ asked'[u][1].op = asked[u][1].op /\ asked'[u][1].messages = asked[u][1].messages
           /\ asked'[u][1].answer = Some(answer)
<1>1. DOMAIN asked = Users /\ DOMAIN asked[u][1] = {"op", "messages", "keys", "answer", "futures"}
  BY Zenon DEF KeysInv, InstructionInv
<1>2. PICK ins : ins = [asked[u][1] EXCEPT !.answer = Some(answer), !.futures = <<>>, !.keys = {}]
  OBVIOUS
<1>3. /\ DOMAIN ins = DOMAIN asked[u][1]
      /\ ins.op = asked[u][1].op /\ ins.messages = asked[u][1].messages /\ ins.answer = Some(answer)
  BY <1>1, <1>2, Zenon
<1>4. asked' = [asked EXCEPT ![u] = Some(ins)]
  BY <1>2, Zenon DEF Answered
<1>5. asked'[u] = Some(ins)
  BY <1>1, <1>4, Zenon
<1>6. asked'[u] # None /\ asked'[u][1] = ins
  BY <1>5, SomeIsNotNone, Zenon
<1> QED BY <1>1, <1>3, <1>4, <1>6, Zenon

LEMMA AnsweredKeepsInv ==
    ASSUME KeysInv, NEW u \in Users, asked[u] # None, NEW answer, Answered(u, answer),
           UNCHANGED <<key_scene, key_rows, accounts, wallets>>,
           AnswerInv(u, asked[u][1].op, asked[u][1].messages, answer, Id(wallets[u]), key_rows)
    PROVE  KeysInv'
<1>1. /\ wallets[u].certificate # None
      /\ InstructionInv(u, asked[u][1], Id(wallets[u]), wallets[u].known, key_rows)
  BY Zenon DEF KeysInv
<1>2. PICK ins : ins = asked'[u][1]
  OBVIOUS
<1>3. ins.answer # None /\ ins.answer[1] = answer
  BY <1>2, AnsweredStep, SomeIsNotNone
<1>4. InstructionInv(u, ins, Id(wallets[u]), wallets[u].known, key_rows)
  BY <1>1, <1>2, <1>3, AnsweredStep, Zenon DEF InstructionInv
<1> QED BY <1>1, <1>2, <1>4, AnsweredStep, OnlyAsked, Zenon

LEMMA ErrorIsFine ==
    ASSUME NEW u, NEW op, NEW messages, NEW error, NEW id, NEW rows
    PROVE  AnswerInv(u, op, messages, ErrorAnswer(error), id, rows)
  BY DEF AnswerInv, ErrorAnswer, AreKept

-----------------------------------------------------------------------------
(* The HSM calls of a future.                                               *)

\* A future is replaced by one that fits its identifier.
LEMMA FuturesReplaced ==
    ASSUME NEW u, NEW op, NEW messages, NEW futures, FuturesInv(u, op, messages, futures),
           NEW i \in DOMAIN futures, NEW j \in DOMAIN futures[i],
           NEW f, FutureInv(u, op, messages[i][1], messages[i][2][j], f)
    PROVE  FuturesInv(u, op, messages, [futures EXCEPT ![i][j] = f])
<1>1. PICK new : new = [futures EXCEPT ![i][j] = f]
  BY Zenon
<1>2. /\ DOMAIN new = DOMAIN futures
      /\ \A k \in DOMAIN futures : DOMAIN new[k] = DOMAIN futures[k]
      /\ new[i][j] = f
      /\ \A k \in DOMAIN futures : \A m \in DOMAIN futures[k] :
            k # i \/ m # j => new[k][m] = futures[k][m]
  BY <1>1, Zenon
<1>3. /\ DOMAIN futures = DOMAIN messages
      /\ \A k \in DOMAIN messages :
            /\ DOMAIN futures[k] = DOMAIN messages[k][2]
            /\ \A m \in DOMAIN messages[k][2] :
                  FutureInv(u, op, messages[k][1], messages[k][2][m], futures[k][m])
  BY Zenon DEF FuturesInv
<1>4. ASSUME NEW k \in DOMAIN messages, NEW m \in DOMAIN messages[k][2]
      PROVE  FutureInv(u, op, messages[k][1], messages[k][2][m], new[k][m])
  <2>1. CASE k = i /\ m = j
    BY <1>2, <2>1, Zenon
  <2>2. CASE k # i \/ m # j
    BY <1>2, <1>3, <2>2, Zenon
  <2> QED BY <2>1, <2>2, Zenon
<1>5. FuturesInv(u, op, messages, new)
  BY <1>2, <1>3, <1>4, Zenon DEF FuturesInv
<1> QED BY <1>1, <1>5, Zenon

LEMMA OtherFutures ==
    ASSUME NEW ins, DOMAIN ins = {"op", "messages", "keys", "answer", "futures"}, NEW futures,
           NEW new, new = [ins EXCEPT !.futures = futures]
    PROVE  /\ DOMAIN new = DOMAIN ins /\ new.op = ins.op /\ new.messages = ins.messages
           /\ new.keys = ins.keys /\ new.answer = ins.answer /\ new.futures = futures
  OBVIOUS

LEMMA RunningAs ==
    ASSUME NEW u, NEW id, NEW ins, RunningInv(u, ins, id),
           NEW new, new.op = ins.op, new.messages = ins.messages, new.keys = ins.keys,
           FuturesInv(u, ins.op, ins.messages, new.futures)
    PROVE  RunningInv(u, new, id)
  BY DEF RunningInv

\* One future of a running instruction moves on.
LEMMA FutureStep ==
    ASSUME KeysInv, NEW u \in Users, Running(u),
           NEW i \in DOMAIN asked[u][1].futures, NEW j \in DOMAIN asked[u][1].futures[i],
           NEW f, SetFuture(u, i, j, f),
           FutureInv(u, asked[u][1].op, asked[u][1].messages[i][1], asked[u][1].messages[i][2][j], f),
           UNCHANGED <<key_scene, key_rows, accounts, wallets>>
    PROVE  KeysInv'
<1>1. PICK ins : ins = asked[u][1]
  OBVIOUS
<1>2. /\ wallets[u].certificate # None /\ ins.answer = None /\ DOMAIN asked = Users
      /\ InstructionInv(u, ins, Id(wallets[u]), wallets[u].known, key_rows)
  BY <1>1, Zenon DEF KeysInv, Running
<1>3. RunningInv(u, ins, Id(wallets[u])) /\ DOMAIN ins = {"op", "messages", "keys", "answer", "futures"}
  BY <1>2, Zenon DEF InstructionInv
<1>5. PICK futures : futures = [ins.futures EXCEPT ![i][j] = f]
  BY Zenon
<1>6. FuturesInv(u, ins.op, ins.messages, futures)
  BY <1>1, <1>3, <1>5, FuturesReplaced, Zenon DEF RunningInv
<1>7. PICK new : new = [ins EXCEPT !.futures = futures]
  BY Zenon
<1>8. /\ DOMAIN new = DOMAIN ins /\ new.op = ins.op /\ new.messages = ins.messages
      /\ new.keys = ins.keys /\ new.answer = ins.answer /\ new.futures = futures
  BY <1>3, <1>7, OtherFutures, Zenon
<1>9. asked' = [asked EXCEPT ![u] = Some(new)]
  BY <1>1, <1>5, <1>7, Zenon DEF SetFuture
<1>10. /\ DOMAIN asked' = Users /\ \A v \in Users \ {u} : asked'[v] = asked[v]
       /\ asked'[u] # None /\ asked'[u][1] = new
  BY <1>2, <1>9, SomeIsNotNone, Zenon
<1>11. RunningInv(u, new, Id(wallets[u]))
  BY <1>3, <1>6, <1>8, RunningAs, Zenon
<1>12. InstructionInv(u, new, Id(wallets[u]), wallets[u].known, key_rows)
  BY <1>2, <1>3, <1>8, <1>11, Zenon DEF InstructionInv
<1> QED BY <1>2, <1>10, <1>12, OnlyAsked, Zenon

\* What is known of the future that makes a call.
LEMMA FutureFacts ==
    ASSUME KeysInv, NEW u \in Users, Running(u),
           NEW i \in DOMAIN asked[u][1].futures, NEW j \in DOMAIN asked[u][1].futures[i]
    PROVE  /\ asked[u] # None /\ RunningInv(u, asked[u][1], Id(wallets[u]))
           /\ i \in DOMAIN asked[u][1].messages /\ j \in DOMAIN asked[u][1].messages[i][2]
           /\ FutureInv(u, asked[u][1].op, asked[u][1].messages[i][1], asked[u][1].messages[i][2][j], Future(u, i, j))
<1>1. asked[u] # None /\ RunningInv(u, asked[u][1], Id(wallets[u]))
  BY Zenon DEF KeysInv, Running, InstructionInv
<1>2. i \in DOMAIN asked[u][1].messages /\ j \in DOMAIN asked[u][1].messages[i][2]
  BY <1>1, Zenon DEF RunningInv, FuturesInv
<1> QED BY <1>1, <1>2, Zenon DEF RunningInv, FuturesInv, Future

\* An instruction that fails is answered with an error.
LEMMA ErrorKeepsInv ==
    ASSUME KeysInv, NEW u \in Users, Running(u), NEW error, Answered(u, ErrorAnswer(error)),
           UNCHANGED <<key_scene, key_rows, accounts, wallets>>
    PROVE  KeysInv'
  BY AnsweredKeepsInv, ErrorIsFine, Zenon DEF Running

\* Every HSM call leaves the future with the key that its identifier stands for.
LEMMA HsmCallKeepsInv ==
    ASSUME KeysInv, NEW u \in Users, Running(u), HsmCall(u)
    PROVE  KeysInv'
<1>1. PICK i \in DOMAIN asked[u][1].futures : \E j \in DOMAIN asked[u][1].futures[i] :
        \/ \E slot \in 1..PoolSize : GenerateKeyPair(u, i, j, slot) \/ Unwrap(u, i, j, slot)
        \/ Wrap(u, i, j) \/ get_verifying_key(u, i, j) \/ SignUnwrapped(u, i, j)
  BY Zenon DEF HsmCall
<1>2. PICK j \in DOMAIN asked[u][1].futures[i] :
        \/ \E slot \in 1..PoolSize : GenerateKeyPair(u, i, j, slot) \/ Unwrap(u, i, j, slot)
        \/ Wrap(u, i, j) \/ get_verifying_key(u, i, j) \/ SignUnwrapped(u, i, j)
  BY <1>1, Zenon
<1>3. PICK op, message, x, f : /\ op = asked[u][1].op /\ message = asked[u][1].messages[i][1]
                               /\ x = asked[u][1].messages[i][2][j] /\ f = Future(u, i, j)
  BY Zenon
<1>4. FutureInv(u, op, message, x, f)
  BY <1>3, FutureFacts, Zenon
<1>5. ASSUME NEW new, SetFuture(u, i, j, new), FutureInv(u, op, message, x, new),
             UNCHANGED <<key_scene, key_rows, accounts, wallets>>
      PROVE  KeysInv'
  BY <1>3, <1>5, FutureStep, Zenon
<1>6. ASSUME NEW slot \in 1..PoolSize, GenerateKeyPair(u, i, j, slot) PROVE KeysInv'
  <2>1. PICK object : object = Some(SessionObject(NewKey(u, i, j), pool[slot]))
    OBVIOUS
  <2>2. object[1].key = <<u, x>>
    <3>1. NewKey(u, i, j) = <<u, x>>
      BY <1>3, Zenon DEF NewKey
    <3>2. object[1] = SessionObject(<<u, x>>, pool[slot])
      BY <2>1, <3>1, SomeIsNotNone, Zenon
    <3> QED BY <3>2 DEF SessionObject
  <2>3. PICK new : new = [f EXCEPT !.at = "made", !.object = object]
    OBVIOUS
  <2>4. FutureInv(u, op, message, x, new)
    BY <1>4, <2>2, <2>3, Zenon DEF FutureInv
  <2>5. SetFuture(u, i, j, new)
    BY <1>3, <1>6, <2>1, <2>3, Zenon DEF GenerateKeyPair
  <2> QED BY <1>5, <1>6, <2>4, <2>5, Zenon DEF GenerateKeyPair
<1>7. ASSUME NEW slot \in 1..PoolSize, Unwrap(u, i, j, slot) PROVE KeysInv'
  <2>1. PICK row : row = FoundKey(asked[u][1].keys, x)
    OBVIOUS
  <2>2. op = "Sign" /\ f.at = "new"
    BY <1>3, <1>7, Zenon DEF Unwrap
  <2>3. row.key = WrappedKey(u, x)
    <3>1. RunningInv(u, asked[u][1], Id(wallets[u])) /\ i \in DOMAIN asked[u][1].messages
          /\ j \in DOMAIN asked[u][1].messages[i][2]
      BY FutureFacts, Zenon
    <3>2. \E r \in asked[u][1].keys : r.identifier = x
      BY <1>3, <2>2, <3>1, Zenon DEF RunningInv, FuturesInv
    <3>3. row \in asked[u][1].keys /\ row.identifier = x
      BY <2>1, <3>2, Zenon DEF FoundKey
    <3>4. row = Row(u, Id(wallets[u]), x)
      BY <1>3, <2>2, <3>1, <3>3, Zenon DEF RunningInv, FuturesInv
    <3> QED BY <3>4, Zenon DEF Row
  <2>4. PICK object : object = unwrap_signing_key(Settings.attestation_wrapping_key, row.key, pool[slot])
    OBVIOUS
  <2>5. object = Some(SessionObject(<<u, x>>, pool[slot]))
    BY <2>3, <2>4 DEF unwrap_signing_key, WrappedKey, WrappingKey
  <2>6. object[1].key = <<u, x>>
    BY <2>5, SomeIsNotNone DEF SessionObject
  <2>7. PICK new : new = [f EXCEPT !.at = "made", !.object = object]
    OBVIOUS
  <2>8. FutureInv(u, op, message, x, new)
    BY <1>4, <2>2, <2>6, <2>7, Zenon DEF FutureInv
  <2>9. SetFuture(u, i, j, new)
    BY <1>3, <1>7, <2>1, <2>4, <2>7, Zenon DEF Unwrap
  <2> QED BY <1>5, <1>7, <2>8, <2>9, Zenon DEF Unwrap
<1>8. CASE Wrap(u, i, j)
  <2>1. op = "GenerateKey" /\ f.at = "made" /\ UNCHANGED <<key_scene, key_rows, accounts, wallets>>
    BY <1>3, <1>8, Zenon DEF Wrap
  <2>2. PICK wrapped : wrapped = Some(wrap_key(Settings.attestation_wrapping_key, f.object[1]))
    OBVIOUS
  <2>3. f.object[1].key = <<u, x>>
    BY <1>4, <2>1, Zenon DEF FutureInv
  <2>4. get_key_handle(Settings.attestation_wrapping_key) = Some(WrappingKey)
    BY Zenon DEF get_key_handle, TokenLabels, Settings, WrappingKey
  <2>5. wrapped[1] = WrappedKey(u, x)
    BY <2>2, <2>3, <2>4, SomeIsNotNone DEF wrap_key, WrappedKey
  <2>6. PICK new : new = [f EXCEPT !.at = "wrapped", !.wrapped = wrapped]
    OBVIOUS
  <2>7. FutureInv(u, op, message, x, new)
    BY <1>4, <2>1, <2>3, <2>5, <2>6, Zenon DEF FutureInv
  <2>8. SetFuture(u, i, j, new) \/ Answered(u, ErrorAnswer("Hsm"))
    BY <1>3, <1>8, <2>2, <2>6, Zenon DEF Wrap
  <2> QED BY <1>5, <2>1, <2>7, <2>8, ErrorKeepsInv, Zenon
<1>9. CASE get_verifying_key(u, i, j)
  <2>1. f.at = "wrapped" /\ UNCHANGED <<key_scene, key_rows, accounts, wallets>>
    BY <1>3, <1>9, Zenon DEF get_verifying_key
  <2>2. op = "GenerateKey" /\ f.object[1].key = <<u, x>>
    BY <1>4, <2>1, Zenon DEF FutureInv
  <2>3. PICK result : result = Some(f.object[1].key)
    OBVIOUS
  <2>4. result[1] = <<u, x>>
    BY <2>2, <2>3, SomeIsNotNone, Zenon
  <2>5. PICK new : new = [f EXCEPT !.at = "done", !.object = None, !.result = result]
    OBVIOUS
  <2>6. FutureInv(u, op, message, x, new)
    BY <1>4, <2>1, <2>2, <2>4, <2>5, Zenon DEF FutureInv
  <2>7. SetFuture(u, i, j, new) \/ Answered(u, ErrorAnswer("Hsm"))
    BY <1>3, <1>9, <2>3, <2>5, Zenon DEF get_verifying_key
  <2> QED BY <1>5, <2>1, <2>6, <2>7, ErrorKeepsInv, Zenon
<1>10. CASE SignUnwrapped(u, i, j)
  <2>1. op = "Sign" /\ f.at = "made" /\ UNCHANGED <<key_scene, key_rows, accounts, wallets>>
    BY <1>3, <1>10, Zenon DEF SignUnwrapped
  <2>2. f.object[1].key = <<u, x>>
    BY <1>4, <2>1, Zenon DEF FutureInv
  <2>3. PICK result : result = Some(HsmSign(f.object[1].key, "Ecdsa256", message))
    OBVIOUS
  <2>4. result[1] = HsmSign(<<u, x>>, "Ecdsa256", message)
    BY <2>2, <2>3, SomeIsNotNone, Zenon
  <2>5. PICK new : new = [f EXCEPT !.at = "done", !.object = None, !.result = result]
    OBVIOUS
  <2>6. FutureInv(u, op, message, x, new)
    BY <1>4, <2>1, <2>4, <2>5, Zenon DEF FutureInv
  <2>7. SetFuture(u, i, j, new) \/ Answered(u, ErrorAnswer("Hsm"))
    BY <1>3, <1>10, <2>3, <2>5, Zenon DEF SignUnwrapped
  <2> QED BY <1>5, <2>1, <2>6, <2>7, ErrorKeepsInv, Zenon
<1> QED BY <1>2, <1>6, <1>7, <1>8, <1>9, <1>10, Zenon

-----------------------------------------------------------------------------
(* The end of an instruction.                                               *)

LEMMA MoreRows ==
    ASSUME NEW u, NEW rows, NEW more, rows \subseteq more
    PROVE  /\ \A w, accts : WalletInv(u, w, rows, accts) => WalletInv(u, w, more, accts)
           /\ \A ins, id, known : InstructionInv(u, ins, id, known, rows) => InstructionInv(u, ins, id, known, more)
<1>1. \A id, keys : AreKept(u, id, keys, rows) => AreKept(u, id, keys, more)
  BY Zenon DEF AreKept
<1>2. \A op, messages, answer, id :
          AnswerInv(u, op, messages, answer, id, rows) => AnswerInv(u, op, messages, answer, id, more)
  BY <1>1 DEF AnswerInv
<1>3. \A w, accts : WalletInv(u, w, rows, accts) => WalletInv(u, w, more, accts)
  BY <1>1, Zenon DEF WalletInv
<1>4. \A ins, id, known : InstructionInv(u, ins, id, known, rows) => InstructionInv(u, ins, id, known, more)
  <2>1. ASSUME NEW ins, NEW id, NEW known, InstructionInv(u, ins, id, known, rows)
        PROVE  InstructionInv(u, ins, id, known, more)
    BY <1>2, <2>1, Zenon DEF InstructionInv
  <2> QED BY <2>1, Zenon
<1> QED BY <1>3, <1>4, Zenon

\* What the futures of an instruction have when all are done.
LEMMA DoneFacts ==
    ASSUME KeysInv, NEW u \in Users, Running(u), AllDone(u)
    PROVE  /\ asked[u] # None /\ wallets[u].certificate # None
           /\ MessagesInv(asked[u][1].op, asked[u][1].messages, wallets[u].known)
           /\ DOMAIN asked[u][1].futures = DOMAIN asked[u][1].messages
           /\ \A i \in DOMAIN asked[u][1].messages :
                 /\ DOMAIN asked[u][1].futures[i] = DOMAIN asked[u][1].messages[i][2]
                 /\ \A j \in DOMAIN asked[u][1].messages[i][2] :
                       /\ FutureInv(u, asked[u][1].op, asked[u][1].messages[i][1],
                                    asked[u][1].messages[i][2][j], asked[u][1].futures[i][j])
                       /\ asked[u][1].futures[i][j].at = "done"
<1>1. asked[u] # None /\ wallets[u].certificate # None
  BY Zenon DEF KeysInv, Running
<1>2. /\ MessagesInv(asked[u][1].op, asked[u][1].messages, wallets[u].known)
      /\ RunningInv(u, asked[u][1], Id(wallets[u]))
  BY Zenon DEF KeysInv, Running, InstructionInv
<1> QED BY <1>1, <1>2, Zenon DEF RunningInv, FuturesInv, AllDone, Future

\* The futures of an instruction to sign are done; the signatures that they have.
SignedFutures(u, messages, futures) ==
    /\ DOMAIN futures = DOMAIN messages
    /\ \A i \in DOMAIN messages :
          /\ DOMAIN futures[i] = DOMAIN messages[i][2]
          /\ \A j \in DOMAIN messages[i][2] :
                FutureInv(u, "Sign", messages[i][1], messages[i][2][j], futures[i][j]) /\ futures[i][j].at = "done"
AreSigned(u, messages, signatures) ==
    /\ DOMAIN signatures = DOMAIN messages
    /\ \A i \in DOMAIN signatures :
          /\ DOMAIN signatures[i] = DOMAIN messages[i][2]
          /\ \A j \in DOMAIN signatures[i] :
                signatures[i][j] = HsmSign(<<u, messages[i][2][j]>>, "Ecdsa256", messages[i][1])
SignaturesOf(futures) == [i \in DOMAIN futures |-> [j \in DOMAIN futures[i] |-> futures[i][j].result[1]]]

LEMMA SignedAll ==
    ASSUME NEW u, NEW messages, NEW futures, SignedFutures(u, messages, futures)
    PROVE  AreSigned(u, messages, SignaturesOf(futures))
<1> SUFFICES ASSUME NEW signatures, signatures = SignaturesOf(futures)
             PROVE  AreSigned(u, messages, signatures)
  BY Zenon
<1> USE DEF SignedFutures, SignaturesOf
<1>1. DOMAIN signatures = DOMAIN messages
  BY Zenon
<1>2. ASSUME NEW i \in DOMAIN messages
      PROVE  DOMAIN signatures[i] = DOMAIN messages[i][2]
  BY Zenon
<1>3. ASSUME NEW i \in DOMAIN messages, NEW j \in DOMAIN messages[i][2]
      PROVE  signatures[i][j] = HsmSign(<<u, messages[i][2][j]>>, "Ecdsa256", messages[i][1])
  <2>1. PICK message, x, f : message = messages[i][1] /\ x = messages[i][2][j] /\ f = futures[i][j]
    BY Zenon
  <2>2. FutureInv(u, "Sign", message, x, f) /\ f.at = "done"
    BY <2>1, Zenon
  <2>3. f.result[1] = HsmSign(<<u, x>>, "Ecdsa256", message)
    BY <2>2, Zenon DEF FutureInv
  <2>4. signatures[i][j] = f.result[1]
    BY <2>1, Zenon
  <2> QED BY <2>1, <2>3, <2>4, Zenon
<1> QED BY <1>1, <1>2, <1>3, Zenon DEF AreSigned

LEMMA SignResultKeepsInv ==
    ASSUME KeysInv, NEW u \in Users, Running(u), SignResult(u)
    PROVE  KeysInv'
<1>1. PICK messages, futures : messages = asked[u][1].messages /\ futures = asked[u][1].futures
  OBVIOUS
<1>2. PICK signatures : signatures = SignaturesOf(futures)
  BY Zenon
<1>3. PICK answer : answer = [ErrorAnswer("Ok") EXCEPT !.signatures = signatures]
  BY Zenon
<1>4. answer.keys = <<>> /\ answer.signatures = signatures
  BY <1>3, Zenon DEF ErrorAnswer
<1>5. asked[u][1].op = "Sign" /\ AllDone(u) /\ Answered(u, answer) /\ UNCHANGED <<key_scene, key_rows, accounts, wallets>>
  BY <1>1, <1>2, <1>3, Zenon DEF SignResult, SignaturesOf
<1>6. AreSigned(u, messages, signatures)
  <2>1. SignedFutures(u, messages, futures)
    BY <1>1, <1>5, DoneFacts, Zenon DEF SignedFutures
  <2> QED BY <1>2, <2>1, SignedAll, Zenon
<1>7. AnswerInv(u, "Sign", messages, answer, Id(wallets[u]), key_rows)
  BY <1>4, <1>6 DEF AnswerInv, AreKept, AreSigned
<1> QED BY <1>1, <1>5, <1>7, DoneFacts, AnsweredKeepsInv, Zenon

\* The keys that generate_wrapped_keys returns for the identifiers x.
AreGenerated(u, x, keys) ==
    /\ x \in Seq(Nat) /\ DOMAIN keys = DOMAIN x
    /\ \A j \in DOMAIN x : /\ keys[j].identifier = x[j] /\ keys[j].public_key = <<u, x[j]>>
                           /\ keys[j].key = WrappedKey(u, x[j])

LEMMA GeneratedAll ==
    ASSUME NEW u, NEW message, NEW x \in Seq(Nat), NEW futures, DOMAIN futures = DOMAIN x,
           \A j \in DOMAIN x : FutureInv(u, "GenerateKey", message, x[j], futures[j]) /\ futures[j].at = "done"
    PROVE  AreGenerated(u, x, Generated(x, futures))
<1>1. PICK keys : keys = Generated(x, futures)
  BY Zenon
<1>2. ASSUME NEW j \in DOMAIN x
      PROVE  futures[j].result[1] = <<u, x[j]>> /\ futures[j].wrapped[1] = WrappedKey(u, x[j])
  <2>1. PICK y, f : y = x[j] /\ f = futures[j]
    BY Zenon
  <2>2. FutureInv(u, "GenerateKey", message, y, f) /\ f.at = "done"
    BY <2>1, Zenon
  <2>3. f.result[1] = <<u, y>> /\ f.wrapped[1] = WrappedKey(u, y)
    BY <2>2, Zenon DEF FutureInv
  <2> QED BY <2>1, <2>3, Zenon
<1>3. DOMAIN keys = DOMAIN x
  BY <1>1, Zenon DEF Generated
<1>4. ASSUME NEW j \in DOMAIN x
      PROVE  keys[j].identifier = x[j] /\ keys[j].public_key = <<u, x[j]>> /\ keys[j].key = WrappedKey(u, x[j])
  <2>1. keys[j] = [identifier |-> x[j], public_key |-> futures[j].result[1], key |-> futures[j].wrapped[1]]
    BY <1>1, Zenon DEF Generated
  <2>2. PICK a, b, c : a = x[j] /\ b = <<u, x[j]>> /\ c = WrappedKey(u, x[j])
    BY Zenon
  <2>3. keys[j] = [identifier |-> a, public_key |-> b, key |-> c]
    BY <1>2, <2>1, <2>2, Zenon
  <2>4. keys[j].identifier = a /\ keys[j].public_key = b /\ keys[j].key = c
    BY <2>3
  <2> QED BY <2>2, <2>4, Zenon
<1> QED BY <1>1, <1>3, <1>4, Zenon DEF AreGenerated

LEMMA GeneratedKeys ==
    ASSUME KeysInv, NEW u \in Users, Running(u), AllDone(u), asked[u][1].op = "GenerateKey"
    PROVE  AreGenerated(u, asked[u][1].messages[1][2],
                        Generated(asked[u][1].messages[1][2], asked[u][1].futures[1]))
<1>1. PICK messages, futures : messages = asked[u][1].messages /\ futures = asked[u][1].futures
  BY Zenon
<1>2. DOMAIN messages = {1} /\ messages[1][2] \in Seq(Nat)
  BY <1>1, DoneFacts, Zenon DEF MessagesInv
<1>3. 1 \in DOMAIN messages
  BY <1>2, Zenon
<1>4. /\ DOMAIN futures[1] = DOMAIN messages[1][2]
      /\ \A j \in DOMAIN messages[1][2] :
            FutureInv(u, "GenerateKey", messages[1][1], messages[1][2][j], futures[1][j]) /\ futures[1][j].at = "done"
  BY <1>1, <1>3, DoneFacts, Zenon
<1> QED BY <1>1, <1>2, <1>4, GeneratedAll, Zenon

LEMMA SaveKeysKeepsInv ==
    ASSUME KeysInv, NEW u \in Users, Running(u), SaveKeys(u)
    PROVE  KeysInv'
<1>1. PICK x : x = asked[u][1].messages[1][2]
  OBVIOUS
<1>2. PICK keys : keys = Generated(x, asked[u][1].futures[1])
  OBVIOUS
<1>3. PICK id : id = Id(wallets[u])
  OBVIOUS
<1>4. PICK rows : rows = create_keys(id, keys)
  OBVIOUS
<1>5. PICK told : told = [j \in DOMAIN keys |-> [identifier |-> keys[j].identifier, public_key |-> keys[j].public_key]]
  BY Zenon
<1>6. PICK answer : answer = IF rows = None THEN ErrorAnswer("Persistence") ELSE [ErrorAnswer("Ok") EXCEPT !.keys = told]
  BY Zenon
<1>7. /\ asked[u][1].op = "GenerateKey" /\ AllDone(u)
      /\ key_rows' = IF rows # None THEN key_rows \cup rows[1] ELSE key_rows
      /\ Answered(u, answer)
      /\ UNCHANGED <<key_scene, accounts, wallets>>
  BY <1>1, <1>2, <1>3, <1>4, <1>5, <1>6, ZenonT(60) DEF SaveKeys, Id
<1>8. /\ x \in Seq(Nat) /\ DOMAIN keys = DOMAIN x
      /\ \A j \in DOMAIN x : /\ keys[j].identifier = x[j] /\ keys[j].public_key = <<u, x[j]>>
                             /\ keys[j].key = WrappedKey(u, x[j])
  <2>1. AreGenerated(u, x, keys)
    BY <1>1, <1>2, <1>7, GeneratedKeys, Zenon
  <2> QED BY <2>1, Zenon DEF AreGenerated
<1>9. rows # None => rows[1] = {Row(u, id, x[j]) : j \in DOMAIN x}
  <2>1. PICK made : made = {[wallet_user_id |-> id, identifier |-> keys[i].identifier, key |-> keys[i].key] : i \in DOMAIN keys}
    BY Zenon
  <2>2. rows = Some(made) \/ rows = None
    BY <1>4, <2>1, Zenon DEF create_keys
  <2>3. made = {Row(u, id, x[j]) : j \in DOMAIN x}
    BY <1>8, <2>1, Zenon DEF Row
  <2> QED BY <2>2, <2>3, SomeIsNotNone, Zenon
<1>10. asked[u] # None /\ wallets[u].certificate # None
  BY <1>7, DoneFacts, Zenon
<1>11. key_rows \subseteq key_rows'
  BY <1>7, Zenon
<1>12. AnswerInv(u, "GenerateKey", asked[u][1].messages, answer, id, key_rows')
  <2>1. CASE rows = None
    BY <1>6, <2>1, ErrorIsFine, Zenon
  <2>2. CASE rows # None
    <3>1. answer.keys = told /\ answer.signatures = <<>>
      BY <1>6, <2>2, Zenon DEF ErrorAnswer
    <3>2. DOMAIN told = DOMAIN x
      BY <1>5, <1>8, Zenon
    <3>3. \A j \in DOMAIN x : told[j] = [identifier |-> x[j], public_key |-> <<u, x[j]>>]
      BY <1>5, <1>8, Zenon
    <3>4. \A j \in DOMAIN x : x[j] \in Nat
      BY <1>8
    <3>5. ASSUME NEW j \in DOMAIN x
          PROVE  told[j] \in Told(u) /\ told[j].public_key = <<u, x[j]>> /\ told[j].identifier = x[j]
      <4>1. PICK a, b : a = x[j] /\ b = <<u, x[j]>>
        BY Zenon
      <4>2. told[j] = [identifier |-> a, public_key |-> b]
        BY <3>3, <4>1, Zenon
      <4>3. a \in Nat /\ b \in {u} \X Nat
        BY <3>4, <4>1, Zenon
      <4>4. told[j] \in Told(u) /\ told[j].public_key = b /\ told[j].identifier = a
        BY <4>2, <4>3 DEF Told
      <4> QED BY <4>1, <4>4, Zenon
    <3>6. told \in Seq(Told(u))
      <4>1. DOMAIN x = 1..Len(x) /\ Len(x) \in Nat
        BY <1>8
      <4>2. told = [j \in 1..Len(x) |-> told[j]]
        BY <1>5, <3>2, <4>1, Zenon
      <4> QED BY <3>2, <3>5, <4>1, <4>2
    <3>7. AreKept(u, id, told, key_rows')
      <4>1. \A j \in DOMAIN x : Row(u, id, x[j]) \in key_rows'
        BY <1>7, <1>9, <2>2, Zenon
      <4>2. \A j \in DOMAIN x : told[j].public_key = <<u, x[j]>> /\ told[j].identifier = x[j]
        BY <3>5, Zenon
      <4> QED BY <3>2, <4>1, <4>2, Zenon DEF AreKept
    <3> QED BY <3>1, <3>6, <3>7 DEF AnswerInv
  <2> QED BY <2>1, <2>2, Zenon
<1>13. \A r \in key_rows' : RowInv(r)'
  <2> SUFFICES ASSUME NEW r \in key_rows' PROVE RowInv(r)'
    OBVIOUS
  <2>1. CASE r \in key_rows
    BY <1>7, <2>1, Zenon DEF KeysInv, RowInv
  <2>2. CASE r \notin key_rows
    <3>1. PICK j \in DOMAIN x : r = Row(u, id, x[j])
      BY <1>7, <1>9, <2>2, Zenon
    <3>2. r = Row(u, Id(wallets[u]), r.identifier)
      BY <1>3, <3>1, Zenon DEF Row
    <3> QED BY <1>7, <1>10, <3>2, Zenon DEF RowInv
  <2> QED BY <2>1, <2>2, Zenon
<1>14. \A v \in Users : WalletInv(v, wallets'[v], key_rows', accounts')
  BY <1>7, <1>11, MoreRows, Zenon DEF KeysInv
<1>15. \A v \in Users : asked'[v] # None =>
          /\ wallets'[v].certificate # None
          /\ InstructionInv(v, asked'[v][1], Id(wallets'[v]), wallets'[v].known, key_rows')
  <2> TAKE v \in Users
  <2>1. CASE v # u
    <3>1. asked'[v] = asked[v]
      BY <1>7, <1>10, <2>1, AnsweredStep, Zenon
    <3> QED BY <1>7, <1>11, <3>1, MoreRows DEF KeysInv
  <2>2. CASE v = u
    <3>1. PICK ins : ins = asked'[u][1]
      OBVIOUS
    <3>2. ins.answer # None /\ ins.answer[1] = answer
      BY <1>7, <1>10, <3>1, AnsweredStep, SomeIsNotNone
    <3>3. InstructionInv(u, asked[u][1], id, wallets[u].known, key_rows)
      BY <1>3, <1>10, Zenon DEF KeysInv
    <3>4. InstructionInv(u, ins, id, wallets[u].known, key_rows')
      BY <1>7, <1>10, <1>12, <3>1, <3>2, <3>3, AnsweredStep DEF InstructionInv
    <3> QED BY <1>3, <1>7, <1>10, <2>2, <3>1, <3>4, Zenon
  <2> QED BY <2>1, <2>2, Zenon
<1>16. DOMAIN asked' = Users
  BY <1>7, <1>10, AnsweredStep, Zenon
<1> QED BY <1>7, <1>13, <1>14, <1>15, <1>16, Zenon DEF KeysInv

-----------------------------------------------------------------------------
(* The wallet sends an instruction and receives its answer.                 *)

\* No two wallets have the same account.
LEMMA DistinctAccounts ==
    ASSUME KeysInv, NEW u \in Users, NEW v \in Users,
           wallets[u].certificate # None, wallets[v].certificate # None,
           Id(wallets[u]) = Id(wallets[v])
    PROVE  u = v
<1>1. PICK id : id = Id(wallets[u])
  BY Zenon
<1>2. Account(u, id) \in accounts /\ Account(v, id) \in accounts
  BY <1>1, Zenon DEF KeysInv, WalletInv
<1>3. Account(u, id).wallet_id = id /\ Account(v, id).wallet_id = id
  BY Zenon DEF Account
<1>4. Account(u, id) = Account(v, id)
  BY <1>2, <1>3, Zenon DEF KeysInv
<1>5. Account(u, id).hw_pubkey = HwKey(u) /\ Account(v, id).hw_pubkey = HwKey(v)
  BY Zenon DEF Account
<1>6. <<"hw", u>> = <<"hw", v>>
  BY <1>4, <1>5, Zenon DEF HwKey
<1> QED BY <1>6, Zenon

\* The rows that a wallet's identifiers lead to are its own.
LEMMA FoundRows ==
    ASSUME KeysInv, NEW u \in Users, wallets[u].certificate # None, NEW identifiers,
           NEW r \in find_keys_by_identifiers(Id(wallets[u]), identifiers)
    PROVE  r \in key_rows /\ r.identifier \in identifiers /\ r = Row(u, Id(wallets[u]), r.identifier)
<1>1. r \in key_rows /\ r.wallet_user_id = Id(wallets[u]) /\ r.identifier \in identifiers
  BY Zenon DEF find_keys_by_identifiers
<1>2. PICK v \in Users : wallets[v].certificate # None /\ r = Row(v, Id(wallets[v]), r.identifier)
  BY <1>1, Zenon DEF KeysInv, RowInv
<1>3. Id(wallets[v]) = Id(wallets[u])
  BY <1>1, <1>2 DEF Row
<1>4. v = u
  BY <1>2, <1>3, DistinctAccounts, Zenon
<1> QED BY <1>1, <1>2, <1>4, Zenon

\* An instruction as it is sent: futures that have made no call yet.
LEMMA NewFutures ==
    ASSUME NEW u, NEW op, NEW messages
    PROVE  FuturesInv(u, op, messages, Instruction(op, messages).futures)
<1> SUFFICES ASSUME NEW futures, futures = Instruction(op, messages).futures
             PROVE  FuturesInv(u, op, messages, futures)
  OBVIOUS
<1>1. futures = [i \in DOMAIN messages |-> [j \in DOMAIN messages[i][2] |-> Pending]]
  BY Zenon DEF Instruction
<1>2. \A message, x : FutureInv(u, op, message, x, Pending)
  BY Zenon DEF FutureInv, Pending
<1>3. /\ DOMAIN futures = DOMAIN messages
      /\ \A i \in DOMAIN messages :
            /\ DOMAIN futures[i] = DOMAIN messages[i][2]
            /\ \A j \in DOMAIN messages[i][2] : futures[i][j] = Pending
  BY <1>1
<1> QED BY <1>2, <1>3, Zenon DEF FuturesInv

LEMMA SentStep ==
    ASSUME KeysInv, NEW u \in Users, CanSend(u), NEW op, NEW messages, Sent(u, op, messages),
           MessagesInv(op, messages, wallets[u].known)
    PROVE  /\ DOMAIN asked' = Users /\ \A v \in Users \ {u} : asked'[v] = asked[v]
           /\ wallets[u].certificate # None
           /\ InstructionInv(u, asked'[u][1], Id(wallets[u]), wallets[u].known, key_rows)
<1>1. wallets[u].certificate # None /\ DOMAIN asked = Users
  BY Zenon DEF CanSend, KeysInv
<1>2. PICK verdict : verdict = CertificateVerdict(wallets[u].certificate[1])
  OBVIOUS
<1>3. PICK identifiers : identifiers = Identifiers(messages)
  OBVIOUS
<1>4. PICK id : id = Id(wallets[u])
  OBVIOUS
<1>5. PICK found : found = find_keys_by_identifiers(id, identifiers)
  OBVIOUS
<1>6. PICK refused : refused = IF verdict # "Ok" THEN verdict
                               ELSE IF op = "Sign" /\ {r.identifier : r \in found} # identifiers THEN "Panic" ELSE "none"
  OBVIOUS
<1>7. PICK keys : keys = IF op = "Sign" THEN found ELSE {}
  BY Zenon
<1>8. PICK ins : ins = [Instruction(op, messages) EXCEPT !.keys = keys]
  BY Zenon
<1>9. /\ DOMAIN ins = {"op", "messages", "keys", "answer", "futures"}
      /\ ins.op = op /\ ins.messages = messages /\ ins.keys = keys /\ ins.answer = None
      /\ ins.futures = Instruction(op, messages).futures
  BY <1>8, Zenon DEF Instruction
<1>10. PICK new : new = IF refused = "none" THEN ins ELSE [ins EXCEPT !.answer = Some(ErrorAnswer(refused))]
  BY Zenon
<1>11. asked' = [asked EXCEPT ![u] = Some(new)]
  BY <1>2, <1>3, <1>4, <1>5, <1>6, <1>7, <1>8, <1>10, Zenon DEF Sent, Id
<1>12. DOMAIN asked' = Users /\ (\A v \in Users \ {u} : asked'[v] = asked[v]) /\ asked'[u][1] = new
  BY <1>1, <1>11, SomeIsNotNone, Zenon
<1>13. InstructionInv(u, new, id, wallets[u].known, key_rows)
  <2>1. CASE refused = "none"
    <3>1. new = ins
      BY <1>10, <2>1, Zenon
    <3>2. op = "Sign" => {r.identifier : r \in keys} = identifiers \/ verdict = "none"
      BY <1>6, <1>7, <2>1, Zenon
    <3>3. verdict # "none"
      BY <1>2, Zenon DEF CertificateVerdict
    <3>4. op = "Sign" =>
             /\ \A i \in DOMAIN messages : \A j \in DOMAIN messages[i][2] :
                   \E r \in keys : r.identifier = messages[i][2][j]
             /\ \A r \in keys : r = Row(u, id, r.identifier)
      <4> SUFFICES ASSUME op = "Sign"
                   PROVE  /\ \A i \in DOMAIN messages : \A j \in DOMAIN messages[i][2] :
                                \E r \in keys : r.identifier = messages[i][2][j]
                          /\ \A r \in keys : r = Row(u, id, r.identifier)
        OBVIOUS
      <4>1. \A i \in DOMAIN messages : \A j \in DOMAIN messages[i][2] : messages[i][2][j] \in identifiers
        BY <1>3 DEF Identifiers, Range
      <4>2. \A r \in keys : r = Row(u, id, r.identifier)
        BY <1>1, <1>4, <1>5, <1>7, FoundRows
      <4> QED BY <3>2, <3>3, <4>1, <4>2, Zenon
    <3>5. RunningInv(u, ins, id)
      <4>1. FuturesInv(u, op, messages, ins.futures)
        BY <1>9, NewFutures, Zenon
      <4> QED BY <1>9, <3>4, <4>1 DEF RunningInv
    <3> QED BY <1>9, <3>1, <3>5, Zenon DEF InstructionInv
  <2>2. CASE refused # "none"
    <3>1. new = [ins EXCEPT !.answer = Some(ErrorAnswer(refused))]
      BY <1>10, <2>2, Zenon
    <3>2. DOMAIN new = DOMAIN ins /\ new.op = op /\ new.messages = messages /\ new.answer = Some(ErrorAnswer(refused))
      BY <1>9, <3>1, Zenon
    <3>3. new.answer # None /\ new.answer[1] = ErrorAnswer(refused)
      BY <3>2, SomeIsNotNone, Zenon
    <3> QED BY <1>9, <3>2, <3>3, ErrorIsFine DEF InstructionInv
  <2> QED BY <2>1, <2>2, Zenon
<1> QED BY <1>1, <1>4, <1>12, <1>13, Zenon

LEMMA GenerateKeepsInv ==
    ASSUME KeysInv, NEW u \in Users, NEW count \in KeyCounts,
           NEW next \in {None} \cup {Some([message |-> m, keys |-> <<>>]) : m \in KeyMessages},
           GenerateNewMultiple(u, count, next)
    PROVE  KeysInv'
<1>1. PICK w : w = wallets[u]
  OBVIOUS
<1>2. PICK identifiers : identifiers = [i \in 1..count |-> w.identifiers + i]
  BY Zenon
<1>3. count \in Nat
  BY KeyScenesAssumption, Zenon DEF KeysInv, KeyCounts, EveryKeyScene
<1>4. WalletInv(u, w, key_rows, accounts) /\ DOMAIN wallets = Users
  BY <1>1, Zenon DEF KeysInv
<1>5. identifiers \in Seq(Nat)
  <2>1. \A i \in 1..count : w.identifiers + i \in Nat
    BY <1>3, <1>4 DEF WalletInv
  <2> QED BY <1>2, <1>3, <2>1
<1>6. PICK messages : messages = <<<<"none", identifiers>>>>
  BY Zenon
<1>7. DOMAIN messages = {1} /\ messages[1][2] = identifiers
  BY <1>6, SMTT(30)
<1>8. MessagesInv("GenerateKey", messages, w.known)
  BY <1>5, <1>7, Zenon DEF MessagesInv
<1>9. CanSend(u) /\ Sent(u, "GenerateKey", messages) /\ UNCHANGED <<key_scene, key_rows, accounts>>
  BY <1>1, <1>2, <1>6, Zenon DEF GenerateNewMultiple
<1>10. PICK new : new = [w EXCEPT !.identifiers = @ + count, !.sent = @ + 1, !.next = next]
  OBVIOUS
<1>11. wallets' = [wallets EXCEPT ![u] = new]
  BY <1>1, <1>10, Zenon DEF GenerateNewMultiple
<1>12. DOMAIN wallets' = Users /\ wallets'[u] = new /\ \A v \in Users \ {u} : wallets'[v] = wallets[v]
  BY <1>4, <1>11, Zenon
<1>13. /\ DOMAIN new = WalletFields /\ new.identifiers = w.identifiers + count /\ new.next = next
       /\ new.known = w.known /\ new.certificate = w.certificate /\ new.challenge = w.challenge
       /\ new.signed = w.signed
  BY <1>4, <1>10, Zenon DEF WalletInv, WalletFields
<1>14. next # None => DOMAIN next[1] = {"message", "keys"} /\ next[1].keys = <<>>
  <2> SUFFICES ASSUME next # None PROVE DOMAIN next[1] = {"message", "keys"} /\ next[1].keys = <<>>
    OBVIOUS
  <2>1. PICK m \in KeyMessages : next = Some([message |-> m, keys |-> <<>>])
    OBVIOUS
  <2>2. next[1] = [message |-> m, keys |-> <<>>]
    BY <2>1, SomeIsNotNone, Zenon
  <2> QED BY <2>2
<1>15. WalletInv(u, new, key_rows, accounts)
  <2>1. Id(new) = Id(w)
    BY <1>13, Zenon DEF Id
  <2>2. new.identifiers \in Nat
    BY <1>3, <1>4, <1>13 DEF WalletInv
  <2>3. next # None => /\ next[1].keys \in Seq(Told(u))
                       /\ \A i \in DOMAIN next[1].keys : IsKnown(next[1].keys[i].identifier, w.known)
    <3>1. <<>> \in Seq(Told(u)) /\ DOMAIN <<>> = {}
      BY SMTT(30)
    <3> QED BY <1>14, <3>1, Zenon
  <2> QED BY <1>4, <1>13, <1>14, <2>1, <2>2, <2>3, Zenon DEF WalletInv
<1>16. /\ DOMAIN asked' = Users /\ \A v \in Users \ {u} : asked'[v] = asked[v]
       /\ wallets[u].certificate # None
       /\ InstructionInv(u, asked'[u][1], Id(wallets[u]), wallets[u].known, key_rows)
  BY <1>1, <1>8, <1>9, SentStep, Zenon
<1> QED BY <1>1, <1>9, <1>12, <1>13, <1>15, <1>16, OnlyWallet, Zenon

\* Keys that the wallet knows are asked for by their identifiers.
LEMMA SignKeepsInv ==
    ASSUME KeysInv, NEW u \in Users, NEW pairs, SignWithExistingKeys(u, pairs),
           \A i \in DOMAIN pairs : \A j \in DOMAIN pairs[i][2] : IsKnown(pairs[i][2][j].identifier, wallets[u].known)
    PROVE  KeysInv'
<1>1. PICK w : w = wallets[u]
  BY Zenon
<1>2. WalletInv(u, w, key_rows, accounts) /\ DOMAIN wallets = Users
  BY <1>1, Zenon DEF KeysInv
<1>3. PICK messages : messages = [i \in DOMAIN pairs |-> <<pairs[i][1], IdentifiersOf(pairs[i][2])>>]
  BY Zenon
<1>4. ASSUME NEW i \in DOMAIN messages, NEW j \in DOMAIN messages[i][2] PROVE IsKnown(messages[i][2][j], w.known)
  <2>1. i \in DOMAIN pairs /\ messages[i][2] = IdentifiersOf(pairs[i][2])
    BY <1>3, Zenon
  <2>2. j \in DOMAIN pairs[i][2] /\ messages[i][2][j] = pairs[i][2][j].identifier
    BY <2>1, Zenon DEF IdentifiersOf
  <2> QED BY <1>1, <2>1, <2>2, Zenon
<1>5. MessagesInv("Sign", messages, w.known)
  BY <1>4, Zenon DEF MessagesInv
<1>6. CanSend(u) /\ Sent(u, "Sign", messages) /\ UNCHANGED <<key_scene, key_rows, accounts>>
  BY <1>3, Zenon DEF SignWithExistingKeys
<1>7. PICK new : new = [w EXCEPT !.sent = @ + 1, !.next = None]
  OBVIOUS
<1>8. wallets' = [wallets EXCEPT ![u] = new]
  BY <1>1, <1>7, Zenon DEF SignWithExistingKeys
<1>9. DOMAIN wallets' = Users /\ wallets'[u] = new /\ \A v \in Users \ {u} : wallets'[v] = wallets[v]
  BY <1>2, <1>8, Zenon
<1>10. /\ DOMAIN new = WalletFields /\ new.identifiers = w.identifiers /\ new.next = None
       /\ new.known = w.known /\ new.certificate = w.certificate /\ new.challenge = w.challenge
       /\ new.signed = w.signed
  BY <1>2, <1>7, Zenon DEF WalletInv, WalletFields
<1>11. WalletInv(u, new, key_rows, accounts)
  <2>1. Id(new) = Id(w)
    BY <1>10, Zenon DEF Id
  <2> QED BY <1>2, <1>10, <2>1, Zenon DEF WalletInv
<1>12. /\ DOMAIN asked' = Users /\ \A v \in Users \ {u} : asked'[v] = asked[v]
       /\ wallets[u].certificate # None
       /\ InstructionInv(u, asked'[u][1], Id(wallets[u]), wallets[u].known, key_rows)
  BY <1>1, <1>5, <1>6, SentStep, Zenon
<1> QED BY <1>1, <1>6, <1>9, <1>10, <1>11, <1>12, OnlyWallet, Zenon

LEMMA SignNextKeepsInv ==
    ASSUME KeysInv, NEW u \in Users, SignNext(u)
    PROVE  KeysInv'
<1>1. PICK next : next = wallets[u].next[1]
  OBVIOUS
<1>2. PICK pairs : pairs = <<<<next.message, next.keys>>>>
  BY Zenon
<1>3. SignWithExistingKeys(u, pairs) /\ wallets[u].next # None
  BY <1>1, <1>2, Zenon DEF SignNext
<1>4. \A i \in DOMAIN next.keys : IsKnown(next.keys[i].identifier, wallets[u].known)
  BY <1>1, <1>3, Zenon DEF KeysInv, WalletInv
<1>5. DOMAIN pairs = {1} /\ pairs[1][2] = next.keys
  BY <1>2
<1> QED BY <1>3, <1>4, <1>5, SignKeepsInv, Zenon

LEMMA SignKnownKeepsInv ==
    ASSUME KeysInv, NEW u \in Users, SignKnown(u)
    PROVE  KeysInv'
<1>1. PICK known : known = wallets[u].known
  OBVIOUS
<1>2. known \in Seq(Told(u)) /\ known # <<>>
  BY <1>1, Zenon DEF KeysInv, WalletInv, SignKnown
<1>3. PICK order \in Bijection(DOMAIN known, DOMAIN known) : \E m1, m2 \in KeyMessages :
          LET keys == [i \in DOMAIN known |-> known[order[i]]]
          IN  SignWithExistingKeys(u, <<<<m1, keys>>, <<m2, <<keys[Len(keys)]>>>>>>)
  BY <1>1, Zenon DEF SignKnown
<1>4. PICK keys : keys = [i \in DOMAIN known |-> known[order[i]]]
  BY Zenon
<1>5. PICK m1, m2 : SignWithExistingKeys(u, <<<<m1, keys>>, <<m2, <<keys[Len(keys)]>>>>>>)
  BY <1>3, <1>4, Zenon
<1>6. order \in [DOMAIN known -> DOMAIN known]
  BY Zenon DEF Bijection, Injection
<1>7. \A i \in DOMAIN known : IsKnown(keys[i].identifier, known)
  BY <1>4, <1>6, Zenon DEF IsKnown
<1>8. DOMAIN known = 1..Len(known) /\ Len(known) \in Nat \ {0}
  BY <1>2
<1>9. Len(keys) = Len(known) /\ DOMAIN keys = DOMAIN known
  <2>1. \A i \in 1..Len(known) : known[order[i]] \in Told(u)
    BY <1>2, <1>6, <1>8
  <2>2. keys \in Seq(Told(u)) /\ Len(keys) = Len(known)
    BY <1>4, <1>8, <2>1
  <2> QED BY <1>4, <2>2, Zenon
<1>10. PICK pairs : pairs = <<<<m1, keys>>, <<m2, <<keys[Len(keys)]>>>>>>
  BY Zenon
<1>11. /\ DOMAIN pairs = 1..2 /\ pairs[1][2] = keys /\ pairs[2][2] = <<keys[Len(keys)]>>
       /\ DOMAIN <<keys[Len(keys)]>> = {1}
  BY <1>10
<1>12. IsKnown(keys[Len(keys)].identifier, known)
  BY <1>7, <1>8, <1>9
<1>13. \A i \in DOMAIN pairs : \A j \in DOMAIN pairs[i][2] : IsKnown(pairs[i][2][j].identifier, known)
  BY <1>7, <1>9, <1>11, <1>12
<1> QED BY <1>1, <1>5, <1>10, <1>13, SignKeepsInv, Zenon

\* Two lists of keys, one after the other.
LEMMA KeysTogether ==
    ASSUME NEW u, NEW id, NEW rows, NEW s \in Seq(Told(u)), NEW t \in Seq(Told(u)),
           AreKept(u, id, s, rows), AreKept(u, id, t, rows)
    PROVE  /\ s \o t \in Seq(Told(u)) /\ AreKept(u, id, s \o t, rows)
           /\ \A x : IsKnown(x, s) => IsKnown(x, s \o t)
           /\ \A i \in DOMAIN t : IsKnown(t[i].identifier, s \o t)
<1>1. PICK both : both = s \o t
  BY Zenon
<1>2. both \in Seq(Told(u)) /\ Len(both) = Len(s) + Len(t)
  BY <1>1
<1>3. /\ DOMAIN both = 1..Len(both) /\ DOMAIN s = 1..Len(s) /\ DOMAIN t = 1..Len(t)
      /\ Len(s) \in Nat /\ Len(t) \in Nat
  BY <1>2
<1>4. \A i \in DOMAIN s : i \in DOMAIN both /\ both[i] = s[i]
  BY <1>1, <1>2, <1>3
<1>5. ASSUME NEW i \in DOMAIN t PROVE Len(s) + i \in DOMAIN both /\ both[Len(s) + i] = t[i]
  <2>1. PICK k : k = Len(s) + i
    OBVIOUS
  <2>2. k \in 1..(Len(s) + Len(t)) /\ k \notin 1..Len(s) /\ k - Len(s) = i
    BY <1>3, <2>1
  <2>3. both[k] = t[k - Len(s)]
    BY <1>1, <1>2, <1>3, <2>2
  <2> QED BY <1>2, <1>3, <2>1, <2>2, <2>3, Zenon
<1>6. ASSUME NEW i \in DOMAIN both, i \notin DOMAIN s PROVE i - Len(s) \in DOMAIN t /\ both[i] = t[i - Len(s)]
  <2>1. i \in 1..(Len(s) + Len(t)) /\ i \notin 1..Len(s)
    BY <1>2, <1>3, <1>6, Zenon
  <2>2. i - Len(s) \in 1..Len(t)
    BY <1>3, <2>1
  <2>3. both[i] = t[i - Len(s)]
    BY <1>1, <1>2, <1>3, <2>1
  <2> QED BY <1>3, <2>2, <2>3, Zenon
<1>7. AreKept(u, id, both, rows)
  BY <1>4, <1>6, Zenon DEF AreKept
<1>8. \A x : IsKnown(x, s) => IsKnown(x, both)
  BY <1>4, Zenon DEF IsKnown
<1>9. \A i \in DOMAIN t : IsKnown(t[i].identifier, both)
  <2>1. ASSUME NEW i \in DOMAIN t PROVE \E k \in DOMAIN both : both[k].identifier = t[i].identifier
    <3>1. PICK k \in DOMAIN both : both[k] = t[i]
      BY <1>5, Zenon
    <3> QED BY <3>1, Zenon
  <2> QED BY <2>1, Zenon DEF IsKnown
<1> QED BY <1>1, <1>2, <1>7, <1>8, <1>9, Zenon

\* The signatures are paired with the keys that made them.
LEMMA PairedVerify ==
    ASSUME KeysInv, NEW u \in Users, NEW op, NEW messages, MessagesInv(op, messages, wallets[u].known),
           NEW answer, AnswerInv(u, op, messages, answer, Id(wallets[u]), key_rows),
           NEW s \in Paired(u, messages, answer.signatures)
    PROVE  VerifiedBy(s.public_key, s.message, s.signature)
<1>1. PICK signatures : signatures = answer.signatures
  OBVIOUS
<1>2. PICK i \in DOMAIN signatures :
          s \in {[public_key |-> KnownKey(u, messages[i][2][j]).public_key, message |-> messages[i][1],
                  signature |-> signatures[i][j]] : j \in DOMAIN signatures[i]}
  BY <1>1, SMTT(30) DEF Paired
<1>3. PICK j \in DOMAIN signatures[i] :
          s = [public_key |-> KnownKey(u, messages[i][2][j]).public_key, message |-> messages[i][1],
               signature |-> signatures[i][j]]
  BY <1>2, Zenon
<1>4. /\ i \in DOMAIN messages /\ j \in DOMAIN messages[i][2]
      /\ signatures[i][j] = HsmSign(<<u, messages[i][2][j]>>, "Ecdsa256", messages[i][1])
  BY <1>1, Zenon DEF AnswerInv
<1>5. op = "Sign"
  <2>1. signatures # <<>>
    <3>1. CASE signatures = <<>>
      <4>1. DOMAIN signatures = {}
        BY <3>1
      <4> QED BY <4>1, Zenon
    <3> QED BY <3>1, Zenon
  <2> QED BY <1>1, <2>1, Zenon DEF AnswerInv, MessagesInv
<1>6. PICK x : x = messages[i][2][j]
  OBVIOUS
<1>7. KnownKey(u, x).public_key = <<u, x>>
  <2>1. PICK known : known = wallets[u].known
    OBVIOUS
  <2>2. IsKnown(x, known) /\ AreKept(u, Id(wallets[u]), known, key_rows)
    BY <1>4, <1>5, <1>6, <2>1, Zenon DEF MessagesInv, KeysInv, WalletInv
  <2>3. PICK k : k = CHOOSE n \in DOMAIN known : known[n].identifier = x
    OBVIOUS
  <2>4. k \in DOMAIN known /\ known[k].identifier = x
    BY <2>2, <2>3, Zenon DEF IsKnown
  <2>5. known[k].public_key = <<u, x>>
    BY <2>2, <2>4, Zenon DEF AreKept
  <2>6. KnownKey(u, x) = known[k]
    BY <2>1, <2>3, Zenon DEF KnownKey
  <2> QED BY <2>5, <2>6, Zenon
<1>8. PICK a, b, c : a = <<u, x>> /\ b = messages[i][1] /\ c = HsmSign(<<u, x>>, "Ecdsa256", b)
  BY Zenon
<1>9. s = [public_key |-> a, message |-> b, signature |-> c]
  BY <1>3, <1>4, <1>6, <1>7, <1>8, Zenon
<1>10. s.public_key = a /\ s.message = b /\ s.signature = c
  BY <1>9, Zenon
<1> QED BY <1>8, <1>10, Zenon DEF VerifiedBy

LEMMA ReceiveKeepsInv ==
    ASSUME KeysInv, NEW u \in Users, NEW lost \in BOOLEAN, ReceiveAnswer(u, lost)
    PROVE  KeysInv'
<1>1. PICK w, id : w = wallets[u] /\ id = Id(wallets[u])
  OBVIOUS
<1>2. PICK ins : ins = asked[u][1]
  OBVIOUS
<1>3. PICK answer : answer = IF lost THEN ErrorAnswer("Lost") ELSE ins.answer[1]
  OBVIOUS
<1>4. /\ asked[u] # None /\ ins.answer # None
      /\ asked' = [asked EXCEPT ![u] = None]
      /\ UNCHANGED <<key_scene, key_rows, accounts>>
  BY <1>2, Zenon DEF ReceiveAnswer
<1>5. /\ WalletInv(u, w, key_rows, accounts) /\ DOMAIN wallets = Users /\ DOMAIN asked = Users
      /\ w.certificate # None /\ InstructionInv(u, ins, id, w.known, key_rows)
  BY <1>1, <1>2, <1>4, Zenon DEF KeysInv
<1>6. MessagesInv(ins.op, ins.messages, w.known)
  BY <1>5, Zenon DEF InstructionInv
<1>7. AnswerInv(u, ins.op, ins.messages, answer, id, key_rows)
  <2>1. CASE lost
    BY <1>3, <2>1, ErrorIsFine, Zenon
  <2>2. CASE ~lost
    BY <1>3, <1>4, <1>5, <2>2, Zenon DEF InstructionInv
  <2> QED BY <2>1, <2>2, Zenon
<1>8. PICK known : known = w.known \o answer.keys
  BY Zenon
<1>9. PICK signed : signed = w.signed \cup Paired(u, ins.messages, answer.signatures)
  BY Zenon
<1>10. PICK next : next = NextStep(w.next, answer)
  OBVIOUS
<1>11. PICK new : new = [w EXCEPT !.known = known, !.signed = signed, !.next = next]
  OBVIOUS
<1>12. wallets' = [wallets EXCEPT ![u] = new]
  BY <1>1, <1>2, <1>3, <1>8, <1>9, <1>10, <1>11, Zenon DEF ReceiveAnswer
<1>13. DOMAIN wallets' = Users /\ wallets'[u] = new /\ \A v \in Users \ {u} : wallets'[v] = wallets[v]
  BY <1>5, <1>12, Zenon
<1>14. DOMAIN asked' = Users /\ asked'[u] = None /\ \A v \in Users \ {u} : asked'[v] = asked[v]
  BY <1>4, <1>5, Zenon
<1>15. /\ DOMAIN new = WalletFields /\ new.identifiers = w.identifiers /\ new.next = next
       /\ new.known = known /\ new.certificate = w.certificate /\ new.challenge = w.challenge
       /\ new.signed = signed
  BY <1>5, <1>11, Zenon DEF WalletInv, WalletFields
<1>16. /\ known \in Seq(Told(u)) /\ AreKept(u, id, known, key_rows)
       /\ \A x : IsKnown(x, w.known) => IsKnown(x, known)
       /\ \A i \in DOMAIN answer.keys : IsKnown(answer.keys[i].identifier, known)
  <2>1. w.known \in Seq(Told(u)) /\ AreKept(u, id, w.known, key_rows)
    BY <1>1, <1>5, Zenon DEF WalletInv
  <2>2. answer.keys \in Seq(Told(u)) /\ AreKept(u, id, answer.keys, key_rows)
    BY <1>7, Zenon DEF AnswerInv
  <2> QED BY <1>8, <2>1, <2>2, KeysTogether, Zenon
<1>17. \A s \in signed : VerifiedBy(s.public_key, s.message, s.signature)
  <2>1. \A s \in w.signed : VerifiedBy(s.public_key, s.message, s.signature)
    BY <1>5, Zenon DEF WalletInv
  <2>2. \A s \in Paired(u, ins.messages, answer.signatures) : VerifiedBy(s.public_key, s.message, s.signature)
    BY <1>1, <1>6, <1>7, PairedVerify, Zenon
  <2> QED BY <1>9, <2>1, <2>2, Zenon
<1>18. next # None => /\ DOMAIN next[1] = {"message", "keys"} /\ next[1].keys = answer.keys
                      /\ answer.keys \in Seq(Told(u))
  <2> SUFFICES ASSUME next # None
               PROVE  /\ DOMAIN next[1] = {"message", "keys"} /\ next[1].keys = answer.keys
                      /\ answer.keys \in Seq(Told(u))
    OBVIOUS
  <2>1. PICK old : old = w.next[1]
    OBVIOUS
  <2>2. w.next # None /\ next = Some([old EXCEPT !.keys = answer.keys])
    BY <1>10, <2>1, Zenon DEF NextStep
  <2>3. DOMAIN old = {"message", "keys"}
    BY <1>5, <2>1, <2>2, Zenon DEF WalletInv
  <2>4. next[1] = [old EXCEPT !.keys = answer.keys]
    BY <2>2, SomeIsNotNone, Zenon
  <2>5. answer.keys \in Seq(Told(u))
    BY <1>7, Zenon DEF AnswerInv
  <2> QED BY <2>3, <2>4, <2>5, Zenon
<1>19. WalletInv(u, new, key_rows, accounts)
  <2>1. Id(new) = id
    BY <1>1, <1>15, Zenon DEF Id
  <2>2. next # None => \A i \in DOMAIN next[1].keys : IsKnown(next[1].keys[i].identifier, known)
    BY <1>16, <1>18, Zenon
  <2> QED BY <1>1, <1>5, <1>15, <1>16, <1>17, <1>18, <2>1, <2>2, Zenon DEF WalletInv
<1> QED BY <1>1, <1>4, <1>13, <1>14, <1>15, <1>19, OnlyWallet, Zenon

-----------------------------------------------------------------------------
(* Registration, the end of sessions, and restarts.                         *)

LEMMA RequestKeepsInv ==
    ASSUME KeysInv, NEW u \in Users, RequestChallenge(u)
    PROVE  KeysInv'
<1>1. PICK w : w = wallets[u]
  OBVIOUS
<1>2. WalletInv(u, w, key_rows, accounts) /\ DOMAIN wallets = Users /\ w.certificate = None
  BY <1>1, Zenon DEF KeysInv, RequestChallenge
<1>3. PICK challenge : challenge = Some(registration_challenge(<<u, w.challenges + 1>>))
  OBVIOUS
<1>4. PICK new : new = [w EXCEPT !.challenges = @ + 1, !.challenge = challenge]
  OBVIOUS
<1>5. wallets' = [wallets EXCEPT ![u] = new] /\ UNCHANGED <<key_scene, key_rows, accounts, asked>>
  BY <1>1, <1>3, <1>4, Zenon DEF RequestChallenge
<1>6. DOMAIN wallets' = Users /\ wallets'[u] = new /\ \A v \in Users \ {u} : wallets'[v] = wallets[v]
  BY <1>2, <1>5, Zenon
<1>7. /\ DOMAIN new = WalletFields /\ new.identifiers = w.identifiers /\ new.next = w.next
      /\ new.known = w.known /\ new.certificate = None /\ new.signed = w.signed
  BY <1>2, <1>4, Zenon DEF WalletInv, WalletFields
<1>8. WalletInv(u, new, key_rows, accounts)
  <2>1. Id(new) = Id(w)
    BY <1>2, <1>7, Zenon DEF Id
  <2> QED BY <1>2, <1>7, <2>1, ZenonT(60) DEF WalletInv
<1>9. asked'[u] = None /\ DOMAIN asked' = Users
  BY <1>1, <1>2, <1>5, Zenon DEF KeysInv
<1> QED BY <1>1, <1>2, <1>5, <1>6, <1>7, <1>8, <1>9, OnlyWallet, Zenon

LEMMA RegisterKeepsInv ==
    ASSUME KeysInv, NEW u \in Users, NEW lost \in BOOLEAN, Register(u, lost)
    PROVE  KeysInv'
<1>1. PICK w : w = wallets[u]
  OBVIOUS
<1>2. PICK challenge : challenge = w.challenge[1]
  OBVIOUS
<1>3. PICK id : id = challenge.claims.payload.wallet_id
  OBVIOUS
<1>4. PICK ok \in BOOLEAN : ok <=> verify_registration_challenge(challenge) /\ id \notin WalletIds
  BY Zenon
<1>5. PICK certificate : certificate = IF ok /\ ~lost THEN Some(new_wallet_certificate(id, HwKey(u), PinKeyOf(u))) ELSE None
  OBVIOUS
<1>6. PICK new : new = [w EXCEPT !.challenge = None, !.certificate = certificate]
  OBVIOUS
<1>7. /\ w.challenge # None
      /\ accounts' = IF ok THEN accounts \cup {Account(u, id)} ELSE accounts
      /\ wallets' = [wallets EXCEPT ![u] = new]
      /\ UNCHANGED <<key_scene, key_rows, asked>>
  BY <1>1, <1>2, <1>3, <1>4, <1>5, <1>6, Zenon DEF Register, Account
<1>8. WalletInv(u, w, key_rows, accounts) /\ DOMAIN wallets = Users
  BY <1>1, Zenon DEF KeysInv
<1>9. w.certificate = None /\ w.known = <<>> /\ asked[u] = None
  <2>1. w.certificate = None /\ w.known = <<>>
    BY <1>7, <1>8, Zenon DEF WalletInv
  <2> QED BY <1>1, <2>1, Zenon DEF KeysInv
<1>10. DOMAIN wallets' = Users /\ wallets'[u] = new /\ \A v \in Users \ {u} : wallets'[v] = wallets[v]
  BY <1>7, <1>8, Zenon
<1>11. /\ DOMAIN new = WalletFields /\ new.identifiers = w.identifiers /\ new.next = w.next
       /\ new.known = w.known /\ new.certificate = certificate /\ new.challenge = None /\ new.signed = w.signed
  BY <1>6, <1>8, Zenon DEF WalletInv, WalletFields
<1>12. accounts \subseteq accounts'
  BY <1>7, Zenon
<1>13. \A a, b \in accounts' : a.wallet_id = b.wallet_id => a = b
  <2>1. \A a, b \in accounts : a.wallet_id = b.wallet_id => a = b
    BY Zenon DEF KeysInv
  <2>2. CASE ok
    <3>1. \A a \in accounts : a.wallet_id # id
      BY <1>4, <2>2, Zenon DEF WalletIds
    <3>2. Account(u, id).wallet_id = id
      BY Zenon DEF Account
    <3> QED BY <1>7, <2>1, <2>2, <3>1, <3>2, Zenon
  <2>3. CASE ~ok
    BY <1>7, <2>1, <2>3, Zenon
  <2> QED BY <2>2, <2>3, Zenon
<1>14. WalletInv(u, new, key_rows, accounts')
  <2>1. certificate # None =>
          /\ Id(new) = id
          /\ new.certificate[1] = new_wallet_certificate(id, HwKey(u), PinKeyOf(u))
          /\ Account(u, id) \in accounts'
    <3> SUFFICES ASSUME certificate # None
                 PROVE  /\ Id(new) = id
                        /\ new.certificate[1] = new_wallet_certificate(id, HwKey(u), PinKeyOf(u))
                        /\ Account(u, id) \in accounts'
      OBVIOUS
    <3>1. ok /\ certificate = Some(new_wallet_certificate(id, HwKey(u), PinKeyOf(u)))
      BY <1>5, Zenon
    <3>2. new.certificate[1] = new_wallet_certificate(id, HwKey(u), PinKeyOf(u))
      BY <1>11, <3>1, SomeIsNotNone, Zenon
    <3>3. new_wallet_certificate(id, HwKey(u), PinKeyOf(u)).claims.payload.wallet_id = id
      BY Zenon DEF new_wallet_certificate, sign_with_sub, JwtSign
    <3>4. Id(new) = id
      BY <3>2, <3>3, Zenon DEF Id
    <3> QED BY <1>7, <3>1, <3>2, <3>4, Zenon
  <2>2. new.known \in Seq(Told(u)) /\ AreKept(u, Id(new), new.known, key_rows)
    <3>1. <<>> \in Seq(Told(u)) /\ DOMAIN <<>> = {}
      OBVIOUS
    <3> QED BY <1>9, <1>11, <3>1, Zenon DEF AreKept
  <2>3. certificate = None => new.known = <<>>
    BY <1>9, <1>11, Zenon
  <2> QED BY <1>8, <1>11, <2>1, <2>2, <2>3, ZenonT(60) DEF WalletInv
<1>15. \A v \in Users : WalletInv(v, wallets'[v], key_rows, accounts')
  <2>1. \A v, x : WalletInv(v, x, key_rows, accounts) => WalletInv(v, x, key_rows, accounts')
    BY <1>12, ZenonT(60) DEF WalletInv
  <2>2. \A v \in Users \ {u} : WalletInv(v, wallets'[v], key_rows, accounts')
    BY <1>10, <2>1, Zenon DEF KeysInv
  <2> QED BY <1>10, <1>14, <2>2, Zenon
<1>16. \A v \in Users : asked'[v] # None =>
          /\ wallets'[v].certificate # None
          /\ InstructionInv(v, asked'[v][1], Id(wallets'[v]), wallets'[v].known, key_rows)
  <2>1. asked' = asked
    BY <1>7, Zenon
  <2> QED BY <1>9, <1>10, <2>1, Zenon DEF KeysInv
<1>17. \A r \in key_rows' : RowInv(r)'
  <2> SUFFICES ASSUME NEW r \in key_rows PROVE RowInv(r)'
    BY <1>7, Zenon
  <2>1. PICK v \in Users : wallets[v].certificate # None /\ r = Row(v, Id(wallets[v]), r.identifier)
    BY Zenon DEF KeysInv, RowInv
  <2>2. wallets'[v] = wallets[v]
    BY <1>1, <1>9, <1>10, <2>1, Zenon
  <2>3. wallets'[v].certificate # None /\ r = Row(v, Id(wallets'[v]), r.identifier)
    BY <2>1, <2>2, Zenon
  <2> QED BY <2>3, Zenon DEF RowInv
<1> QED BY <1>7, <1>10, <1>13, <1>15, <1>16, <1>17, Zenon DEF KeysInv

LEMMA RestartKeepsInv ==
    ASSUME KeysInv, Restart
    PROVE  KeysInv'
<1>1. UNCHANGED <<key_scene, key_rows, accounts, wallets>>
  BY Zenon DEF Restart
<1>2. DOMAIN asked' = Users
  BY ZenonT(60) DEF Restart
<1>3. ASSUME NEW u \in Users, asked'[u] # None
      PROVE  /\ wallets[u].certificate # None
             /\ InstructionInv(u, asked'[u][1], Id(wallets[u]), wallets[u].known, key_rows)
  <2>1. CASE Running(u)
    <3>1. PICK ins : ins = asked[u][1]
      OBVIOUS
    <3>2. PICK new : new = [ins EXCEPT !.answer = Some(ErrorAnswer("Lost")), !.futures = <<>>, !.keys = {}]
      OBVIOUS
    <3>3. asked'[u] = Some(new)
      BY <2>1, <3>1, <3>2, ZenonT(60) DEF Restart
    <3>4. wallets[u].certificate # None /\ InstructionInv(u, ins, Id(wallets[u]), wallets[u].known, key_rows)
      BY <2>1, <3>1, Zenon DEF KeysInv, Running
    <3>5. DOMAIN ins = {"op", "messages", "keys", "answer", "futures"}
      BY <3>4, Zenon DEF InstructionInv
    <3>6. DOMAIN new = DOMAIN ins /\ new.op = ins.op /\ new.messages = ins.messages /\ new.answer = Some(ErrorAnswer("Lost"))
      BY <3>2, <3>5, Zenon
    <3>7. new.answer # None /\ new.answer[1] = ErrorAnswer("Lost") /\ asked'[u][1] = new
      BY <3>3, <3>6, SomeIsNotNone, Zenon
    <3>8. InstructionInv(u, new, Id(wallets[u]), wallets[u].known, key_rows)
      BY <3>4, <3>6, <3>7, ErrorIsFine, Zenon DEF InstructionInv
    <3> QED BY <3>4, <3>7, <3>8, Zenon
  <2>2. CASE ~Running(u)
    <3>1. asked'[u] = asked[u]
      BY <2>2, ZenonT(60) DEF Restart
    <3> QED BY <1>3, <3>1, Zenon DEF KeysInv
  <2> QED BY <2>1, <2>2, Zenon
<1>4. \A r \in key_rows' : RowInv(r)'
  BY <1>1, Zenon DEF KeysInv, RowInv
<1> QED BY <1>1, <1>2, <1>3, <1>4, Zenon DEF KeysInv

LEMMA OtherKeepsInv ==
    ASSUME KeysInv, UNCHANGED <<key_scene, key_rows, accounts, asked, wallets>>
    PROVE  KeysInv'
<1>1. \A r \in key_rows' : RowInv(r)'
  BY Zenon DEF KeysInv, RowInv
<1> QED BY <1>1, Zenon DEF KeysInv

LEMMA KeysInit == KeyInit => KeysInv
<1> SUFFICES ASSUME KeyInit PROVE KeysInv
  OBVIOUS
<1>1. /\ key_scene \in DOMAIN KeyScenes /\ key_rows = {} /\ accounts = {}
      /\ asked = [u \in Users |-> None] /\ wallets = [u \in Users |-> NewWallet]
  BY Zenon DEF KeyInit
<1>2. ASSUME NEW u \in Users PROVE WalletInv(u, wallets[u], key_rows, accounts)
  <2>1. wallets[u] = NewWallet
    BY <1>1, Zenon
  <2>2. <<>> \in Seq(Told(u)) /\ DOMAIN <<>> = {}
    OBVIOUS
  <2>3. PICK w : w = NewWallet
    BY Zenon
  <2>4. /\ DOMAIN w = WalletFields /\ w.identifiers = 0 /\ w.known = <<>> /\ w.certificate = None
        /\ w.next = None /\ w.signed = {}
    BY <2>3, Zenon DEF NewWallet, WalletFields
  <2>5. AreKept(u, Id(w), w.known, key_rows)
    BY <2>2, <2>4, Zenon DEF AreKept
  <2>6. w.known \in Seq(Told(u)) /\ w.identifiers \in Nat /\ \A s \in w.signed : FALSE
    BY <2>2, <2>4
  <2>7. WalletInv(u, w, key_rows, accounts)
    BY <2>4, <2>5, <2>6, Zenon DEF WalletInv
  <2> QED BY <2>1, <2>3, <2>7, Zenon
<1> QED BY <1>1, <1>2, Zenon DEF KeysInv

LEMMA KeysStep == KeysInv /\ [KeyNext]_keyVars => KeysInv'
<1> SUFFICES ASSUME KeysInv, [KeyNext]_keyVars PROVE KeysInv'
  OBVIOUS
<1>1. ASSUME NEW u \in Users, RequestChallenge(u) PROVE KeysInv'
  BY <1>1, RequestKeepsInv, Zenon
<1>2. ASSUME NEW u \in Users, NEW lost \in BOOLEAN, Register(u, lost) \/ ReceiveAnswer(u, lost) PROVE KeysInv'
  BY <1>2, RegisterKeepsInv, ReceiveKeepsInv, Zenon
<1>3. ASSUME NEW u \in Users, NEW count \in KeyCounts,
             NEW next \in {None} \cup {Some([message |-> m, keys |-> <<>>]) : m \in KeyMessages},
             GenerateNewMultiple(u, count, next)
      PROVE  KeysInv'
  BY <1>3, GenerateKeepsInv, Zenon
<1>4. ASSUME NEW u \in Users, SignNext(u) \/ SignKnown(u) PROVE KeysInv'
  BY <1>4, SignNextKeepsInv, SignKnownKeepsInv, Zenon
<1>5. ASSUME NEW u \in Users, Running(u), HsmCall(u) \/ SaveKeys(u) \/ SignResult(u) \/ InstructionFails(u)
      PROVE  KeysInv'
  <2>1. CASE InstructionFails(u)
    BY <1>5, <2>1, ErrorKeepsInv, Zenon DEF InstructionFails
  <2> QED BY <1>5, <2>1, HsmCallKeepsInv, SaveKeysKeepsInv, SignResultKeepsInv, Zenon
<1>6. ASSUME NEW slot \in 1..PoolSize, SessionEnds(slot) PROVE KeysInv'
  BY <1>6, OtherKeepsInv, Zenon DEF SessionEnds
<1>7. CASE Restart
  BY <1>7, RestartKeepsInv, Zenon
<1>8. CASE KeyTick
  BY <1>8, OtherKeepsInv, Zenon DEF KeyTick
<1>9. CASE UNCHANGED keyVars
  BY <1>9, OtherKeepsInv, Zenon DEF keyVars
<1> QED BY <1>1, <1>2, <1>3, <1>4, <1>5, <1>6, <1>7, <1>8, <1>9, Zenon DEF KeyNext

\* The one row that a known identifier leads to holds the key that the wallet was told of.
LEMMA KnownAreKept == KeysInv => KnownKeysAreKept
<1> SUFFICES ASSUME KeysInv, NEW u \in Users, NEW i \in DOMAIN wallets[u].known
             PROVE  {r.key : r \in find_keys_by_identifiers(Id(wallets[u]), {wallets[u].known[i].identifier})}
                       = {[with |-> Settings.attestation_wrapping_key, key |-> wallets[u].known[i].public_key]}
  BY Zenon DEF KnownKeysAreKept, Id
<1>1. PICK w, id, key : w = wallets[u] /\ id = Id(w) /\ key = w.known[i]
  BY Zenon
<1>2. WalletInv(u, w, key_rows, accounts)
  BY <1>1, Zenon DEF KeysInv
<1>3. w.certificate # None
  <2>1. w.known # <<>>
    <3>1. CASE w.known = <<>>
      <4>1. DOMAIN w.known = {}
        BY <3>1, SMTT(30)
      <4> QED BY <1>1, <4>1, Zenon
    <3> QED BY <3>1, Zenon
  <2> QED BY <1>2, <2>1, Zenon DEF WalletInv
<1>4. key.public_key = <<u, key.identifier>> /\ Row(u, id, key.identifier) \in key_rows
  BY <1>1, <1>2, Zenon DEF WalletInv, AreKept
<1>5. PICK rows : rows = find_keys_by_identifiers(id, {key.identifier})
  OBVIOUS
<1>6. \A r \in rows : r = Row(u, id, key.identifier)
  BY <1>1, <1>3, <1>5, FoundRows, ZenonT(30)
<1>7. Row(u, id, key.identifier) \in rows
  <2>1. Row(u, id, key.identifier).wallet_user_id = id /\ Row(u, id, key.identifier).identifier = key.identifier
    BY Zenon DEF Row
  <2> QED BY <1>4, <1>5, <2>1, Zenon DEF find_keys_by_identifiers
<1>8. Row(u, id, key.identifier).key = [with |-> Settings.attestation_wrapping_key, key |-> key.public_key]
  BY <1>4, Zenon DEF Row, WrappedKey, WrappingKey
<1>9. {r.key : r \in rows} = {[with |-> Settings.attestation_wrapping_key, key |-> key.public_key]}
  BY <1>6, <1>7, <1>8, Zenon
<1> QED BY <1>1, <1>5, <1>9, Zenon

\* The certificate of a wallet passes every check of verify_wallet_certificate.
LEMMA Recognised == KeysInv => RegisteredIsRecognised
<1> SUFFICES ASSUME KeysInv, NEW u \in Users, wallets[u].certificate # None
             PROVE  CertificateVerdict(wallets[u].certificate[1]) = "Ok"
  BY Zenon DEF RegisteredIsRecognised
<1>1. PICK id, certificate : id = Id(wallets[u]) /\ certificate = wallets[u].certificate[1]
  OBVIOUS
<1>2. certificate = new_wallet_certificate(id, HwKey(u), PinKeyOf(u)) /\ Account(u, id) \in accounts
  BY <1>1, Zenon DEF KeysInv, WalletInv
<1>3. PICK hash : hash = sign_pin_pubkey(PinKeyOf(u))
  OBVIOUS
<1>4. PICK claims : claims = [wallet_id |-> id, hw_pubkey |-> HwKey(u), pin_pubkey_hash |-> hash, version |-> 0]
  BY Zenon
<1>5. PICK body : body = [sub |-> Some("wallet_certificate"), payload |-> claims]
  BY Zenon
<1>6. certificate = [claims |-> body, signed_by |-> Settings.certificate_signing_key]
  BY <1>2, <1>3, <1>4, <1>5, Zenon DEF new_wallet_certificate, sign_with_sub, JwtSign
<1>7. /\ certificate.claims = body /\ certificate.signed_by = Settings.certificate_signing_key
      /\ body.sub = Some("wallet_certificate") /\ body.payload = claims
      /\ DOMAIN claims = CertificateFields /\ claims.wallet_id = id /\ claims.hw_pubkey = HwKey(u)
      /\ claims.pin_pubkey_hash = hash
  BY <1>4, <1>5, <1>6, Zenon DEF CertificateFields
<1>8. parse_and_verify_with_sub(certificate, Settings.certificate_signing_key, CertificateFields, minute)
  <2>1. "exp" \notin CertificateFields
    BY Zenon DEF CertificateFields
  <2>2. Validations(certificate, minute)
    BY <1>7, <2>1, Zenon DEF Validations
  <2> QED BY <1>7, <2>2, SomeIsNotNone, Zenon DEF parse_and_verify_with_sub
<1>9. {a \in accounts : a.wallet_id = claims.wallet_id} = {Account(u, id)}
  <2>1. Account(u, id).wallet_id = id
    BY Zenon DEF Account
  <2>2. \A a \in accounts : a.wallet_id = id => a = Account(u, id)
    BY <1>2, <2>1, Zenon DEF KeysInv
  <2> QED BY <1>2, <1>7, <2>1, <2>2, Zenon
<1>10. PICK account : account = CHOOSE a \in {a \in accounts : a.wallet_id = claims.wallet_id} : TRUE
  OBVIOUS
<1>11. account = Account(u, id)
  BY <1>9, <1>10, Zenon
<1>12. HsmDecrypt(Settings.pin_pubkey_encryption_key, account.encrypted_pin_pubkey) = Some(PinKeyOf(u))
  <2>1. account.encrypted_pin_pubkey = HsmEncrypt(Settings.pin_pubkey_encryption_key, PinKeyOf(u), id)
    BY <1>11, Zenon DEF Account
  <2> QED BY <2>1 DEF HsmDecrypt, HsmEncrypt, Encrypted, GcmEncrypt, GcmDecrypt
<1>13. PICK pin : pin = HsmDecrypt(Settings.pin_pubkey_encryption_key, account.encrypted_pin_pubkey)
  OBVIOUS
<1>14. pin # None /\ pin[1] = PinKeyOf(u)
  BY <1>12, <1>13, SomeIsNotNone, Zenon
<1>15. verify_pin_pubkey(pin[1], claims.pin_pubkey_hash)
  BY <1>3, <1>7, <1>14, Zenon DEF verify_pin_pubkey, sign_pin_pubkey, verify_hmac, sign_hmac, HsmVerify
<1>16. account.hw_pubkey = claims.hw_pubkey
  BY <1>7, <1>11, Zenon DEF Account
<1>17. certificate.claims.payload = claims /\ {a \in accounts : a.wallet_id = claims.wallet_id} # {}
  BY <1>7, <1>9, Zenon
<1>18. CertificateVerdict(certificate) = "Ok"
  BY <1>8, <1>10, <1>13, <1>14, <1>15, <1>16, <1>17, Zenon DEF CertificateVerdict
<1> QED BY <1>1, <1>18, Zenon

\* For any number of wallets, sessions and restarts: every signature that a wallet
\* is given verifies with the key that it is paired with, every key that it was
\* told of is kept in the one row of its identifier, and its certificate is
\* recognised by verify_wallet_certificate ever after.
THEOREM KeysAlwaysServe == KeySpec => []KeysServe
<1>1. KeysInv => KeysServe
  <2>1. KeysInv => SignaturesVerify
    BY Zenon DEF KeysInv, WalletInv, SignaturesVerify
  <2> QED BY <2>1, KnownAreKept, Recognised, Zenon DEF KeysServe
<1> QED BY KeysInit, KeysStep, <1>1, PTL DEF KeySpec
=============================================================================
