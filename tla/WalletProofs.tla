---------------------------- MODULE WalletProofs ----------------------------
(***************************************************************************)
(* The wallet on the phone, for any relying parties, attestations and      *)
(* sessions: whichever write fails and wherever the app is killed, the     *)
(* database can be opened again, a registration fits the hardware key, no  *)
(* session outlives the registration, every use of a copy is counted, and  *)
(* the history has what happened and nothing else.                         *)
(***************************************************************************)
EXTENDS Wallet, TLAPS

Clearing == {"clear_database", "clear_key_file", "clear_key", "delete_hw_key"}
Registering == {"register_request", "register_key_file", "register_open", "register_insert"}
Starting == {"down", "start_key_file", "start_open", "start_fetch"}
Working == {"insert_mdocs", "log_issuance", "terminate", "log_cancelled", "increment", "disclose",
            "log_error", "log_success"}

\* An operation on attestations has a registration, the others that take several
\* steps have none; without one there are no sessions, except in a reset that is
\* still clearing them.
StepsInv ==
    /\ keys \in [storage : 0..3, hw : 0..3]
    /\ op.at \in {"idle"} \cup Clearing \cup Registering \cup Starting \cup Working
    /\ op.at \in Clearing \cup Registering \cup Starting => reg = NoKey
    /\ op.at \in Working => reg # NoKey
    /\ op.at \in Registering => keys.hw # NoKey
    /\ At("terminate") => op = [at |-> "terminate", session |-> op.session, lock |-> op.lock]
    /\ reg = NoKey /\ op.at \notin Clearing => issuance = "none" /\ disclosure = None /\ locked

USE DEF NoKey, KeyIds, At, Goto, NoneRunning, disk, memory, past

LEMMA NewKeyType == NewKey({}) \in 1..3 /\ \A k : NewKey({k}) \in 1..3 /\ NewKey({k}) # k
<1>1. \E n \in 1..3 : n \notin {}
  OBVIOUS
<1>2. ASSUME NEW k PROVE \E n \in 1..3 : n \notin {k}
  OBVIOUS
<1> QED BY <1>1, <1>2, Zenon DEF NewKey

\* get_or_create_key_file makes the key of the key file, or leaves it.
LEMMA KeyFileKeys ==
    ASSUME keys \in [storage : 0..3, hw : 0..3],
           NEW from, NEW to, NEW failed, get_or_create_key_file(from, to, failed)
    PROVE  /\ keys' \in [storage : 0..3, hw : 0..3]
           /\ keys'.hw = keys.hw
           /\ keys.storage # NoKey => keys' = keys
<1> DEFINE k == IF keys.storage = NoKey THEN NewKey({}) ELSE keys.storage
           l == IF keys.storage = NoKey
                THEN NewKey(IF keyFile = Torn THEN {} ELSE {keyFile.by}) ELSE keys.storage
<1>1. k \in 1..3
  BY NewKeyType
<1>2. NewKey(IF keyFile = Torn THEN {} ELSE {keyFile.by}) \in 1..3
  <2>1. CASE keyFile = Torn BY <2>1, NewKeyType, Zenon
  <2>2. CASE keyFile # Torn BY <2>2, NewKeyType, Zenon
  <2> QED BY <2>1, <2>2, Zenon
<1>3. l \in 1..3
  BY <1>2
<1>4. keys.storage # NoKey => k = keys.storage /\ l = keys.storage
  OBVIOUS
<1>5. \/ keys' = [keys EXCEPT !.storage = k]
      \/ keys' = [keys EXCEPT !.storage = l]
      \/ keys' = keys
  BY Zenon DEF get_or_create_key_file
<1> HIDE DEF k, l
<1> QED BY <1>1, <1>3, <1>4, <1>5

LEMMA StepsInit == WalletInit => StepsInv
BY DEF WalletInit, StepsInv, Clearing, Registering, Starting, Working

LEMMA StepsStep == StepsInv /\ [WalletNext]_walletVars => StepsInv'
<1> SUFFICES ASSUME StepsInv, [WalletNext]_walletVars PROVE StepsInv'
  OBVIOUS
<1> USE NewKeyType DEF StepsInv, Clearing, Registering, Starting, Working
<1>1. CASE Start BY <1>1, Zenon DEF Start
<1>2. CASE Crash BY <1>2, Zenon DEF Crash
<1>3. CASE StartKeyFile
  <2>1. /\ reg' = reg /\ UNCHANGED memory /\ op.at = "start_key_file"
        /\ op' \in {[at |-> "start_open"], [at |-> "down"]}
    BY <1>3, Zenon DEF StartKeyFile, get_or_create_key_file
  <2> QED BY <1>3, <2>1, KeyFileKeys DEF StartKeyFile
<1>4. CASE StartOpen BY <1>4 DEF StartOpen, open_database
<1>5. CASE StartFetch BY <1>5 DEF StartFetch
<1>6. CASE Register
  <2> DEFINE k == IF keys.hw = NoKey THEN NewKey(IF db = None THEN {} ELSE {db.reg}) ELSE keys.hw
  <2>1. NewKey(IF db = None THEN {} ELSE {db.reg}) \in 1..3
    <3>1. CASE db = None BY <3>1, Zenon
    <3>2. CASE db # None BY <3>2, Zenon
    <3> QED BY <3>1, <3>2, Zenon
  <2>2. k \in 1..3
    BY <2>1
  <2>3. keys' = [keys EXCEPT !.hw = k] /\ op' = [at |-> "register_request"] /\ reg = NoKey
        /\ op.at = "idle" /\ UNCHANGED memory
    BY <1>6, Zenon DEF Register
  <2> HIDE DEF k
  <2> QED BY <2>2, <2>3
<1>7. CASE RegisterReply BY <1>7 DEF RegisterReply
<1>8. CASE RegisterKeyFile
  <2>1. /\ reg' = reg /\ UNCHANGED memory /\ op.at = "register_key_file"
        /\ op' \in {[at |-> "register_open"], [at |-> "idle"]}
    BY <1>8, Zenon DEF RegisterKeyFile, get_or_create_key_file
  <2> QED BY <1>8, <2>1, KeyFileKeys DEF RegisterKeyFile
<1>9. CASE RegisterOpen BY <1>9 DEF RegisterOpen, open_database
<1>10. CASE RegisterInsert BY <1>10, Zenon DEF RegisterInsert
<1>11. CASE lock BY <1>11, Zenon DEF lock
<1>12. CASE unlock BY <1>12, Zenon DEF unlock
<1>13. CASE reset BY <1>13, Zenon DEF reset, ResetBegins
<1>14. CASE ClearDatabase BY <1>14, Zenon DEF ClearDatabase, Deleted, NotDeleted
<1>15. CASE ClearKeyFile BY <1>15, Zenon DEF ClearKeyFile, Deleted, NotDeleted
<1>16. CASE ClearKey BY <1>16 DEF ClearKey, Deleted, NotDeleted
<1>17. CASE DeleteHwKey BY <1>17 DEF DeleteHwKey
<1>18. CASE create_pid_issuance_auth_url BY <1>18, Zenon DEF create_pid_issuance_auth_url, Unlocked
<1>19. CASE continue_pid_issuance BY <1>19, Zenon DEF continue_pid_issuance, Unlocked
<1>20. CASE cancel_pid_issuance BY <1>20, Zenon DEF cancel_pid_issuance, Unlocked
<1>21. CASE accept_pid_issuance BY <1>21 DEF accept_pid_issuance, Unlocked
<1>22. CASE accept_pid_issuance_blocked BY <1>22, Zenon DEF accept_pid_issuance_blocked, ResetBegins, Unlocked
<1>23. CASE InsertMdocs BY <1>23 DEF InsertMdocs
<1>24. CASE LogIssuance BY <1>24, Zenon DEF LogIssuance, store_history_event
<1>25. ASSUME NEW rp \in RelyingParties, start_disclosure(rp) PROVE StepsInv'
  BY <1>25, Zenon DEF start_disclosure, Unlocked
<1>26. CASE cancel_disclosure BY <1>26, Zenon DEF cancel_disclosure, Terminating, Unlocked
<1>27. CASE Terminate BY <1>27 DEF Terminate, Terminated
<1>28. CASE LogCancelled BY <1>28, Zenon DEF LogCancelled, store_history_event, Terminated
<1>29. CASE accept_disclosure BY <1>29, Zenon DEF accept_disclosure, Unlocked
<1>30. CASE IncrementUsageCount BY <1>30 DEF IncrementUsageCount, Failing
<1>31. CASE DiscloseNotSent BY <1>31 DEF DiscloseNotSent, Failing
<1>32. CASE DiscloseNoAnswer BY <1>32, Zenon DEF DiscloseNoAnswer, Failing, Receives
<1>33. CASE Disclose BY <1>33, Zenon DEF Disclose, Receives
<1>34. CASE LogError BY <1>34 DEF LogError, store_history_event, Terminating
<1>35. CASE LogSuccess BY <1>35, Zenon DEF LogSuccess, store_history_event
<1>36. CASE UNCHANGED walletVars BY <1>36, Zenon DEF walletVars
<1> QED
  BY Zenon, <1>1, <1>2, <1>3, <1>4, <1>5, <1>6, <1>7, <1>8, <1>9, <1>10, <1>11, <1>12,
     <1>13, <1>14, <1>15, <1>16, <1>17, <1>18, <1>19, <1>20, <1>21, <1>22, <1>23, <1>24,
     <1>25, <1>26, <1>27, <1>28, <1>29, <1>30, <1>31, <1>32, <1>33, <1>34, <1>35, <1>36
  DEF WalletNext

-----------------------------------------------------------------------------
(* What is on the phone                                                     *)

\* Until a reset fails to delete something: what clear has deleted so far is gone,
\* what open has made so far is there, and the registration is for the key in the
\* phone.
DiskInv ==
    ~kept =>
        /\ \/ db = None
           \/ /\ db = [secret |-> db.secret, reg |-> db.reg, mdocs |-> db.mdocs, log |-> db.log]
              /\ Readable /\ keyFile.secret = db.secret
              /\ db.reg # NoKey => db.reg = keys.hw
        /\ keyFile = None \/ keyFile = Torn \/ keyFile.by \in 1..3
        /\ reg # NoKey => opened /\ db.reg = reg
        /\ opened => db # None
        /\ op.at \in {"start_fetch", "register_insert"} => opened
        /\ op.at \in {"start_open", "register_open"} => Readable
        /\ op.at \in {"clear_key_file", "clear_key", "delete_hw_key"} => db = None
        /\ op.at \in {"clear_key", "delete_hw_key"} => keyFile = None

\* Whether the key file and the database exist can be told from what is in them.
LEMMA Distinct ==
    /\ None # Torn
    /\ \A b, s : [by |-> b, secret |-> s] # None /\ [by |-> b, secret |-> s] # Torn
    /\ \A k, r, m, l : [secret |-> k, reg |-> r, mdocs |-> m, log |-> l] # None
<1>1. DOMAIN None = {"none"} /\ DOMAIN Torn = {"torn"}
  BY Zenon DEF None, Torn
<1>2. \A b, s : DOMAIN [by |-> b, secret |-> s] = {"by", "secret"}
  OBVIOUS
<1>3. \A k, r, m, l :
          DOMAIN [secret |-> k, reg |-> r, mdocs |-> m, log |-> l] = {"secret", "reg", "mdocs", "log"}
  OBVIOUS
<1> QED BY <1>1, <1>2, <1>3, Zenon

LEMMA DiskInit == WalletInit => DiskInv
BY DEF WalletInit, DiskInv

LEMMA DiskStep == StepsInv /\ DiskInv /\ [WalletNext]_walletVars => DiskInv'
<1> SUFFICES ASSUME StepsInv, DiskInv, [WalletNext]_walletVars PROVE DiskInv'
  OBVIOUS
<1> USE NewKeyType, Distinct DEF StepsInv, DiskInv, Readable, Clearing, Registering, Starting, Working
<1>1. CASE Start BY <1>1, Zenon DEF Start
<1>2. CASE Crash BY <1>2, Zenon DEF Crash
<1>3. CASE StartKeyFile BY <1>3 DEF StartKeyFile, get_or_create_key_file
<1>4. CASE StartOpen BY <1>4 DEF StartOpen, open_database
<1>5. CASE StartFetch
  <2>1. UNCHANGED <<keys, keyFile, db, kept>>
    BY <1>5, Zenon DEF StartFetch
  <2>2. CASE op' = [at |-> "idle"] /\ reg' = db.reg /\ opened' = opened
    BY <1>5, <2>1, <2>2 DEF StartFetch
  <2>3. CASE op' = [at |-> "down"] /\ opened' = FALSE /\ reg' = reg
    BY <1>5, <2>1, <2>3 DEF StartFetch
  <2> QED BY <1>5, <2>2, <2>3, Zenon DEF StartFetch
<1>6. CASE Register BY <1>6, Zenon DEF Register
<1>7. CASE RegisterReply BY <1>7 DEF RegisterReply
<1>8. CASE RegisterKeyFile BY <1>8 DEF RegisterKeyFile, get_or_create_key_file
<1>9. CASE RegisterOpen BY <1>9 DEF RegisterOpen, open_database
<1>10. CASE RegisterInsert BY <1>10, ZenonT(30) DEF RegisterInsert
<1>11. CASE lock BY <1>11, Zenon DEF lock
<1>12. CASE unlock BY <1>12, Zenon DEF unlock
<1>13. CASE reset BY <1>13, Zenon DEF reset, ResetBegins
<1>14. CASE ClearDatabase BY <1>14, Zenon DEF ClearDatabase, Deleted, NotDeleted
<1>15. CASE ClearKeyFile BY <1>15, Zenon DEF ClearKeyFile, Deleted, NotDeleted
<1>16. CASE ClearKey BY <1>16, Zenon DEF ClearKey, Deleted, NotDeleted
<1>17. CASE DeleteHwKey BY <1>17, Zenon DEF DeleteHwKey
<1>18. CASE create_pid_issuance_auth_url BY <1>18, Zenon DEF create_pid_issuance_auth_url, Unlocked
<1>19. CASE continue_pid_issuance BY <1>19, Zenon DEF continue_pid_issuance, Unlocked
<1>20. CASE cancel_pid_issuance BY <1>20, Zenon DEF cancel_pid_issuance, Unlocked
<1>21. CASE accept_pid_issuance BY <1>21 DEF accept_pid_issuance, Unlocked
<1>22. CASE accept_pid_issuance_blocked BY <1>22, Zenon DEF accept_pid_issuance_blocked, ResetBegins, Unlocked
<1>23. CASE InsertMdocs BY <1>23 DEF InsertMdocs
<1>24. CASE LogIssuance BY <1>24 DEF LogIssuance, store_history_event
<1>25. ASSUME NEW rp \in RelyingParties, start_disclosure(rp) PROVE DiskInv'
  BY <1>25, Zenon DEF start_disclosure, Unlocked
<1>26. CASE cancel_disclosure BY <1>26, Zenon DEF cancel_disclosure, Terminating, Unlocked
<1>27. CASE Terminate BY <1>27 DEF Terminate, Terminated
<1>28. CASE LogCancelled BY <1>28 DEF LogCancelled, store_history_event, Terminated
<1>29. CASE accept_disclosure BY <1>29, Zenon DEF accept_disclosure, Unlocked
<1>30. CASE IncrementUsageCount BY <1>30 DEF IncrementUsageCount, Failing
<1>31. CASE DiscloseNotSent BY <1>31 DEF DiscloseNotSent, Failing
<1>32. CASE DiscloseNoAnswer BY <1>32, Zenon DEF DiscloseNoAnswer, Failing, Receives
<1>33. CASE Disclose BY <1>33, Zenon DEF Disclose, Receives
<1>34. CASE LogError BY <1>34 DEF LogError, store_history_event, Terminating
<1>35. CASE LogSuccess BY <1>35 DEF LogSuccess, store_history_event
<1>36. CASE UNCHANGED walletVars BY <1>36, Zenon DEF walletVars
<1> QED
  BY ZenonT(60), <1>1, <1>2, <1>3, <1>4, <1>5, <1>6, <1>7, <1>8, <1>9, <1>10, <1>11, <1>12,
     <1>13, <1>14, <1>15, <1>16, <1>17, <1>18, <1>19, <1>20, <1>21, <1>22, <1>23, <1>24,
     <1>25, <1>26, <1>27, <1>28, <1>29, <1>30, <1>31, <1>32, <1>33, <1>34, <1>35, <1>36
  DEF WalletNext

-----------------------------------------------------------------------------
(* How often copies are used                                                *)

Counts == [Copies -> Nat]
InDatabase(s) ==
    /\ s = [id |-> s.id, rp |-> s.rp, mdoc |-> s.mdoc, copy |-> s.copy, before |-> s.before]
    /\ s.mdoc # 0 => s.mdoc \in DOMAIN db.mdocs /\ s.copy \in Copies

\* A session refers to a copy that is in the database, and between the increment of
\* its usage count and the request that count is ahead.  An app that has a
\* registration has the database open, whatever a reset failed to delete.
UsageInv ==
    /\ db = None => sent = <<>> /\ ~opened
    /\ db # None =>
           /\ db = [secret |-> db.secret, reg |-> db.reg, mdocs |-> db.mdocs, log |-> db.log]
           /\ db.mdocs \in Seq(Counts) /\ sent \in Seq(Counts) /\ Len(sent) = Len(db.mdocs)
           /\ \A i \in DOMAIN db.mdocs : \A c \in Copies : sent[i][c] <= db.mdocs[i][c]
    /\ reg # NoKey \/ op.at \in {"start_fetch", "register_insert"} => opened
    /\ disclosure # None /\ op.at \notin Clearing => InDatabase(disclosure)
    /\ op.at \in {"increment", "disclose"} => Proposal(disclosure)
    /\ At("disclose") =>
           sent[disclosure.mdoc][disclosure.copy] < db.mdocs[disclosure.mdoc][disclosure.copy]

LEMMA UsageInit == WalletInit => UsageInv
BY DEF WalletInit, UsageInv, Clearing

\* One more use of a copy.
Bumped(s, i, k) == [s EXCEPT ![i][k] = @ + 1]

OneMore(s, i, k, t) ==
    \A j \in DOMAIN s : \A c \in Copies : t[j][c] = IF j = i /\ c = k THEN s[j][c] + 1 ELSE s[j][c]

LEMMA Bump ==
    ASSUME NEW s \in Seq(Counts), NEW i \in DOMAIN s, NEW k \in Copies
    PROVE  /\ Bumped(s, i, k) \in Seq(Counts) /\ Len(Bumped(s, i, k)) = Len(s)
           /\ DOMAIN Bumped(s, i, k) = DOMAIN s
           /\ OneMore(s, i, k, Bumped(s, i, k))
<1> DEFINE f == [s[i] EXCEPT ![k] = @ + 1]
<1>1. s[i] \in [Copies -> Nat]
  BY DEF Counts
<1>2. f \in [Copies -> Nat] /\ \A c \in Copies : f[c] = IF c = k THEN s[i][c] + 1 ELSE s[i][c]
  BY <1>1
<1>3. Bumped(s, i, k) = [s EXCEPT ![i] = f]
  BY Zenon DEF Bumped
<1> HIDE DEF f
<1>4. f \in Counts
  BY <1>2, Zenon DEF Counts
<1>5. [s EXCEPT ![i] = f] \in Seq(Counts) /\ Len([s EXCEPT ![i] = f]) = Len(s)
  BY <1>4
<1>6. \A j \in DOMAIN s : [s EXCEPT ![i] = f][j] = IF j = i THEN f ELSE s[j]
  OBVIOUS
<1> QED BY <1>2, <1>3, <1>5, <1>6, Zenon DEF OneMore

LEMMA Received ==
    ASSUME UsageInv, StepsInv, At("disclose"), Receives
    PROVE  /\ opened /\ db # None
           /\ sent' \in Seq(Counts) /\ Len(sent') = Len(db.mdocs)
           /\ \A j \in DOMAIN db.mdocs : \A c \in Copies : sent'[j][c] <= db.mdocs[j][c]
<1> DEFINE i == disclosure.mdoc
           k == disclosure.copy
<1> USE DEF UsageInv
<1>1. opened /\ db # None
  BY Zenon DEF StepsInv, Working
<1>2. sent' = Bumped(sent, i, k)
  BY Zenon DEF Receives, Bumped
<1>3. i \in DOMAIN db.mdocs /\ k \in Copies /\ DOMAIN sent = DOMAIN db.mdocs
  BY <1>1 DEF Proposal, InDatabase, Clearing
<1>4. ASSUME NEW j \in DOMAIN db.mdocs, NEW c \in Copies PROVE sent'[j][c] <= db.mdocs[j][c]
  <2>1. db.mdocs[j] \in Counts /\ sent[j] \in Counts /\ sent[j][c] <= db.mdocs[j][c]
    BY <1>1, <1>3
  <2>2. db.mdocs[j][c] \in Nat /\ sent[j][c] \in Nat
    BY <2>1, Zenon DEF Counts
  <2>3. sent'[j][c] = IF j = i /\ c = k THEN sent[j][c] + 1 ELSE sent[j][c]
    <3>1. OneMore(sent, i, k, Bumped(sent, i, k))
      BY <1>1, <1>3, Bump, Zenon
    <3> QED BY <1>2, <1>3, <3>1, Zenon DEF OneMore
  <2>4. j = i /\ c = k => sent[j][c] < db.mdocs[j][c]
    OBVIOUS
  <2> QED BY <2>1, <2>2, <2>3, <2>4
<1> QED BY <1>1, <1>2, <1>3, <1>4, Bump, Zenon

LEMMA UsageStep == StepsInv /\ UsageInv /\ [WalletNext]_walletVars => UsageInv'
<1> SUFFICES ASSUME StepsInv, UsageInv, [WalletNext]_walletVars PROVE UsageInv'
  OBVIOUS
<1> USE Distinct DEF StepsInv, UsageInv, Clearing, Registering, Starting, Working, InDatabase,
                     Session, Proposal
<1>1. CASE Start BY <1>1, Zenon DEF Start
<1>2. CASE Crash BY <1>2, Zenon DEF Crash
<1>3. CASE StartKeyFile BY <1>3 DEF StartKeyFile, get_or_create_key_file
<1>4. CASE StartOpen
  <2>1. disclosure = None /\ reg = NoKey /\ UNCHANGED <<disclosure, reg, sent>>
    BY <1>4, Zenon DEF StartOpen, open_database
  <2>2. CASE db' = db
    BY <1>4, <2>1, <2>2 DEF StartOpen, open_database
  <2>3. CASE db' # db
    <3>1. /\ db = None /\ opened' = TRUE /\ op'.at = "start_fetch"
          /\ db' = [secret |-> keyFile.secret, reg |-> NoKey, mdocs |-> <<>>, log |-> {}]
      BY <1>4, <2>3 DEF StartOpen, open_database
    <3>2. db' # None /\ db'.mdocs = <<>> /\ sent = <<>>
      BY <3>1, Zenon
    <3> QED BY <2>1, <3>1, <3>2
  <2> QED BY <2>2, <2>3, Zenon
<1>5. CASE StartFetch
  <2>1. /\ disclosure = None /\ reg = NoKey /\ opened /\ db # None
        /\ UNCHANGED <<db, disclosure, sent>>
    BY <1>5, Zenon DEF StartFetch
  <2>2. \/ op' = [at |-> "idle"] /\ opened' = opened
        \/ op' = [at |-> "down"] /\ reg' = reg
    BY <1>5, Zenon DEF StartFetch
  <2>3. op'.at \in {"idle", "down"}
    BY <2>2
  <2>4. reg' # NoKey \/ op'.at \in {"start_fetch", "register_insert"} => opened'
    BY <2>1, <2>2, <2>3, Zenon
  <2> QED BY <2>1, <2>3, <2>4, Zenon
<1>6. CASE Register BY <1>6, Zenon DEF Register
<1>7. CASE RegisterReply BY <1>7 DEF RegisterReply
<1>8. CASE RegisterKeyFile BY <1>8 DEF RegisterKeyFile, get_or_create_key_file
<1>9. CASE RegisterOpen
  <2>1. disclosure = None /\ reg = NoKey /\ UNCHANGED <<disclosure, reg, sent>>
    BY <1>9, Zenon DEF RegisterOpen, open_database
  <2>2. CASE db' = db
    BY <1>9, <2>1, <2>2 DEF RegisterOpen, open_database
  <2>3. CASE db' # db
    <3>1. /\ db = None /\ opened' = TRUE /\ op'.at = "register_insert"
          /\ db' = [secret |-> keyFile.secret, reg |-> NoKey, mdocs |-> <<>>, log |-> {}]
      BY <1>9, <2>3 DEF RegisterOpen, open_database
    <3>2. db' # None /\ db'.mdocs = <<>> /\ sent = <<>>
      BY <3>1, Zenon
    <3> QED BY <2>1, <3>1, <3>2
  <2> QED BY <2>2, <2>3, Zenon
<1>10. CASE RegisterInsert
  <2>1. /\ opened /\ db # None /\ disclosure = None /\ op' = [at |-> "idle"]
        /\ UNCHANGED <<opened, disclosure, sent>>
    BY <1>10, Zenon DEF RegisterInsert
  <2>2. CASE db' = db
    BY <2>1, <2>2, Zenon
  <2>3. CASE db' = [db EXCEPT !.reg = keys.hw]
    <3>1. db' = [secret |-> db.secret, reg |-> keys.hw, mdocs |-> db.mdocs, log |-> db.log]
      BY <2>1, <2>3, Zenon
    <3>2. db' # None /\ db'.mdocs = db.mdocs
      BY <3>1, Zenon
    <3> QED BY <2>1, <3>1, <3>2, Zenon
  <2> QED BY <1>10, <2>2, <2>3, Zenon DEF RegisterInsert
<1>11. CASE lock BY <1>11, Zenon DEF lock
<1>12. CASE unlock BY <1>12, Zenon DEF unlock
<1>13. CASE reset BY <1>13, Zenon DEF reset, ResetBegins
<1>14. CASE ClearDatabase BY <1>14, Zenon DEF ClearDatabase, Deleted, NotDeleted
<1>15. CASE ClearKeyFile BY <1>15, Zenon DEF ClearKeyFile, Deleted, NotDeleted
<1>16. CASE ClearKey BY <1>16, Zenon DEF ClearKey, Deleted, NotDeleted
<1>17. CASE DeleteHwKey BY <1>17, Zenon DEF DeleteHwKey
<1>18. CASE create_pid_issuance_auth_url BY <1>18, Zenon DEF create_pid_issuance_auth_url, Unlocked
<1>19. CASE continue_pid_issuance BY <1>19, Zenon DEF continue_pid_issuance, Unlocked
<1>20. CASE cancel_pid_issuance BY <1>20, Zenon DEF cancel_pid_issuance, Unlocked
<1>21. CASE accept_pid_issuance BY <1>21 DEF accept_pid_issuance, Unlocked
<1>22. CASE accept_pid_issuance_blocked BY <1>22, Zenon DEF accept_pid_issuance_blocked, ResetBegins, Unlocked
<1>23. CASE InsertMdocs
  <2> DEFINE zero == [c \in Copies |-> 0]
  <2>1. opened /\ db # None /\ UNCHANGED <<opened, reg, disclosure>> /\ op.at = "insert_mdocs"
    BY <1>23, Zenon DEF InsertMdocs
  <2>2. CASE UNCHANGED <<db, sent>> /\ op' = [at |-> "idle"]
    BY <2>1, <2>2, Zenon
  <2>3. CASE /\ db' = [db EXCEPT !.mdocs = Append(@, zero)] /\ sent' = Append(sent, zero)
             /\ op' = [at |-> "log_issuance"]
    <3>1. db' = [secret |-> db.secret, reg |-> db.reg, mdocs |-> Append(db.mdocs, zero), log |-> db.log]
      BY <2>1, <2>3, Zenon
    <3>2. db' # None /\ db'.mdocs = Append(db.mdocs, zero)
      BY <3>1, Zenon
    <3>3. zero \in Counts
      BY Zenon DEF Counts
    <3>4. /\ db'.mdocs \in Seq(Counts) /\ sent' \in Seq(Counts) /\ Len(sent') = Len(db'.mdocs)
          /\ DOMAIN db'.mdocs = 1..(Len(db.mdocs) + 1) /\ DOMAIN db.mdocs = 1..Len(db.mdocs)
      BY <2>1, <2>3, <3>2, <3>3
    <3>5. ASSUME NEW i \in DOMAIN db'.mdocs, NEW c \in Copies PROVE sent'[i][c] <= db'.mdocs[i][c]
      <4>1. CASE i \in DOMAIN db.mdocs
        <5>1. db'.mdocs[i] = db.mdocs[i] /\ sent'[i] = sent[i]
          BY <2>1, <2>3, <3>2, <3>4, <4>1
        <5> QED BY <2>1, <4>1, <5>1, Zenon
      <4>2. CASE i = Len(db.mdocs) + 1
        <5>1. db'.mdocs[i] = zero /\ sent'[i] = zero
          BY <2>1, <2>3, <3>2, <4>2
        <5> QED BY <5>1
      <4> QED BY <3>4, <4>1, <4>2
    <3>6. disclosure # None => InDatabase(disclosure)'
      BY <2>1, <3>4
    <3> QED BY <2>1, <2>3, <3>1, <3>2, <3>4, <3>5, <3>6, Zenon
  <2> QED BY <1>23, <2>2, <2>3, Zenon DEF InsertMdocs
<1>24. CASE LogIssuance
  <2>1. PICK events, lost : store_history_event(events, lost)
    BY <1>24, Zenon DEF LogIssuance
  <2> QED BY <1>24, <2>1 DEF LogIssuance, store_history_event
<1>25. ASSUME NEW rp \in RelyingParties, start_disclosure(rp) PROVE UsageInv'
  <2>1. opened /\ db # None /\ At("idle") /\ UNCHANGED <<db, opened, reg, op, sent>>
    BY <1>25, Zenon DEF start_disclosure, Unlocked
  <2>2. PICK id, before :
            \/ disclosure' = Session(id, rp, 0, None, before)
            \/ Len(db.mdocs) = 1 /\ \E c \in Copies : disclosure' = Session(id, rp, 1, c, before)
    BY <1>25 DEF start_disclosure, LeastUsed
  <2>3. InDatabase(disclosure)'
    <3>1. CASE disclosure' = Session(id, rp, 0, None, before) BY <3>1, Zenon
    <3>2. CASE Len(db.mdocs) = 1 /\ \E c \in Copies : disclosure' = Session(id, rp, 1, c, before)
      BY <2>1, <3>2
    <3> QED BY <2>2, <3>1, <3>2, Zenon
  <2> QED BY <2>1, <2>3, Zenon
<1>26. CASE cancel_disclosure BY <1>26, Zenon DEF cancel_disclosure, Terminating, Unlocked
<1>27. CASE Terminate BY <1>27 DEF Terminate, Terminated
<1>28. CASE LogCancelled BY <1>28 DEF LogCancelled, store_history_event, Terminated
<1>29. CASE accept_disclosure BY <1>29, Zenon DEF accept_disclosure, Unlocked
<1>30. CASE IncrementUsageCount
  <2> DEFINE i == disclosure.mdoc
             k == disclosure.copy
             more == Bumped(db.mdocs, i, k)
  <2>1. /\ opened /\ db # None /\ Proposal(disclosure) /\ UNCHANGED <<opened, reg, sent>>
        /\ op.at = "increment"
    BY <1>30, Zenon DEF IncrementUsageCount
  <2>2. CASE /\ UNCHANGED <<db, disclosure>>
             /\ op' = [at |-> "log_error", data |-> FALSE, blocked |-> FALSE]
    BY <2>1, <2>2, Zenon
  <2>3. CASE /\ db' = [db EXCEPT !.mdocs[disclosure.mdoc][disclosure.copy] = @ + 1]
             /\ disclosure' = disclosure /\ op' = [at |-> "disclose"]
    <3>1. i \in DOMAIN db.mdocs /\ k \in Copies
      BY <2>1, Zenon
    <3>2. db' = [db EXCEPT !.mdocs = more]
      BY <2>3, Zenon DEF Bumped
    <3>3. db' = [secret |-> db.secret, reg |-> db.reg, mdocs |-> more, log |-> db.log]
      BY <2>1, <3>2, Zenon
    <3>4. db' # None /\ db'.mdocs = more
      BY <3>3, Zenon
    <3>5. more \in Seq(Counts) /\ Len(more) = Len(db.mdocs) /\ DOMAIN more = DOMAIN db.mdocs
      BY <2>1, <3>1, Bump, Zenon
    <3>6. ASSUME NEW j \in DOMAIN more, NEW c \in Copies
          PROVE  sent[j][c] <= more[j][c] /\ (j = i /\ c = k => sent[j][c] < more[j][c])
      <4>1. db.mdocs[j] \in Counts /\ sent[j] \in Counts /\ sent[j][c] <= db.mdocs[j][c]
        BY <2>1, <3>5
      <4>2. db.mdocs[j][c] \in Nat /\ sent[j][c] \in Nat
        BY <4>1, Zenon DEF Counts
      <4>3. more[j][c] = IF j = i /\ c = k THEN db.mdocs[j][c] + 1 ELSE db.mdocs[j][c]
        <5>1. OneMore(db.mdocs, i, k, more)
          BY <2>1, <3>1, Bump, Zenon
        <5> QED BY <3>5, <5>1, Zenon DEF OneMore
      <4> QED BY <4>1, <4>2, <4>3
    <3> HIDE DEF more
    <3>7. disclosure' = [id |-> disclosure.id, rp |-> disclosure.rp, mdoc |-> i, copy |-> k,
                         before |-> disclosure.before]
      BY <2>1, <2>3, Zenon
    <3>8. disclosure' # None
      BY <3>7, Zenon DEF None
    <3>9. InDatabase(disclosure)'
      BY <3>1, <3>4, <3>5, <3>7, Zenon
    <3>10. Proposal(disclosure)'
      BY <2>1, <3>7, <3>8, Zenon
    <3> QED BY <2>1, <2>3, <3>1, <3>3, <3>4, <3>5, <3>6, <3>7, <3>9, <3>10, Zenon
  <2> QED BY <1>30, <2>2, <2>3, Zenon DEF IncrementUsageCount, Failing
<1>31. CASE DiscloseNotSent BY <1>31, Zenon DEF DiscloseNotSent, Failing
<1>32. CASE DiscloseNoAnswer
  <2>1. op' = [at |-> "log_error", data |-> TRUE, blocked |-> FALSE] /\ UNCHANGED <<disk, memory>>
        /\ At("disclose")
    BY <1>32, Zenon DEF DiscloseNoAnswer, Failing
  <2>2. CASE UNCHANGED sent BY <2>1, <2>2, Zenon
  <2>3. CASE Receives BY <2>1, <2>3, Received, Zenon
  <2> QED BY <1>32, <2>2, <2>3, Zenon DEF DiscloseNoAnswer
<1>33. CASE Disclose
  <2>1. op' = [at |-> "log_success", session |-> disclosure] /\ disclosure' = None /\ Receives
        /\ UNCHANGED <<disk, reg, opened>> /\ At("disclose")
    BY <1>33, Zenon DEF Disclose
  <2> QED BY <2>1, Received, Zenon
<1>34. CASE LogError
  <2>1. PICK events, lost : store_history_event(events, lost)
    BY <1>34, Zenon DEF LogError
  <2> QED BY <1>34, <2>1 DEF LogError, store_history_event, Terminating
<1>35. CASE LogSuccess
  <2>1. PICK events, lost : store_history_event(events, lost)
    BY <1>35, Zenon DEF LogSuccess
  <2> QED BY <1>35, <2>1 DEF LogSuccess, store_history_event
<1>36. CASE UNCHANGED walletVars BY <1>36, Zenon DEF walletVars
<1> QED
  BY ZenonT(60), <1>1, <1>2, <1>3, <1>4, <1>5, <1>6, <1>7, <1>8, <1>9, <1>10, <1>11, <1>12,
     <1>13, <1>14, <1>15, <1>16, <1>17, <1>18, <1>19, <1>20, <1>21, <1>22, <1>23, <1>24,
     <1>25, <1>26, <1>27, <1>28, <1>29, <1>30, <1>31, <1>32, <1>33, <1>34, <1>35, <1>36
  DEF WalletNext

-----------------------------------------------------------------------------
(* The history                                                              *)

Logging == {"log_success", "log_error", "log_issuance"}
Recorded(s) == \E e \in Disclosures(db.log) : e.id = s.id
SharedBefore(s) == \E r \in received : r.rp = s.rp

\* What a verifier received, or an mdoc that was stored, is in the history, was
\* missed, or is about to be stored.  An error that stores nothing has nothing to
\* store: what a verifier received of that session was recorded by an earlier try.
HistoryInv ==
    /\ db = None => received = {}
    /\ db # None =>
           /\ \A s \in received \ (missed \cup Unlogged) : Recorded(s)
           /\ \A i \in DOMAIN db.mdocs : IssuanceEvent(i) \in db.log \cup missed \cup UnloggedMdoc
           /\ \A e \in Disclosures(db.log) :
                 e.status = "Success" => \E s \in received : s.id = e.id /\ s.rp = e.rp
           /\ At("log_error") /\ op.data # TRUE => \A s \in received \ missed : Recorded(s)
    /\ At("log_success") => Ident(op.session) \in received
    /\ op.at \in Clearing \ {"clear_database"} => ~opened
    /\ disclosure # None /\ disclosure.before /\ opened => SharedBefore(disclosure)

LEMMA HistoryInit == WalletInit => HistoryInv
BY DEF WalletInit, HistoryInv, Clearing

\* The events are told apart by their fields.
LEMMA EventFields ==
    /\ \A s, r : /\ "status" \in DOMAIN DisclosureEvent(s, r)
                 /\ DisclosureEvent(s, r).id = s.id /\ DisclosureEvent(s, r).rp = s.rp
                 /\ DisclosureEvent(s, r).status = r
    /\ \A i : "status" \notin DOMAIN IssuanceEvent(i)
    /\ \A s : Ident(s).id = s.id /\ Ident(s).rp = s.rp
BY Zenon DEF DisclosureEvent, IssuanceEvent, Ident

\* Outside the steps that store an event, nothing waits to be stored.
LEMMA NothingWaits == op.at \notin Logging => Unlogged = {} /\ UnloggedMdoc = {}
BY Zenon DEF Logging, Unlogged, UnloggedMdoc

\* A step that neither adds to the history nor to what it is about.
SameHistory ==
    \/ db' = db
    \/ db # None /\ db' # None /\ db'.log = db.log /\ DOMAIN db'.mdocs = DOMAIN db.mdocs

LEMMA HistoryQuiet ==
    ASSUME HistoryInv, SameHistory, UNCHANGED <<received, missed>>,
           op.at \notin Logging, op'.at \notin {"log_success", "log_issuance"},
           disclosure' \in {disclosure, None},
           opened' => opened \/ disclosure' = None,
           op'.at \in Clearing \ {"clear_database"} => ~opened'
    PROVE  HistoryInv'
<1>1. Unlogged = {} /\ UnloggedMdoc = {}
  BY NothingWaits, Zenon
<1>2. ASSUME db # None PROVE \A s \in received \ missed : Recorded(s)
  BY <1>1, <1>2, Zenon DEF HistoryInv
<1>3. ASSUME db' # None
      PROVE  /\ db # None /\ db'.log = db.log /\ DOMAIN db'.mdocs = DOMAIN db.mdocs
             /\ Disclosures(db'.log) = Disclosures(db.log)
  BY <1>3, Zenon DEF SameHistory
<1>4. db' = None => db = None
  BY Zenon DEF SameHistory
<1>5. ASSUME db' # None PROVE \A s \in received' \ missed' : Recorded(s)'
  BY <1>2, <1>3, <1>5, Zenon DEF Recorded
<1>6. ASSUME db' # None, NEW i \in DOMAIN db'.mdocs PROVE IssuanceEvent(i) \in db'.log \cup missed'
  BY <1>1, <1>3, <1>6, Zenon DEF HistoryInv
<1>7. ASSUME db' # None, NEW e \in Disclosures(db'.log), e.status = "Success"
      PROVE  \E s \in received' : s.id = e.id /\ s.rp = e.rp
  BY <1>3, <1>7, Zenon DEF HistoryInv
<1>8. disclosure' # None /\ disclosure'.before /\ opened' => SharedBefore(disclosure)'
  BY DEF HistoryInv, SharedBefore
<1> QED BY <1>3, <1>4, <1>5, <1>6, <1>7, <1>8, Zenon DEF HistoryInv

\* A new database has no history, and there is none to tell.
LEMMA HistoryOpen ==
    ASSUME StepsInv, HistoryInv, NEW from, NEW to, NEW failed, open_database(from, to, failed),
           from \in Registering \cup Starting,
           to \in Registering \cup Starting, failed \in {"down", "idle"}
    PROVE  HistoryInv'
<1> USE DEF Clearing, Registering, Starting, Logging
<1>1. op.at = from /\ disclosure = None /\ UNCHANGED <<received, missed, disclosure>>
  BY Zenon DEF open_database, StepsInv
<1>2. op'.at \in {to, failed}
  BY DEF open_database
<1>3. CASE db' = db
  BY <1>1, <1>2, <1>3, HistoryQuiet, Zenon DEF SameHistory
<1>4. CASE db' # db
  <2>1. db = None /\ db' = [secret |-> keyFile.secret, reg |-> NoKey, mdocs |-> <<>>, log |-> {}]
    BY <1>4, Zenon DEF open_database
  <2>2. db' # None /\ db'.log = {} /\ DOMAIN db'.mdocs = {} /\ received' = {}
    BY <1>1, <2>1, Distinct DEF HistoryInv
  <2>3. Disclosures(db'.log) = {}
    BY <2>2, Zenon DEF Disclosures
  <2> QED BY <1>1, <1>2, <2>2, <2>3, Zenon DEF HistoryInv
<1> QED BY <1>3, <1>4, Zenon

\* What is stored, and what is lost if it cannot be.
LEMMA StoreEvent ==
    ASSUME UsageInv, db # None, NEW events, NEW lost, store_history_event(events, lost)
    PROVE  /\ db' # None /\ db'.mdocs = db.mdocs
           /\ \/ db'.log = db.log \cup events /\ missed' = missed
              \/ db'.log = db.log /\ missed' = missed \cup lost
<1>1. CASE db' = [db EXCEPT !.log = @ \cup events] /\ UNCHANGED missed
  <2>1. db' = [secret |-> db.secret, reg |-> db.reg, mdocs |-> db.mdocs, log |-> db.log \cup events]
    BY <1>1, Zenon DEF UsageInv
  <2> QED BY <1>1, <2>1, Distinct, Zenon
<1>2. CASE missed' = missed \cup lost /\ UNCHANGED db
  BY <1>2, Zenon
<1> QED BY <1>1, <1>2, Zenon DEF store_history_event

\* After an event was stored, or lost, nothing waits any more.
LEMMA HistoryStored ==
    ASSUME UsageInv, HistoryInv, db # None, NEW events, NEW lost, store_history_event(events, lost),
           Unlogged \cup UnloggedMdoc \subseteq lost,
           \A s \in (Unlogged \cap received) \ missed : Recorded(s) \/ \E e \in Disclosures(events) : e.id = s.id,
           UnloggedMdoc \subseteq events \cup db.log,
           \A e \in Disclosures(events) :
               e.status = "Success" => \E s \in received : s.id = e.id /\ s.rp = e.rp,
           op'.at \notin Logging \cup Clearing,
           disclosure' \in {disclosure, None},
           UNCHANGED <<received, opened>>
    PROVE  HistoryInv'
<1>1. /\ db' # None /\ db'.mdocs = db.mdocs
      /\ \/ db'.log = db.log \cup events /\ missed' = missed
         \/ db'.log = db.log /\ missed' = missed \cup lost
  BY StoreEvent, Zenon
<1>2. /\ Disclosures(db.log) \subseteq Disclosures(db'.log)
      /\ Disclosures(db'.log) \subseteq Disclosures(db.log) \cup Disclosures(events)
      /\ db'.log = db.log \cup events => Disclosures(events) \subseteq Disclosures(db'.log)
  BY <1>1, Zenon DEF Disclosures
<1>3. \A s \in received' \ missed' : Recorded(s)'
  <2> TAKE s \in received' \ missed'
  <2>1. CASE s \notin Unlogged
    BY <1>1, <1>2, <2>1, Zenon DEF HistoryInv, Recorded
  <2>2. CASE s \in Unlogged
    BY <1>1, <1>2, <2>2, Zenon DEF Recorded
  <2> QED BY <2>1, <2>2, Zenon
<1>4. \A i \in DOMAIN db'.mdocs : IssuanceEvent(i) \in db'.log \cup missed'
  <2> TAKE i \in DOMAIN db'.mdocs
  <2>1. IssuanceEvent(i) \in db.log \cup missed \cup UnloggedMdoc
    BY <1>1, Zenon DEF HistoryInv
  <2> QED BY <1>1, <2>1, Zenon
<1>5. \A e \in Disclosures(db'.log) :
          e.status = "Success" => \E s \in received' : s.id = e.id /\ s.rp = e.rp
  BY <1>2, Zenon DEF HistoryInv
<1>6. disclosure' # None /\ disclosure'.before /\ opened' => SharedBefore(disclosure)'
  BY DEF HistoryInv, SharedBefore
<1> QED BY <1>1, <1>3, <1>4, <1>5, <1>6, Zenon DEF HistoryInv, Logging

\* A verifier received the attributes of the session, or may have.
LEMMA HistoryReceived ==
    ASSUME HistoryInv, db # None, At("disclose"), UNCHANGED <<db, missed, opened>>,
           received' \in {received, received \cup {Ident(disclosure)}},
           \/ /\ op' = [at |-> "log_success", session |-> disclosure] /\ disclosure' = None
              /\ Ident(disclosure) \in received'
           \/ op' = [at |-> "log_error", data |-> TRUE, blocked |-> FALSE] /\ disclosure' = disclosure
    PROVE  HistoryInv'
<1>1. Unlogged = {} /\ UnloggedMdoc = {}
  BY NothingWaits, Zenon DEF Logging
<1>2. Unlogged' = {Ident(disclosure)} \cap received'
  BY DEF Unlogged
<1>3. \A s \in received' \ (missed' \cup Unlogged') : Recorded(s)'
  BY <1>1, <1>2, Zenon DEF HistoryInv, Recorded
<1>4. \A i \in DOMAIN db'.mdocs : IssuanceEvent(i) \in db'.log \cup missed'
  BY <1>1, Zenon DEF HistoryInv
<1>5. \A e \in Disclosures(db'.log) :
          e.status = "Success" => \E s \in received' : s.id = e.id /\ s.rp = e.rp
  BY Zenon DEF HistoryInv
<1>6. disclosure' # None /\ disclosure'.before /\ opened' => SharedBefore(disclosure)'
  <2>1. received \subseteq received'
    OBVIOUS
  <2>2. CASE disclosure' = None BY <2>2, Zenon
  <2>3. CASE disclosure' = disclosure
    BY <2>1, <2>3, Zenon DEF HistoryInv, SharedBefore
  <2> QED BY <2>2, <2>3, Zenon
<1>7. /\ op'.at \in {"log_success", "log_error"}
      /\ op'.at = "log_error" => op'.data = TRUE
      /\ op'.at = "log_success" => op'.session = disclosure /\ Ident(disclosure) \in received'
  OBVIOUS
<1>8. At("log_success")' => Ident(op'.session) \in received'
  BY <1>7, Zenon
<1>9. ~(At("log_error")' /\ op'.data # TRUE) /\ op'.at \notin Clearing
  BY <1>7, Zenon DEF Clearing
<1> QED BY <1>3, <1>4, <1>5, <1>6, <1>8, <1>9, Zenon DEF HistoryInv

LEMMA HistoryStep == StepsInv /\ UsageInv /\ HistoryInv /\ [WalletNext]_walletVars => HistoryInv'
<1> SUFFICES ASSUME StepsInv, UsageInv, HistoryInv, [WalletNext]_walletVars PROVE HistoryInv'
  OBVIOUS
<1> USE DEF Clearing, Registering, Starting, Working, Logging
<1>0. op.at \in Working => opened /\ db # None
  BY Zenon DEF StepsInv, UsageInv
<1>a. op.at \in {"clear_key_file", "clear_key", "delete_hw_key"} => ~opened
  BY Zenon DEF HistoryInv
<1>b. op.at \in Registering \cup Starting => disclosure = None
  BY Zenon DEF StepsInv
<1>1. CASE Start BY <1>1, HistoryQuiet, Zenon DEF Start, SameHistory
<1>2. CASE Crash
  <2>1. /\ op' = [at |-> "down"] /\ opened' = FALSE /\ UNCHANGED <<db, received>>
        /\ missed' = missed \cup Unlogged \cup UnloggedMdoc
    BY <1>2, Zenon DEF Crash
  <2> QED BY <2>1, Zenon DEF HistoryInv, Recorded
<1>3. CASE StartKeyFile \/ RegisterKeyFile
  BY <1>3, <1>b, HistoryQuiet DEF StartKeyFile, RegisterKeyFile, get_or_create_key_file, SameHistory
<1>4. CASE StartOpen \/ RegisterOpen
  BY <1>4, HistoryOpen, Zenon DEF StartOpen, RegisterOpen
<1>5. CASE StartFetch
  BY <1>5, <1>b, HistoryQuiet DEF StartFetch, SameHistory
<1>6. CASE Register \/ RegisterReply
  BY <1>6, HistoryQuiet DEF Register, RegisterReply, SameHistory
<1>7. CASE RegisterInsert
  <2>1. op.at = "register_insert" /\ op' = [at |-> "idle"] /\ UNCHANGED <<received, missed, disclosure, opened>>
    BY <1>7, Zenon DEF RegisterInsert
  <2>2. SameHistory
    <3>1. CASE db' = db BY <3>1, Zenon DEF SameHistory
    <3>2. CASE db' = [db EXCEPT !.reg = keys.hw]
      <4>1. db # None
        BY <2>1, Zenon DEF UsageInv
      <4>2. db' = [secret |-> db.secret, reg |-> keys.hw, mdocs |-> db.mdocs, log |-> db.log]
        BY <3>2, <4>1, Zenon DEF UsageInv
      <4> QED BY <4>1, <4>2, Distinct, Zenon DEF SameHistory
    <3> QED BY <1>7, <3>1, <3>2, Zenon DEF RegisterInsert
  <2> QED BY <2>1, <2>2, HistoryQuiet, Zenon
<1>8. CASE lock \/ unlock
  BY <1>8, HistoryQuiet DEF lock, unlock, SameHistory
<1>9. CASE reset \/ accept_pid_issuance_blocked
  BY <1>9, HistoryQuiet DEF reset, accept_pid_issuance_blocked, ResetBegins, Unlocked, SameHistory
<1>10. CASE ClearDatabase
  <2>1. op.at = "clear_database" /\ op' = [at |-> "clear_key_file"] /\ opened' = FALSE /\ disclosure' = disclosure
    BY <1>10, Zenon DEF ClearDatabase
  <2>2. CASE db' = None /\ received' = {}
    BY <2>1, <2>2, Zenon DEF HistoryInv
  <2>3. CASE UNCHANGED <<db, received, missed>>
    BY <2>1, <2>3, HistoryQuiet, Zenon DEF SameHistory
  <2> QED BY <1>10, <2>2, <2>3, Zenon DEF ClearDatabase
<1>11. CASE ClearKeyFile \/ ClearKey
  BY <1>11, <1>a, HistoryQuiet DEF ClearKeyFile, ClearKey, SameHistory
<1>12. CASE DeleteHwKey
  BY <1>12, <1>a, HistoryQuiet, Zenon DEF DeleteHwKey, SameHistory
<1>13. CASE create_pid_issuance_auth_url \/ continue_pid_issuance \/ cancel_pid_issuance
  BY <1>13, HistoryQuiet
  DEF create_pid_issuance_auth_url, continue_pid_issuance, cancel_pid_issuance, Unlocked, SameHistory
<1>14. CASE accept_pid_issuance
  BY <1>14, HistoryQuiet DEF accept_pid_issuance, Unlocked, SameHistory
<1>15. CASE InsertMdocs
  <2>1. /\ op.at = "insert_mdocs" /\ db # None
        /\ UNCHANGED <<received, missed, disclosure, opened>>
    BY <1>0, <1>15, Zenon DEF InsertMdocs
  <2>2. CASE db' = db /\ op' = [at |-> "idle"]
    BY <2>1, <2>2, HistoryQuiet, Zenon DEF SameHistory
  <2>3. CASE db' = [db EXCEPT !.mdocs = Append(@, [c \in Copies |-> 0])] /\ op' = [at |-> "log_issuance"]
    <3> DEFINE zero == [c \in Copies |-> 0]
    <3>1. db' = [secret |-> db.secret, reg |-> db.reg, mdocs |-> Append(db.mdocs, zero), log |-> db.log]
      BY <2>1, <2>3, Zenon DEF UsageInv
    <3>2. db' # None /\ db'.mdocs = Append(db.mdocs, zero) /\ db'.log = db.log
      BY <3>1, Distinct, Zenon
    <3>3. DOMAIN db'.mdocs = DOMAIN db.mdocs \cup {Len(db'.mdocs)}
      <4>1. db.mdocs \in Seq(Counts) /\ zero \in Counts
        BY <2>1, Zenon DEF UsageInv, Counts
      <4> HIDE DEF zero
      <4> QED BY <3>2, <4>1
    <3>4. Unlogged = {} /\ UnloggedMdoc = {} /\ Unlogged' = {} /\ UnloggedMdoc' = {IssuanceEvent(Len(db'.mdocs))}
      BY <2>1, <2>3, NothingWaits, Zenon DEF Unlogged, UnloggedMdoc
    <3>5. \A i \in DOMAIN db'.mdocs : IssuanceEvent(i) \in db'.log \cup missed' \cup UnloggedMdoc'
      BY <2>1, <3>2, <3>3, <3>4, Zenon DEF HistoryInv
    <3>6. \A s \in received' \ missed' : Recorded(s)'
      BY <2>1, <3>2, <3>4, Zenon DEF HistoryInv, Recorded
    <3>7. disclosure' # None /\ disclosure'.before /\ opened' => SharedBefore(disclosure)'
      BY <2>1, Zenon DEF HistoryInv, SharedBefore
    <3>8. \A e \in Disclosures(db'.log) :
              e.status = "Success" => \E s \in received' : s.id = e.id /\ s.rp = e.rp
      BY <2>1, <3>2, Zenon DEF HistoryInv
    <3> QED BY <2>3, <3>2, <3>4, <3>5, <3>6, <3>7, <3>8, Zenon DEF HistoryInv
  <2> QED BY <1>15, <2>2, <2>3, Zenon DEF InsertMdocs
<1>16. CASE LogIssuance
  <2>1. /\ op.at = "log_issuance" /\ op' = [at |-> "idle"] /\ UNCHANGED <<received, disclosure, opened>>
        /\ store_history_event({IssuanceEvent(Len(db.mdocs))}, UnloggedMdoc)
    BY <1>16, Zenon DEF LogIssuance
  <2>2. Unlogged = {} /\ UnloggedMdoc = {IssuanceEvent(Len(db.mdocs))}
    BY <2>1, Zenon DEF Unlogged, UnloggedMdoc
  <2>3. Disclosures({IssuanceEvent(Len(db.mdocs))}) = {}
    BY EventFields, Zenon DEF Disclosures
  <2> QED BY <1>0, <2>1, <2>2, <2>3, HistoryStored, Zenon
<1>17. ASSUME NEW rp \in RelyingParties, start_disclosure(rp) PROVE HistoryInv'
  <2>1. op.at = "idle" /\ UNCHANGED <<db, opened, op, received, missed>> /\ opened /\ db # None
    BY <1>17, Zenon DEF start_disclosure, Unlocked, UsageInv
  <2>2. disclosure'.rp = rp /\ disclosure'.before = did_share_data(rp)
    BY <1>17 DEF start_disclosure, Session
  <2>3. did_share_data(rp) => \E s \in received : s.rp = rp
    BY <2>1, Zenon DEF did_share_data, HistoryInv
  <2>4. disclosure' # None /\ disclosure'.before /\ opened' => SharedBefore(disclosure)'
    BY <2>1, <2>2, <2>3, Zenon DEF SharedBefore
  <2>5. Unlogged' = Unlogged /\ UnloggedMdoc' = UnloggedMdoc
    BY <2>1, Zenon DEF Unlogged, UnloggedMdoc
  <2> QED BY <2>1, <2>4, <2>5, Zenon DEF HistoryInv, Recorded
<1>18. CASE cancel_disclosure
  BY <1>18, HistoryQuiet, Zenon DEF cancel_disclosure, Terminating, Unlocked, SameHistory
<1>19. CASE Terminate
  <2>1. /\ op.at = "terminate" /\ UNCHANGED <<db, received, missed, disclosure, opened>>
        /\ op' = [op EXCEPT !.at = "log_cancelled"] \/ op' = [at |-> "idle"]
    BY <1>19, Zenon DEF Terminate, Terminated
  <2>2. op'.at \in {"log_cancelled", "idle"}
    BY <2>1 DEF StepsInv
  <2> QED BY <2>1, <2>2, HistoryQuiet, Zenon DEF SameHistory
<1>20. CASE LogCancelled
  <2>1. /\ op.at = "log_cancelled" /\ op' = [at |-> "idle"] /\ UNCHANGED <<received, disclosure, opened>>
        /\ store_history_event({}, {})
    BY <1>20, Zenon DEF LogCancelled, Terminated
  <2>2. Unlogged = {} /\ UnloggedMdoc = {} /\ Disclosures({}) = {}
    BY <2>1, NothingWaits, Zenon DEF Disclosures
  <2> QED BY <1>0, <2>1, <2>2, HistoryStored, Zenon
<1>21. CASE accept_disclosure
  BY <1>21, HistoryQuiet, Zenon DEF accept_disclosure, Unlocked, SameHistory
<1>22. CASE IncrementUsageCount
  <2>1. /\ op.at = "increment" /\ db # None /\ UNCHANGED <<received, missed, disclosure, opened>>
        /\ Proposal(disclosure)
    BY <1>0, <1>22, Zenon DEF IncrementUsageCount, UsageInv
  <2>2. op'.at \in {"disclose", "log_error"}
    BY <1>22 DEF IncrementUsageCount, Failing
  <2>3. SameHistory
    <3>1. CASE db' = db BY <3>1, Zenon DEF SameHistory
    <3>2. CASE db' = [db EXCEPT !.mdocs[disclosure.mdoc][disclosure.copy] = @ + 1]
      <4> DEFINE more == Bumped(db.mdocs, disclosure.mdoc, disclosure.copy)
      <4>1. db' = [db EXCEPT !.mdocs = more]
        BY <3>2, Zenon DEF Bumped
      <4>2. DOMAIN more = DOMAIN db.mdocs
        BY Zenon DEF Bumped
      <4> HIDE DEF more
      <4>3. db' = [secret |-> db.secret, reg |-> db.reg, mdocs |-> more, log |-> db.log]
        BY <2>1, <4>1, Zenon DEF UsageInv
      <4> QED BY <2>1, <4>2, <4>3, Distinct, Zenon DEF SameHistory
    <3> QED BY <1>22, <3>1, <3>2, Zenon DEF IncrementUsageCount
  <2> QED BY <2>1, <2>2, <2>3, HistoryQuiet, Zenon
<1>23. CASE DiscloseNotSent
  BY <1>23, HistoryQuiet DEF DiscloseNotSent, Failing, SameHistory
<1>24. CASE DiscloseNoAnswer
  BY <1>0, <1>24, HistoryReceived, Zenon DEF DiscloseNoAnswer, Failing, Receives
<1>25. CASE Disclose
  BY <1>0, <1>25, HistoryReceived, Zenon DEF Disclose, Receives
<1>26. CASE LogError
  <2> DEFINE events == IF op.data THEN {DisclosureEvent(disclosure, "Error")} ELSE {}
  <2>1. /\ op.at = "log_error" /\ UNCHANGED <<received, opened>>
        /\ op'.at \in {"terminate", "idle"} /\ disclosure' \in {disclosure, None}
        /\ store_history_event(events, Unlogged)
    BY <1>26 DEF LogError, Terminating
  <2>2. Unlogged = {Ident(disclosure)} \cap received /\ UnloggedMdoc = {}
    BY <2>1, Zenon DEF Unlogged, UnloggedMdoc
  <2>3. \A s \in (Unlogged \cap received) \ missed : Recorded(s) \/ \E e \in Disclosures(events) : e.id = s.id
    <3>1. CASE op.data = TRUE
      BY <2>2, <3>1, EventFields, SMTT(30) DEF Disclosures
    <3>2. CASE op.data # TRUE
      BY <1>0, <2>1, <3>2, Zenon DEF HistoryInv
    <3> QED BY <3>1, <3>2, Zenon
  <2>4. \A e \in Disclosures(events) : e.status # "Success"
    BY EventFields, Zenon DEF Disclosures
  <2> HIDE DEF events
  <2> QED BY <1>0, <2>1, <2>2, <2>3, <2>4, HistoryStored, Zenon
<1>27. CASE LogSuccess
  <2> DEFINE events == {DisclosureEvent(op.session, "Success")}
  <2>1. /\ op.at = "log_success" /\ op' = [at |-> "idle"] /\ UNCHANGED <<received, opened, disclosure>>
        /\ store_history_event(events, Unlogged)
    BY <1>27, Zenon DEF LogSuccess
  <2>2. Unlogged = {Ident(op.session)} /\ UnloggedMdoc = {} /\ Ident(op.session) \in received
    BY <2>1, Zenon DEF Unlogged, UnloggedMdoc, HistoryInv
  <2>3. \A s \in Unlogged : \E e \in Disclosures(events) : e.id = s.id
    BY <2>2, EventFields DEF Disclosures
  <2>4. \A e \in Disclosures(events) : \E s \in received : s.id = e.id /\ s.rp = e.rp
    BY <2>2, EventFields DEF Disclosures
  <2> HIDE DEF events
  <2> QED BY <1>0, <2>1, <2>2, <2>3, <2>4, HistoryStored, Zenon
<1>28. CASE UNCHANGED walletVars
  BY <1>28, Zenon DEF walletVars, HistoryInv, Recorded, SharedBefore, Unlogged, UnloggedMdoc
<1> QED
  BY <1>1, <1>2, <1>3, <1>4, <1>5, <1>6, <1>7, <1>8, <1>9, <1>10, <1>11, <1>12, <1>13, <1>14,
     <1>15, <1>16, <1>17, <1>18, <1>19, <1>20, <1>21, <1>22, <1>23, <1>24, <1>25, <1>26, <1>27, <1>28
  DEF WalletNext

-----------------------------------------------------------------------------

LEMMA WalletInv == WalletSpec => [](StepsInv /\ DiskInv /\ UsageInv)
<1>1. WalletInit => StepsInv /\ DiskInv /\ UsageInv
  BY StepsInit, DiskInit, UsageInit, Zenon
<1>2. StepsInv /\ DiskInv /\ UsageInv /\ [WalletNext]_walletVars => StepsInv' /\ DiskInv' /\ UsageInv'
  BY StepsStep, DiskStep, UsageStep, Zenon
<1> QED BY <1>1, <1>2, PTL DEF WalletSpec

\* The order in which open makes the key, the key file and the database, and clear
\* deletes them, is right for every point at which the app may be killed.
THEOREM DatabaseOpens == WalletSpec => []DatabaseReadable
<1>1. DiskInv => DatabaseReadable
  BY Zenon DEF DiskInv, DatabaseReadable
<1> QED BY <1>1, WalletInv, PTL

\* A certificate in the database or in memory is for the hardware key in the phone:
\* register and reset_to_initial_state never leave one for another key. After a
\* reset no issuance or disclosure session is left, also when the reset follows from
\* a blocked account in the middle of one.
THEOREM RegistrationFits == WalletSpec => []OneRegistration
<1>1. DiskInv => RegistrationUsable
  BY Zenon DEF DiskInv, RegistrationUsable
<1>2. StepsInv => SessionsNeedRegistration
  BY Zenon DEF StepsInv, SessionsNeedRegistration, Clearing
<1> QED BY <1>1, <1>2, WalletInv, PTL DEF OneRegistration

\* However often a disclosure is tried, fails or is interrupted, the wallet has
\* counted at least as many uses of a copy as verifiers have received.
THEOREM UsesAreCounted == WalletSpec => []UsageCounted
<1>1. UsageInv => UsageCounted
  BY Zenon DEF UsageInv, UsageCounted
<1> QED BY <1>1, WalletInv, PTL

\* The history tells exactly what happened: whatever was received by a verifier or
\* stored as an mdoc has its event, unless that event was lost in a crash or by a
\* failing write, and a success, or data shared before, is told only if it is true.
THEOREM HistoryIsExact == WalletSpec => []HistoryExact
<1>1. HistoryInv => HistoryExact
  BY Zenon DEF HistoryInv, HistoryExact, HistoryComplete, HistoryTrue, Recorded, SharedBefore
<1> QED BY <1>1, HistoryInit, HistoryStep, WalletInv, PTL DEF WalletSpec
=============================================================================
