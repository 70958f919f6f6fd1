----------------------- MODULE DisclosureAndLoginProofs ----------------------
(***************************************************************************)
(* The verifier's sessions, for any devices, sessions and requests handled *)
(* at a time, for either session store and any cleanup: what a disclosure  *)
(* session ends with was sent by the device that was asked for it, and a   *)
(* session that has ended undisturbed keeps its result.                    *)
(*                                                                         *)
(* The DigiD session of the wallet, for any number of logins, any order of *)
(* redirects, any failures and whatever the register, the converter and    *)
(* the issuer answer: the PID that is shown is that of the own login.      *)
(***************************************************************************)
EXTENDS MCDisclosureSessions, DigidSession, TLAPS

\* A session may have this data: a response in it answers a request that was sent
\* to that device in that session.
Fits(t, data) ==
    /\ data.state \in {"WaitingForResponse", "Done"} => data.redirect \in {0, data.nonce}
    /\ data.state = "Done" => <<t, data.nonce, data.from>> \in asked

IsRow(row) ==
    IF backend = "memory" THEN row = [data |-> row.data, age |-> row.age]
    ELSE row = [data |-> row.data, age |-> row.age, status |-> row.status]

\* The session store: its rows, and the cleanup that is for its kind of store.
RowsInv ==
    /\ backend \in {"memory", "postgres"}
    /\ rows = [t \in Tokens |-> rows[t]]
    /\ \A t \in Tokens : Exists(t) => IsRow(rows[t])
    /\ sweep = [phase |-> sweep.phase, age |-> sweep.age, left |-> sweep.left]
    /\ sweep.phase \in {"retain", "expire"} => backend = "memory"
    /\ sweep.phase = "transaction" => backend = "postgres"

IsDevice(r) ==
    r = [phase |-> r.phase, tok |-> r.tok, type |-> r.type, age |-> r.age, nonce |-> r.nonce,
         wait |-> r.wait]

\* A device waits for a handler of its own request, and was asked what it answers.
RequestsInv ==
    /\ hand = [h \in Handlers |-> hand[h]]
    /\ dev = [d \in Devices |-> dev[d]]
    /\ \A d \in Devices :
          /\ IsDevice(dev[d])
          /\ dev[d].phase # "away" => dev[d].tok \in Tokens
          /\ dev[d].phase = "authorized" => <<dev[d].tok, dev[d].nonce, d>> \in asked
    /\ \A h \in Handlers : hand[h].pc # "idle" =>
          /\ hand[h].tok \in Tokens /\ hand[h].dev \in Devices
          /\ dev[hand[h].dev].wait = h => dev[hand[h].dev].tok = hand[h].tok
          /\ hand[h].pc = "post" => Fits(hand[h].tok, hand[h].next)

SessionsFit == \A t \in Tokens : Exists(t) => Fits(t, get(t).data)

DisclosureInv == RowsInv /\ RequestsInv /\ SessionsFit

\* A session that was seen to have ended is never handled again: its token is not
\* given out a second time, and a request for it finds it in the wrong state.
EndedInv ==
    /\ ended = [t \in Tokens |-> ended[t]]
    /\ \A t \in Tokens : Exists(t) => t \in started
    /\ \A h \in Handlers : hand[h].pc # "idle" => hand[h].tok \in started
    /\ \A t \in Tokens : ended[t] # "none" =>
          /\ ended[t] \in Ends /\ t \in started /\ Quiet(t)
          /\ Exists(t) => get(t).data.state \in {ended[t], "Expired"}

-----------------------------------------------------------------------------
(* The session store.                                                       *)

\* A write replaces the data of one session, unless Postgres holds it expired.
LEMMA WriteRows ==
    ASSUME RowsInv, NEW t \in Tokens, NEW data, NEW lag, write(t, data, lag), UNCHANGED sweep
    PROVE  /\ RowsInv'
           /\ \A u \in Tokens \ {t} : Exists(u)' = Exists(u) /\ get(u)' = get(u)
           /\ get(t)'.data \in {data, expired}
<1>0. PICK new : new = Written(t, data, lag)
  OBVIOUS
<1>1. backend' = backend /\ rows' = [rows EXCEPT ![t] = new]
  BY <1>0, Zenon DEF write
<1>2. /\ rows'[t] = new /\ \A u \in Tokens \ {t} : rows'[u] = rows[u]
      /\ rows' = [u \in Tokens |-> rows'[u]]
  BY <1>1, Zenon DEF RowsInv
<1>3. CASE backend = "memory"
  <2>1. new = [data |-> data, age |-> lag]
    BY <1>0, <1>3, Zenon DEF Written
  <2>2. IsRow(new)'
    BY <1>1, <1>3, <2>1, Zenon DEF IsRow
  <2>3. RowsInv'
    BY <1>1, <1>2, <2>2, Zenon DEF RowsInv, Exists, IsRow
  <2> QED BY <1>1, <1>2, <1>3, <2>1, <2>3, Zenon DEF get, Exists
<1>4. CASE backend # "memory"
  <2>1. PICK status : new = [data |-> data, age |-> lag, status |-> status]
    BY <1>0, <1>4, Zenon DEF Written
  <2>2. IsRow(new)'
    BY <1>1, <1>4, <2>1, Zenon DEF IsRow
  <2>3. RowsInv'
    BY <1>1, <1>2, <2>2, Zenon DEF RowsInv, Exists, IsRow
  <2> QED BY <1>1, <1>2, <1>4, <2>1, <2>3, Zenon DEF get, Exists
<1> QED BY <1>3, <1>4, Zenon

\* Apart from that, sessions expire or are removed.
LEMMA CleanRows ==
    ASSUME RowsInv, CleanupStep \/ CleanupFails \/ TickStore
    PROVE  /\ RowsInv'
           /\ \A t \in Tokens : Exists(t)' => Exists(t) /\ get(t)'.data \in {get(t).data, expired}
<1> USE DEF RowsInv, Exists, get
<1>1. CASE StartCleanup \/ CleanupFails
  BY <1>1 DEF StartCleanup, CleanupFails, Idle, IsRow
<1>2. ASSUME NEW t \in Tokens, Retain(t) \/ Expire(t)
      PROVE  RowsInv' /\ \A u \in Tokens : Exists(u)' => Exists(u) /\ get(u)'.data \in {get(u).data, expired}
  <2>1. /\ backend = "memory" /\ backend' = backend
        /\ \E p \in {"retain", "expire", "idle"} : \E l, a : sweep' = [phase |-> p, age |-> a, left |-> l]
    <3>1. sweep.phase \in {"retain", "expire"} /\ backend' = backend
      BY <1>2, Zenon DEF Retain, Expire, Visited
    <3>2. [sweep EXCEPT !.phase = "expire", !.left = Tokens] = [phase |-> "expire", age |-> sweep.age, left |-> Tokens]
      <4>1. PICK r : r = [phase |-> "expire", age |-> sweep.age, left |-> sweep.left]
        BY Zenon
      <4>2. [sweep EXCEPT !.phase = "expire"] = r
        BY <4>1
      <4>3. [r EXCEPT !.left = Tokens] = [phase |-> "expire", age |-> sweep.age, left |-> Tokens]
        BY <4>1
      <4> QED BY <4>2, <4>3, Zenon
    <3>3. [sweep EXCEPT !.left = @ \ {t}] = [phase |-> sweep.phase, age |-> sweep.age, left |-> sweep.left \ {t}]
      OBVIOUS
    <3>4. \/ sweep' = [sweep EXCEPT !.phase = "expire", !.left = Tokens]
          \/ sweep' = [sweep EXCEPT !.left = @ \ {t}]
          \/ sweep' = [phase |-> "idle", age |-> 0, left |-> {}]
      BY <1>2, Zenon DEF Retain, Expire, Visited, Idle
    <3> QED BY <3>1, <3>2, <3>3, <3>4, Zenon
  <2>a. /\ sweep' = [phase |-> sweep'.phase, age |-> sweep'.age, left |-> sweep'.left]
        /\ sweep'.phase # "transaction"
    BY <2>1
  <2>2. \/ rows' = rows
        \/ rows' = [rows EXCEPT ![t] = NoSession]
        \/ rows' = [rows EXCEPT ![t] = [data |-> expired, age |-> sweep.age]] /\ Exists(t)
    BY <1>2, Zenon DEF Retain, Expire
  <2>3. CASE rows' = rows
    BY <2>1, <2>a, <2>3, Zenon DEF IsRow
  <2>4. CASE rows' = [rows EXCEPT ![t] = NoSession]
    BY <2>1, <2>a, <2>4, Zenon DEF IsRow
  <2>5. CASE rows' = [rows EXCEPT ![t] = [data |-> expired, age |-> sweep.age]] /\ Exists(t)
    BY <2>1, <2>a, <2>5, Zenon DEF IsRow
  <2> QED BY <2>2, <2>3, <2>4, <2>5, Zenon
<1>3. CASE CommitCleanup
  <2>1. /\ backend = "postgres" /\ backend' = backend /\ sweep' = Idle
        /\ rows' = [t \in Tokens |-> CleanedRow(rows[t])]
    BY <1>3, Zenon DEF CommitCleanup
  <2>2. ASSUME NEW t \in Tokens
        PROVE  \/ rows'[t] = rows[t] \/ rows'[t] = NoSession
               \/ /\ Exists(t)
                  /\ rows'[t] = [data |-> rows[t].data, age |-> sweep.age, status |-> "Expired"]
    <3>1. Exists(t) => [rows[t] EXCEPT !.status = "Expired", !.age = sweep.age]
                       = [data |-> rows[t].data, age |-> sweep.age, status |-> "Expired"]
      <4> SUFFICES ASSUME Exists(t)
                   PROVE  [rows[t] EXCEPT !.status = "Expired", !.age = sweep.age]
                          = [data |-> rows[t].data, age |-> sweep.age, status |-> "Expired"]
        OBVIOUS
      <4>1. PICK r : r = [data |-> rows[t].data, age |-> rows[t].age, status |-> "Expired"]
        BY Zenon
      <4>2. [rows[t] EXCEPT !.status = "Expired"] = r
        BY <2>1, <4>1 DEF IsRow
      <4>3. [r EXCEPT !.age = sweep.age] = [data |-> rows[t].data, age |-> sweep.age, status |-> "Expired"]
        BY <4>1
      <4> QED BY <4>2, <4>3, Zenon
    <3> QED BY <2>1, <3>1, Zenon DEF CleanedRow
  <2>3. RowsInv'
    BY <2>1, <2>2 DEF IsRow, Idle
  <2> QED BY <2>1, <2>2, <2>3
<1>4. CASE TickStore
  <2>1. /\ backend' = backend /\ rows' = [t \in Tokens |-> rows'[t]]
        /\ \A t \in Tokens : rows'[t] = IF Exists(t) THEN [rows[t] EXCEPT !.age = Older(@)] ELSE NoSession
    BY <1>4, Zenon DEF TickStore
  <2>2. ASSUME NEW t \in Tokens, Exists(t)
        PROVE  IsRow(rows[t])' /\ rows'[t].data = rows[t].data
               /\ (backend = "postgres" => rows'[t].status = rows[t].status)
    <3>1. CASE backend = "memory"
      BY <2>1, <2>2, <3>1, Zenon DEF IsRow
    <3>2. CASE backend # "memory"
      BY <2>1, <2>2, <3>2, Zenon DEF IsRow
    <3> QED BY <3>1, <3>2, Zenon
  <2>3. sweep' = [phase |-> sweep.phase, age |-> sweep'.age, left |-> sweep.left]
    BY <1>4, Zenon DEF TickStore
  <2>4. RowsInv'
    BY <2>1, <2>2, <2>3
  <2> QED BY <2>1, <2>2, <2>4, Zenon
<1> QED BY <1>1, <1>2, <1>3, <1>4, Zenon DEF CleanupStep

-----------------------------------------------------------------------------
(* Devices and requests.                                                    *)

Linked(t, type) == [Away EXCEPT !.phase = "linked", !.tok = t, !.type = type]

LEMMA DeviceRecords ==
    /\ IsDevice(Away) /\ Away.phase = "away" /\ Away.wait = NoHandler
    /\ \A h, t : /\ IsDevice(WaitFor(h, t))
                 /\ WaitFor(h, t).phase = "waiting" /\ WaitFor(h, t).tok = t /\ WaitFor(h, t).wait = h
    /\ \A t, type : /\ IsDevice(Linked(t, type)) /\ Linked(t, type).phase = "linked"
                    /\ Linked(t, type).tok = t /\ Linked(t, type).wait = NoHandler
<1> DEFINE R(phase, tok, type, wait) ==
        [phase |-> phase, tok |-> tok, type |-> type, age |-> 0, nonce |-> 0, wait |-> wait]
<1>1. ASSUME NEW h, NEW t PROVE WaitFor(h, t) = R("waiting", t, "CrossDevice", h)
  <2>1. [R("away", 0, "CrossDevice", NoHandler) EXCEPT !.phase = "waiting"]
        = R("waiting", 0, "CrossDevice", NoHandler)
    OBVIOUS
  <2>2. [R("waiting", 0, "CrossDevice", NoHandler) EXCEPT !.tok = t] = R("waiting", t, "CrossDevice", NoHandler)
    OBVIOUS
  <2>3. [R("waiting", t, "CrossDevice", NoHandler) EXCEPT !.wait = h] = R("waiting", t, "CrossDevice", h)
    OBVIOUS
  <2> QED BY <2>1, <2>2, <2>3, Zenon DEF WaitFor, Away
<1>2. ASSUME NEW t, NEW type PROVE Linked(t, type) = R("linked", t, type, NoHandler)
  <2>1. [R("away", 0, "CrossDevice", NoHandler) EXCEPT !.phase = "linked"]
        = R("linked", 0, "CrossDevice", NoHandler)
    OBVIOUS
  <2>2. [R("linked", 0, "CrossDevice", NoHandler) EXCEPT !.tok = t] = R("linked", t, "CrossDevice", NoHandler)
    OBVIOUS
  <2>3. [R("linked", t, "CrossDevice", NoHandler) EXCEPT !.type = type] = R("linked", t, type, NoHandler)
    OBVIOUS
  <2> QED BY <2>1, <2>2, <2>3, Zenon DEF Linked, Away
<1>3. Away = R("away", 0, "CrossDevice", NoHandler)
  BY Zenon DEF Away
<1>4. ASSUME NEW phase, NEW tok, NEW type, NEW wait, NEW r, r = R(phase, tok, type, wait)
      PROVE  IsDevice(r) /\ r.phase = phase /\ r.tok = tok /\ r.wait = wait
  BY <1>4, Zenon DEF IsDevice
<1> HIDE DEF R
<1>5. ASSUME NEW h, NEW t
      PROVE  /\ IsDevice(WaitFor(h, t))
             /\ WaitFor(h, t).phase = "waiting" /\ WaitFor(h, t).tok = t /\ WaitFor(h, t).wait = h
  BY <1>1, <1>4
<1>6. ASSUME NEW t, NEW type
      PROVE  /\ IsDevice(Linked(t, type)) /\ Linked(t, type).phase = "linked"
             /\ Linked(t, type).tok = t /\ Linked(t, type).wait = NoHandler
  BY <1>2, <1>4
<1> QED BY <1>3, <1>4, <1>5, <1>6

\* The records of the requests that are taken up.
Getting(d, t, type) == [NoRequest EXCEPT !.pc = "get", !.dev = d, !.tok = t, !.type = type]
Posting(d, t, data) == [NoRequest EXCEPT !.pc = "post", !.dev = d, !.tok = t, !.next = data]

LEMMA RequestRecords ==
    /\ NoRequest.pc = "idle"
    /\ \A d, t, type : LET r == Getting(d, t, type)
                       IN  r.pc = "get" /\ r.dev = d /\ r.tok = t
    /\ \A d, t, data : LET r == Posting(d, t, data)
                       IN  r.pc = "post" /\ r.dev = d /\ r.tok = t /\ r.next = data
BY Zenon DEF NoRequest, Getting, Posting

\* What a request is answered from stays an answer, as more requests are made.
LEMMA FitsGrows == ASSUME asked \subseteq asked' PROVE \A t, data : Fits(t, data) => Fits(t, data)'
BY Zenon DEF Fits

\* A handler is done, and tells the device if it still waits.
LEMMA HandlerDone ==
    ASSUME RequestsInv, NEW h \in Handlers, hand[h].pc # "idle", NEW told, Tell(h, hand[h].dev, told),
           hand' = [hand EXCEPT ![h] = NoRequest], asked \subseteq asked',
           IsDevice(told), told.wait = NoHandler,
           dev[hand[h].dev].wait = h =>
               /\ told.phase # "away" => told.tok \in Tokens
               /\ told.phase = "authorized" => <<told.tok, told.nonce, hand[h].dev>> \in asked'
    PROVE  RequestsInv'
<1>1. /\ hand' = [k \in Handlers |-> hand'[k]] /\ hand'[h].pc = "idle"
      /\ \A k \in Handlers \ {h} : hand'[k] = hand[k]
  BY RequestRecords, Zenon DEF RequestsInv
<1>2. PICK d \in Devices : d = hand[h].dev
  BY Zenon DEF RequestsInv
<1>3. \/ dev' = dev
      \/ /\ dev[d].wait = h /\ dev' = [e \in Devices |-> dev'[e]]
         /\ dev'[d] = told /\ \A e \in Devices \ {d} : dev'[e] = dev[e]
  BY <1>2, Zenon DEF Tell, RequestsInv
<1>4. dev' = [e \in Devices |-> dev'[e]]
  BY <1>3, Zenon DEF RequestsInv
<1>5. ASSUME NEW e \in Devices
      PROVE  /\ IsDevice(dev[e])'
             /\ dev'[e].phase # "away" => dev'[e].tok \in Tokens
             /\ dev'[e].phase = "authorized" => <<dev'[e].tok, dev'[e].nonce, e>> \in asked'
  BY <1>2, <1>3, Zenon DEF RequestsInv, IsDevice
<1>6. ASSUME NEW k \in Handlers, hand'[k].pc # "idle"
      PROVE  /\ hand'[k].tok \in Tokens /\ hand'[k].dev \in Devices
             /\ dev'[hand'[k].dev].wait = k => dev'[hand'[k].dev].tok = hand'[k].tok
             /\ hand'[k].pc = "post" => Fits(hand[k].tok, hand[k].next)'
  <2>1. k # h /\ hand'[k] = hand[k]
    BY <1>1, <1>6, Zenon
  <2>2. hand[k].pc = "post" => Fits(hand[k].tok, hand[k].next)'
    BY <2>1, <1>6, FitsGrows, Zenon DEF RequestsInv, Fits
  <2>3. dev'[hand[k].dev] = dev[hand[k].dev] \/ dev'[hand[k].dev].wait = NoHandler
    BY <1>3, <1>6, <2>1, Zenon DEF RequestsInv
  <2> QED BY <1>6, <2>1, <2>2, <2>3, DisclosureAssumption DEF RequestsInv
<1> QED BY <1>1, <1>4, <1>5, <1>6, Zenon DEF RequestsInv

\* A handler takes up the request of a device, which waits for it.
LEMMA HandlerTakes ==
    ASSUME RequestsInv, NEW h \in Handlers, hand[h].pc = "idle", NEW d \in Devices, NEW r,
           r.dev = d, r.tok \in Tokens, r.pc = "post" => Fits(r.tok, r.next),
           hand' = [hand EXCEPT ![h] = r], dev' = [dev EXCEPT ![d] = WaitFor(h, r.tok)],
           UNCHANGED asked
    PROVE  RequestsInv'
<1>0. PICK w : w = WaitFor(h, r.tok)
  OBVIOUS
<1>a. IsDevice(w) /\ w.phase = "waiting" /\ w.tok = r.tok /\ w.wait = h
  BY <1>0, DeviceRecords
<1>1. /\ hand' = [k \in Handlers |-> hand'[k]] /\ hand'[h] = r
      /\ \A k \in Handlers \ {h} : hand'[k] = hand[k]
  BY Zenon DEF RequestsInv
<1>2. /\ dev' = [e \in Devices |-> dev'[e]] /\ dev'[d] = w
      /\ \A e \in Devices \ {d} : dev'[e] = dev[e]
  BY <1>0, Zenon DEF RequestsInv
<1>3. ASSUME NEW e \in Devices
      PROVE  /\ IsDevice(dev[e])'
             /\ dev'[e].phase # "away" => dev'[e].tok \in Tokens
             /\ dev'[e].phase = "authorized" => <<dev'[e].tok, dev'[e].nonce, e>> \in asked'
  BY <1>a, <1>2 DEF RequestsInv, IsDevice
<1>4. ASSUME NEW k \in Handlers, hand'[k].pc # "idle"
      PROVE  /\ hand'[k].tok \in Tokens /\ hand'[k].dev \in Devices
             /\ dev'[hand'[k].dev].wait = k => dev'[hand'[k].dev].tok = hand'[k].tok
             /\ hand'[k].pc = "post" => Fits(hand[k].tok, hand[k].next)'
  <2>1. CASE k = h
    BY <1>a, <1>1, <1>2, <2>1, Zenon DEF Fits
  <2>2. CASE k # h
    <3>1. hand'[k] = hand[k]
      BY <1>1, <2>2, Zenon
    <3>2. hand[k].pc = "post" => Fits(hand[k].tok, hand[k].next)'
      BY <1>4, <3>1, FitsGrows, Zenon DEF RequestsInv, Fits
    <3>3. dev'[hand[k].dev] = dev[hand[k].dev] \/ dev'[hand[k].dev].wait = h
      BY <1>a, <1>2, <1>4, <3>1, Zenon DEF RequestsInv
    <3> QED BY <1>4, <2>2, <3>1, <3>2, <3>3 DEF RequestsInv
  <2> QED BY <2>1, <2>2, Zenon
<1> QED BY <1>1, <1>2, <1>3, <1>4, Zenon DEF RequestsInv

\* A device turns to something else; the handlers go on.
LEMMA DeviceLeaves ==
    ASSUME RequestsInv, NEW d \in Devices, NEW told, IsDevice(told), told.wait = NoHandler,
           told.phase \in {"away", "linked"}, told.phase = "linked" => told.tok \in Tokens,
           dev' = [dev EXCEPT ![d] = told], UNCHANGED <<hand, asked>>
    PROVE  RequestsInv'
<1>1. /\ dev' = [e \in Devices |-> dev'[e]] /\ dev'[d] = told
      /\ \A e \in Devices \ {d} : dev'[e] = dev[e]
  BY Zenon DEF RequestsInv
<1>2. ASSUME NEW e \in Devices
      PROVE  /\ IsDevice(dev[e])'
             /\ dev'[e].phase # "away" => dev'[e].tok \in Tokens
             /\ dev'[e].phase = "authorized" => <<dev'[e].tok, dev'[e].nonce, e>> \in asked'
  BY <1>1, Zenon DEF RequestsInv, IsDevice
<1>3. ASSUME NEW k \in Handlers, hand[k].pc # "idle"
      PROVE  /\ dev'[hand[k].dev].wait = k => dev'[hand[k].dev].tok = hand[k].tok
             /\ hand[k].pc = "post" => Fits(hand[k].tok, hand[k].next)'
  BY <1>1, <1>3, DisclosureAssumption, Zenon DEF RequestsInv, Fits
<1> QED BY <1>1, <1>2, <1>3, Zenon DEF RequestsInv

-----------------------------------------------------------------------------
(* What the sessions hold.                                                  *)

LEMMA FitsWrite ==
    ASSUME RowsInv, SessionsFit, NEW t \in Tokens, NEW data, NEW lag, write(t, data, lag),
           UNCHANGED sweep, asked \subseteq asked', Fits(t, data)'
    PROVE  SessionsFit'
<1>1. /\ \A u \in Tokens \ {t} : Exists(u)' = Exists(u) /\ get(u)' = get(u)
      /\ get(t)'.data \in {data, expired}
  BY WriteRows, Zenon
<1>2. ASSUME NEW u \in Tokens, Exists(u)' PROVE Fits(u, get(u).data)'
  <2>1. CASE u = t
    BY <1>1, <2>1 DEF Fits, expired
  <2>2. CASE u # t
    BY <1>1, <1>2, <2>2, Zenon DEF SessionsFit, Fits
  <2> QED BY <2>1, <2>2, Zenon
<1> QED BY <1>2, Zenon DEF SessionsFit

LEMMA FitsClean ==
    ASSUME RowsInv, SessionsFit, CleanupStep \/ CleanupFails \/ TickStore, UNCHANGED asked
    PROVE  SessionsFit'
<1>1. ASSUME NEW t \in Tokens, Exists(t)' PROVE Fits(t, get(t).data)'
  <2>1. Exists(t) /\ get(t)'.data \in {get(t).data, expired}
    BY <1>1, CleanRows, Zenon
  <2> QED BY <2>1 DEF SessionsFit, Fits, expired
<1> QED BY <1>1, Zenon DEF SessionsFit

LEMMA FitsSame == ASSUME UNCHANGED <<backend, rows, asked>>, SessionsFit PROVE SessionsFit'
BY DEF SessionsFit, Fits, Exists, get

LEMMA DisclosureInit == Init => DisclosureInv
<1> SUFFICES ASSUME Init PROVE DisclosureInv
  OBVIOUS
<1>1. RowsInv
  BY Zenon DEF Init, StoreInit, Idle, RowsInv, Exists
<1>2. SessionsFit
  BY Zenon DEF Init, StoreInit, SessionsFit, Exists
<1>3. RequestsInv
  <2>1. hand = [h \in Handlers |-> hand[h]] /\ \A h \in Handlers : hand[h].pc = "idle"
    BY RequestRecords, Zenon DEF Init
  <2>2. dev = [d \in Devices |-> dev[d]] /\ \A d \in Devices : dev[d] = Away
    BY Zenon DEF Init
  <2> QED BY <2>1, <2>2, DeviceRecords, Zenon DEF RequestsInv
<1> QED BY <1>1, <1>2, <1>3, Zenon DEF DisclosureInv

\* What process_authorization_response works out fits the session.
LEMMA NextStateFits ==
    ASSUME RequestsInv, SessionsFit, NEW d \in Devices, dev[d].phase = "authorized",
           InState(dev[d].tok, "WaitingForResponse"), NEW answer
    PROVE  Fits(dev[d].tok, NextState(d, get(dev[d].tok).data, answer))
<1> DEFINE t == dev[d].tok
           data == get(t).data
           next == NextState(d, data, answer)
<1>1. t \in Tokens /\ <<t, dev[d].nonce, d>> \in asked
  BY Zenon DEF RequestsInv
<1>2. data.redirect \in {0, data.nonce}
  BY <1>1, Zenon DEF InState, SessionsFit, Fits
<1>3. \/ next = [state |-> "Cancelled"]
      \/ next = [state |-> "Failed"]
      \/ /\ dev[d].nonce = data.nonce
         /\ next = [state |-> "Done", from |-> d, nonce |-> data.nonce, redirect |-> data.redirect]
  BY Zenon DEF NextState, Verified
<1> SUFFICES Fits(t, next)
  OBVIOUS
<1> HIDE DEF next
<1>4. CASE next = [state |-> "Cancelled"] \/ next = [state |-> "Failed"]
  BY <1>4 DEF Fits
<1>5. CASE /\ dev[d].nonce = data.nonce
           /\ next = [state |-> "Done", from |-> d, nonce |-> data.nonce, redirect |-> data.redirect]
  BY <1>1, <1>2, <1>5, Zenon DEF Fits
<1> QED BY <1>3, <1>4, <1>5, Zenon

LEMMA DisclosureStep == DisclosureInv /\ [Next]_vars => DisclosureInv'
<1> SUFFICES ASSUME DisclosureInv, [Next]_vars PROVE DisclosureInv'
  OBVIOUS
<1> USE DEF DisclosureInv
<1>a. ASSUME UNCHANGED <<backend, rows, sweep, asked>> PROVE RowsInv' /\ SessionsFit'
  BY <1>a, FitsSame, Zenon DEF RowsInv, Exists, IsRow
<1>b. ASSUME UNCHANGED <<hand, dev, asked>> PROVE RequestsInv'
  BY <1>b, Zenon DEF RequestsInv, IsDevice, Fits
<1>1. ASSUME NEW t \in Tokens, new_session(t) PROVE DisclosureInv'
  <2>1. PICK data : data.state = "Created" /\ write(t, data, 0) /\ UNCHANGED <<sweep, dev, hand, asked>>
    BY <1>1, Zenon DEF new_session
  <2>2. Fits(t, data)'
    BY <2>1, Zenon DEF Fits
  <2> QED BY <1>b, <2>1, <2>2, WriteRows, FitsWrite, Zenon
<1>2. ASSUME NEW d \in Devices, NEW t \in Tokens, NEW type \in SessionTypes, Scan(d, t, type)
      PROVE  DisclosureInv'
  <2>1. dev' = [dev EXCEPT ![d] = Linked(t, type)] /\ UNCHANGED <<hand, asked, backend, rows, sweep>>
    BY <1>2, Zenon DEF Scan, Linked, storeVars
  <2>2. PICK told : told = Linked(t, type)
    OBVIOUS
  <2>3. IsDevice(told) /\ told.phase = "linked" /\ told.tok = t /\ told.wait = NoHandler
    BY <2>2, DeviceRecords
  <2>4. RequestsInv'
    BY <2>1, <2>2, <2>3, DeviceLeaves, Zenon
  <2> QED BY <1>a, <2>1, <2>4, Zenon
<1>3. ASSUME NEW h \in Handlers, NEW d \in Devices, GetRequest(h, d) PROVE DisclosureInv'
  <2>1. hand[h].pc = "idle" /\ dev[d].phase = "linked" /\ UNCHANGED <<asked, backend, rows, sweep>>
    BY <1>3, Zenon DEF GetRequest, storeVars
  <2>2. \/ hand' = hand /\ dev' = [dev EXCEPT ![d] = Away]
        \/ \E r : /\ r.pc = "get" /\ r.dev = d /\ r.tok = dev[d].tok
                  /\ hand' = [hand EXCEPT ![h] = r] /\ dev' = [dev EXCEPT ![d] = WaitFor(h, r.tok)]
    <3>1. PICK r : r = Getting(d, dev[d].tok, dev[d].type)
      OBVIOUS
    <3>2. r.pc = "get" /\ r.dev = d /\ r.tok = dev[d].tok
      BY <3>1, RequestRecords
    <3>3. \/ hand' = hand /\ dev' = [dev EXCEPT ![d] = Away]
          \/ hand' = [hand EXCEPT ![h] = r] /\ dev' = [dev EXCEPT ![d] = WaitFor(h, dev[d].tok)]
      BY <1>3, <3>1, Zenon DEF GetRequest, Getting
    <3> QED BY <3>2, <3>3
  <2>3. CASE hand' = hand /\ dev' = [dev EXCEPT ![d] = Away]
    BY <1>a, <2>1, <2>3, DeviceRecords, DeviceLeaves, Zenon
  <2>4. ASSUME NEW r, r.pc = "get", r.dev = d, r.tok = dev[d].tok,
               hand' = [hand EXCEPT ![h] = r], dev' = [dev EXCEPT ![d] = WaitFor(h, r.tok)]
        PROVE  DisclosureInv'
    <3>1. r.tok \in Tokens
      BY <2>1, <2>4, Zenon DEF RequestsInv
    <3> QED BY <1>a, <2>1, <2>4, <3>1, HandlerTakes, Zenon
  <2> QED BY <2>2, <2>3, <2>4, Zenon
<1>4. ASSUME NEW h \in Handlers, NEW d \in Devices, NEW answer \in Answers, PostResponse(h, d, answer)
      PROVE  DisclosureInv'
  <2>0. PICK t, next : t = dev[d].tok /\ next = NextState(d, get(t).data, answer)
    OBVIOUS
  <2>1. hand[h].pc = "idle" /\ dev[d].phase = "authorized" /\ UNCHANGED <<asked, backend, rows, sweep>>
    BY <1>4, Zenon DEF PostResponse, storeVars
  <2>2. \/ hand' = hand /\ dev' = [dev EXCEPT ![d] = Away]
        \/ /\ InState(t, "WaitingForResponse")
           /\ \E r : /\ r.pc = "post" /\ r.dev = d /\ r.tok = t /\ r.next = next
                     /\ hand' = [hand EXCEPT ![h] = r] /\ dev' = [dev EXCEPT ![d] = WaitFor(h, r.tok)]
    <3>1. PICK r : r = Posting(d, t, next)
      OBVIOUS
    <3>2. r.pc = "post" /\ r.dev = d /\ r.tok = t /\ r.next = next
      BY <3>1, RequestRecords
    <3>3. \/ hand' = hand /\ dev' = [dev EXCEPT ![d] = Away]
          \/ /\ InState(t, "WaitingForResponse")
             /\ hand' = [hand EXCEPT ![h] = r] /\ dev' = [dev EXCEPT ![d] = WaitFor(h, t)]
      BY <1>4, <2>0, <3>1, Zenon DEF PostResponse, Posting
    <3> QED BY <3>2, <3>3, Zenon
  <2>3. CASE hand' = hand /\ dev' = [dev EXCEPT ![d] = Away]
    BY <1>a, <2>1, <2>3, DeviceRecords, DeviceLeaves, Zenon
  <2>4. ASSUME InState(t, "WaitingForResponse"),
               NEW r, r.pc = "post", r.dev = d, r.tok = t, r.next = next,
               hand' = [hand EXCEPT ![h] = r], dev' = [dev EXCEPT ![d] = WaitFor(h, r.tok)]
        PROVE  DisclosureInv'
    <3>1. t \in Tokens
      BY <2>0, <2>1, Zenon DEF RequestsInv
    <3>2. Fits(t, next)
      BY <2>0, <2>1, <2>4, NextStateFits, Zenon
    <3> QED BY <1>a, <2>1, <2>4, <3>1, <3>2, HandlerTakes, Zenon
  <2> QED BY <2>2, <2>3, <2>4, Zenon
<1>5. ASSUME NEW h \in Handlers, Authorize(h) PROVE DisclosureInv'
  <2>0. PICK t, d, n, told :
            /\ t = hand[h].tok /\ d = hand[h].dev /\ n = nonces + 1
            /\ told = [dev[d] EXCEPT !.phase = "authorized", !.nonce = n, !.wait = NoHandler]
    BY Zenon
  <2>1. /\ hand[h].pc = "get" /\ hand' = [hand EXCEPT ![h] = NoRequest] /\ Tell(h, d, told)
        /\ asked' = (IF dev[d].wait = h THEN asked \cup {<<t, n, d>>} ELSE asked) /\ UNCHANGED sweep
    BY <1>5, <2>0, Zenon DEF Authorize
  <2>2. t \in Tokens /\ d \in Devices /\ IsDevice(dev[d]) /\ (dev[d].wait = h => dev[d].tok = t)
    BY <2>0, <2>1, Zenon DEF RequestsInv
  <2>3. PICK data, lag : /\ write(t, data, lag)
                         /\ data = Waiting(n, Redirect(hand[h].type, n))
    BY <1>5, <2>0, Zenon DEF Authorize
  <2>4. Fits(t, data)'
    BY <2>3, Zenon DEF Fits, Waiting, Redirect
  <2>5. /\ IsDevice(told) /\ told.phase = "authorized" /\ told.wait = NoHandler
        /\ told.tok = dev[d].tok /\ told.nonce = n
    <3>1. told = [phase |-> "authorized", tok |-> dev[d].tok, type |-> dev[d].type, age |-> dev[d].age,
                  nonce |-> n, wait |-> NoHandler]
      <4>1. PICK r : r = [phase |-> "authorized", tok |-> dev[d].tok, type |-> dev[d].type,
                          age |-> dev[d].age, nonce |-> dev[d].nonce, wait |-> dev[d].wait]
        BY Zenon
      <4>2. [dev[d] EXCEPT !.phase = "authorized"] = r
        BY <2>2, <4>1 DEF IsDevice
      <4>3. PICK s : s = [phase |-> "authorized", tok |-> dev[d].tok, type |-> dev[d].type,
                          age |-> dev[d].age, nonce |-> n, wait |-> dev[d].wait]
        BY Zenon
      <4>4. [r EXCEPT !.nonce = n] = s
        BY <4>1, <4>3
      <4>5. [s EXCEPT !.wait = NoHandler]
            = [phase |-> "authorized", tok |-> dev[d].tok, type |-> dev[d].type,
               age |-> dev[d].age, nonce |-> n, wait |-> NoHandler]
        BY <4>3
      <4> QED BY <2>0, <4>2, <4>4, <4>5, Zenon
    <3> QED BY <3>1, Zenon DEF IsDevice
  <2>6. asked \subseteq asked'
    BY <2>1, Zenon
  <2>7. RequestsInv'
    <3>1. dev[d].wait = h => told.tok \in Tokens /\ <<told.tok, told.nonce, d>> \in asked'
      BY <2>1, <2>2, <2>5, Zenon
    <3> QED BY <2>0, <2>1, <2>5, <2>6, <3>1, HandlerDone, Zenon
  <2> QED BY <2>1, <2>2, <2>3, <2>4, <2>6, <2>7, WriteRows, FitsWrite, Zenon
<1>6. ASSUME NEW h \in Handlers, AuthorizeFails(h) \/ Finish(h) PROVE DisclosureInv'
  <2>1. /\ hand[h].pc \in {"get", "post"} /\ hand' = [hand EXCEPT ![h] = NoRequest]
        /\ Tell(h, hand[h].dev, Away) /\ UNCHANGED <<sweep, asked>>
    BY <1>6, Zenon DEF AuthorizeFails, Finish
  <2>2. hand[h].tok \in Tokens /\ (hand[h].pc = "post" => Fits(hand[h].tok, hand[h].next))
    BY <2>1, Zenon DEF RequestsInv
  <2>3. PICK data, lag : /\ write(hand[h].tok, data, lag)
                         /\ data = [state |-> "Failed"] \/ (hand[h].pc = "post" /\ data = hand[h].next)
    BY <1>6, Zenon DEF AuthorizeFails, Finish
  <2>4. PICK t : t = hand[h].tok
    OBVIOUS
  <2>5. Fits(t, data)'
    BY <2>1, <2>2, <2>3, <2>4 DEF Fits
  <2>6. RequestsInv'
    BY <2>1, DeviceRecords, HandlerDone, Zenon
  <2> QED BY <2>1, <2>2, <2>3, <2>4, <2>5, <2>6, WriteRows, FitsWrite, Zenon
<1>7. ASSUME NEW h \in Handlers, Abort(h) PROVE DisclosureInv'
  <2>1. /\ hand[h].pc # "idle" /\ hand' = [hand EXCEPT ![h] = NoRequest]
        /\ Tell(h, hand[h].dev, Away) /\ UNCHANGED <<backend, rows, sweep, asked>>
    BY <1>7, Zenon DEF Abort, storeVars
  <2> QED BY <1>a, <2>1, DeviceRecords, HandlerDone, Zenon
<1>8. CASE Clean
  <2>1. (CleanupStep \/ CleanupFails) /\ UNCHANGED <<hand, dev, asked>>
    BY <1>8, Zenon DEF Clean, verifierVars
  <2> QED BY <1>b, <2>1, CleanRows, FitsClean, Zenon
<1>9. CASE Tick
  <2>1. TickStore /\ UNCHANGED <<hand, asked>> /\ dev' = [d \in Devices |-> dev'[d]]
    BY <1>9, Zenon DEF Tick
  <2>2. ASSUME NEW d \in Devices
        PROVE  /\ IsDevice(dev[d])' /\ dev'[d].phase = dev[d].phase /\ dev'[d].tok = dev[d].tok
               /\ dev'[d].nonce = dev[d].nonce /\ dev'[d].wait = dev[d].wait
    <3>1. IsDevice(dev[d])
      BY Zenon DEF RequestsInv
    <3>2. dev'[d] = dev[d] \/ dev'[d] = [dev[d] EXCEPT !.age = @ + 1]
      BY <1>9, Zenon DEF Tick
    <3> QED BY <3>1, <3>2, Zenon DEF IsDevice
  <2>3. RequestsInv'
    BY <2>1, <2>2 DEF RequestsInv, Fits
  <2> QED BY <2>1, <2>3, CleanRows, FitsClean, Zenon
<1>10. CASE UNCHANGED vars
  BY <1>a, <1>b, <1>10, Zenon DEF vars, storeVars, verifierVars
<1> QED
  BY <1>1, <1>2, <1>3, <1>4, <1>5, <1>6, <1>7, <1>8, <1>9, <1>10, Zenon DEF Next, Handle

\* The attributes that a relying party gets from a session were sent by the device
\* that this session asked for them, with the nonce and the redirect URI of that
\* request, however many devices follow the same link and however their requests
\* overlap (process_get_request, process_authorization_response).
THEOREM AnswersAreAsked == Spec => []AnsweredOwnRequest
<1>1. DisclosureInv => AnsweredOwnRequest
  BY Zenon DEF DisclosureInv, SessionsFit, Fits, AnsweredOwnRequest, InState
<1> QED BY <1>1, DisclosureInit, DisclosureStep, PTL DEF Spec

-----------------------------------------------------------------------------
(* How sessions end.                                                        *)

\* A session that a step leaves alone, but for the cleanup of the store.
LeftAlone(t) == Exists(t)' => Exists(t) /\ get(t)'.data \in {get(t).data, expired}

\* Only a new session, or one whose request is being handled, is written to, and
\* a request is taken up only for a session that has not ended.
StepKeeps ==
    /\ started \subseteq started'
    /\ \A t \in Tokens :
          \/ LeftAlone(t)
          \/ t \in started' \ started
          \/ \E h \in Handlers : hand[h].pc # "idle" /\ hand[h].tok = t
    /\ \A h \in Handlers : hand'[h].pc # "idle" =>
          \/ hand[h].pc # "idle" /\ hand'[h].tok = hand[h].tok
          \/ \E s \in {"Created", "WaitingForResponse"} : InState(hand'[h].tok, s)

LEMMA NextKeeps == ASSUME DisclosureInv, [Next]_vars PROVE StepKeeps
<1> USE DEF DisclosureInv
<1>a. ASSUME UNCHANGED <<backend, rows>> PROVE \A t \in Tokens : LeftAlone(t)
  BY <1>a, Zenon DEF LeftAlone, Exists, get
<1>b. ASSUME NEW h \in Handlers, hand' = [hand EXCEPT ![h] = NoRequest], NEW k \in Handlers, hand'[k].pc # "idle"
      PROVE  hand[k].pc # "idle" /\ hand'[k].tok = hand[k].tok
  <2>1. hand'[h] = NoRequest /\ \A i \in Handlers \ {h} : hand'[i] = hand[i]
    BY <1>b, Zenon DEF RequestsInv
  <2> QED BY <1>b, <2>1, RequestRecords, Zenon
<1>c. ASSUME NEW t \in Tokens, NEW data, NEW lag, write(t, data, lag), UNCHANGED sweep, NEW u \in Tokens, u # t
      PROVE  LeftAlone(u)
  BY <1>c, WriteRows, Zenon DEF LeftAlone
<1>1. ASSUME NEW t \in Tokens, new_session(t) PROVE StepKeeps
  <2>1. started' = started \cup {t} /\ t \notin started /\ UNCHANGED <<sweep, hand>>
    BY <1>1, Zenon DEF new_session
  <2>2. PICK data : write(t, data, 0)
    BY <1>1, Zenon DEF new_session
  <2>3. \A u \in Tokens \ {t} : LeftAlone(u)
    BY <1>c, <2>1, <2>2, Zenon
  <2> QED BY <2>1, <2>3, Zenon DEF StepKeeps
<1>2. ASSUME NEW d \in Devices, NEW t \in Tokens, NEW type \in SessionTypes, Scan(d, t, type)
      PROVE  StepKeeps
  BY <1>2, <1>a, Zenon DEF Scan, storeVars, StepKeeps
<1>3. ASSUME NEW h \in Handlers, NEW d \in Devices, GetRequest(h, d) PROVE StepKeeps
  <2>1. UNCHANGED <<backend, rows, started>>
    BY <1>3, Zenon DEF GetRequest, storeVars
  <2>2. PICK r : r = Getting(d, dev[d].tok, dev[d].type)
    OBVIOUS
  <2>3. hand' = hand \/ (hand' = [hand EXCEPT ![h] = r] /\ InState(dev[d].tok, "Created"))
    BY <1>3, <2>2, Zenon DEF GetRequest, Getting
  <2>4. r.tok = dev[d].tok
    BY <2>2, RequestRecords
  <2>5. CASE hand' = hand BY <1>a, <2>1, <2>5, Zenon DEF StepKeeps
  <2>6. CASE hand' = [hand EXCEPT ![h] = r] /\ InState(dev[d].tok, "Created")
    <3>1. hand'[h] = r /\ \A k \in Handlers \ {h} : hand'[k] = hand[k]
      BY <2>6, Zenon DEF RequestsInv
    <3> QED BY <1>a, <2>1, <2>4, <2>6, <3>1, Zenon DEF StepKeeps
  <2> QED BY <2>3, <2>5, <2>6, Zenon
<1>4. ASSUME NEW h \in Handlers, NEW d \in Devices, NEW answer \in Answers, PostResponse(h, d, answer)
      PROVE  StepKeeps
  <2>1. UNCHANGED <<backend, rows, started>>
    BY <1>4, Zenon DEF PostResponse, storeVars
  <2>2. PICK r : r = Posting(d, dev[d].tok, NextState(d, get(dev[d].tok).data, answer))
    OBVIOUS
  <2>3. hand' = hand \/ (hand' = [hand EXCEPT ![h] = r] /\ InState(dev[d].tok, "WaitingForResponse"))
    BY <1>4, <2>2, Zenon DEF PostResponse, Posting
  <2>4. r.tok = dev[d].tok
    BY <2>2, RequestRecords
  <2>5. CASE hand' = hand BY <1>a, <2>1, <2>5, Zenon DEF StepKeeps
  <2>6. CASE hand' = [hand EXCEPT ![h] = r] /\ InState(dev[d].tok, "WaitingForResponse")
    <3>1. hand'[h] = r /\ \A k \in Handlers \ {h} : hand'[k] = hand[k]
      BY <2>6, Zenon DEF RequestsInv
    <3> QED BY <1>a, <2>1, <2>4, <2>6, <3>1, Zenon DEF StepKeeps
  <2> QED BY <2>3, <2>5, <2>6, Zenon
<1>5. ASSUME NEW h \in Handlers, Authorize(h) \/ AuthorizeFails(h) \/ Finish(h) PROVE StepKeeps
  <2>1. hand[h].pc # "idle" /\ hand' = [hand EXCEPT ![h] = NoRequest] /\ UNCHANGED <<started, sweep>>
    BY <1>5, Zenon DEF Authorize, AuthorizeFails, Finish
  <2>2. PICK t \in Tokens : t = hand[h].tok
    BY <2>1, Zenon DEF RequestsInv
  <2>3. PICK data, lag : write(t, data, lag)
    BY <1>5, <2>2, Zenon DEF Authorize, AuthorizeFails, Finish
  <2>4. \A u \in Tokens \ {t} : LeftAlone(u)
    BY <1>c, <2>1, <2>3, Zenon
  <2>5. \A k \in Handlers : hand'[k].pc # "idle" => hand[k].pc # "idle" /\ hand'[k].tok = hand[k].tok
    BY <1>b, <2>1, Zenon
  <2> QED BY <2>1, <2>2, <2>4, <2>5, Zenon DEF StepKeeps
<1>6. ASSUME NEW h \in Handlers, Abort(h) PROVE StepKeeps
  <2>1. hand' = [hand EXCEPT ![h] = NoRequest] /\ UNCHANGED <<backend, rows, started>>
    BY <1>6, Zenon DEF Abort, storeVars
  <2>2. \A k \in Handlers : hand'[k].pc # "idle" => hand[k].pc # "idle" /\ hand'[k].tok = hand[k].tok
    BY <1>b, <2>1, Zenon
  <2> QED BY <1>a, <2>1, <2>2, Zenon DEF StepKeeps
<1>7. CASE Clean \/ Tick
  <2>1. (CleanupStep \/ CleanupFails \/ TickStore) /\ UNCHANGED <<hand, started>>
    BY <1>7, Zenon DEF Clean, Tick, verifierVars
  <2> QED BY <2>1, CleanRows, Zenon DEF LeftAlone, StepKeeps
<1>8. CASE UNCHANGED vars
  BY <1>a, <1>8, Zenon DEF vars, storeVars, verifierVars, StepKeeps
<1> QED BY <1>1, <1>2, <1>3, <1>4, <1>5, <1>6, <1>7, <1>8, Zenon DEF Next, Handle

LEMMA EndedInit == MCInit => EndedInv
<1> SUFFICES ASSUME MCInit PROVE EndedInv
  OBVIOUS
<1>1. /\ ended = [t \in Tokens |-> ended[t]] /\ \A t \in Tokens : ended[t] = "none"
      /\ \A t \in Tokens : ~Exists(t)
      /\ \A h \in Handlers : hand[h].pc = "idle"
  BY RequestRecords, Zenon DEF MCInit, Init, StoreInit, Exists
<1> QED BY <1>1, Zenon DEF EndedInv

LEMMA EndedStep == DisclosureInv /\ EndedInv /\ [MCNext]_mcVars => EndedInv'
<1> SUFFICES ASSUME DisclosureInv, EndedInv, [MCNext]_mcVars PROVE EndedInv'
  OBVIOUS
<1>1. StepKeeps
  BY NextKeeps, Zenon DEF MCNext, mcVars
<1>2. ASSUME NEW h \in Handlers, hand'[h].pc # "idle" PROVE hand'[h].tok \in started'
  <2>1. CASE hand[h].pc # "idle" /\ hand'[h].tok = hand[h].tok
    BY <1>1, <2>1, Zenon DEF StepKeeps, EndedInv
  <2>2. ASSUME NEW s, InState(hand'[h].tok, s) PROVE hand'[h].tok \in started'
    <3>1. DisclosureInv'
      BY DisclosureStep, Zenon DEF MCNext, mcVars
    <3>2. hand'[h].tok \in Tokens
      BY <1>2, <3>1, Zenon DEF DisclosureInv, RequestsInv
    <3> QED BY <1>1, <2>2, <3>2, Zenon DEF InState, EndedInv, StepKeeps
  <2> QED BY <1>1, <1>2, <2>1, <2>2, Zenon DEF StepKeeps
<1>3. ASSUME NEW t \in Tokens, Exists(t)' PROVE t \in started'
  <2>1. CASE LeftAlone(t)
    BY <1>1, <1>3, <2>1, Zenon DEF LeftAlone, EndedInv, StepKeeps
  <2>2. ASSUME NEW h \in Handlers, hand[h].pc # "idle", hand[h].tok = t PROVE t \in started'
    BY <1>1, <2>2, Zenon DEF EndedInv, StepKeeps
  <2> QED BY <1>1, <2>1, <2>2, Zenon DEF StepKeeps
<1>4. ASSUME NEW t \in Tokens, ended[t] # "none"
      PROVE  t \in started' /\ Quiet(t)' /\ (Exists(t)' => get(t)'.data.state \in {ended[t], "Expired"})
  <2>0. /\ ended[t] \in Ends /\ t \in started /\ Quiet(t)
        /\ Exists(t) => get(t).data.state \in {ended[t], "Expired"}
    BY <1>4, Zenon DEF EndedInv
  <2>1. \A s \in {"Created", "WaitingForResponse"} : ~InState(t, s)
    BY <2>0, Zenon DEF InState, Ends
  <2>2. Quiet(t)'
    BY <1>1, <2>0, <2>1, Zenon DEF Quiet, StepKeeps
  <2>3. LeftAlone(t)
    BY <1>1, <2>0, Zenon DEF StepKeeps, Quiet
  <2>4. t \in started'
    BY <1>1, <2>0, Zenon DEF StepKeeps
  <2> QED BY <2>0, <2>2, <2>3, <2>4 DEF LeftAlone, expired
<1>5. CASE UNCHANGED ended
  <2>1. \A t \in Tokens : ended'[t] # "none" => ended'[t] \in Ends
    BY <1>5, Zenon DEF EndedInv
  <2> QED BY <1>2, <1>3, <1>4, <1>5, <2>1, Zenon DEF EndedInv
<1>6. CASE MCNext
  <2>1. /\ ended' = [t \in Tokens |-> ended'[t]]
        /\ \A t \in Tokens : ended'[t] = IF ended[t] = "none" THEN EndedWith(t)' ELSE ended[t]
    BY <1>6, Zenon DEF MCNext
  <2>2. ASSUME NEW t \in Tokens, ended'[t] # "none"
        PROVE  /\ ended'[t] \in Ends /\ t \in started' /\ Quiet(t)'
               /\ Exists(t)' => get(t)'.data.state \in {ended'[t], "Expired"}
    <3>1. CASE ended[t] # "none"
      <4>1. ended'[t] = ended[t] /\ ended[t] \in Ends
        BY <2>1, <3>1, Zenon DEF EndedInv
      <4> QED BY <1>4, <3>1, <4>1, Zenon
    <3>2. CASE ended[t] = "none"
      <4>1. ended'[t] = EndedWith(t)'
        BY <2>1, <3>2, Zenon
      <4>2. PICK end \in Ends : InState(t, end)' /\ Quiet(t)' /\ ended'[t] = get(t)'.data.state
        BY <2>2, <4>1, Zenon DEF EndedWith
      <4>3. Exists(t)' /\ get(t)'.data.state = end
        BY <4>2, Zenon DEF InState
      <4> QED BY <1>3, <4>2, <4>3, Zenon
    <3> QED BY <3>1, <3>2, Zenon
  <2> QED BY <1>2, <1>3, <2>1, <2>2, Zenon DEF EndedInv
<1> QED BY <1>5, <1>6, Zenon DEF mcVars

\* A relying party that sees a session ended, with no request for it under way, can
\* rely on it: whatever devices send afterwards, the session keeps that result until
\* the store removes it.
THEOREM EndsAreKept == MCSpec => []EndIsKept
<1>1. MCInit => DisclosureInv
  BY DisclosureInit, Zenon DEF MCInit
<1>2. DisclosureInv /\ [MCNext]_mcVars => DisclosureInv'
  BY DisclosureStep, Zenon DEF MCNext, mcVars
<1>3. EndedInv => EndIsKept
  BY Zenon DEF EndedInv, EndIsKept
<1> QED BY <1>1, <1>2, <1>3, EndedInit, EndedStep, PTL DEF MCSpec

-----------------------------------------------------------------------------
(* The DigiD session.                                                       *)

AuthRequests ==
    [client_id : {"wallet"}, redirect_uri : {"issuance"}, state : Nat, code_challenge : {"S256"} \X Nat]
LoginRecords ==
    [request : AuthRequests, app2app : LoginScene.app2app, person : LoginScene.people \cup {0}, used : BOOLEAN]

\* A redirect is of a login that the provider knows of, whose code and state token it
\* has together, or it is not of a login.
Arrives(uri, known) ==
    \/ uri.query = None
    \/ ForeignQuery(uri.query[1])
    \/ uri.query[1].kind = "code" /\ uri.query[1].code \in known /\ uri.query[1].state = uri.query[1].code
    \/ uri.query[1].kind = "app" /\ uri.query[1].artifact \in known

\* The session of the wallet is of a login that the provider knows of, and as long as
\* that is not finished it has the client that was made for it.
SessionFits ==
    digid # None => /\ digid[1].login \in DOMAIN logins
                    /\ digid[1].kind = "Digid" => digid[1].client = HttpOidcClient(digid[1].login)

\* The inductive invariant.  A login has the request of its own number, redirects and
\* exchanges pair a code with the number it belongs to, and what is shown is the own
\* person's.
LoginInv ==
    /\ at_scene \in DOMAIN LoginScenes
    /\ logins \in Seq(LoginRecords)
    /\ \A n \in DOMAIN logins : logins[n].request = url_encoded_auth_request(HttpOidcClient(n))
    /\ \A uri \in uris : Arrives(uri, DOMAIN logins)
    /\ identified # None => Arrives(identified[1], DOMAIN logins)
    /\ SessionFits
    /\ \A request \in exchanges : request.code \in DOMAIN logins /\ request.code_verifier = request.code
    /\ OwnPersonShown

\* What the issuer makes of a person.
Made(person) ==
    PidAttributes(RequestPersonen(vraag(person)), LoginScene.only_requested, 0, LoginScene.certificates)

\* What every step keeps of the logins: they only grow in number, their requests stay,
\* and who has logged in and which code has been used is not forgotten.
LoginsKept ==
    /\ logins' \in Seq(LoginRecords)
    /\ DOMAIN logins \subseteq DOMAIN logins'
    /\ \A n \in DOMAIN logins :
           /\ logins[n].person # 0 => logins'[n].person = logins[n].person
           /\ logins[n].used => logins'[n].used
    /\ \A n \in DOMAIN logins' : logins'[n].request = url_encoded_auth_request(HttpOidcClient(n))

-----------------------------------------------------------------------------
(* Optional values and the client.                                          *)

\* An absent value is not a value.
LEMMA SomeIsThere ==
    ASSUME NEW x PROVE Some(x) # None /\ Some(x)[1] = x
BY Zenon DEF Some, None

\* The request in the authorization URL of a login is one.
LEMMA AuthRequestType ==
    ASSUME NEW n \in Nat
    PROVE  /\ url_encoded_auth_request(HttpOidcClient(n)) \in AuthRequests
           /\ url_encoded_auth_request(HttpOidcClient(n)).state = n
           /\ url_encoded_auth_request(HttpOidcClient(n)).redirect_uri = "issuance"
           /\ url_encoded_auth_request(HttpOidcClient(n)).code_challenge = S256PkcePair(n).challenge
BY Zenon DEF url_encoded_auth_request, HttpOidcClient, S256PkcePair, AuthRequests

\* One place of a sequence is replaced.
Replaced(s, n, x) == [s EXCEPT ![n] = x]
LEMMA ReplacedInSeq ==
    ASSUME NEW S, NEW s \in Seq(S), NEW n \in DOMAIN s, NEW x \in S,
           NEW t, t = Replaced(s, n, x)
    PROVE  /\ t \in Seq(S) /\ DOMAIN t = DOMAIN s
           /\ t[n] = x /\ \A i \in DOMAIN s : i # n => t[i] = s[i]
BY DEF Replaced

\* A login is known by a positive number.
LEMMA KnownLogins ==
    ASSUME logins \in Seq(LoginRecords)
    PROVE  /\ DOMAIN logins = 1..Len(logins) /\ Len(logins) \in Nat
           /\ \A n \in DOMAIN logins : n \in Nat \ {0} /\ logins[n] \in LoginRecords
<1>1. DOMAIN logins = 1..Len(logins) /\ Len(logins) \in Nat /\ \A n \in 1..Len(logins) : logins[n] \in LoginRecords
  OBVIOUS
<1>2. \A n \in 1..Len(logins) : n \in Nat \ {0}
  BY <1>1
<1> QED BY <1>1, <1>2, Zenon

\* What arrives keeps being of a login that is known.
LEMMA StillArrives ==
    ASSUME NEW uri, NEW known, NEW more, known \subseteq more, Arrives(uri, known)
    PROVE  Arrives(uri, more)
BY Zenon DEF Arrives

\* A code that the client accepts is that of its own login (authorization_code).
LEMMA OwnCode ==
    ASSUME NEW uri, NEW known, NEW n \in Nat \ {0}, Arrives(uri, known),
           authorization_code(HttpOidcClient(n), uri) # None
    PROVE  n \in known /\ authorization_code(HttpOidcClient(n), uri) = Some(n)
<1>1. /\ uri.query # None /\ uri.query[1].kind = "code" /\ uri.query[1].state = HttpOidcClient(n).state
      /\ authorization_code(HttpOidcClient(n), uri) = Some(uri.query[1].code)
  BY Zenon DEF authorization_code
<1>2. HttpOidcClient(n).state = n
  BY Zenon DEF HttpOidcClient
<1>3. ~ForeignQuery(uri.query[1])
  <2> DEFINE q == uri.query[1]
  <2>1. q.kind = "code" /\ q.state = n
    BY <1>1, <1>2, Zenon
  <2> HIDE DEF q
  <2>2. ~ForeignQuery(q)
    BY <2>1, Zenon DEF ForeignQuery
  <2> QED BY <2>2, Zenon DEF q
<1>4. uri.query[1].code \in known /\ uri.query[1].state = uri.query[1].code
  <2>1. uri.query[1].kind # "app"
    BY <1>1, Zenon
  <2> QED BY <1>1, <1>3, <2>1, Zenon DEF Arrives
<1> QED BY <1>1, <1>2, <1>4, Zenon

-----------------------------------------------------------------------------
(* The logins at the provider.                                              *)

\* A new login is numbered after the others (create_pid_issuance_auth_url).
LEMMA NewLoginKept ==
    ASSUME LoginInv, NEW a \in LoginScene.app2app,
           logins' = Append(logins, NewLogin(OidcStart(Len(logins) + 1).request, a))
    PROVE  LoginsKept /\ Len(logins) + 1 \in DOMAIN logins'
<1> DEFINE n == Len(logins) + 1
           r == url_encoded_auth_request(HttpOidcClient(n))
           new == NewLogin(r, a)
<1>1. logins \in Seq(LoginRecords) /\ Len(logins) \in Nat /\ DOMAIN logins = 1..Len(logins)
  BY KnownLogins, Zenon DEF LoginInv
<1>2. n \in Nat /\ r \in AuthRequests
  BY <1>1, AuthRequestType
<1>3. logins' = Append(logins, new)
  BY Zenon DEF OidcStart
<1>4. new \in LoginRecords /\ new.request = r
  BY <1>2, Zenon DEF NewLogin, LoginRecords
<1> HIDE DEF new
<1>5. /\ logins' \in Seq(LoginRecords) /\ DOMAIN logins' = 1..n
      /\ \A i \in DOMAIN logins : logins'[i] = logins[i]
      /\ logins'[n] = new
  BY <1>1, <1>3, <1>4
<1>6. DOMAIN logins \subseteq DOMAIN logins' /\ n \in DOMAIN logins' /\ \A i \in DOMAIN logins' : i \in DOMAIN logins \/ i = n
  BY <1>1, <1>5
<1>7. \A i \in DOMAIN logins' : logins'[i].request = url_encoded_auth_request(HttpOidcClient(i))
  BY <1>4, <1>5, <1>6, Zenon DEF LoginInv
<1> QED BY <1>5, <1>6, <1>7, Zenon DEF LoginsKept

\* A login is replaced by one with the same request, which has not lost anything.
LEMMA ReplacedKept ==
    ASSUME LoginInv, NEW n \in DOMAIN logins, NEW x \in LoginRecords, x.request = logins[n].request,
           logins[n].person # 0 => x.person = logins[n].person, logins[n].used => x.used,
           logins' = Replaced(logins, n, x)
    PROVE  LoginsKept /\ logins'[n] = x
<1>1. logins \in Seq(LoginRecords)
  BY Zenon DEF LoginInv
<1>2. /\ logins' \in Seq(LoginRecords) /\ DOMAIN logins' = DOMAIN logins
      /\ logins'[n] = x /\ \A i \in DOMAIN logins : i # n => logins'[i] = logins[i]
  BY <1>1, ReplacedInSeq, SMT
<1>3. \A i \in DOMAIN logins : /\ logins[i].person # 0 => logins'[i].person = logins[i].person
                               /\ logins[i].used => logins'[i].used
                               /\ logins'[i].request = logins[i].request
  BY <1>2, Zenon
<1> QED BY <1>2, <1>3, Zenon DEF LoginsKept, LoginInv

\* Somebody logs in where nobody had.
LEMMA LogInKept ==
    ASSUME LoginInv, NEW n \in DOMAIN logins, NEW person \in LoginScene.people, logins[n].person = 0,
           logins' = [logins EXCEPT ![n].person = person]
    PROVE  LoginsKept
<1>1. logins[n] \in LoginRecords
  BY KnownLogins, Zenon DEF LoginInv
<1>2. PICK x : x = [logins[n] EXCEPT !.person = person]
  BY Zenon
<1>3. x \in LoginRecords /\ x.request = logins[n].request /\ x.used = logins[n].used
  BY <1>1, <1>2, Zenon DEF LoginRecords
<1>4. logins' = Replaced(logins, n, x)
  BY <1>2, Zenon DEF Replaced
<1> QED BY <1>3, <1>4, ReplacedKept, Zenon

\* The code of a login is used up.
LEMMA UseKept ==
    ASSUME LoginInv, NEW n \in DOMAIN logins, logins' = [logins EXCEPT ![n].used = TRUE]
    PROVE  LoginsKept /\ logins'[n].used /\ logins'[n].person = logins[n].person
<1>1. logins[n] \in LoginRecords
  BY KnownLogins, Zenon DEF LoginInv
<1>2. PICK x : x = [logins[n] EXCEPT !.used = TRUE]
  BY Zenon
<1>3. x \in LoginRecords /\ x.request = logins[n].request /\ x.used = TRUE /\ x.person = logins[n].person
  BY <1>1, <1>2, Zenon DEF LoginRecords
<1>4. logins' = Replaced(logins, n, x)
  BY <1>2, Zenon DEF Replaced
<1>5. LoginsKept /\ logins'[n] = x
  BY <1>3, <1>4, ReplacedKept, Zenon
<1> QED BY <1>3, <1>5, Zenon
-----------------------------------------------------------------------------
(* The parts of the invariant over a step.                                  *)

\* What the app shows is still what was made of the person who logged in.
LEMMA SessionKept ==
    ASSUME LoginInv, LoginsKept, at_scene' = at_scene, digid' = digid
    PROVE  SessionFits' /\ OwnPersonShown'
<1>1. LoginScene' = LoginScene
  BY Zenon DEF LoginScene
<1>2. SessionFits'
  BY Zenon DEF LoginInv, LoginsKept, SessionFits
<1>3. SUFFICES ASSUME PidShown' PROVE OwnPersonShown'
  BY <1>2, Zenon DEF OwnPersonShown
<1>4. PICK n : n = digid[1].login
  BY Zenon
<1>5. PidShown /\ n \in DOMAIN logins /\ digid'[1].login = n
  BY <1>3, <1>4, Zenon DEF PidShown, LoginInv, SessionFits
<1>6. /\ logins[n].used /\ logins[n].person \in LoginScene.people
      /\ Made(logins[n].person) # None /\ digid[1].previews = Made(logins[n].person)[1]
  BY <1>4, <1>5, Zenon DEF LoginInv, OwnPersonShown, Made
<1>7. 0 \notin LoginScene.people
  BY LoginScenesAssumption, Zenon DEF LoginInv, LoginScene, EveryLoginScene
<1>8. logins'[n].used /\ logins'[n].person = logins[n].person
  BY <1>5, <1>6, <1>7, Zenon DEF LoginsKept
<1>9. Made(logins[n].person)' = Made(logins[n].person)
  BY <1>1, <1>8, Zenon DEF Made, vraag
<1> QED BY <1>1, <1>5, <1>6, <1>8, <1>9, Zenon DEF OwnPersonShown, Made

\* The logins that are there are kept if nothing happens to them.
LEMMA SameKept ==
    ASSUME LoginInv, logins' = logins, at_scene' = at_scene
    PROVE  LoginsKept
BY Zenon DEF LoginInv, LoginsKept

\* The invariant holds after a step that changes the redirects, the session and the
\* exchanges as it should.
LEMMA InvariantFromParts ==
    ASSUME LoginInv, LoginsKept, at_scene' = at_scene,
           \A uri \in uris' : uri \in uris \/ Arrives(uri, DOMAIN logins'),
           identified' = None \/ identified' = identified \/ Arrives(identified'[1], DOMAIN logins'),
           SessionFits', OwnPersonShown',
           \A r \in exchanges' : r \in exchanges \/ (r.code \in DOMAIN logins' /\ r.code_verifier = r.code)
    PROVE  LoginInv'
<1>1. LoginRecords' = LoginRecords
  BY Zenon DEF LoginScene, LoginRecords
<1>2. at_scene' \in DOMAIN LoginScenes /\ logins' \in Seq(LoginRecords')
  BY <1>1, Zenon DEF LoginInv, LoginsKept
<1>3. \A uri \in uris' : Arrives(uri, DOMAIN logins')
  BY StillArrives, Zenon DEF LoginInv, LoginsKept
<1>4. identified' # None => Arrives(identified'[1], DOMAIN logins')
  BY StillArrives, Zenon DEF LoginInv, LoginsKept
<1>5. \A r \in exchanges' : r.code \in DOMAIN logins' /\ r.code_verifier = r.code
  BY Zenon DEF LoginInv, LoginsKept
<1>6. \A n \in DOMAIN logins' : logins'[n].request = url_encoded_auth_request(HttpOidcClient(n))
  BY Zenon DEF LoginsKept
<1> QED BY <1>2, <1>3, <1>4, <1>5, <1>6, Zenon DEF LoginInv
-----------------------------------------------------------------------------
(* The steps.                                                               *)

\* create_pid_issuance_auth_url
LEMMA CreateStep ==
    ASSUME LoginInv, NEW a \in LoginScene.app2app, NEW fault, CreateAuthUrl(a, fault)
    PROVE  LoginInv'
<1>1. PICK n : n = Len(logins) + 1
  BY Zenon
<1>2. /\ at_scene' = at_scene /\ uris' = uris /\ identified' = identified /\ exchanges' = exchanges
      /\ digid = None
  BY Zenon DEF CreateAuthUrl
<1>3. CASE Discovered(fault)
  <2>1. /\ logins' = Append(logins, NewLogin(OidcStart(Len(logins) + 1).request, a))
        /\ digid' = Some([kind |-> "Digid", login |-> n, client |-> OidcStart(n).client, app2app |-> a])
    BY <1>1, <1>3, Zenon DEF CreateAuthUrl
  <2>2. LoginsKept /\ n \in DOMAIN logins'
    BY <1>1, <2>1, NewLoginKept, Zenon
  <2>3. PICK c : c = HttpOidcClient(n)
    BY Zenon
  <2>4. OidcStart(n).client = c
    BY <2>3, Zenon DEF OidcStart
  <2>5. PICK session : session = [kind |-> "Digid", login |-> n, client |-> c, app2app |-> a]
    BY Zenon
  <2>6. digid' = Some(session)
    BY <2>1, <2>4, <2>5, Zenon
  <2>7. digid'[1] = session /\ session.kind = "Digid" /\ session.login = n /\ session.client = c
    <3>1. digid'[1] = session
      BY <2>6, SomeIsThere, Zenon
    <3> QED BY <2>5, <3>1
  <2>8. SessionFits'
    BY <2>2, <2>3, <2>7, Zenon DEF SessionFits
  <2>9. OwnPersonShown'
    <3>1. ~PidShown'
      BY <2>7, Zenon DEF PidShown
    <3> QED BY <3>1, Zenon DEF OwnPersonShown
  <2> QED BY <1>2, <2>2, <2>8, <2>9, InvariantFromParts, Zenon
<1>4. CASE ~Discovered(fault)
  <2>1. logins' = logins /\ digid' = digid
    BY <1>2, <1>4, Zenon DEF CreateAuthUrl
  <2>2. LoginsKept
    BY <1>2, <2>1, SameKept, Zenon
  <2> QED BY <1>2, <2>1, <2>2, SessionKept, InvariantFromParts, Zenon
<1> QED BY <1>3, <1>4, Zenon

\* The redirect of a login has its code together with its state token.
LEMMA CodeRedirectArrives ==
    ASSUME LoginInv, NEW n \in DOMAIN logins
    PROVE  /\ Arrives(CodeRedirect(n), DOMAIN logins)
           /\ CodeRedirect(n).query # None /\ CodeRedirect(n).query[1].kind = "code"
           /\ CodeRedirect(n).query[1].code = n
<1>1. n \in Nat /\ logins[n].request = url_encoded_auth_request(HttpOidcClient(n))
  BY KnownLogins, Zenon DEF LoginInv
<1>2. logins[n].request.state = n
  BY <1>1, AuthRequestType, Zenon
<1>3. PICK query : query = CodeQuery(n, n)
  BY Zenon
<1>4. query.kind = "code" /\ query.code = n /\ query.state = n
  BY <1>3, Zenon DEF CodeQuery
<1>5. CodeRedirect(n).query = Some(query)
  BY <1>2, <1>3, Zenon DEF CodeRedirect, Uri
<1>6. CodeRedirect(n).query # None /\ CodeRedirect(n).query[1] = query
  BY <1>5, SomeIsThere, Zenon
<1> QED BY <1>4, <1>6, Zenon DEF Arrives

\* So has the redirect of the DigiD app its artifact, and one with an error has neither.
LEMMA OtherRedirectsArrive ==
    ASSUME NEW known, NEW n \in known, NEW error, NEW state
    PROVE  /\ Arrives(Uri("issuance", Some(AppQuery(n, error))), known)
           /\ Arrives(Uri("issuance", Some(ErrorQuery(state))), known)
<1>1. PICK app : app = AppQuery(n, error)
  BY Zenon
<1>2. PICK query : query = ErrorQuery(state)
  BY Zenon
<1>3. app.kind = "app" /\ app.artifact = n /\ query.kind = "error"
  BY <1>1, <1>2, Zenon DEF AppQuery, ErrorQuery
<1>4. Uri("issuance", Some(app)).query = Some(app) /\ Uri("issuance", Some(query)).query = Some(query)
  BY Zenon DEF Uri
<1>5. Uri("issuance", Some(app)).query[1] = app /\ Uri("issuance", Some(query)).query[1] = query
  BY <1>4, SomeIsThere, Zenon
<1> QED BY <1>1, <1>2, <1>3, <1>5, Zenon DEF Arrives, ForeignQuery

\* The user logs in.
LEMMA LogInStep ==
    ASSUME LoginInv, NEW n \in DOMAIN logins, NEW person \in LoginScene.people, LogIn(n, person)
    PROVE  LoginInv'
<1>1. /\ at_scene' = at_scene /\ digid' = digid /\ identified' = identified /\ exchanges' = exchanges
      /\ logins[n].person = 0 /\ logins' = [logins EXCEPT ![n].person = person]
  BY Zenon DEF LogIn
<1>2. LoginsKept
  BY <1>1, LogInKept, Zenon
<1>3. \A uri \in uris' : uri \in uris \/ uri = Uri("issuance", Some(AppQuery(n, FALSE))) \/ uri = CodeRedirect(n)
  BY Zenon DEF LogIn
<1>4. \A uri \in uris' : uri \in uris \/ Arrives(uri, DOMAIN logins)
  <2>1. Arrives(CodeRedirect(n), DOMAIN logins)
    BY CodeRedirectArrives, Zenon
  <2>2. Arrives(Uri("issuance", Some(AppQuery(n, FALSE))), DOMAIN logins)
    BY OtherRedirectsArrive, Zenon
  <2> QED BY <1>3, <2>1, <2>2, Zenon
<1>5. \A uri \in uris' : uri \in uris \/ Arrives(uri, DOMAIN logins')
  BY <1>2, <1>4, StillArrives, Zenon DEF LoginsKept
<1>6. SessionFits' /\ OwnPersonShown'
  BY <1>1, <1>2, SessionKept, Zenon
<1>7. identified' = identified /\ exchanges' = exchanges /\ at_scene' = at_scene
  BY <1>1, Zenon
<1> QED BY <1>2, <1>5, <1>6, <1>7, InvariantFromParts, Zenon

\* The user does not log in.
LEMMA LogInFailsStep ==
    ASSUME LoginInv, NEW n \in DOMAIN logins, LogInFails(n)
    PROVE  LoginInv'
<1>1. /\ at_scene' = at_scene /\ digid' = digid /\ identified' = identified /\ exchanges' = exchanges
      /\ logins' = logins
  BY Zenon DEF LogInFails
<1>2. LoginsKept
  BY <1>1, SameKept, Zenon
<1>3. \A uri \in uris' : \/ uri \in uris
                         \/ uri = Uri("issuance", Some(AppQuery(n, TRUE)))
                         \/ uri = Uri("issuance", Some(ErrorQuery(logins[n].request.state)))
  BY Zenon DEF LogInFails
<1>4. \A uri \in uris' : uri \in uris \/ Arrives(uri, DOMAIN logins')
  BY <1>1, <1>3, OtherRedirectsArrive, Zenon
<1> QED BY <1>1, <1>2, <1>4, SessionKept, InvariantFromParts, Zenon

\* identify_uri
LEMMA IdentifyStep ==
    ASSUME LoginInv, NEW uri \in uris \cup LoginScene.other_uris, Identify(uri)
    PROVE  LoginInv'
<1>1. /\ at_scene' = at_scene /\ digid' = digid /\ uris' = uris /\ exchanges' = exchanges
      /\ logins' = logins /\ (identified' = Some(uri) \/ identified' = None)
  BY Zenon DEF Identify
<1>2. LoginsKept
  BY <1>1, SameKept, Zenon
<1>3. Arrives(uri, DOMAIN logins')
  <2>1. CASE uri \in uris
    BY <1>1, <2>1, Zenon DEF LoginInv
  <2>2. CASE uri \in LoginScene.other_uris
    <3>1. uri.query = None \/ ForeignQuery(uri.query[1])
      BY <2>2, LoginScenesAssumption, Zenon DEF LoginInv, LoginScene, EveryLoginScene
    <3> QED BY <3>1, Zenon DEF Arrives
  <2> QED BY <2>1, <2>2, Zenon
<1>4. identified' = None \/ Arrives(identified'[1], DOMAIN logins')
  BY <1>1, <1>3, SomeIsThere, Zenon
<1> QED BY <1>1, <1>2, <1>4, SessionKept, InvariantFromParts, Zenon

\* cancel_pid_issuance
LEMMA CancelStep ==
    ASSUME LoginInv, Cancel
    PROVE  LoginInv'
<1>1. /\ at_scene' = at_scene /\ digid' = None /\ uris' = uris /\ exchanges' = exchanges
      /\ logins' = logins /\ identified' = identified
  BY Zenon DEF Cancel
<1>2. LoginsKept
  BY <1>1, SameKept, Zenon
<1>3. SessionFits' /\ OwnPersonShown'
  BY <1>1, Zenon DEF SessionFits, OwnPersonShown, PidShown
<1> QED BY <1>1, <1>2, <1>3, InvariantFromParts, Zenon

\* With or without app2app the code that the wallet passes on is that of its own
\* login (into_token_request).
LEMMA TokenRequestIsOwn ==
    ASSUME LoginInv, digid # None, digid[1].kind = "Digid", identified # None, NEW fault,
           into_token_request(digid[1], identified[1], fault) # None
    PROVE  /\ digid[1].login \in DOMAIN logins
           /\ into_token_request(digid[1], identified[1], fault)
                  = Some(OidcTokenRequest(HttpOidcClient(digid[1].login), digid[1].login))
<1>1. PICK n, session, uri : n = digid[1].login /\ session = digid[1] /\ uri = identified[1]
  BY Zenon
<1>2. n \in DOMAIN logins /\ session.client = HttpOidcClient(n) /\ Arrives(uri, DOMAIN logins)
  BY <1>1, Zenon DEF LoginInv, SessionFits
<1>3. n \in Nat \ {0}
  BY <1>2, KnownLogins, Zenon DEF LoginInv
<1>4. into_token_request(session, uri, fault) # None
  BY <1>1, Zenon
<1>5. PICK location : location = Location(session, uri, fault)
  BY Zenon
<1>6. /\ location # None /\ authorization_code(HttpOidcClient(n), location[1]) # None
      /\ into_token_request(session, uri, fault)
             = Some(OidcTokenRequest(HttpOidcClient(n), authorization_code(HttpOidcClient(n), location[1])[1]))
  BY <1>2, <1>4, <1>5, Zenon DEF into_token_request
<1>7. Arrives(location[1], DOMAIN logins)
  <2>1. CASE ~session.app2app
    <3>1. location = Some(uri)
      BY <1>5, <2>1, Zenon DEF Location
    <3> QED BY <1>2, <3>1, SomeIsThere, Zenon
  <2>2. CASE session.app2app
    <3>1. /\ uri.query # None /\ uri.query[1].kind = "app"
          /\ location = Some(CodeRedirect(uri.query[1].artifact))
      BY <1>5, <1>6, <2>2, Zenon DEF Location
    <3>2. PICK query : query = uri.query[1]
      BY Zenon
    <3>3. query.kind = "app" /\ query.kind # "code" /\ query.kind # "error"
      BY <3>1, <3>2, Zenon
    <3>4. query.artifact \in DOMAIN logins
      BY <1>2, <3>1, <3>2, <3>3, Zenon DEF Arrives, ForeignQuery
    <3>5. Arrives(CodeRedirect(query.artifact), DOMAIN logins)
      BY <3>4, CodeRedirectArrives, Zenon
    <3>6. location = Some(CodeRedirect(query.artifact))
      BY <3>1, <3>2, Zenon
    <3> QED BY <3>5, <3>6, SomeIsThere, Zenon
  <2> QED BY <2>1, <2>2, Zenon
<1>8. authorization_code(HttpOidcClient(n), location[1]) = Some(n)
  BY <1>3, <1>6, <1>7, OwnCode, Zenon
<1>9. into_token_request(session, uri, fault) = Some(OidcTokenRequest(HttpOidcClient(n), n))
  BY <1>6, <1>8, SomeIsThere, Zenon
<1> QED BY <1>1, <1>2, <1>9, Zenon

\* Without previews the session is gone.
LEMMA NothingShown ==
    ASSUME NEW fault, ShowPreviews(None, fault)
    PROVE  digid' = None /\ SessionFits' /\ OwnPersonShown'
<1>1. digid' = None
  BY Zenon DEF ShowPreviews
<1> QED BY <1>1, Zenon DEF SessionFits, OwnPersonShown, PidShown

\* The person whom the provider names is the one who logged in for the code, which is
\* used up from then on (OpenIdClient::bsn).
LEMMA PersonOfCode ==
    ASSUME LoginInv, NEW n \in DOMAIN logins, NEW r, r.code = n, NEW fault, bsn(r, fault) # None,
           logins' = IF Exchangeable(r) THEN [logins EXCEPT ![r.code].used = TRUE] ELSE logins
    PROVE  /\ LoginsKept /\ logins'[n].used /\ logins'[n].person = logins[n].person
           /\ logins[n].person \in LoginScene.people /\ bsn(r, fault)[1] = logins[n].person
<1>1. Exchangeable(r) /\ bsn(r, fault) = request_userinfo(Some(r.code)[1], fault)
  BY Zenon DEF bsn, request_token
<1>2. bsn(r, fault) = request_userinfo(n, fault)
  BY <1>1, SomeIsThere, Zenon
<1>3. request_userinfo(n, fault) = Some(logins[n].person)
  BY <1>2, Zenon DEF request_userinfo
<1>4. bsn(r, fault)[1] = logins[n].person
  BY <1>2, <1>3, SomeIsThere, Zenon
<1>5. logins[n].person # 0
  BY <1>1, Zenon DEF Exchangeable
<1>6. logins[n].person \in LoginScene.people
  <2>1. logins[n] \in LoginRecords
    BY KnownLogins, Zenon DEF LoginInv
  <2> QED BY <1>5, <2>1, Zenon DEF LoginRecords
<1>7. logins' = [logins EXCEPT ![n].used = TRUE]
  BY <1>1, Zenon
<1> QED BY <1>4, <1>6, <1>7, UseKept, Zenon

\* The previews of the issuer are shown, or nothing is.
LEMMA PreviewsShown ==
    ASSUME NEW previews, NEW fault, ShowPreviews(previews, fault), previews # None
    PROVE  \/ digid' = None
           \/ digid' = Some([kind |-> "Openid4vci", login |-> digid[1].login, previews |-> previews[1]])
BY Zenon DEF ShowPreviews

\* The token request at the issuer.
LEMMA AskIssuerStep ==
    ASSUME LoginInv, at_scene' = at_scene, NEW n \in DOMAIN logins, digid[1].login = n,
           NEW fault, NEW r, r.code = n, r.code_verifier = n, AskIssuer(r, fault)
    PROVE  LoginsKept /\ exchanges' = exchanges \cup {r} /\ SessionFits' /\ OwnPersonShown'
<1>1. /\ exchanges' = exchanges \cup {r}
      /\ logins' = IF Exchangeable(r) THEN [logins EXCEPT ![r.code].used = TRUE] ELSE logins
  BY Zenon DEF AskIssuer
<1>2. LoginsKept
  <2>1. CASE Exchangeable(r)
    <3>1. logins' = [logins EXCEPT ![n].used = TRUE]
      BY <1>1, <2>1, Zenon
    <3> QED BY <3>1, UseKept, Zenon
  <2>2. CASE ~Exchangeable(r)
    BY <1>1, <2>2, SameKept, Zenon
  <2> QED BY <2>1, <2>2, Zenon
<1>3. CASE bsn(r, fault) = None
  <2>1. ShowPreviews(None, fault)
    BY <1>3, Zenon DEF AskIssuer
  <2> QED BY <1>1, <1>2, <2>1, NothingShown, Zenon
<1>4. CASE bsn(r, fault) # None
  <2>1. PICK p, previews : p = logins[n].person /\ previews = Made(p)
    BY Zenon
  <2>2. /\ logins'[n].used /\ logins'[n].person = p
        /\ p \in LoginScene.people /\ bsn(r, fault)[1] = p
    <3>1. /\ logins'[n].used /\ logins'[n].person = logins[n].person
          /\ logins[n].person \in LoginScene.people /\ bsn(r, fault)[1] = logins[n].person
      BY <1>1, <1>4, PersonOfCode, SMT
    <3> QED BY <2>1, <3>1, Zenon
  <2>3. ShowPreviews(previews, fault)
    BY <1>4, <2>1, <2>2, Zenon DEF AskIssuer, Made
  <2>4. CASE previews = None
    <3>1. ShowPreviews(None, fault)
      BY <2>3, <2>4, Zenon
    <3> QED BY <1>1, <1>2, <3>1, NothingShown, Zenon
  <2>5. CASE digid' = None
    BY <1>1, <1>2, <2>5, Zenon DEF SessionFits, OwnPersonShown, PidShown
  <2>6. CASE previews # None /\ digid' = Some([kind |-> "Openid4vci", login |-> n, previews |-> previews[1]])
    <3>1. PICK session : session = [kind |-> "Openid4vci", login |-> n, previews |-> previews[1]]
      BY Zenon
    <3>2. session.kind = "Openid4vci" /\ session.kind # "Digid" /\ session.login = n /\ session.previews = previews[1]
      BY <3>1, Zenon
    <3>3. digid'[1] = session
      BY <2>6, <3>1, SomeIsThere, Zenon
    <3>4. n \in DOMAIN logins'
      BY <1>2, Zenon DEF LoginsKept
    <3>5. SessionFits'
      BY <3>2, <3>3, <3>4, Zenon DEF SessionFits
    <3>6. LoginScene' = LoginScene
      BY Zenon DEF LoginScene
    <3>7. Made(logins[n].person)' = previews
      BY <2>1, <2>2, <3>6, Zenon DEF Made, vraag
    <3>8. (logins[n].used)' /\ (logins[n].person)' \in LoginScene'.people
      BY <2>2, <3>6, Zenon
    <3>9. OwnPersonShown'
      BY <2>6, <3>2, <3>3, <3>7, <3>8, Zenon DEF OwnPersonShown, Made
    <3> QED BY <1>1, <1>2, <3>5, <3>9, Zenon
  <2> QED BY <2>3, <2>4, <2>5, <2>6, PreviewsShown, Zenon
<1> QED BY <1>3, <1>4, Zenon

\* continue_pid_issuance
LEMMA ContinueStep ==
    ASSUME LoginInv, NEW fault, Continue(fault)
    PROVE  LoginInv'
<1>1. at_scene' = at_scene /\ uris' = uris /\ identified # None /\ identified' = None
  BY Zenon DEF Continue
<1>2. CASE digid = None \/ digid[1].kind # "Digid"
  <2>1. digid' = digid /\ logins' = logins /\ exchanges' = exchanges
    BY <1>2, Zenon DEF Continue
  <2>2. LoginsKept
    BY <1>1, <2>1, SameKept, Zenon
  <2> QED BY <1>1, <2>1, <2>2, SessionKept, InvariantFromParts, Zenon
<1>3. CASE digid # None /\ digid[1].kind = "Digid"
  <2>1. PICK request : request = into_token_request(digid[1], identified[1], fault)
    BY Zenon
  <2>2. CASE request # None /\ fault # "connect"
    <3>1. PICK n, r : n = digid[1].login /\ r = OidcTokenRequest(HttpOidcClient(n), n)
      BY Zenon
    <3>2. n \in DOMAIN logins /\ request = Some(r)
      BY <1>1, <1>3, <2>1, <2>2, <3>1, TokenRequestIsOwn, Zenon
    <3>3. AskIssuer(r, fault)
      <4>1. AskIssuer(request[1], fault)
        BY <1>3, <2>1, <2>2, Zenon DEF Continue
      <4> QED BY <3>2, <4>1, SomeIsThere, Zenon
    <3>4. r.code = n /\ r.code_verifier = n
      BY <3>1, Zenon DEF OidcTokenRequest, HttpOidcClient, S256PkcePair
    <3>5. LoginsKept /\ exchanges' = exchanges \cup {r} /\ SessionFits' /\ OwnPersonShown'
      BY <1>1, <3>1, <3>2, <3>3, <3>4, AskIssuerStep, Zenon
    <3>6. \A q \in exchanges' : q \in exchanges \/ (q.code \in DOMAIN logins' /\ q.code_verifier = q.code)
      BY <3>2, <3>4, <3>5, Zenon DEF LoginsKept
    <3> QED BY <1>1, <3>5, <3>6, InvariantFromParts, Zenon
  <2>3. CASE ~(request # None /\ fault # "connect")
    <3>1. ShowPreviews(None, fault) /\ logins' = logins /\ exchanges' = exchanges
      BY <1>3, <2>1, <2>3, Zenon DEF Continue
    <3>2. LoginsKept
      BY <1>1, <3>1, SameKept, Zenon
    <3> QED BY <1>1, <3>1, <3>2, NothingShown, InvariantFromParts, Zenon
  <2> QED BY <2>2, <2>3, Zenon
<1> QED BY <1>2, <1>3, Zenon

-----------------------------------------------------------------------------

\* The PID that the app shows is always what the register and the issuer make of the
\* person who logged in for this very session, and every code went to the issuer with
\* the verifier that belongs to it, for any number of logins and any order in which
\* redirects arrive (state token and PKCE of HttpOidcClient, continue_pid_issuance).
THEOREM PidOfOwnLogin == LoginSpec => [](OwnPersonShown /\ CodesFitVerifiers)
<1>1. LoginInit => LoginInv
  <2>1. SUFFICES ASSUME LoginInit PROVE LoginInv
    BY Zenon
  <2>2. logins = <<>> /\ digid = None /\ uris = {} /\ identified = None /\ exchanges = {} /\ at_scene \in DOMAIN LoginScenes
    BY <2>1, Zenon DEF LoginInit, EveryLoginScene
  <2>3. logins \in Seq(LoginRecords) /\ DOMAIN logins = {}
    BY <2>2
  <2>4. SessionFits /\ OwnPersonShown
    BY <2>2, Zenon DEF SessionFits, OwnPersonShown, PidShown
  <2> QED BY <2>2, <2>3, <2>4, Zenon DEF LoginInv
<1>2. LoginInv /\ [LoginNext]_loginVars => LoginInv'
  <2>1. SUFFICES ASSUME LoginInv, [LoginNext]_loginVars PROVE LoginInv'
    BY Zenon
  <2>2. CASE UNCHANGED loginVars
    <3>1. /\ at_scene' = at_scene /\ digid' = digid /\ uris' = uris /\ exchanges' = exchanges
          /\ logins' = logins /\ identified' = identified
      BY <2>2, Zenon DEF loginVars
    <3>2. LoginsKept
      BY <2>1, <3>1, SameKept, Zenon
    <3> QED BY <2>1, <3>1, <3>2, SessionKept, InvariantFromParts, Zenon
  <2>3. CASE LoginNext
    BY <2>1, <2>3, CreateStep, LogInStep, LogInFailsStep, IdentifyStep, ContinueStep, CancelStep, Zenon DEF LoginNext
  <2> QED BY <2>1, <2>2, <2>3, Zenon
<1>3. LoginInv => OwnPersonShown /\ CodesFitVerifiers
  <2>1. SUFFICES ASSUME LoginInv, NEW r \in exchanges
                 PROVE  logins[r.code].request.code_challenge = S256PkcePair(r.code_verifier).challenge
    BY Zenon DEF LoginInv, CodesFitVerifiers
  <2>2. PICK n : n = r.code
    BY Zenon
  <2>3. n \in DOMAIN logins /\ r.code_verifier = n /\ logins[n].request = url_encoded_auth_request(HttpOidcClient(n))
    BY <2>1, <2>2, Zenon DEF LoginInv
  <2>4. n \in Nat
    BY <2>1, <2>3, KnownLogins, Zenon DEF LoginInv
  <2> QED BY <2>2, <2>3, <2>4, AuthRequestType, Zenon
<1> QED BY <1>1, <1>2, <1>3, PTL DEF LoginSpec
===============================================================================
