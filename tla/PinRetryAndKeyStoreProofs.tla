---------------------- MODULE PinRetryAndKeyStoreProofs ---------------------
(***************************************************************************)
(* The retry policy of the wallet provider, for every policy whose attempts*)
(* fit in the u8 that counts them: the counter is right, evaluate's        *)
(* assertion never fails, the account is blocked exactly at the limit, and *)
(* the timeouts are served.                                                *)
(*                                                                         *)
(* The key store of the phone, for any number of concurrent calls: a key   *)
(* has one owner at a time, so that new_unique never finds its identifier  *)
(* in use, and a key that was used is not replaced by another.             *)
(***************************************************************************)
EXTENDS MCPinRetry, KeyStore, TLAPS

-----------------------------------------------------------------------------
(* The retry policy.                                                        *)

Limit == policy.rounds * policy.attempts_per_round

\* evaluate is only ever called from a consistent starting point, so its
\* assertion cannot panic.
NeverPanics == ~blocked => EvaluateAssertion(entries + 1, last)

\* BlockedAtLimit needs the counter to stay within the limit, and the counter
\* and the timestamp to be reset together.
IInv ==
    /\ TypeOK
    /\ entries <= Limit
    /\ last = NoTime <=> entries = 0
    /\ BlockedAtLimit

\* evaluate answers BlockedPermanently from the limit on, and only then.
LEMMA BlockedEvaluation ==
    ASSUME NEW p, NEW k \in Nat, NEW l, NEW t,
           p.rounds * p.attempts_per_round \in 1..(U8 - 1)
    PROVE  evaluate(p, k, l, t).kind = "BlockedPermanently"
              <=> k >= p.rounds * p.attempts_per_round
<1>1. total_attempts(p) = p.rounds * p.attempts_per_round
  BY DEF total_attempts, U8
<1>2. is_blocked(p, k) <=> k >= p.rounds * p.attempts_per_round
  BY <1>1, Zenon DEF is_blocked
<1>3. evaluate(p, k, l, t).kind = "BlockedPermanently" <=> is_blocked(p, k)
  BY Zenon DEF evaluate, Evaluation
<1> QED
  BY <1>2, <1>3, Zenon

LEMMA LimitType ==
    ASSUME policy \in Policies
    PROVE  Limit \in 1..(U8 - 1)
  BY PoliciesAssumption, Zenon DEF Limit

LEMMA InitIInv == Init => IInv
<1> SUFFICES ASSUME Init PROVE IInv
  OBVIOUS
<1>1. Limit \in 1..255
  BY LimitType DEF Init, U8
<1>2. TypeOK
  <2>1. MaxTime \in Nat
    BY PoliciesAssumption, Zenon
  <2>2. blocked \in BOOLEAN
    BY Zenon DEF Init
  <2>3. policy \in Policies /\ now = 0 /\ entries = 0 /\ last = NoTime
    BY Zenon DEF Init
  <2> QED
    BY <2>1, <2>2, <2>3 DEF TypeOK, U8
<1>3. 0 # Limit /\ 0 <= Limit
  BY <1>1
<1> QED
  BY <1>2, <1>3, Zenon DEF Init, IInv, BlockedAtLimit, Limit

LEMMA NextIInv == IInv /\ [Next]_vars => IInv'
<1> SUFFICES ASSUME IInv, [Next]_vars PROVE IInv'
  OBVIOUS
<1> USE PoliciesAssumption
<1>1. Limit \in 1..255
  BY LimitType DEF IInv, TypeOK, U8
<1>2. CASE WrongPin
  <2>1. policy' = policy /\ now' = now /\ last' = now
    BY <1>2, Zenon DEF WrongPin
  <2>2. entries \in 0..255 /\ entries < Limit
    <3>1. ~blocked
      BY <1>2, Zenon DEF WrongPin, MayAttempt
    <3>2. entries \in 0..255 /\ entries <= Limit
      BY DEF IInv, TypeOK, U8
    <3>3. entries # Limit
      BY <3>1, Zenon DEF IInv, BlockedAtLimit, Limit
    <3> QED
      BY <1>1, <3>2, <3>3
  <2>3. entries' = entries + 1
    BY <1>1, <1>2, <2>2 DEF WrongPin, U8
  <2>4. blocked' <=> entries + 1 >= Limit
    <3>1. policy.rounds * policy.attempts_per_round \in 1..(U8 - 1)
      BY Zenon DEF IInv, TypeOK
    <3>2. NextEvaluation.kind = "BlockedPermanently" <=> entries + 1 >= Limit
      BY <2>2, <3>1, BlockedEvaluation DEF NextEvaluation, Limit
    <3> QED
      BY <1>2, <3>2, Zenon DEF WrongPin
  <2>5. TypeOK'
    BY <1>1, <1>2, <2>1, <2>2, <2>3 DEF IInv, TypeOK, U8, WrongPin
  <2>6. Limit' = Limit
    BY <2>1, Zenon DEF Limit
  <2>7. entries' <= Limit' /\ (blocked' <=> entries' = Limit')
    BY <1>1, <2>2, <2>3, <2>4, <2>6
  <2>8. last' # NoTime /\ entries' # 0
    BY <2>1, <2>2, <2>3 DEF IInv, TypeOK, NoTime
  <2> QED
    BY <2>5, <2>7, <2>8, Zenon DEF IInv, BlockedAtLimit, Limit
<1>3. CASE RightPin
  <2>1. policy' = policy /\ now' = now /\ last' = NoTime /\ entries' = 0
    BY <1>3, Zenon DEF RightPin
  <2>2. ~blocked' /\ blocked' \in BOOLEAN
    BY <1>3, Zenon DEF RightPin
  <2>3. TypeOK'
    BY <2>1, <2>2 DEF IInv, TypeOK, U8
  <2>4. Limit' = Limit
    BY <2>1, Zenon DEF Limit
  <2>5. entries' <= Limit' /\ entries' # Limit'
    BY <1>1, <2>1, <2>4
  <2> QED
    BY <2>1, <2>2, <2>3, <2>5, Zenon DEF IInv, BlockedAtLimit, Limit
<1>4. CASE Tick
  <2>1. UNCHANGED <<policy, entries, last, blocked>> /\ now' \in 0..MaxTime
    BY <1>4 DEF Tick, IInv, TypeOK
  <2> QED
    BY <2>1, Zenon DEF IInv, TypeOK, BlockedAtLimit, Limit
<1>5. CASE UNCHANGED vars
  BY <1>5, Zenon DEF vars, IInv, TypeOK, BlockedAtLimit, Limit
<1> QED
  BY <1>2, <1>3, <1>4, <1>5, Zenon DEF Next

\* For every policy and every sequence of right and wrong PINs, the account is
\* blocked exactly when all attempts of all rounds have been used up.
THEOREM BlockedExactlyAtLimit == Spec => []BlockedAtLimit
<1>1. IInv => BlockedAtLimit
  BY Zenon DEF IInv
<1> QED
  BY InitIInv, NextIInv, <1>1, PTL DEF Spec

\* For every policy, the assertion at the top of PinPolicy::evaluate holds
\* whenever handle_instruction calls it.
THEOREM AssertionNeverFails == Spec => []NeverPanics
<1>1. IInv => NeverPanics
  BY DEF IInv, TypeOK, NeverPanics, EvaluateAssertion, U8
<1> QED
  BY InitIInv, NextIInv, <1>1, PTL DEF Spec

-----------------------------------------------------------------------------
(* The schedule of the policy.  With one attempt in a round there is no     *)
(* attempt that evaluate makes wait, so rounds have two attempts or more.   *)

\* A number and the one before it, divided by the number of attempts in a round.
LEMMA OneBefore ==
    ASSUME NEW n \in Nat \ {0}, NEW k \in Nat \ {0}
    PROVE  /\ k = n * (k \div n) + (k % n) /\ k % n \in 0..(n - 1) /\ k \div n \in Nat
           /\ k % n = 0 => (k - 1) \div n = (k \div n) - 1 /\ (k - 1) % n = n - 1
           /\ k % n # 0 => (k - 1) \div n = k \div n /\ (k - 1) % n = (k % n) - 1
<1> DEFINE q == k \div n
           r == k % n
<1>1. k = n * q + r /\ r \in 0..(n - 1) /\ q \in Nat
  OBVIOUS
<1>2. ASSUME NEW m \in Nat, NEW c \in Int, NEW d \in 0..(n - 1), m = n * c + d
      PROVE  m \div n = c /\ m % n = d
  BY <1>2
<1>3. CASE r = 0
  <2>1. k - 1 = n * (q - 1) + (n - 1)
    BY <1>1, <1>3
  <2> QED BY <1>1, <1>2, <1>3, <2>1
<1>4. CASE r # 0
  <2>1. k - 1 = n * q + (r - 1)
    BY <1>1, <1>4
  <2> QED BY <1>1, <1>2, <1>4, <2>1, SMTT(30)
<1> QED BY <1>1, <1>3, <1>4, Zenon

\* The number of complete rounds in an attempt that is not beyond the last one.
LEMMA RoundNumber ==
    ASSUME NEW R \in Nat \ {0}, NEW n \in Nat, n >= 2, NEW k \in Nat \ {0}, k < R * n
    PROVE  /\ k \div n \in 0..(R - 1)
           /\ k \div n = 0 => k % n = k
           /\ k \div n > 0 => k >= 2
<1>1. PICK i \in Nat : i = k \div n
  BY OneBefore
<1>2. PICK m \in 0..(n - 1) : m = k % n
  BY OneBefore
<1>3. k = n * i + m
  BY <1>1, <1>2, OneBefore
<1>4. i < R
  <2> SUFFICES ASSUME i >= R PROVE FALSE
    BY <1>1
  <2>1. PICK c \in Nat : i = R + c
    BY <1>1
  <2>2. n * i = n * R + n * c
    BY <2>1
  <2>3. n * c >= 0 /\ n * R = R * n
    BY <2>1
  <2> QED BY <1>2, <1>3, <2>2, <2>3
<1>5. i = 0 => m = k
  BY <1>2, <1>3
<1>6. i > 0 => n * i >= n
  <2> SUFFICES ASSUME i > 0 PROVE n * i >= n
    OBVIOUS
  <2>1. PICK c \in Nat : i = c + 1
    BY <1>1
  <2> QED BY <2>1
<1>7. i > 0 => k >= 2
  BY <1>2, <1>3, <1>6
<1> QED BY <1>1, <1>2, <1>4, <1>5, <1>7

Rounds(p) ==
    /\ WellFormedPolicy(p)
    /\ p.rounds \in Nat \ {0} /\ p.attempts_per_round \in Nat /\ p.attempts_per_round >= 2
    /\ p.timeouts \in Seq(Nat)
    /\ p.rounds * p.attempts_per_round \in 1..(U8 - 1)

LEMMA BlockedAt ==
    ASSUME NEW p, Rounds(p), NEW k \in Nat
    PROVE  is_blocked(p, k) <=> k >= p.rounds * p.attempts_per_round
<1>1. PICK limit \in 1..255 : limit = p.rounds * p.attempts_per_round
  BY DEF Rounds, U8
<1>2. total_attempts(p) = limit
  BY <1>1 DEF total_attempts, U8
<1> QED BY <1>1, <1>2, Zenon DEF is_blocked

\* The round and the timeout of an attempt that does not block the account.
LEMMA RoundOfAttempt ==
    ASSUME NEW p, Rounds(p), NEW k \in Nat \ {0}, k < p.rounds * p.attempts_per_round,
           NEW n, n = p.attempts_per_round, NEW i, i = k \div n, NEW m, m = k % n
    PROVE  /\ ~is_blocked(p, k) /\ attempts_left_in_round(p, k) = n - m
           /\ i = 0 => m = k /\ current_timeout(p, k) = NoTime
           /\ i > 0 => k >= 2 /\ current_timeout(p, k) = p.timeouts[i] /\ p.timeouts[i] \in Nat
           /\ current_round(p, k) = IF m = 0 THEN i ELSE i + 1
           /\ is_final_round(p, k) = (current_round(p, k) = p.rounds)
<1>1. ~is_blocked(p, k)
  <2>1. p.rounds * p.attempts_per_round \in Nat
    BY DEF Rounds, U8
  <2> QED BY <2>1, BlockedAt
<1>2. PICK R \in Nat \ {0} : R = p.rounds
  BY Zenon DEF Rounds
<1>3. n \in Nat /\ n >= 2 /\ k < R * n
  BY <1>2, Zenon DEF Rounds
<1>4. i \in 0..(R - 1) /\ (i = 0 => m = k) /\ (i > 0 => k >= 2)
  BY <1>3, RoundNumber, Zenon
<1>5. m \in 0..(n - 1)
  BY <1>3, OneBefore
<1>6. Len(p.timeouts) = R - 1 /\ p.timeouts \in Seq(Nat)
  BY <1>2, Zenon DEF Rounds, WellFormedPolicy
<1>7. attempts_left_in_round(p, k) = n - m
  BY <1>1, Zenon DEF attempts_left_in_round
<1>8. i = 0 => current_timeout(p, k) = NoTime
  BY DEF current_timeout
<1>9. i > 0 => i \in 1..Len(p.timeouts)
  BY <1>4, <1>6
<1>10. i > 0 => p.timeouts[i] \in Nat
  BY <1>6, <1>9
<1>11. i > 0 => current_timeout(p, k) = p.timeouts[i]
  BY <1>1, <1>4, <1>9 DEF current_timeout
<1>12. current_round(p, k) = IF m = 0 THEN i ELSE i + 1
  <2>1. i > 0 /\ m = 0 <=> m = 0
    BY <1>4
  <2> QED BY <2>1, Zenon DEF current_round
<1>13. is_final_round(p, k) = (current_round(p, k) = p.rounds)
  BY <1>1, Zenon DEF is_final_round
<1> QED BY <1>1, <1>4, <1>7, <1>8, <1>10, <1>11, <1>12, <1>13, Zenon

\* evaluate follows the schedule, attempt by attempt.
LEMMA EvaluationIsScheduled ==
    ASSUME NEW p, Rounds(p), NEW k \in Nat \ {0}, NEW l \in Nat \cup {NoTime}, NEW t \in Nat,
           l = NoTime <=> k = 1
    PROVE  evaluate(p, k, l, t) = Schedule(p, k, l, t)
<1>1. PICK n \in Nat \ {0} : n = p.attempts_per_round /\ n >= 2 /\ n # 1
  BY DEF Rounds
<1>2. PICK limit \in Nat : limit = p.rounds * n /\ limit = p.rounds * p.attempts_per_round
  BY <1>1 DEF Rounds, U8
<1>3. PICK i : i = k \div n
  OBVIOUS
<1>4. PICK m : m = k % n
  OBVIOUS
<1>5. /\ m \in 0..(n - 1) /\ i \in Nat
      /\ m = 0 => (k - 1) \div n = i - 1 /\ (k - 1) % n = n - 1
      /\ m # 0 => (k - 1) \div n = i /\ (k - 1) % n = m - 1
  BY <1>3, <1>4, OneBefore, Zenon
<1>6. PICK round : round = ((k - 1) \div n) + 1
  OBVIOUS
<1>7. PICK pos : pos = ((k - 1) % n) + 1
  OBVIOUS
<1>8. PICK waits \in BOOLEAN : waits <=> pos = 1 /\ round > 1 /\ l + p.timeouts[round - 1] > t
  BY Zenon
<1>9. k < limit <=> ~(k >= limit)
  BY <1>2
<1>10. /\ k >= limit => Schedule(p, k, l, t) = Evaluation("BlockedPermanently", 0, 0, TRUE)
       /\ k < limit /\ pos = n => Schedule(p, k, l, t) = Evaluation("Timeout", p.timeouts[round], 0, FALSE)
       /\ k < limit /\ waits =>
             Schedule(p, k, l, t) = Evaluation("InTimeout", l + p.timeouts[round - 1] - t, 0, FALSE)
       /\ k < limit /\ pos # n /\ ~waits =>
             Schedule(p, k, l, t) = Evaluation("Failed", 0, n - pos, round = p.rounds)
  <2>1. ASSUME k >= limit PROVE Schedule(p, k, l, t) = Evaluation("BlockedPermanently", 0, 0, TRUE)
    BY <1>1, <1>2, <1>6, <1>7, <1>8, <1>9, <2>1, Zenon DEF Schedule
  <2>2. ASSUME k < limit, pos = n
        PROVE  Schedule(p, k, l, t) = Evaluation("Timeout", p.timeouts[round], 0, FALSE)
    BY <1>1, <1>2, <1>6, <1>7, <1>8, <1>9, <2>2, Zenon DEF Schedule
  <2>3. ASSUME k < limit, waits
        PROVE  Schedule(p, k, l, t) = Evaluation("InTimeout", l + p.timeouts[round - 1] - t, 0, FALSE)
    BY <1>1, <1>2, <1>6, <1>7, <1>8, <1>9, <2>3, Zenon DEF Schedule
  <2>4. ASSUME k < limit, pos # n, ~waits
        PROVE  Schedule(p, k, l, t) = Evaluation("Failed", 0, n - pos, round = p.rounds)
    BY <1>1, <1>2, <1>6, <1>7, <1>8, <1>9, <2>4, Zenon DEF Schedule
  <2> QED BY <2>1, <2>2, <2>3, <2>4, Zenon
<1>11. CASE k >= limit
  <2>1. is_blocked(p, k)
    BY <1>2, <1>11, BlockedAt, Zenon
  <2>2. evaluate(p, k, l, t) = Evaluation("BlockedPermanently", 0, 0, TRUE)
    BY <2>1, Zenon DEF evaluate
  <2> QED BY <1>10, <1>11, <2>2, Zenon
<1>12. CASE k < limit
  <2>1. /\ ~is_blocked(p, k) /\ attempts_left_in_round(p, k) = n - m
        /\ i = 0 => m = k /\ current_timeout(p, k) = NoTime
        /\ i > 0 => k >= 2 /\ current_timeout(p, k) = p.timeouts[i] /\ p.timeouts[i] \in Nat
        /\ current_round(p, k) = IF m = 0 THEN i ELSE i + 1
        /\ is_final_round(p, k) = (current_round(p, k) = p.rounds)
    BY <1>1, <1>2, <1>3, <1>4, <1>12, RoundOfAttempt
  <2>2. i > 0 => l \in Nat /\ l # NoTime
    BY <2>1
  <2>3. PICK timeout : timeout = current_timeout(p, k)
    OBVIOUS
  <2>4. evaluate(p, k, l, t) =
            IF l # NoTime /\ timeout # NoTime /\ n = n - m THEN Evaluation("Timeout", timeout, 0, FALSE)
            ELSE IF l # NoTime /\ timeout # NoTime /\ l + timeout > t /\ n = (n - m) + 1
            THEN Evaluation("InTimeout", (l + timeout) - t, 0, FALSE)
            ELSE Evaluation("Failed", 0, n - m, is_final_round(p, k))
    BY <1>1, <2>1, <2>3, Zenon DEF evaluate
  <2>5. CASE m = 0
    <3>1. i > 0 /\ timeout = p.timeouts[i] /\ timeout # NoTime /\ l # NoTime
      BY <1>5, <2>1, <2>2, <2>3, <2>5 DEF NoTime
    <3>2. n = n - m /\ pos = n /\ round = i
      BY <1>5, <1>6, <1>7, <2>5
    <3>3. Schedule(p, k, l, t) = Evaluation("Timeout", p.timeouts[i], 0, FALSE)
      BY <1>10, <1>12, <3>2, Zenon
    <3> QED BY <2>4, <3>1, <3>2, <3>3, Zenon
  <2>6. CASE m = 1 /\ i > 0 /\ l + p.timeouts[i] > t
    <3>1. timeout = p.timeouts[i] /\ timeout # NoTime /\ l # NoTime /\ l + timeout > t
      BY <2>1, <2>2, <2>3, <2>6 DEF NoTime
    <3>2. n # n - m /\ n = (n - m) + 1 /\ pos = 1 /\ round > 1 /\ round - 1 = i
      BY <1>5, <1>6, <1>7, <2>6, SMTT(30)
    <3>3. waits
      BY <1>8, <2>6, <3>2, Zenon
    <3>4. Schedule(p, k, l, t) = Evaluation("InTimeout", l + p.timeouts[round - 1] - t, 0, FALSE)
      BY <1>10, <1>12, <3>3, Zenon
    <3>5. l + p.timeouts[round - 1] - t = (l + timeout) - t
      BY <2>1, <2>2, <2>6, <3>1, <3>2
    <3>6. evaluate(p, k, l, t) = Evaluation("InTimeout", (l + timeout) - t, 0, FALSE)
      BY <2>4, <3>1, <3>2, Zenon
    <3> QED BY <3>4, <3>5, <3>6, Zenon
  <2>7. CASE m # 0 /\ ~(m = 1 /\ i > 0 /\ l + p.timeouts[i] > t)
    <3>1. n # n - m /\ (n = (n - m) + 1 => m = 1) /\ pos = m /\ pos # n /\ round = i + 1
      BY <1>5, <1>6, <1>7, <2>7
    <3>2. timeout # NoTime => i > 0 /\ timeout = p.timeouts[i]
      BY <1>5, <2>1, <2>3
    <3>3. evaluate(p, k, l, t) = Evaluation("Failed", 0, n - m, is_final_round(p, k))
      BY <2>4, <2>7, <3>1, <3>2, Zenon
    <3>4. round - 1 = i /\ (round > 1 => i > 0)
      BY <1>5, <3>1
    <3>5. ~waits
      BY <1>8, <2>7, <3>1, <3>4, Zenon
    <3>6. Schedule(p, k, l, t) = Evaluation("Failed", 0, n - pos, round = p.rounds)
      BY <1>10, <1>12, <3>1, <3>5, Zenon
    <3>7. is_final_round(p, k) = (round = p.rounds)
      BY <2>1, <2>7, <3>1, Zenon
    <3> QED BY <3>1, <3>3, <3>6, <3>7, Zenon
  <2> QED BY <1>5, <2>5, <2>6, <2>7, Zenon
<1> QED BY <1>9, <1>11, <1>12, Zenon

\* What ScheduleIsServed needs: the failures that are kept are the ones that are
\* counted, and the last of them is the timestamp that evaluate is given.
ServedInv ==
    /\ IInv
    /\ WellFormedPolicy(policy)
    /\ failedAt \in Seq(Nat) /\ Len(failedAt) = entries
    /\ entries > 0 => last = failedAt[entries]
    /\ TimeoutsServed

LEMMA PolicyHasRounds ==
    ASSUME ServedInv, \A p \in Policies : p.attempts_per_round >= 2
    PROVE  Rounds(policy)
  BY PoliciesAssumption, Zenon DEF ServedInv, IInv, TypeOK, Rounds

LEMMA ServedFollows ==
    ASSUME ServedInv, \A p \in Policies : p.attempts_per_round >= 2
    PROVE  NextEvaluation = Schedule(policy, entries + 1, last, now)
<1>1. Rounds(policy)
  BY PolicyHasRounds, Zenon
<1>2. entries + 1 \in Nat \ {0} /\ last \in Nat \cup {NoTime} /\ now \in Nat
  BY PoliciesAssumption DEF ServedInv, IInv, TypeOK, U8
<1>3. last = NoTime <=> entries + 1 = 1
  BY DEF ServedInv, IInv, TypeOK, U8
<1> QED BY <1>1, <1>2, <1>3, EvaluationIsScheduled, Zenon DEF NextEvaluation

\* The first attempt of the round after round r is not beyond the last one.
LEMMA NextRound ==
    ASSUME NEW R \in Nat, NEW n \in Nat, n >= 2, NEW r \in Nat, r <= R - 1
    PROVE  n * r + 1 < R * n
<1>1. PICK c \in Nat : R = r + 1 + c
  <2>1. R - (r + 1) \in Nat /\ R = r + 1 + (R - (r + 1))
    OBVIOUS
  <2> QED BY <2>1, Zenon
<1>2. R * n = n * r + n + n * c
  BY <1>1
<1>3. n * r \in Nat /\ n * c \in Nat
  BY <1>1
<1> QED BY <1>2, <1>3

\* The first attempt of a later round is only counted once the timeout is over.
LEMMA WaitedFor ==
    ASSUME ServedInv, \A p \in Policies : p.attempts_per_round >= 2, MayAttempt,
           NEW r \in 1..Len(policy.timeouts), entries = r * policy.attempts_per_round
    PROVE  last + policy.timeouts[r] <= now
<1>1. Rounds(policy)
  BY PolicyHasRounds, Zenon
<1>2. PICK n \in Nat \ {0} : n = policy.attempts_per_round /\ n >= 2 /\ n # 1
  BY <1>1 DEF Rounds
<1>3. PICK R \in Nat \ {0} : R = policy.rounds /\ Len(policy.timeouts) = R - 1
  BY <1>1, Zenon DEF Rounds, WellFormedPolicy
<1>4. PICK k \in Nat \ {0} : k = entries + 1
  BY DEF ServedInv, IInv, TypeOK, U8
<1>5. k = n * r + 1 /\ r \in Nat \ {0} /\ r <= R - 1
  BY <1>2, <1>3, <1>4, SMTT(30)
<1>6. k \div n = r /\ k % n = 1
  <2>1. ASSUME NEW m \in Nat, NEW c \in Int, NEW d \in 0..(n - 1), m = n * c + d
        PROVE  m \div n = c /\ m % n = d
    BY <2>1
  <2>2. 1 \in 0..(n - 1)
    BY <1>2
  <2> QED BY <1>4, <1>5, <2>1, <2>2
<1>7. k < R * n
  BY <1>2, <1>3, <1>5, NextRound, Zenon
<1>8. /\ ~is_blocked(policy, k) /\ attempts_left_in_round(policy, k) = n - 1
      /\ current_timeout(policy, k) = policy.timeouts[r] /\ policy.timeouts[r] \in Nat
  <2>1. k < policy.rounds * policy.attempts_per_round
    BY <1>2, <1>3, <1>7, Zenon
  <2>2. r > 0
    BY <1>5
  <2> QED BY <1>1, <1>2, <1>6, <2>1, <2>2, RoundOfAttempt, SMTT(30)
<1>9. last \in Nat /\ last # NoTime /\ now \in Nat
  <2>1. entries # 0
    <3>1. n * r >= 1
      BY <1>2, <1>5
    <3>2. entries \in Nat
      BY DEF ServedInv, IInv, TypeOK, U8
    <3> QED BY <1>2, <1>4, <1>5, <3>1, <3>2
  <2>2. last # NoTime /\ last \in {NoTime} \cup 0..MaxTime /\ now \in 0..MaxTime
    BY <2>1, Zenon DEF ServedInv, IInv, TypeOK
  <2> QED BY <2>2, PoliciesAssumption
<1> SUFFICES ASSUME last + policy.timeouts[r] > now PROVE FALSE
  BY <1>8, <1>9
<1>10. n # n - 1 /\ n = (n - 1) + 1 /\ policy.timeouts[r] # NoTime
  BY <1>2, <1>8, SMTT(30) DEF NoTime
<1>11. evaluate(policy, k, last, now)
          = Evaluation("InTimeout", (last + policy.timeouts[r]) - now, 0, FALSE)
  BY <1>2, <1>8, <1>9, <1>10, Zenon DEF evaluate
<1>12. NextEvaluation.kind = "InTimeout"
  BY <1>4, <1>11 DEF NextEvaluation, Evaluation
<1> QED BY <1>12, Zenon DEF MayAttempt

LEMMA ServedStep ==
    ASSUME ServedInv, \A p \in Policies : p.attempts_per_round >= 2, [MCNext]_mcVars
    PROVE  ServedInv'
<1>1. [Next]_vars
  BY Zenon DEF MCNext, mcVars, Next, vars
<1>2. IInv'
  BY <1>1, NextIInv, Zenon DEF ServedInv
<1>3. policy' = policy
  BY Zenon DEF MCNext, mcVars, WrongPin, RightPin, Tick
<1>4. WellFormedPolicy(policy)'
  BY <1>3, Zenon DEF ServedInv, WellFormedPolicy
<1>5. CASE WrongPin /\ failedAt' = Append(failedAt, now)
  <2>1. entries \in Nat /\ entries' = entries + 1 /\ last' = now /\ now \in Nat /\ MayAttempt
    <3>1. entries \in 0..255 /\ entries < Limit /\ Limit \in 1..255
      <4>1. Limit \in 1..255
        BY LimitType DEF ServedInv, IInv, TypeOK, U8
      <4>2. ~blocked
        BY <1>5, Zenon DEF WrongPin, MayAttempt
      <4>3. entries # Limit
        BY <4>2, Zenon DEF ServedInv, IInv, BlockedAtLimit, Limit
      <4> QED BY <4>1, <4>3 DEF ServedInv, IInv, TypeOK, U8
    <3>2. now \in Nat
      BY PoliciesAssumption DEF ServedInv, IInv, TypeOK
    <3> QED BY <1>5, <3>1, <3>2 DEF WrongPin, U8
  <2>2. /\ failedAt' \in Seq(Nat) /\ Len(failedAt') = entries'
        /\ failedAt'[entries'] = now
        /\ \A i \in 1..entries : failedAt'[i] = failedAt[i]
    BY <1>5, <2>1 DEF ServedInv
  <2>3. TimeoutsServed'
    <3> SUFFICES ASSUME NEW r \in 1..Len(policy.timeouts),
                        r * policy.attempts_per_round < entries + 1
                 PROVE  failedAt'[r * policy.attempts_per_round + 1]
                           >= failedAt'[r * policy.attempts_per_round] + policy.timeouts[r]
      BY <1>3, <2>1, <2>2, Zenon DEF TimeoutsServed
    <3>1. PICK k \in Nat \ {0} : k = r * policy.attempts_per_round
      <4>1. Rounds(policy)
        BY PolicyHasRounds, Zenon
      <4>2. PICK n \in Nat \ {0} : n = policy.attempts_per_round
        BY <4>1 DEF Rounds
      <4>3. r \in Nat \ {0} /\ r * n \in Nat \ {0}
        BY <4>1, <4>2, SMTT(30) DEF Rounds
      <4> QED BY <4>2, <4>3, Zenon
    <3>2. policy.timeouts[r] \in Nat
      <4>1. policy.timeouts \in Seq(Nat)
        BY PoliciesAssumption, Zenon DEF ServedInv, IInv, TypeOK
      <4> QED BY <4>1
    <3>3. CASE k = entries
      <4>1. last + policy.timeouts[r] <= now
        BY <2>1, <3>1, <3>3, WaitedFor, Zenon
      <4>2. last = failedAt[k] /\ failedAt'[k] = failedAt[k] /\ failedAt'[k + 1] = now
        BY <2>1, <2>2, <3>1, <3>3 DEF ServedInv
      <4>3. failedAt[k] \in Nat
        BY <2>1, <3>1, <3>3 DEF ServedInv
      <4> QED BY <2>1, <3>1, <3>2, <4>1, <4>2, <4>3, Zenon
    <3>4. CASE k < entries
      <4>1. failedAt[k + 1] >= failedAt[k] + policy.timeouts[r]
        BY <3>1, <3>4, Zenon DEF ServedInv, TimeoutsServed
      <4>2. failedAt'[k] = failedAt[k] /\ failedAt'[k + 1] = failedAt[k + 1]
        BY <2>1, <2>2, <3>1, <3>4, SMTT(30)
      <4> QED BY <3>1, <4>1, <4>2, Zenon
    <3> QED BY <2>1, <3>1, <3>3, <3>4
  <2> QED BY <1>2, <1>4, <2>1, <2>2, <2>3, Zenon DEF ServedInv
<1>6. CASE RightPin /\ failedAt' = <<>>
  <2>1. entries' = 0 /\ failedAt' \in Seq(Nat) /\ Len(failedAt') = 0
    BY <1>6 DEF RightPin
  <2>2. TimeoutsServed'
    <3> SUFFICES ASSUME NEW r \in 1..Len(policy.timeouts)
                 PROVE  ~(r * policy.attempts_per_round < 0)
      BY <1>3, <2>1, Zenon DEF TimeoutsServed
    <3>1. PICK n \in Nat : n = policy.attempts_per_round
      BY PoliciesAssumption, Zenon DEF ServedInv, IInv, TypeOK
    <3>2. Len(policy.timeouts) \in Nat
      BY PoliciesAssumption DEF ServedInv, IInv, TypeOK
    <3>3. r * n >= 0
      BY <3>1, <3>2
    <3> QED BY <3>1, <3>2, <3>3
  <2> QED BY <1>2, <1>4, <2>1, <2>2 DEF ServedInv
<1>7. CASE UNCHANGED <<entries, last, failedAt>>
  BY <1>2, <1>3, <1>4, <1>7, Zenon DEF ServedInv, TimeoutsServed
<1> QED BY <1>5, <1>6, <1>7, Zenon DEF MCNext, mcVars, Tick

LEMMA ServedInit == MCInit => ServedInv
<1> SUFFICES ASSUME MCInit PROVE ServedInv
  OBVIOUS
<1>1. IInv
  BY InitIInv, Zenon DEF MCInit
<1>2. TimeoutsServed
  <2> SUFFICES ASSUME NEW r \in 1..Len(policy.timeouts)
               PROVE  ~(r * policy.attempts_per_round < 0)
    <3>1. Len(failedAt) = 0
      BY Zenon DEF MCInit
    <3> QED BY <3>1, Zenon DEF TimeoutsServed
  <2>1. PICK n \in Nat : n = policy.attempts_per_round
    BY <1>1, PoliciesAssumption, Zenon DEF IInv, TypeOK
  <2>2. Len(policy.timeouts) \in Nat
    BY <1>1, PoliciesAssumption DEF IInv, TypeOK
  <2>3. r * n >= 0
    BY <2>1, <2>2
  <2> QED BY <2>1, <2>2, <2>3
<1> QED BY <1>1, <1>2 DEF MCInit, Init, ServedInv

\* For every policy with two or more attempts in a round, every answer of
\* PinPolicy::evaluate is the one that the schedule of rounds and timeouts
\* prescribes, and the first attempt of a later round is only counted once the
\* timeout that was announced has passed.
THEOREM ScheduleIsAlwaysServed ==
    ASSUME \A p \in Policies : p.attempts_per_round >= 2
    PROVE  MCSpec => []ScheduleIsServed
<1>1. ServedInv /\ [MCNext]_mcVars => ServedInv'
  BY ServedStep, Zenon
<1>2. ServedInv => ScheduleIsServed
  BY ServedFollows, Zenon DEF ScheduleIsServed, FollowsSchedule, ServedInv
<1> QED BY ServedInit, <1>1, <1>2, PTL DEF MCSpec

-----------------------------------------------------------------------------
(* The key store.                                                           *)

Keys == 0..5
Held == [live : BOOLEAN, key : Keys]

Initialising == {"init_claim", "init_open", "init_hw", "init_done"}
Registering == {"register_hw", "register_request", "register_claim", "register_open",
                "register_keep", "register_insert"}
Resetting == {"reset_storage", "reset_cleared", "reset_hw", "reset_done"}
Locking == Registering \cup Resetting

\* Where a call owns a key itself.
Owning(t) ==
    IF t = Encryption THEN {"init_open", "init_hw", "init_done", "register_open", "register_keep"}
    ELSE {"init_done", "register_request", "register_claim", "register_open", "register_keep",
          "register_insert"}

\* Where a call uses a key.
Using(t) == IF t = Encryption THEN {"init_open", "register_open"} ELSE {"register_request"}

\* Where a reset has yet to drop a key of the wallet, and where it has deleted it.
Dropping(t) == IF t = Encryption THEN {"reset_storage", "reset_cleared"} ELSE Resetting
Orphaned(t) == IF t = Encryption THEN "reset_cleared" ELSE "reset_done"

Known(t) == IF t = Encryption THEN memory.opened ELSE memory.registered

KeyStoreTypeOK ==
    /\ platform \in {"hardware", "software"}
    /\ stored \in [Types -> Keys] /\ used \in [Types -> Keys]
    /\ identifiers \subseteq Types
    /\ held \in [Owners -> [Types -> Held]]
    /\ cell \in {"empty", "busy", "full"}
    /\ guard \in Callers \cup {NoOne}
    /\ memory \in [opened : BOOLEAN, registered : BOOLEAN]
    /\ at \in [Callers -> {"idle"} \cup Initialising \cup Locking]

\* One call makes the wallet, and one has the lock of a wallet that was made.
Exclusion ==
    /\ \A c \in Callers : at[c] \in Initialising => cell = "busy"
    /\ \A c, d \in Callers : at[c] \in Initialising /\ at[d] \in Initialising => c = d
    /\ \A c \in Callers : at[c] \in Locking => guard = c /\ cell = "full"
    /\ guard # NoOne => at[guard] \in Locking

\* Who has an instance: a call between making it and giving it to the wallet, and a
\* wallet that was made, until a reset drops it.
Ownership ==
    /\ \A c \in Callers : \A t \in Types :
           (held[c][t].live => at[c] \in Owning(t)) /\ (at[c] \in Using(t) => held[c][t].live)
    /\ \A t \in Types : held["wallet"][t].live =>
           cell = "full" /\ (Known(t) \/ (guard # NoOne /\ at[guard] \in Dropping(t)))
    /\ \A c \in Callers :
           /\ at[c] \in Registering => ~memory.registered
           /\ at[c] \in {"register_claim", "register_open", "register_keep"} => ~memory.opened

\* An identifier in use has an instance, a software instance is of the stored key
\* until a reset deletes that, and the stored key is the one last used.
KeysFit ==
    /\ platform = "hardware" => \A t \in identifiers : \E o \in Owners : held[o][t].live
    /\ platform = "software" =>
           /\ \A c \in Callers : \A t \in Types : held[c][t].live => held[c][t].key = stored[t]
           /\ \A t \in Types : held["wallet"][t].live =>
                  held["wallet"][t].key = stored[t] \/ (guard # NoOne /\ at[guard] = Orphaned(t))
    /\ \A t \in Types : used[t] # 0 => stored[t] = used[t]

KeyStoreInv == KeyStoreTypeOK /\ Exclusion /\ Ownership /\ KeysFit

-----------------------------------------------------------------------------
(* The key store's operations                                               *)

LEMMA RandomKeyIsNew ==
    ASSUME KeyStoreTypeOK
    PROVE  RandomKey \in 1..5 /\ \A t \in Types : RandomKey # stored[t] /\ RandomKey # used[t]
<1>1. \A a, b, c, d \in 0..5 : \E k \in 1..5 : k # a /\ k # b /\ k # c /\ k # d
  OBVIOUS
<1>2. /\ stored[Signing] \in 0..5 /\ stored[Encryption] \in 0..5
      /\ used[Signing] \in 0..5 /\ used[Encryption] \in 0..5
  BY Zenon DEF KeyStoreTypeOK, Types, Keys
<1>3. \E k \in 1..5 : \A t \in Types : k # stored[t] /\ k # used[t]
  BY <1>1, <1>2 DEF Types
<1> QED BY <1>3, Zenon DEF RandomKey

LEMMA FreeIfNoInstance ==
    ASSUME KeyStoreInv, NEW t \in Types, \A o \in Owners : ~held[o][t].live
    PROVE  ~InUse(t)
<1>1. platform = "hardware" => t \notin identifiers
  BY Zenon DEF KeyStoreInv, KeysFit
<1>2. ~IsShared(t)
  BY Zenon DEF IsShared, Live
<1> QED BY <1>1, <1>2, Zenon DEF InUse

\* What the instances are after one of them was made or dropped.
Gets(o, t, instance) ==
    \A p \in Owners : \A u \in Types : held'[p][u] = IF p = o /\ u = t THEN instance ELSE held[p][u]

LEMMA Claims ==
    ASSUME KeyStoreInv, NEW c \in Callers, NEW t \in Types, NEW then,
           \A o \in Owners : ~held[o][t].live, new_unique(c, c, t, then)
    PROVE  /\ at' = [at EXCEPT ![c] = then] /\ used' = used
           /\ held' \in [Owners -> [Types -> Held]] /\ stored' \in [Types -> Keys]
           /\ \E key \in Keys : Gets(c, t, Instance(key)) /\ (platform = "software" => stored'[t] = key)
           /\ \A u \in Types : stored[u] # 0 \/ u # t => stored'[u] = stored[u]
           /\ identifiers' = IF platform = "hardware" THEN identifiers \cup {t} ELSE identifiers
<1> DEFINE key == IF stored[t] # 0 THEN stored[t] ELSE RandomKey
<1> USE DEF KeyStoreInv, KeyStoreTypeOK
<1>1. ~InUse(t)
  BY FreeIfNoInstance, Zenon
<1>2. at' = [at EXCEPT ![c] = then] /\ used' = used
  BY <1>1, Zenon DEF new_unique
<1>3. key \in Keys /\ c \in Owners
  BY RandomKeyIsNew DEF Keys, Owners
<1>4. ASSUME NEW k \in Keys, held' = [held EXCEPT ![c][t] = Instance(k)]
      PROVE  held' \in [Owners -> [Types -> Held]] /\ Gets(c, t, Instance(k))
  <2>1. Instance(k) \in Held
    BY Zenon DEF Instance, Held
  <2>2. [held[c] EXCEPT ![t] = Instance(k)] \in [Types -> Held]
    BY <1>3, <2>1, Zenon
  <2>3. held' = [held EXCEPT ![c] = [held[c] EXCEPT ![t] = Instance(k)]]
    BY <1>4, Zenon
  <2> QED BY <1>3, <2>1, <2>2, <2>3, Zenon DEF Gets
<1>5. CASE platform = "hardware"
  <2>1. /\ held' = [held EXCEPT ![c][t] = Instance(0)]
        /\ stored' = stored /\ identifiers' = identifiers \cup {t}
    BY <1>1, <1>5, Zenon DEF new_unique, UniqueKey
  <2>2. 0 \in Keys
    BY DEF Keys
  <2> QED BY <1>2, <1>4, <1>5, <2>1, <2>2, Zenon
<1>6. CASE platform = "software"
  <2>1. /\ held' = [held EXCEPT ![c][t] = Instance(key)] /\ stored' = [stored EXCEPT ![t] = key]
        /\ identifiers' = identifiers
    BY <1>1, <1>6, Zenon DEF new_unique, SoftwareEcdsaKey_new_unique, SoftwareEncryptionKey_new_unique
  <2>2. /\ stored' \in [Types -> Keys] /\ stored'[t] = key
        /\ \A u \in Types : stored[u] # 0 \/ u # t => stored'[u] = stored[u]
    BY <1>3, <2>1, Zenon
  <2> HIDE DEF key
  <2> QED BY <1>2, <1>3, <1>4, <1>6, <2>1, <2>2, Zenon
<1> QED BY <1>5, <1>6, Zenon

LEMMA Uses ==
    ASSUME KeyStoreInv, NEW o \in Owners, NEW t \in Types, Use(o, t),
           platform = "software" => held[o][t].key = stored[t]
    PROVE  /\ stored' \in [Types -> Keys] /\ used' \in [Types -> Keys]
           /\ UNCHANGED <<identifiers, held>>
           /\ platform = "software" => stored' = stored
           /\ \A u \in Types : used'[u] # 0 => stored'[u] = used'[u]
<1> DEFINE key == IF platform = "software" THEN held[o][t].key
                  ELSE IF stored[t] # 0 THEN stored[t] ELSE RandomKey
<1> USE DEF KeyStoreInv, KeyStoreTypeOK
<1>1. key \in Keys
  BY RandomKeyIsNew DEF Keys
<1>2. /\ stored' = [stored EXCEPT ![t] = IF platform = "hardware" THEN key ELSE stored[t]]
      /\ used' = [used EXCEPT ![t] = key] /\ UNCHANGED <<identifiers, held>>
  BY Zenon DEF Use
<1>3. platform = "software" => key = stored[t]
  OBVIOUS
<1> HIDE DEF key
<1>4. platform = "software" => stored' = stored
  BY <1>2, Zenon
<1> QED BY <1>1, <1>2, <1>3, <1>4, Zenon DEF KeysFit
LEMMA Drops ==
    ASSUME KeyStoreInv, NEW o \in Owners, NEW types \in SUBSET Types, DropInstances(o, types)
    PROVE  /\ held' \in [Owners -> [Types -> Held]] /\ identifiers' \subseteq Types
           /\ \A p \in Owners : \A u \in Types :
                  held'[p][u] = IF p = o /\ u \in types THEN NoInstance ELSE held[p][u]
           /\ platform = "hardware" => \A t \in identifiers' : \E p \in Owners : held'[p][t].live
<1> DEFINE row == [t \in Types |-> IF t \in types THEN NoInstance ELSE held[o][t]]
<1> USE DEF KeyStoreInv, KeyStoreTypeOK
<1>1. held' = [held EXCEPT ![o] = row] /\ identifiers' = identifiers \ {t \in types : held[o][t].live}
  BY Zenon DEF DropInstances
<1>2. NoInstance \in Held
  BY DEF NoInstance, Held, Keys
<1>3. row \in [Types -> Held]
  BY <1>2
<1>4. held' \in [Owners -> [Types -> Held]]
  BY <1>1, <1>3, Zenon
<1>5. \A p \in Owners : \A u \in Types :
          held'[p][u] = IF p = o /\ u \in types THEN NoInstance ELSE held[p][u]
  BY <1>1, Zenon
<1>6. ASSUME platform = "hardware", NEW t \in identifiers' PROVE \E p \in Owners : held'[p][t].live
  <2>1. PICK p \in Owners : held[p][t].live
    BY <1>1, <1>6, Zenon DEF KeysFit
  <2>2. t \in Types /\ ~(p = o /\ t \in types)
    BY <1>1, <2>1, Zenon
  <2> QED BY <1>5, <2>1, <2>2, Zenon
<1> QED BY <1>1, <1>4, <1>5, <1>6, Zenon

\* Instances of types go from one owner to another.
Moves(from, to, types) ==
    /\ held' \in [Owners -> [Types -> Held]]
    /\ \A p \in Owners : \A u \in Types :
           held'[p][u] = IF u \in types /\ p = to THEN held[from][u]
                         ELSE IF u \in types /\ p = from THEN NoInstance ELSE held[p][u]

LEMMA MovesAll ==
    ASSUME KeyStoreInv, NEW c \in Callers,
           held' = [held EXCEPT !["wallet"] = held[c], ![c] = [t \in Types |-> NoInstance]]
    PROVE  Moves(c, "wallet", Types)
<1>1. [t \in Types |-> NoInstance] \in [Types -> Held]
  BY DEF NoInstance, Held, Keys
<1>2. c \in Owners /\ "wallet" \in Owners /\ c # "wallet"
  BY KeyStoreAssumption, Zenon DEF Owners
<1> QED BY <1>1, <1>2, Zenon DEF Moves, KeyStoreInv, KeyStoreTypeOK

LEMMA MovesOne ==
    ASSUME KeyStoreInv, NEW c \in Callers, NEW t \in Types,
           held' = [held EXCEPT !["wallet"][t] = held[c][t], ![c][t] = NoInstance]
    PROVE  Moves(c, "wallet", {t})
<1> DEFINE w == [held["wallet"] EXCEPT ![t] = held[c][t]]
           r == [held[c] EXCEPT ![t] = NoInstance]
<1> USE DEF KeyStoreInv, KeyStoreTypeOK
<1>1. c \in Owners /\ "wallet" \in Owners /\ c # "wallet"
  BY KeyStoreAssumption, Zenon DEF Owners
<1>2. NoInstance \in Held
  BY DEF NoInstance, Held, Keys
<1>3. w \in [Types -> Held] /\ \A u \in Types : w[u] = IF u = t THEN held[c][t] ELSE held["wallet"][u]
  BY <1>1
<1>4. r \in [Types -> Held] /\ \A u \in Types : r[u] = IF u = t THEN NoInstance ELSE held[c][u]
  BY <1>1, <1>2, Zenon
<1>5. held' = [held EXCEPT !["wallet"] = w, ![c] = r]
  BY <1>1, Zenon
<1> HIDE DEF w, r
<1>6. held' \in [Owners -> [Types -> Held]]
  BY <1>1, <1>3, <1>4, <1>5, Zenon
<1>7. held'["wallet"] = w /\ held'[c] = r /\ \A p \in Owners \ {c, "wallet"} : held'[p] = held[p]
  BY <1>1, <1>5, Zenon
<1> QED BY <1>1, <1>3, <1>4, <1>6, <1>7 DEF Moves

-----------------------------------------------------------------------------
(* The invariant is inductive                                               *)

LEMMA KeyStoreInitInv == KeyStoreInit => KeyStoreInv
<1> SUFFICES ASSUME KeyStoreInit PROVE KeyStoreInv
  OBVIOUS
<1> USE DEF KeyStoreInit
<1>1. KeyStoreTypeOK
  BY DEF KeyStoreTypeOK, NoInstance, Held, Keys
<1>2. \A o \in Owners : \A t \in Types : ~held[o][t].live
  BY Zenon DEF NoInstance
<1>3. Callers \subseteq Owners /\ "wallet" \in Owners
  BY Zenon DEF Owners
<1>4. Exclusion
  BY Zenon DEF Exclusion, Initialising, Locking, Registering, Resetting
<1>5. Ownership
  BY <1>2, <1>3, Zenon DEF Ownership, Registering, Using
<1>6. KeysFit
  BY <1>2, <1>3, Zenon DEF KeysFit
<1> QED BY <1>1, <1>4, <1>5, <1>6, Zenon DEF KeyStoreInv

USE DEF Initialising, Registering, Resetting, Locking

\* When a call is about to make an instance, nobody has one.
LEMMA NobodyElse ==
    ASSUME KeyStoreInv, NEW c \in Callers, NEW t \in Types,
           \/ t = Encryption /\ at[c] \in {"init_claim", "register_claim"}
           \/ t = Signing /\ at[c] \in {"init_hw", "register_hw"}
    PROVE  \A o \in Owners : ~held[o][t].live
<1> USE DEF KeyStoreInv, KeyStoreTypeOK, Exclusion, Signing, Encryption
<1>1. ~held["wallet"][t].live
  <2>1. CASE at[c] \in Initialising
    BY <2>1, Zenon DEF Ownership
  <2>2. CASE at[c] \in Locking
    <3>1. guard = c /\ ~Known(t) /\ at[guard] \notin Dropping(t)
      BY <2>2, Zenon DEF Ownership, Known, Dropping
    <3> QED BY <3>1, Zenon DEF Ownership
  <2> QED BY <2>1, <2>2, Zenon
<1>2. ASSUME NEW d \in Callers PROVE ~held[d][t].live
  <2>1. at[c] \notin Owning(t)
    BY Zenon DEF Owning
  <2>2. at[d] \in Owning(t) => d = c
    BY Zenon DEF Owning
  <2> QED BY <2>1, <2>2, Zenon DEF Ownership
<1> QED BY <1>1, <1>2, Zenon DEF Owners

\* At most one call is active: the step that makes it so, and the ones it takes, need
\* only be right about itself, the wallet and the keys.
Alone(c) == guard \in {c, NoOne} /\ \A d \in Callers \ {c} : at[d] = "idle"

LEMMA ActiveIsAlone ==
    ASSUME KeyStoreInv, NEW c \in Callers,
           at[c] # "idle" \/ (cell = "full" /\ guard = NoOne) \/ cell = "empty"
    PROVE  Alone(c)
<1> USE DEF KeyStoreInv, KeyStoreTypeOK, Exclusion
<1>1. NoOne \notin Callers
  BY KeyStoreAssumption, Zenon DEF NoOne
<1>2. guard \in {c, NoOne}
  <2>1. CASE at[c] \in Locking BY <2>1, Zenon
  <2>2. CASE guard # NoOne /\ at[c] \notin Locking
    <3>1. guard \in Callers /\ cell = "full"
      BY <2>2, Zenon
    <3> QED BY <2>2, <3>1, Zenon
  <2> QED BY <2>1, <2>2, Zenon
<1>3. ASSUME NEW d \in Callers \ {c}, at[d] # "idle" PROVE FALSE
  <2>1. CASE at[d] \in Locking
    <3>1. guard = d /\ cell = "full" /\ guard # NoOne
      BY <1>1, <2>1, Zenon
    <3> QED BY <1>2, <3>1, Zenon
  <2>2. CASE at[d] \in Initialising
    <3>1. cell = "busy"
      BY <2>2, Zenon
    <3> QED BY <1>3, <2>2, <3>1, Zenon
  <2> QED BY <1>3, <2>1, <2>2, Zenon
<1> QED BY <1>2, <1>3, Zenon DEF Alone

\* What a step of a call leaves behind, if it is then at next.
Typed ==
    /\ platform' = platform /\ cell' \in {"empty", "busy", "full"}
    /\ memory' \in [opened : BOOLEAN, registered : BOOLEAN]
    /\ stored' \in [Types -> Keys] /\ used' \in [Types -> Keys] /\ identifiers' \subseteq Types
    /\ held' \in [Owners -> [Types -> Held]]
Placed(c, next) ==
    /\ at' = [at EXCEPT ![c] = next]
    /\ next \in Initialising => cell' = "busy"
    /\ next \in Locking => cell' = "full"
    /\ guard' = IF next \in Locking THEN c ELSE NoOne
Owned(c, next) ==
    /\ \A d \in Callers \ {c} : held'[d] = held[d]
    /\ \A t \in Types :
           /\ held'[c][t].live => next \in Owning(t)
           /\ next \in Using(t) => held'[c][t].live
           /\ held'["wallet"][t].live => cell' = "full" /\ (Known(t)' \/ next \in Dropping(t))
    /\ next \in Registering => ~memory'.registered
    /\ next \in {"register_claim", "register_open", "register_keep"} => ~memory'.opened
Fitted(c, next) ==
    /\ platform = "hardware" => \A t \in identifiers' : \E o \in Owners : held'[o][t].live
    /\ platform = "software" => \A t \in Types :
           /\ held'[c][t].live => held'[c][t].key = stored'[t]
           /\ held'["wallet"][t].live => held'["wallet"][t].key = stored'[t] \/ next = Orphaned(t)
    /\ \A t \in Types : used'[t] # 0 => stored'[t] = used'[t]

LEMMA StepOfCall ==
    ASSUME KeyStoreInv, NEW c \in Callers, NEW next \in {"idle"} \cup Initialising \cup Locking,
           Alone(c), Typed, Placed(c, next), Owned(c, next), Fitted(c, next)
    PROVE  KeyStoreInv'
<1> USE DEF KeyStoreInv, KeyStoreTypeOK
<1>1. /\ NoOne \notin Callers /\ at'[c] = next /\ guard' \in Callers \cup {NoOne}
      /\ \A d \in Callers : d = c \/ (at'[d] = "idle" /\ at[d] = "idle")
  <2>1. NoOne \notin Callers
    BY KeyStoreAssumption, Zenon DEF NoOne
  <2> QED BY <2>1, Zenon DEF Placed, Alone
<1>2. \A d \in Callers : d = c \/ \A t \in Types : ~held'[d][t].live
  BY <1>1 DEF Owned, Ownership, Owning
<1>3. KeyStoreTypeOK'
  BY <1>1, Zenon DEF Typed, Placed
<1>4. Exclusion'
  BY <1>1 DEF Exclusion, Placed
<1>5. Ownership'
  <2>1. \A d \in Callers : \A t \in Types :
            (held'[d][t].live => at'[d] \in Owning(t)) /\ (at'[d] \in Using(t) => held'[d][t].live)
    BY <1>1, <1>2, Zenon DEF Owned, Using
  <2>2. \A t \in Types : next \in Dropping(t) => guard' = c /\ guard' # NoOne
    BY <1>1, Zenon DEF Dropping, Placed
  <2>3. \A t \in Types : held'["wallet"][t].live =>
            cell' = "full" /\ (Known(t)' \/ (guard' # NoOne /\ at'[guard'] \in Dropping(t)))
    BY <1>1, <2>2, Zenon DEF Owned
  <2>4. \A d \in Callers :
            /\ at'[d] \in Registering => ~memory'.registered
            /\ at'[d] \in {"register_claim", "register_open", "register_keep"} => ~memory'.opened
    BY <1>1, Zenon DEF Owned
  <2>5. \A t \in Types : Dropping(t)' = Dropping(t) /\ Owning(t)' = Owning(t) /\ Using(t)' = Using(t)
    BY Zenon DEF Dropping, Owning, Using
  <2> QED BY <2>1, <2>3, <2>4, <2>5, Zenon DEF Ownership
<1>6. KeysFit'
  <2>1. \A t \in Types : next = Orphaned(t) => guard' = c /\ guard' # NoOne
    BY <1>1, Zenon DEF Orphaned, Placed
  <2>2. platform' = platform
    BY Zenon DEF Typed
  <2>3. platform' = "hardware" => \A t \in identifiers' : \E o \in Owners : held'[o][t].live
    BY <2>2, Zenon DEF Fitted
  <2>4. platform' = "software" => \A d \in Callers : \A t \in Types :
            held'[d][t].live => held'[d][t].key = stored'[t]
    BY <1>2, <2>2, Zenon DEF Fitted
  <2>5. platform' = "software" => \A t \in Types : held'["wallet"][t].live =>
            held'["wallet"][t].key = stored'[t] \/ (guard' # NoOne /\ at'[guard'] = Orphaned(t))
    BY <1>1, <2>1, <2>2, SMTT(30) DEF Fitted
  <2>6. \A t \in Types : used'[t] # 0 => stored'[t] = used'[t]
    BY Zenon DEF Fitted
  <2> QED BY <2>3, <2>4, <2>5, <2>6, Zenon DEF KeysFit
<1> QED BY <1>3, <1>4, <1>5, <1>6, Zenon
-----------------------------------------------------------------------------
(* One lemma for each kind of step                                          *)

USE DEF Signing, Encryption, Types

\* new_unique in init and in register.
LEMMA ClaimStep ==
    ASSUME KeyStoreInv, NEW c \in Callers, NEW t \in Types, NEW next, UNCHANGED rest,
           new_unique(c, c, t, next),
           \/ t = Encryption /\ at[c] = "init_claim" /\ next = "init_open"
           \/ t = Encryption /\ at[c] = "register_claim" /\ next = "register_open"
           \/ t = Signing /\ at[c] = "init_hw" /\ next = "init_done"
           \/ t = Signing /\ at[c] = "register_hw" /\ next = "register_request"
    PROVE  KeyStoreInv'
<1> USE DEF KeyStoreInv, KeyStoreTypeOK
<1> Callers \subseteq Owners /\ "wallet" \in Owners /\ "wallet" \notin Callers
  BY KeyStoreAssumption, Zenon DEF Owners
<1>1. \A o \in Owners : ~held[o][t].live
  BY NobodyElse, Zenon
<1>2. /\ at' = [at EXCEPT ![c] = next] /\ used' = used
      /\ held' \in [Owners -> [Types -> Held]] /\ stored' \in [Types -> Keys]
      /\ \A u \in Types : stored[u] # 0 \/ u # t => stored'[u] = stored[u]
      /\ identifiers' = IF platform = "hardware" THEN identifiers \cup {t} ELSE identifiers
  BY <1>1, Claims
<1>3. PICK key \in Keys : Gets(c, t, Instance(key)) /\ (platform = "software" => stored'[t] = key)
  BY <1>1, Claims
<1>4. /\ Instance(key).live /\ Instance(key).key = key
      /\ \A p \in Owners : \A u \in Types :
             held'[p][u] = IF p = c /\ u = t THEN Instance(key) ELSE held[p][u]
  BY <1>3, Zenon DEF Instance, Gets
<1>5. /\ \A u \in Types : held'["wallet"][u] = held["wallet"][u]
      /\ \A u \in Types : held'[c][u].live <=> u = t \/ held[c][u].live
      /\ held'[c][t].key = key
  BY <1>1, <1>4, Zenon
<1>6. Alone(c)
  BY ActiveIsAlone, Zenon
<1>7. Typed
  BY <1>2, Zenon DEF Typed, rest
<1>8. Placed(c, next)
  BY <1>2, <1>6, Zenon DEF Placed, Exclusion, rest, Alone
<1>9. Owned(c, next)
  <2>1. ASSUME NEW d \in Callers \ {c} PROVE held'[d] = held[d]
    <3>1. /\ held'[d] \in [Types -> Held] /\ held[d] \in [Types -> Held]
          /\ \A u \in Types : held'[d][u] = held[d][u]
      BY <1>2, <1>4, Zenon
    <3> QED BY <3>1
  <2>2. \A u \in Types : held[c][u].live => next \in Owning(u)
    BY Zenon DEF Ownership, Owning
  <2>3. next \in Owning(t) /\ \A u \in Types : next \in Using(u) => u = t
    BY Zenon DEF Owning, Using
  <2>4. \A u \in Types : held["wallet"][u].live => cell = "full" /\ Known(u)
    BY <1>6, Zenon DEF Ownership, Dropping, Alone, Exclusion
  <2> QED BY <1>5, <2>1, <2>2, <2>3, <2>4, Zenon DEF Owned, Ownership, rest, Known
<1>10. Fitted(c, next)
  <2>1. ASSUME platform = "hardware", NEW u \in identifiers' PROVE \E o \in Owners : held'[o][u].live
    <3>1. CASE u = t BY <1>4, <3>1
    <3>2. CASE u # t
      <4>1. PICK o \in Owners : held[o][u].live
        BY <1>2, <2>1, <3>2, Zenon DEF KeysFit
      <4> QED BY <1>2, <1>4, <2>1, <3>2, <4>1
    <3> QED BY <3>1, <3>2, Zenon
  <2>2. ASSUME platform = "software", NEW u \in Types, held'[c][u].live
        PROVE  held'[c][u].key = stored'[u]
    <3>1. CASE u = t BY <1>3, <1>5, <2>2, <3>1, Zenon
    <3>2. CASE u # t BY <1>2, <1>4, <2>2, <3>2 DEF KeysFit
    <3> QED BY <3>1, <3>2, Zenon
  <2>3. ASSUME platform = "software", NEW u \in Types, held'["wallet"][u].live
        PROVE  held'["wallet"][u].key = stored'[u]
    <3>1. u # t /\ held["wallet"][u].live
      BY <1>1, <1>5, <2>3, Zenon
    <3>2. ~(guard # NoOne /\ at[guard] = Orphaned(u))
      BY <1>6, Zenon DEF Alone, Orphaned
    <3> QED BY <1>2, <1>5, <2>3, <3>1, <3>2 DEF KeysFit
  <2> QED BY <1>2, <2>1, <2>2, <2>3 DEF Fitted, KeysFit
<1> QED BY <1>6, <1>7, <1>8, <1>9, <1>10, StepOfCall, Zenon

\* A call that uses a key of its own.
LEMMA UseStep ==
    ASSUME KeyStoreInv, NEW c \in Callers, NEW t \in Types, Use(c, t), NEW next,
           UNCHANGED <<platform, cell, memory, guard>>, at' = [at EXCEPT ![c] = next],
           \/ t = Encryption /\ at[c] = "init_open" /\ next \in {"init_hw", "init_done"}
           \/ t = Encryption /\ at[c] = "register_open" /\ next = "register_keep"
           \/ t = Signing /\ at[c] = "register_request" /\ next = "register_insert"
           \/ t = Signing /\ at[c] = "register_request" /\ next = "register_claim" /\ ~memory.opened
    PROVE  KeyStoreInv'
<1> USE DEF KeyStoreInv, KeyStoreTypeOK
<1> Callers \subseteq Owners /\ "wallet" \in Owners /\ "wallet" \notin Callers
  BY KeyStoreAssumption, Zenon DEF Owners
<1>1. held[c][t].live
  BY Zenon DEF Ownership, Using
<1>2. platform = "software" => held[c][t].key = stored[t]
  BY <1>1, Zenon DEF KeysFit
<1>3. /\ stored' \in [Types -> Keys] /\ used' \in [Types -> Keys] /\ UNCHANGED <<identifiers, held>>
      /\ platform = "software" => stored' = stored
      /\ \A u \in Types : used'[u] # 0 => stored'[u] = used'[u]
  BY <1>2, Uses
<1>4. Alone(c)
  BY ActiveIsAlone, Zenon
<1>5. Typed
  BY <1>3, Zenon DEF Typed
<1>6. Placed(c, next)
  BY <1>4, Zenon DEF Placed, Exclusion, Alone
<1>7. \A u \in Types : held["wallet"][u].live => cell = "full" /\ Known(u)
  BY <1>4 DEF Ownership, Dropping, Alone, Exclusion
<1>8. Owned(c, next)
  <2>1. \A u \in Types : (held[c][u].live => next \in Owning(u)) /\ next \notin Using(u)
    BY Zenon DEF Ownership, Owning, Using
  <2> QED BY <1>3, <1>7, <2>1, Zenon DEF Owned, Ownership, Known
<1>9. Fitted(c, next)
  <2>1. \A u \in Types : ~(guard # NoOne /\ at[guard] = Orphaned(u))
    BY <1>4, Zenon DEF Alone, Orphaned
  <2> QED BY <1>3, <2>1 DEF Fitted, KeysFit
<1> QED BY <1>4, <1>5, <1>6, <1>8, <1>9, StepOfCall, Zenon

\* A call that fails drops what it has.
LEMMA FailStep ==
    ASSUME KeyStoreInv, NEW c \in Callers, Returns(c), UNCHANGED <<platform, stored, used, memory>>,
           \/ at[c] = "init_open" /\ cell' = "empty" /\ guard' = guard
           \/ /\ at[c] \in {"register_request", "register_open", "register_insert"}
              /\ cell' = cell /\ guard' = NoOne
    PROVE  KeyStoreInv'
<1> USE DEF KeyStoreInv, KeyStoreTypeOK
<1> Callers \subseteq Owners /\ "wallet" \in Owners /\ "wallet" \notin Callers
  BY KeyStoreAssumption, Zenon DEF Owners
<1>1. /\ held' \in [Owners -> [Types -> Held]] /\ identifiers' \subseteq Types
      /\ \A o \in Owners : \A u \in Types :
             held'[o][u] = IF o = c /\ u \in Types THEN NoInstance ELSE held[o][u]
      /\ platform = "hardware" => \A u \in identifiers' : \E o \in Owners : held'[o][u].live
  BY Drops DEF Returns
<1>2. /\ \A u \in Types : ~held'[c][u].live /\ held'["wallet"][u] = held["wallet"][u]
      /\ at' = [at EXCEPT ![c] = "idle"]
  BY <1>1 DEF NoInstance, Returns
<1>3. Alone(c)
  BY ActiveIsAlone, Zenon
<1>4. Typed
  BY <1>1, Zenon DEF Typed
<1>5. Placed(c, "idle")
  BY <1>2, <1>3, Zenon DEF Placed, Exclusion, Alone
<1>6. \A u \in Types : held["wallet"][u].live => cell = "full" /\ Known(u)
  BY <1>3 DEF Ownership, Dropping, Alone, Exclusion
<1>7. Owned(c, "idle")
  <2>1. ASSUME NEW d \in Callers \ {c} PROVE held'[d] = held[d]
    <3>1. /\ held'[d] \in [Types -> Held] /\ held[d] \in [Types -> Held]
          /\ \A u \in Types : held'[d][u] = held[d][u]
      BY <1>1
    <3> QED BY <3>1
  <2>2. \A u \in Types : held["wallet"][u].live => cell' = "full"
    BY <1>6, Zenon DEF Exclusion
  <2> QED BY <1>2, <1>6, <2>1, <2>2, Zenon DEF Owned, Known, Using
<1>8. Fitted(c, "idle")
  <2>1. \A u \in Types : ~(guard # NoOne /\ at[guard] = Orphaned(u))
    BY <1>3, Zenon DEF Alone, Orphaned
  <2> QED BY <1>1, <1>2, <2>1 DEF Fitted, KeysFit
<1> QED BY <1>3, <1>4, <1>5, <1>7, <1>8, StepOfCall, Zenon
\* A call that starts, of init, register or reset_wallet.
LEMMA CallStep ==
    ASSUME KeyStoreInv, NEW c \in Callers, at[c] = "idle", NEW next,
           UNCHANGED <<platform, keyStore>>, at' = [at EXCEPT ![c] = next],
           \/ cell = "empty" /\ cell' = "busy" /\ next \in {"init_claim", "init_done"}
              /\ UNCHANGED <<guard, memory>>
           \/ cell = "full" /\ UNCHANGED <<cell, memory>> /\ guard = NoOne /\ guard' = c
              /\ next = "register_hw" /\ ~memory.registered
           \/ cell = "full" /\ UNCHANGED cell /\ guard = NoOne /\ guard' = c /\ next = "reset_storage"
              /\ memory' = [opened |-> FALSE, registered |-> FALSE]
    PROVE  KeyStoreInv'
<1> USE DEF KeyStoreInv, KeyStoreTypeOK
<1> Callers \subseteq Owners /\ "wallet" \in Owners /\ "wallet" \notin Callers
  BY KeyStoreAssumption, Zenon DEF Owners
<1>1. Alone(c)
  BY ActiveIsAlone, Zenon
<1>2. UNCHANGED <<stored, identifiers, held, used>> /\ \A u \in Types : ~held[c][u].live
  BY Zenon DEF keyStore, Ownership, Owning
<1>3. Typed
  <2>1. [opened |-> FALSE, registered |-> FALSE] \in [opened : BOOLEAN, registered : BOOLEAN]
    BY Zenon
  <2>2. memory' \in [opened : BOOLEAN, registered : BOOLEAN]
    BY <2>1, Zenon
  <2> QED BY <1>2, <2>2, Zenon DEF Typed
<1>4. guard = NoOne
  BY <1>1, Zenon DEF Alone, Exclusion
<1>5. Placed(c, next)
  BY <1>4, Zenon DEF Placed
<1>6. Owned(c, next)
  <2>1. next \notin Using(Signing) /\ next \notin Using(Encryption)
    BY Zenon DEF Using
  <2>2. \A u \in Types : held["wallet"][u].live => cell = "full" /\ Known(u)
    BY <1>4, Zenon DEF Ownership
  <2>3. next = "reset_storage" => \A u \in Types : next \in Dropping(u)
    BY Zenon DEF Dropping
  <2>4. next = "reset_storage" \/ \A u \in Types : held["wallet"][u].live => cell' = "full" /\ Known(u)'
    BY <2>2, Zenon DEF Known
  <2> QED BY <1>2, <2>1, <2>2, <2>3, <2>4, Zenon DEF Owned
<1>7. Fitted(c, next)
  BY <1>2, <1>4, Zenon DEF Fitted, KeysFit
<1> QED BY <1>1, <1>3, <1>5, <1>6, <1>7, StepOfCall, Zenon

\* What a call has made becomes the wallet's.
LEMMA MoveStep ==
    ASSUME KeyStoreInv, NEW c \in Callers, NEW types \in SUBSET Types, Moves(c, "wallet", types),
           UNCHANGED <<platform, stored, identifiers, used>>, NEW next, at' = [at EXCEPT ![c] = next],
           \/ /\ at[c] = "init_done" /\ next = "idle" /\ types = Types
              /\ cell' = "full" /\ guard' = guard
              /\ memory' = [opened |-> held[c][Encryption].live, registered |-> held[c][Signing].live]
           \/ /\ at[c] = "register_keep" /\ next = "register_insert" /\ types = {Encryption}
              /\ cell' = cell /\ guard' = guard /\ memory' = [memory EXCEPT !.opened = TRUE]
           \/ /\ at[c] = "register_insert" /\ next = "idle" /\ types = {Signing}
              /\ cell' = cell /\ guard' = NoOne /\ memory' = [memory EXCEPT !.registered = TRUE]
    PROVE  KeyStoreInv'
<1> USE DEF KeyStoreInv, KeyStoreTypeOK
<1> Callers \subseteq Owners /\ "wallet" \in Owners /\ "wallet" \notin Callers
  BY KeyStoreAssumption, Zenon DEF Owners
<1>1. Alone(c)
  BY ActiveIsAlone, Zenon
<1>2. /\ held' \in [Owners -> [Types -> Held]]
      /\ \A p \in Owners : \A u \in Types :
             held'[p][u] = IF u \in types /\ p = "wallet" THEN held[c][u]
                           ELSE IF u \in types /\ p = c THEN NoInstance ELSE held[p][u]
  BY Zenon DEF Moves
<1>3. \A u \in Types :
          /\ u \in types => held'["wallet"][u] = held[c][u] /\ ~held'[c][u].live
          /\ u \notin types => held'["wallet"][u] = held["wallet"][u] /\ held'[c][u] = held[c][u]
  BY <1>2 DEF NoInstance
<1>4. memory' \in [opened : BOOLEAN, registered : BOOLEAN]
  <2>1. held[c][Encryption].live \in BOOLEAN /\ held[c][Signing].live \in BOOLEAN
    BY DEF Held
  <2> DEFINE Flags == [opened : BOOLEAN, registered : BOOLEAN]
  <2>2. [opened |-> held[c][Encryption].live, registered |-> held[c][Signing].live] \in Flags
    BY <2>1, Zenon
  <2>3. [memory EXCEPT !.opened = TRUE] \in Flags
    BY Zenon
  <2>4. [memory EXCEPT !.registered = TRUE] \in Flags
    BY Zenon
  <2> HIDE DEF Flags
  <2>5. memory' \in Flags
    BY <2>2, <2>3, <2>4, Zenon
  <2> QED BY <2>5, Zenon DEF Flags
<1>5. Typed
  BY <1>2, <1>4, Zenon DEF Typed
<1>6. Placed(c, next)
  BY <1>1, Zenon DEF Placed, Exclusion, Alone
<1>7. \A u \in Types : held["wallet"][u].live => cell = "full" /\ Known(u)
  BY <1>1 DEF Ownership, Dropping, Alone, Exclusion
<1>8. Owned(c, next)
  <2>1. ASSUME NEW d \in Callers \ {c} PROVE held'[d] = held[d]
    <3>1. /\ held'[d] \in [Types -> Held] /\ held[d] \in [Types -> Held]
          /\ \A u \in Types : held'[d][u] = held[d][u]
      BY <1>2
    <3> QED BY <3>1
  <2>2. ASSUME NEW u \in Types, held'[c][u].live PROVE next \in Owning(u)
    BY <1>3, <2>2 DEF Ownership, Owning
  <2>3. \A u \in Types : next \notin Using(u)
    BY Zenon DEF Using
  <2>4. cell' = "full"
    BY Zenon DEF Exclusion
  <2>5. ASSUME NEW u \in Types, held'["wallet"][u].live PROVE Known(u)'
    <3>1. CASE u \in types BY <1>3, <2>5, <3>1 DEF Known
    <3>2. CASE u \notin types
      <4>1. Known(u) /\ at[c] # "init_done"
        BY <1>3, <1>7, <2>5, <3>2, Zenon
      <4> QED BY <3>2, <4>1, Zenon DEF Known
    <3> QED BY <3>1, <3>2, Zenon
  <2>6. next \in Registering => ~memory'.registered
    BY Zenon DEF Ownership
  <2> QED BY <2>1, <2>2, <2>3, <2>4, <2>5, <2>6, Zenon DEF Owned
<1>9. Fitted(c, next)
  <2>1. ASSUME platform = "hardware", NEW u \in identifiers' PROVE \E o \in Owners : held'[o][u].live
    <3>1. PICK o \in Owners : held[o][u].live
      BY <2>1, Zenon DEF KeysFit
    <3>2. CASE u \in types
      <4>1. o = c \/ (o = "wallet" /\ held["wallet"][u].live)
        BY <1>1, <3>1 DEF Alone, Ownership, Owning, Owners
      <4>2. ~held["wallet"][u].live
        BY <1>7, <3>2, Zenon DEF Known, Ownership, Exclusion
      <4> QED BY <1>3, <2>1, <3>1, <3>2, <4>1, <4>2
    <3>3. CASE u \notin types
      BY <1>2, <2>1, <3>1, <3>3
    <3> QED BY <3>2, <3>3, Zenon
  <2>2. \A u \in Types : ~(guard # NoOne /\ at[guard] = Orphaned(u))
    BY <1>1, Zenon DEF Alone, Orphaned
  <2>3. ASSUME platform = "software", NEW u \in Types
        PROVE  /\ held'[c][u].live => held'[c][u].key = stored'[u]
               /\ held'["wallet"][u].live => held'["wallet"][u].key = stored'[u]
    BY <1>3, <2>2, <2>3, SMTT(30) DEF KeysFit
  <2> QED BY <2>1, <2>3, Zenon DEF Fitted, KeysFit
<1> QED BY <1>1, <1>5, <1>6, <1>8, <1>9, StepOfCall, Zenon
\* A reset deletes a key, or that fails, and the wallet still has its instance.
LEMMA DeleteStep ==
    ASSUME KeyStoreInv, NEW c \in Callers, NEW t \in Types, DeleteKey(t), NEW next,
           UNCHANGED <<identifiers, held, rest>>, at' = [at EXCEPT ![c] = next],
           \/ t = Encryption /\ at[c] = "reset_storage" /\ next = "reset_cleared"
           \/ t = Signing /\ at[c] = "reset_hw" /\ next = "reset_done"
    PROVE  KeyStoreInv'
<1> USE DEF KeyStoreInv, KeyStoreTypeOK
<1> Callers \subseteq Owners /\ "wallet" \in Owners /\ "wallet" \notin Callers
  BY KeyStoreAssumption, Zenon DEF Owners
<1>1. Alone(c) /\ guard = c /\ cell = "full" /\ guard # NoOne
  BY ActiveIsAlone, KeyStoreAssumption DEF Exclusion, NoOne
<1>2. /\ stored' \in [Types -> Keys] /\ used' \in [Types -> Keys]
      /\ \A u \in Types : u # t => stored'[u] = stored[u] /\ used'[u] = used[u]
      /\ (stored' = stored /\ used' = used) \/ used'[t] = 0
  <2>1. CASE stored' = [stored EXCEPT ![t] = 0] /\ used' = [used EXCEPT ![t] = 0]
    BY <2>1 DEF Keys
  <2>2. CASE UNCHANGED <<stored, used>>
    BY <2>2, Zenon
  <2> QED BY <2>1, <2>2, Zenon DEF DeleteKey
<1>3. Typed
  BY <1>2, Zenon DEF Typed, rest
<1>4. Placed(c, next)
  BY <1>1, Zenon DEF Placed, rest
<1>5. \A u \in Types : ~held[c][u].live /\ next \notin Using(u)
  BY Zenon DEF Ownership, Owning, Using
<1>6. Owned(c, next)
  <2>1. \A u \in Types : at[c] \in Dropping(u) => next \in Dropping(u)
    BY Zenon DEF Dropping
  <2> QED BY <1>1, <1>5, <2>1, Zenon DEF Owned, Ownership, Known, rest
<1>7. Fitted(c, next)
  <2>1. next = Orphaned(t) /\ \A u \in Types : at[c] # Orphaned(u)
    BY Zenon DEF Orphaned
  <2>2. \A u \in Types : used'[u] # 0 => stored'[u] = used'[u]
    BY <1>2 DEF KeysFit
  <2>3. platform = "software" => \A u \in Types :
            held["wallet"][u].live => held["wallet"][u].key = stored'[u] \/ next = Orphaned(u)
    BY <1>1, <1>2, <2>1, SMTT(30) DEF KeysFit
  <2> QED BY <1>5, <2>2, <2>3, Zenon DEF Fitted, KeysFit
<1> QED BY <1>1, <1>3, <1>4, <1>6, <1>7, StepOfCall, Zenon

\* Then the instance is dropped.
LEMMA DropStep ==
    ASSUME KeyStoreInv, NEW c \in Callers, NEW t \in Types, DropInstances("wallet", {t}), NEW next,
           UNCHANGED <<platform, stored, used, cell, memory>>, at' = [at EXCEPT ![c] = next],
           \/ t = Encryption /\ at[c] = "reset_cleared" /\ next = "reset_hw" /\ guard' = guard
           \/ t = Signing /\ at[c] = "reset_done" /\ next = "idle" /\ guard' = NoOne
    PROVE  KeyStoreInv'
<1> USE DEF KeyStoreInv, KeyStoreTypeOK
<1> Callers \subseteq Owners /\ "wallet" \in Owners /\ "wallet" \notin Callers
  BY KeyStoreAssumption, Zenon DEF Owners
<1>1. Alone(c) /\ guard = c /\ cell = "full" /\ guard # NoOne
  BY ActiveIsAlone, KeyStoreAssumption, SMTT(30) DEF Exclusion, NoOne
<1>2. /\ held' \in [Owners -> [Types -> Held]] /\ identifiers' \subseteq Types
      /\ \A o \in Owners : \A u \in Types :
             held'[o][u] = IF o = "wallet" /\ u \in {t} THEN NoInstance ELSE held[o][u]
      /\ platform = "hardware" => \A u \in identifiers' : \E o \in Owners : held'[o][u].live
  BY Drops
<1>3. \A d \in Callers : held'[d] = held[d]
  <2> SUFFICES ASSUME NEW d \in Callers PROVE held'[d] = held[d]
    OBVIOUS
  <2>1. /\ held'[d] \in [Types -> Held] /\ held[d] \in [Types -> Held]
        /\ \A u \in Types : held'[d][u] = held[d][u]
    BY <1>2, Zenon
  <2> QED BY <2>1
<1>4. ~held'["wallet"][t].live /\ \A u \in Types : u # t => held'["wallet"][u] = held["wallet"][u]
  BY <1>2 DEF NoInstance
<1>5. Typed
  BY <1>2, Zenon DEF Typed
<1>6. Placed(c, next)
  BY <1>1, Zenon DEF Placed
<1>7. \A u \in Types : ~held[c][u].live /\ next \notin Using(u)
  BY Zenon DEF Ownership, Owning, Using
<1>8. Owned(c, next)
  <2>1. \A u \in Types : u # t /\ at[c] \in Dropping(u) => next \in Dropping(u)
    BY SMTT(30) DEF Dropping
  <2> QED BY <1>1, <1>3, <1>4, <1>7, <2>1 DEF Owned, Ownership, Known
<1>9. Fitted(c, next)
  <2>1. \A u \in Types : u # t => at[c] # Orphaned(u)
    BY SMTT(30) DEF Orphaned
  <2>2. platform = "software" => \A u \in Types :
            held'["wallet"][u].live => held'["wallet"][u].key = stored'[u]
    BY <1>1, <1>4, <2>1, Zenon DEF KeysFit
  <2> QED BY <1>2, <1>3, <1>7, <2>2, Zenon DEF Fitted, KeysFit
<1> QED BY <1>1, <1>5, <1>6, <1>8, <1>9, StepOfCall, Zenon

LEMMA WalletUsesStep == KeyStoreInv /\ WalletUses => KeyStoreInv'
<1> SUFFICES ASSUME KeyStoreInv, WalletUses PROVE KeyStoreInv'
  OBVIOUS
<1> USE DEF KeyStoreInv, KeyStoreTypeOK
<1> Callers \subseteq Owners /\ "wallet" \in Owners /\ "wallet" \notin Callers
  BY KeyStoreAssumption, Zenon DEF Owners
<1>1. PICK t \in Types : held["wallet"][t].live /\ Use("wallet", t)
  BY Zenon DEF WalletUses
<1>2. guard = NoOne /\ UNCHANGED <<platform, cell, guard, memory, at>>
  BY Zenon DEF WalletUses, rest
<1>3. platform = "software" => held["wallet"][t].key = stored[t]
  BY <1>1, <1>2, Zenon DEF KeysFit
<1>4. /\ stored' \in [Types -> Keys] /\ used' \in [Types -> Keys] /\ UNCHANGED <<identifiers, held>>
      /\ platform = "software" => stored' = stored
      /\ \A u \in Types : used'[u] # 0 => stored'[u] = used'[u]
  BY <1>1, <1>3, Uses, SMTT(30)
<1>5. KeyStoreTypeOK' /\ Exclusion'
  BY <1>2, <1>4, Zenon DEF Exclusion
<1>6. Ownership'
  BY <1>2, <1>4, Zenon DEF Ownership, Known
<1>7. KeysFit'
  BY <1>2, <1>4, SMTT(30) DEF KeysFit
<1> QED BY <1>5, <1>6, <1>7, Zenon

LEMMA ProcessEndsStep == KeyStoreInv /\ ProcessEnds => KeyStoreInv'
<1> SUFFICES ASSUME KeyStoreInv, ProcessEnds PROVE KeyStoreInv'
  OBVIOUS
<1> USE DEF KeyStoreInv, KeyStoreTypeOK
<1> Callers \subseteq Owners /\ "wallet" \in Owners /\ "wallet" \notin Callers
  BY KeyStoreAssumption, Zenon DEF Owners
<1> USE DEF ProcessEnds
<1>1. \A o \in Owners : \A t \in Types : ~held'[o][t].live
  BY Zenon DEF NoInstance
<1>2. held' \in [Owners -> [Types -> Held]]
  BY DEF NoInstance, Held, Keys
<1>3. /\ stored' \in [Types -> Keys] /\ used' \in [Types -> Keys]
      /\ \A t \in Types : used'[t] # 0 => stored'[t] = used'[t]
  BY DEF Keys, KeysFit
<1>4. memory' \in [opened : BOOLEAN, registered : BOOLEAN]
  BY Zenon
<1>5. KeyStoreTypeOK'
  BY <1>2, <1>3, <1>4, Zenon
<1>6. Exclusion'
  BY Zenon DEF Exclusion
<1>7. Ownership'
  BY <1>1, ZenonT(60) DEF Ownership, Using
<1>8. KeysFit'
  BY <1>1, <1>3, Zenon DEF KeysFit
<1> QED BY <1>5, <1>6, <1>7, <1>8, Zenon
-----------------------------------------------------------------------------
(* The theorems                                                             *)

\* A step that changes nothing but the bound on the calls.
LEMMA KeyStoreRests ==
    ASSUME KeyStoreInv, UNCHANGED <<platform, stored, identifiers, held, used, cell, guard, memory, at>>
    PROVE  KeyStoreInv'
<1>0. /\ platform' = platform /\ stored' = stored /\ identifiers' = identifiers /\ held' = held /\ used' = used
      /\ cell' = cell /\ guard' = guard /\ memory' = memory /\ at' = at
  BY Zenon
<1>1. KeyStoreTypeOK'
  BY <1>0, ZenonT(30) DEF KeyStoreInv, KeyStoreTypeOK
<1>2. Exclusion'
  BY <1>0, ZenonT(30) DEF KeyStoreInv, Exclusion
<1>3. Ownership'
  BY <1>0, ZenonT(30) DEF KeyStoreInv, Ownership, Known
<1>4. KeysFit'
  BY <1>0, ZenonT(30) DEF KeyStoreInv, KeysFit
<1> QED BY <1>1, <1>2, <1>3, <1>4, Zenon DEF KeyStoreInv

LEMMA CallerStep ==
    ASSUME KeyStoreInv, NEW c \in Callers,
           \/ CreateWallet(c) \/ InitClaim(c) \/ InitOpen(c) \/ InitHw(c) \/ InitDone(c)
           \/ RegisterCall(c) \/ RegisterHw(c) \/ RegisterRequest(c) \/ RegisterClaim(c)
           \/ RegisterOpen(c) \/ RegisterKeep(c) \/ RegisterInsert(c)
           \/ ResetCall(c) \/ ResetStorage(c) \/ ResetCleared(c) \/ ResetHw(c) \/ ResetDone(c)
    PROVE  KeyStoreInv'
<1>1. CASE CreateWallet(c)
  <2>1. CASE cell = "full"
    <3>1. UNCHANGED <<platform, stored, identifiers, held, used, cell, guard, memory, at>>
      BY <1>1, <2>1, Zenon DEF CreateWallet, Call, keyStore, KeyStoreInv, KeyStoreTypeOK
    <3> QED BY <3>1, KeyStoreRests, Zenon
  <2>2. CASE cell = "empty"
    <3> DEFINE next == IF disk.exists THEN "init_claim" ELSE "init_done"
    <3>1. /\ at[c] = "idle" /\ at' = [at EXCEPT ![c] = next] /\ next \in {"init_claim", "init_done"}
          /\ cell' = "busy" /\ UNCHANGED <<platform, keyStore, guard, memory>>
      BY <1>1, <2>2, Zenon DEF CreateWallet, Call
    <3> HIDE DEF next
    <3> QED BY <2>2, <3>1, CallStep, Zenon
  <2> QED BY <1>1, <2>1, <2>2, Zenon DEF CreateWallet, KeyStoreInv, KeyStoreTypeOK
<1>2. CASE InitClaim(c) BY <1>2, ClaimStep, Zenon DEF InitClaim
<1>3. CASE InitOpen(c)
  <2>1. CASE Returns(c) /\ cell' = "empty" /\ UNCHANGED <<stored, used>>
    BY <1>3, <2>1, FailStep, Zenon DEF InitOpen
  <2>2. CASE /\ Use(c, Encryption) /\ UNCHANGED cell
             /\ at' = [at EXCEPT ![c] = IF disk.registered THEN "init_hw" ELSE "init_done"]
    <3> DEFINE next == IF disk.registered THEN "init_hw" ELSE "init_done"
    <3>1. at' = [at EXCEPT ![c] = next] /\ next \in {"init_hw", "init_done"}
      BY <2>2, Zenon
    <3> HIDE DEF next
    <3> QED BY <1>3, <2>2, <3>1, UseStep, Zenon DEF InitOpen
  <2> QED BY <1>3, <2>1, <2>2, Zenon DEF InitOpen
<1>4. CASE InitHw(c) BY <1>4, ClaimStep, Zenon DEF InitHw
<1>5. CASE InitDone(c)
  <2>1. Moves(c, "wallet", Types)
    BY <1>5, MovesAll, Zenon DEF InitDone
  <2> QED BY <1>5, <2>1, MoveStep, Zenon DEF InitDone
<1>6. CASE RegisterCall(c) BY <1>6, CallStep, Zenon DEF RegisterCall, Call
<1>7. CASE RegisterHw(c) BY <1>7, ClaimStep, Zenon DEF RegisterHw
<1>8. CASE RegisterRequest(c)
  <2>1. CASE Unlocks(c) /\ UNCHANGED <<stored, used>>
    BY <1>8, <2>1, FailStep, Zenon DEF RegisterRequest, Unlocks
  <2>2. CASE /\ Use(c, Signing) /\ UNCHANGED guard
             /\ at' = [at EXCEPT ![c] = IF memory.opened THEN "register_insert" ELSE "register_claim"]
    <3>1. CASE memory.opened
      BY <1>8, <2>2, <3>1, UseStep, Zenon DEF RegisterRequest
    <3>2. CASE ~memory.opened
      BY <1>8, <2>2, <3>2, UseStep, Zenon DEF RegisterRequest
    <3> QED BY <3>1, <3>2, Zenon
  <2> QED BY <1>8, <2>1, <2>2, Zenon DEF RegisterRequest
<1>9. CASE RegisterClaim(c) BY <1>9, ClaimStep, Zenon DEF RegisterClaim
<1>10. CASE RegisterOpen(c)
  <2>1. CASE Unlocks(c) /\ UNCHANGED <<stored, used>>
    BY <1>10, <2>1, FailStep, Zenon DEF RegisterOpen, Unlocks
  <2>2. CASE Use(c, Encryption) /\ at' = [at EXCEPT ![c] = "register_keep"] /\ UNCHANGED guard
    BY <1>10, <2>2, UseStep, Zenon DEF RegisterOpen
  <2> QED BY <1>10, <2>1, <2>2, Zenon DEF RegisterOpen
<1>11. CASE RegisterKeep(c)
  <2>1. Moves(c, "wallet", {Encryption})
    BY <1>11, MovesOne, Zenon DEF RegisterKeep
  <2> QED BY <1>11, <2>1, MoveStep, Zenon DEF RegisterKeep
<1>12. CASE RegisterInsert(c)
  <2>1. CASE Unlocks(c) /\ UNCHANGED memory
    BY <1>12, <2>1, FailStep, Zenon DEF RegisterInsert, Unlocks
  <2>2. CASE /\ held' = [held EXCEPT !["wallet"][Signing] = held[c][Signing], ![c][Signing] = NoInstance]
             /\ memory' = [memory EXCEPT !.registered = TRUE] /\ guard' = NoOne
             /\ at' = [at EXCEPT ![c] = "idle"] /\ UNCHANGED identifiers
    <3>1. Moves(c, "wallet", {Signing})
      BY <2>2, MovesOne, Zenon
    <3> QED BY <1>12, <2>2, <3>1, MoveStep, Zenon DEF RegisterInsert
  <2> QED BY <1>12, <2>1, <2>2, Zenon DEF RegisterInsert
<1>13. CASE ResetCall(c) BY <1>13, CallStep, Zenon DEF ResetCall, Call
<1>14. CASE ResetStorage(c) BY <1>14, DeleteStep, Zenon DEF ResetStorage
<1>15. CASE ResetCleared(c) BY <1>15, DropStep, Zenon DEF ResetCleared, rest
<1>16. CASE ResetHw(c) BY <1>16, DeleteStep, Zenon DEF ResetHw
<1>17. CASE ResetDone(c) BY <1>17, DropStep, Zenon DEF ResetDone
<1> QED
  BY Zenon, <1>1, <1>2, <1>3, <1>4, <1>5, <1>6, <1>7, <1>8, <1>9, <1>10, <1>11, <1>12, <1>13, <1>14,
     <1>15, <1>16, <1>17

LEMMA KeyStoreInvariant == KeyStoreSpec => []KeyStoreInv
<1>1. KeyStoreInv /\ [KeyStoreNext]_keyStoreVars => KeyStoreInv'
  <2> SUFFICES ASSUME KeyStoreInv, [KeyStoreNext]_keyStoreVars PROVE KeyStoreInv'
    OBVIOUS
  <2>1. CASE KeyStoreNext
    BY <2>1, CallerStep, WalletUsesStep, ProcessEndsStep, Zenon DEF KeyStoreNext
  <2>2. CASE UNCHANGED keyStoreVars
    <3>1. UNCHANGED <<platform, stored, identifiers, held, used, cell, guard, memory, at>>
      BY <2>2, Zenon DEF keyStoreVars
    <3> QED BY <3>1, KeyStoreRests, Zenon
  <2> QED BY <2>1, <2>2, Zenon
<1> QED BY <1>1, KeyStoreInitInv, PTL DEF KeyStoreSpec

\* However many calls of init, register and reset_wallet there are, none of them
\* panics because another instance of a key exists: a key has one owner at a time,
\* and is the stored one from its first use until its owner deletes it.
THEOREM KeysHaveOneOwner == KeyStoreSpec => []KeyHasOneOwner
<1>1. KeyStoreInv => NeverInUse
  BY Zenon DEF KeyStoreInv, KeyStoreTypeOK, NeverInUse
<1>2. KeyStoreInv => UsedKeyIsKept
  <2> SUFFICES ASSUME KeyStoreInv PROVE UsedKeyIsKept
    OBVIOUS
  <2>1. ASSUME NEW t \in Types, NEW o \in Owners, NEW p \in Owners, held[o][t].live, held[p][t].live
        PROVE  o = p
    <3> USE DEF KeyStoreInv, KeyStoreTypeOK
    <3>1. ASSUME NEW c \in Callers, held[c][t].live PROVE Alone(c) /\ ~held["wallet"][t].live
      <4>1. at[c] \in Owning(t) /\ at[c] # "idle"
        BY <3>1, Zenon DEF Ownership, Owning
      <4>2. Alone(c)
        BY <4>1, ActiveIsAlone, Zenon
      <4>3. cell = "full" => ~Known(t)
        BY <4>1, Zenon DEF Ownership, Owning, Exclusion, Known
      <4>4. ~(guard # NoOne /\ at[guard] \in Dropping(t))
        BY <4>1, <4>2, Zenon DEF Alone, Owning, Dropping
      <4> QED BY <4>2, <4>3, <4>4, Zenon DEF Ownership
    <3>2. ASSUME NEW c \in Callers, NEW d \in Callers, held[c][t].live, held[d][t].live PROVE c = d
      BY <3>1, <3>2 DEF Alone, Ownership, Owning
    <3> QED BY <2>1, <3>1, <3>2, Zenon DEF Owners
  <2>2. ASSUME NEW t \in Types PROVE \A o, p \in Live(t) : o = p
    BY <2>1, Zenon DEF Live
  <2> QED BY <2>2, Zenon DEF UsedKeyIsKept, KeyStoreInv, KeysFit
<1> QED BY <1>1, <1>2, KeyStoreInvariant, PTL DEF KeyHasOneOwner
=============================================================================
