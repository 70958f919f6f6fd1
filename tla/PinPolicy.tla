----------------------------- MODULE PinPolicy ------------------------------
(***************************************************************************)
(* The PIN retry policy of the wallet provider: a wrong PIN costs an       *)
(* attempt, a full round of attempts costs a timeout, and the last attempt *)
(* of the last round blocks the account for good.                          *)
(*                                                                         *)
(* A policy is a record [rounds, attempts_per_round, timeouts].  Counters  *)
(* are u8 in the code, and the product of two of them wraps in a release   *)
(* build.  Times are naturals; NoTime stands for the Option's None.        *)
(***************************************************************************)
EXTENDS Integers, Sequences

U8 == 256
NoTime == -1

\* PinPolicy::new panics unless there is one timeout between two rounds.
WellFormedPolicy(p) == Len(p.timeouts) = p.rounds - 1

\* Mutant: the first round is not counted.
one_round_short(p) == ((p.rounds - 1) * p.attempts_per_round) % U8

\* The number of attempts after which the account is blocked.
total_attempts(p) == (p.rounds * p.attempts_per_round) % U8

is_blocked(p, attempts) == attempts >= total_attempts(p)

current_round(p, attempts) ==
    LET q == attempts \div p.attempts_per_round
    IN  IF q > 0 /\ attempts % p.attempts_per_round = 0 THEN q ELSE q + 1

is_final_round(p, attempts) ==
    is_blocked(p, attempts) \/ current_round(p, attempts) = p.rounds

attempts_left_in_round(p, attempts) ==
    IF is_blocked(p, attempts) THEN 0
    ELSE p.attempts_per_round - (attempts % p.attempts_per_round)

\* The timeout that follows the last completed round, NoTime if there is none.
current_timeout(p, attempts) ==
    LET i == attempts \div p.attempts_per_round
    IN  IF ~is_blocked(p, attempts) /\ attempts > 1 /\ i \in 1..Len(p.timeouts)
        THEN p.timeouts[i] ELSE NoTime

\* The assertion at the top of evaluate: the counter and the timestamp agree.
EvaluateAssertion(attempts, last) ==
    \/ last = NoTime /\ attempts = 1
    \/ last # NoTime /\ attempts > 1

Evaluation(kind, timeout, left, final) ==
    [kind |-> kind, timeout |-> timeout,
     attempts_left_in_round |-> left, is_final_round |-> final]

Kinds == {"Failed", "Timeout", "InTimeout", "BlockedPermanently"}

\* Mutant: a timeout is announced but never waited for.
evaluate_no_wait(p, attempts, last, now) ==
    LET timeout == current_timeout(p, attempts)
        left == attempts_left_in_round(p, attempts)
    IN  IF is_blocked(p, attempts)
        THEN Evaluation("BlockedPermanently", 0, 0, TRUE)
        ELSE IF timeout # NoTime /\ p.attempts_per_round = left
        THEN Evaluation("Timeout", timeout, 0, FALSE)
        ELSE Evaluation("Failed", 0, left, is_final_round(p, attempts))

(***************************************************************************)
(* What entering the attempts-th wrong PIN at time now leads to, given the *)
(* time of the previous one.                                               *)
(***************************************************************************)
evaluate(p, attempts, last, now) ==
    LET timeout == current_timeout(p, attempts)
        left == attempts_left_in_round(p, attempts)
        timed_out_until == last + timeout
        has_timeout == last # NoTime /\ timeout # NoTime
    IN  IF is_blocked(p, attempts)
        THEN Evaluation("BlockedPermanently", 0, 0, TRUE)
        ELSE IF has_timeout /\ p.attempts_per_round = left
        THEN Evaluation("Timeout", timeout, 0, FALSE)
        ELSE IF /\ has_timeout
                /\ timed_out_until > now
                /\ p.attempts_per_round = left + 1
        THEN Evaluation("InTimeout", timed_out_until - now, 0, FALSE)
        ELSE Evaluation("Failed", 0, left, is_final_round(p, attempts))
=============================================================================
