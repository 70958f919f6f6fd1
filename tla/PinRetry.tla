------------------------------ MODULE PinRetry ------------------------------
(***************************************************************************)
(* What an account promises its user about PIN attempts: the retry policy  *)
(* applied to one account, every attempt taken as one indivisible step.    *)
(* This is the abstract specification that the account server, whose       *)
(* handlers read, decide and write in separate steps, is compared with.    *)
(*                                                                         *)
(* The policy is a variable that no step changes, so that one run covers   *)
(* many policies.                                                          *)
(***************************************************************************)
EXTENDS PinPolicy

CONSTANTS Policies,     \* the policies considered
          MaxTime       \* bound on the clock

\* What a deployment configures: at least one round of at least one attempt,
\* and no more attempts than the u8 that counts them can hold.
ASSUME PoliciesAssumption ==
    /\ MaxTime \in Nat
    /\ \A p \in Policies :
          /\ p.rounds \in Nat \ {0}
          /\ p.attempts_per_round \in Nat \ {0}
          /\ p.timeouts \in Seq(Nat)
          /\ p.rounds * p.attempts_per_round \in 1..(U8 - 1)

VARIABLES policy, now,
          entries,      \* unsuccessful_pin_entries
          last,         \* last_unsuccessful_pin_entry
          blocked       \* is_blocked

vars == <<policy, now, entries, last, blocked>>

\* The result the next attempt would have if its PIN were wrong.
NextEvaluation == evaluate(policy, entries + 1, last, now)

Init ==
    /\ policy \in Policies
    /\ WellFormedPolicy(policy)
    /\ now = 0
    /\ entries = 0
    /\ last = NoTime
    /\ blocked = FALSE

\* An attempt that the server looks at: not blocked, and no timeout running.
MayAttempt == ~blocked /\ NextEvaluation.kind # "InTimeout"

WrongPin ==
    /\ MayAttempt
    /\ entries' = IF entries + 1 < U8 THEN entries + 1 ELSE U8 - 1
    /\ last' = now
    /\ blocked' = (NextEvaluation.kind = "BlockedPermanently")
    /\ UNCHANGED <<policy, now>>

RightPin ==
    /\ MayAttempt
    /\ entries' = 0
    /\ last' = NoTime
    /\ blocked' = FALSE
    /\ UNCHANGED <<policy, now>>

Tick ==
    /\ now < MaxTime
    /\ now' = now + 1
    /\ UNCHANGED <<policy, entries, last, blocked>>

Next == WrongPin \/ RightPin \/ Tick

Spec == Init /\ [][Next]_vars

-----------------------------------------------------------------------------

TypeOK ==
    /\ policy \in Policies
    /\ now \in 0..MaxTime
    /\ entries \in 0..(U8 - 1)
    /\ last \in {NoTime} \cup 0..MaxTime
    /\ blocked \in BOOLEAN

(***************************************************************************)
(* The same schedule, stated by the position of an attempt in its round    *)
(* instead of by the code's remainders: the last attempt of a round starts *)
(* the timeout, the first attempt of a later round has to wait for it.     *)
(***************************************************************************)
Schedule(p, k, prev, t) ==
    LET apr == p.attempts_per_round
        round == ((k - 1) \div apr) + 1
        pos == ((k - 1) % apr) + 1
    IN  CASE k >= p.rounds * apr -> Evaluation("BlockedPermanently", 0, 0, TRUE)
          [] k < p.rounds * apr /\ pos = apr ->
                Evaluation("Timeout", p.timeouts[round], 0, FALSE)
          [] k < p.rounds * apr /\ pos = 1 /\ round > 1
                /\ prev + p.timeouts[round - 1] > t ->
                Evaluation("InTimeout", prev + p.timeouts[round - 1] - t, 0, FALSE)
          [] OTHER -> Evaluation("Failed", 0, apr - pos, round = p.rounds)

\* PinPolicy::evaluate, called with the state handle_instruction gives it,
\* follows the schedule of rounds and timeouts in every reachable state.
FollowsSchedule ==
    ~blocked => NextEvaluation = Schedule(policy, entries + 1, last, now)

\* The account is blocked exactly when every attempt of every round has been
\* used up since the last right PIN: neither the reset nor the counter that
\* register_unsuccessful_pin_entry keeps lets the two drift apart.
BlockedAtLimit ==
    blocked <=> entries = policy.rounds * policy.attempts_per_round
=============================================================================
