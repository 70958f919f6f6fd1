----------------------------- MODULE MCPinRetry -----------------------------
(***************************************************************************)
(* PinRetry on small policies, with the times of the counted failures kept *)
(* since the last right PIN.                                               *)
(***************************************************************************)
EXTENDS PinRetry

VARIABLE failedAt       \* times of the wrong PINs since the last right one

mcVars == <<policy, now, entries, last, blocked, failedAt>>

Policy(rounds, apr, timeouts) ==
    [rounds |-> rounds, attempts_per_round |-> apr, timeouts |-> timeouts]

\* One to three rounds of two or three attempts, timeouts growing as they do
\* in the default settings or shrinking.
SmallPolicies ==
    {Policy(1, apr, <<>>) : apr \in 2..4}
        \cup {Policy(2, apr, <<t>>) : apr \in 2..3, t \in 1..3}
        \cup {Policy(3, 2, <<s, t>>) : s \in 1..2, t \in 1..2}

MCInit == Init /\ failedAt = <<>>

MCNext ==
    \/ WrongPin /\ failedAt' = Append(failedAt, now)
    \/ RightPin /\ failedAt' = <<>>
    \/ Tick /\ UNCHANGED failedAt

MCSpec == MCInit /\ [][MCNext]_mcVars

\* Between the last attempt of a round and the first of the next, the timeout
\* that PinPolicy announced has really passed: the InTimeout check made for
\* the one attempt that follows a round is enough to enforce every timeout.
TimeoutsServed ==
    \A r \in 1..Len(policy.timeouts) :
        LET k == r * policy.attempts_per_round
        IN  k < Len(failedAt) =>
                failedAt[k + 1] >= failedAt[k] + policy.timeouts[r]

\* A user meets the schedule of the policy and no other: what evaluate answers is
\* what the schedule says in every reachable state, and the times between the
\* attempts that were counted are those that it prescribes.
ScheduleIsServed == FollowsSchedule /\ TimeoutsServed
=============================================================================
