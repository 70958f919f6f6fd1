-------------------------- MODULE MCAccountServer ---------------------------
(***************************************************************************)
(* Small instances of the account server.  The requests a run may receive  *)
(* are all those over a few sequence numbers, challenges and operations,   *)
(* in any order and any number of times, so they include late, repeated    *)
(* and malformed ones.                                                     *)
(***************************************************************************)
EXTENDS AccountServer, TLC

\* One round of two attempts, and two rounds with a timeout between them.
OneRound == [rounds |-> 1, attempts_per_round |-> 2, timeouts |-> <<>>]
TwoRounds == [rounds |-> 2, attempts_per_round |-> 2, timeouts |-> <<2>>]

Registration(cert, signed) == Message("register", 0, 0, cert, signed, "none", 0)
Challenge(seq, cert, signed) == Message("challenge", seq, 0, cert, signed, "none", 0)
Instruction(seq, nonce, signed, op) ==
    Message("instruction", seq, nonce, TRUE, signed, op, 1)

Malformed == {Registration(FALSE, TRUE), Registration(TRUE, FALSE),
              Challenge(1, FALSE, TRUE), Challenge(1, TRUE, FALSE),
              [Instruction(1, 1, TRUE, "CheckPin") EXCEPT !.cert = FALSE]}

\* For one handler: every request, malformed ones included.
AllMessages ==
    {Registration(TRUE, TRUE)} \cup Malformed
        \cup {Challenge(s, TRUE, TRUE) : s \in 1..5}
        \cup {Instruction(6, 1, FALSE, "CheckPin")}
        \cup {Instruction(s, n, TRUE, "CheckPin") : s \in {2, 6}, n \in 1..2}
        \cup {Instruction(3, 1, TRUE, op) : op \in {"GenerateKey", "Sign"}}

\* For two handlers: well-formed requests with right and wrong PINs.
PinMessages ==
    {Registration(TRUE, TRUE)}
        \cup {Challenge(s, TRUE, TRUE) : s \in {1, 3, 5}}
        \cup {Instruction(s, n, p, "CheckPin") : s \in {2, 6}, n \in {1}, p \in BOOLEAN}

\* For progress: requests of every kind that can meet on the two rows.
ProgressMessages ==
    {Registration(TRUE, TRUE), Challenge(1, TRUE, TRUE), Challenge(2, TRUE, TRUE),
     Instruction(3, 1, TRUE, "GenerateKey"), Instruction(3, 1, FALSE, "CheckPin")}

HandlerSymmetry == Permutations(Handlers)
=============================================================================
