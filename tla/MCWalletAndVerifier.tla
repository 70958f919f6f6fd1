------------------------ MODULE MCWalletAndVerifier -------------------------
(***************************************************************************)
(* Small instances of the wallet and of the verifier's sessions, in one    *)
(* run: a behaviour is one of one of the two, while the other rests.       *)
(***************************************************************************)
EXTENDS MCDisclosureSessions, Wallet, TLC

VARIABLE party

PartySymmetry == Permutations(RelyingParties) \cup Permutations(Copies) \cup Permutations(Handlers)

PartiesInit ==
    \/ party = "wallet" /\ WalletInit /\ MCInit /\ backend = "memory"
    \/ party = "verifier" /\ MCInit /\ WalletInit

PartiesNext ==
    \/ party = "wallet" /\ WalletNext /\ UNCHANGED <<party, mcVars>>
    \/ party = "verifier" /\ MCNext /\ UNCHANGED <<party, walletVars>>

PartiesSpec == PartiesInit /\ [][PartiesNext]_<<party, mcVars, walletVars>>
=============================================================================
