----------------------- MODULE MCInstructionProtocol ------------------------
(***************************************************************************)
(* Small instances of a wallet and its account server: two handlers, so    *)
(* that a request the wallet gave up on can still be worked on while the   *)
(* next one arrives.                                                       *)
(***************************************************************************)
EXTENDS InstructionProtocol, MCAccountServer
=============================================================================
