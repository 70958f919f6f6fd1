------------------------------ MODULE KeyStore -------------------------------
(***************************************************************************)
(* The key store of the phone, in hardware or in software, and the one     *)
(* owner that a key may have: new_unique gives out an instance for an      *)
(* identifier only if no other instance exists, and its callers, the       *)
(* wallet and its storage, panic if it does not.                           *)
(*                                                                         *)
(* The calls of the app run concurrently: init makes the wallet, at most   *)
(* once, and register and reset_wallet have it for themselves while they   *)
(* run.  The database is reduced to whether it exists and holds a          *)
(* registration.                                                           *)
(***************************************************************************)
EXTENDS Naturals

CONSTANTS Callers,          \* calls that run at the same time
          MaxCalls          \* bound on the calls, and on the keys made

ASSUME KeyStoreAssumption == Callers \cap {"wallet", "none"} = {} /\ MaxCalls \in Nat

VARIABLES platform,         \* where keys are kept: "hardware" or "software"
          stored,           \* the key in the backing store for each type; 0 for none
          identifiers,      \* UNIQUE_IDENTIFIERS: types with an instance (the identifier is fixed per type)
          held,             \* the instances of each owner: type -> key, for software
          disk,             \* the database: [exists, registered]
          cell,             \* WALLET: "empty", "busy" or "full"
          guard,            \* who holds the lock of the wallet
          memory,           \* the wallet: [opened, registered]
          at,               \* where each call is
          calls,            \* calls made
          used              \* the key last used for each type since it was made

keyStoreVars == <<platform, stored, identifiers, held, disk, cell, guard, memory, at, calls, used>>

\* Signing keys and encryption keys: the wallet has one of each.
Signing == "signing"
Encryption == "encryption"
Types == {Signing, Encryption}
Owners == Callers \cup {"wallet"}
NoOne == "none"

\* The numbers of keys are only compared.
RandomKey == CHOOSE k \in 1..5 : \A t \in Types : k # stored[t] /\ k # used[t]

NoInstance == [live |-> FALSE, key |-> 0]
Instance(key) == [live |-> TRUE, key |-> key]
Live(t) == {o \in Owners : held[o][t].live}

-----------------------------------------------------------------------------
(* The backing stores.                                                      *)

\* Arc::strong_count is more than 1: the map has one reference, each instance
\* another.
IsShared(t) == \E o \in Live(t) : held[o][t].key = stored[t]

SoftwareEcdsaKey_new_unique(o, t) ==
    LET key == IF stored[t] # 0 THEN stored[t] ELSE RandomKey
    IN  /\ stored' = [stored EXCEPT ![t] = key]
        /\ held' = [held EXCEPT ![o][t] = Instance(key)]
        /\ UNCHANGED identifiers

SoftwareEncryptionKey_new_unique(o, t) ==
    LET cipher == IF stored[t] # 0 THEN stored[t] ELSE RandomKey
    IN  /\ stored' = [stored EXCEPT ![t] = cipher]
        /\ held' = [held EXCEPT ![o][t] = Instance(cipher)]
        /\ UNCHANGED identifiers

\* In hardware a key is made when it is first used.
UniqueKey(o, t) ==
    /\ identifiers' = identifiers \cup {t}
    /\ held' = [held EXCEPT ![o][t] = Instance(0)]
    /\ UNCHANGED stored

InUse(t) ==
    IF platform = "hardware" THEN t \in identifiers ELSE stored[t] # 0 /\ IsShared(t)

\* The caller goes on or panics: expect("... is already in use").
new_unique(c, o, t, then) ==
    /\ IF InUse(t) THEN UNCHANGED <<stored, identifiers, held>>
       ELSE IF platform = "hardware" THEN UniqueKey(o, t)
       ELSE IF t = Signing THEN SoftwareEcdsaKey_new_unique(o, t) ELSE SoftwareEncryptionKey_new_unique(o, t)
    /\ at' = [at EXCEPT ![c] = IF InUse(t) THEN "panicked" ELSE then]
    /\ UNCHANGED used

\* verifying_key, try_sign, encrypt and decrypt.
Use(o, t) ==
    LET key == IF platform = "software" THEN held[o][t].key
               ELSE IF stored[t] # 0 THEN stored[t] ELSE RandomKey
    IN  /\ stored' = [stored EXCEPT ![t] = IF platform = "hardware" THEN key ELSE @]
        /\ used' = [used EXCEPT ![t] = key]
        /\ UNCHANGED <<identifiers, held>>

\* Instances go out of scope; Drop for UniqueKey.
DropInstances(o, types) ==
    /\ held' = [held EXCEPT ![o] = [t \in Types |-> IF t \in types THEN NoInstance ELSE @[t]]]
    /\ identifiers' = identifiers \ {t \in types : held[o][t].live}

\* The first half of delete: the key is removed from the store, or that fails.
DeleteKey(t) ==
    \/ stored' = [stored EXCEPT ![t] = 0] /\ used' = [used EXCEPT ![t] = 0]
    \/ platform = "hardware" /\ UNCHANGED <<stored, used>>

-----------------------------------------------------------------------------

KeyStoreInit ==
    /\ platform \in {"hardware", "software"}
    /\ stored = [t \in Types |-> 0] /\ used = [t \in Types |-> 0]
    /\ identifiers = {}
    /\ held = [o \in Owners |-> [t \in Types |-> NoInstance]]
    /\ disk = [exists |-> FALSE, registered |-> FALSE]
    /\ cell = "empty" /\ guard = NoOne
    /\ memory = [opened |-> FALSE, registered |-> FALSE]
    /\ at = [c \in Callers |-> "idle"] /\ calls = 0

keyStore == <<stored, identifiers, held, used>>
rest == <<platform, disk, cell, guard, memory, calls>>

\* The call ends; what it holds itself is dropped.
Returns(c) == at' = [at EXCEPT ![c] = "idle"] /\ DropInstances(c, Types)
Unlocks(c) == Returns(c) /\ guard' = NoOne

Call(c, first) ==
    /\ at[c] = "idle" /\ calls < MaxCalls
    /\ calls' = calls + 1
    /\ at' = [at EXCEPT ![c] = first]

\* Mutant: callers do not wait for one another.
CreateWallet_twice(c) ==
    /\ Call(c, IF disk.exists THEN "init_claim" ELSE "init_done")
    /\ cell' = "busy"
    /\ UNCHANGED <<platform, keyStore, disk, guard, memory>>

\* get_or_try_init: one caller at a time; a second wallet is refused by assert!.
CreateWallet(c) ==
    /\ cell # "busy"
    /\ Call(c, IF cell = "full" THEN "idle" ELSE IF disk.exists THEN "init_claim" ELSE "init_done")
    /\ cell' = IF cell = "full" THEN cell ELSE "busy"
    /\ UNCHANGED <<platform, keyStore, disk, guard, memory>>

\* open_encrypted_database
InitClaim(c) == at[c] = "init_claim" /\ new_unique(c, c, Encryption, "init_open") /\ UNCHANGED rest

InitOpen(c) ==
    /\ at[c] = "init_open"
    /\ \/ Use(c, Encryption) /\ at' = [at EXCEPT ![c] = IF disk.registered THEN "init_hw" ELSE "init_done"]
          /\ UNCHANGED cell
       \/ Returns(c) /\ cell' = "empty" /\ UNCHANGED <<stored, used>>
    /\ UNCHANGED <<platform, disk, guard, memory, calls>>

\* Wallet::new: the hardware key of the registration.
InitHw(c) == at[c] = "init_hw" /\ new_unique(c, c, Signing, "init_done") /\ UNCHANGED rest

\* What init opened now belongs to the wallet.
InitDone(c) ==
    /\ at[c] = "init_done"
    /\ held' = [held EXCEPT !["wallet"] = held[c], ![c] = [t \in Types |-> NoInstance]]
    /\ memory' = [opened |-> held[c][Encryption].live, registered |-> held[c][Signing].live]
    /\ cell' = "full" /\ at' = [at EXCEPT ![c] = "idle"]
    /\ UNCHANGED <<platform, stored, identifiers, used, disk, guard, calls>>

-----------------------------------------------------------------------------
(* register                                                                 *)

RegisterCall(c) ==
    /\ cell = "full" /\ guard = NoOne /\ ~memory.registered
    /\ Call(c, "register_hw")
    /\ guard' = c
    /\ UNCHANGED <<platform, keyStore, disk, cell, memory>>

RegisterHw(c) == at[c] = "register_hw" /\ new_unique(c, c, Signing, "register_request") /\ UNCHANGED rest

\* The public key is asked for, and the wallet provider answers, or not.
RegisterRequest(c) ==
    /\ at[c] = "register_request"
    /\ \/ Use(c, Signing)
          /\ at' = [at EXCEPT ![c] = IF memory.opened THEN "register_insert" ELSE "register_claim"]
          /\ UNCHANGED guard
       \/ Unlocks(c) /\ UNCHANGED <<stored, used>>
    /\ UNCHANGED <<platform, disk, cell, memory, calls>>

RegisterClaim(c) ==
    at[c] = "register_claim" /\ new_unique(c, c, Encryption, "register_open") /\ UNCHANGED rest

\* The database is opened, and made if it is not there.
RegisterOpen(c) ==
    /\ at[c] = "register_open"
    /\ \/ /\ Use(c, Encryption) /\ at' = [at EXCEPT ![c] = "register_keep"]
          /\ disk' = [disk EXCEPT !.exists = TRUE]
          /\ UNCHANGED guard
       \/ Unlocks(c) /\ UNCHANGED <<stored, used, disk>>
    /\ UNCHANGED <<platform, cell, memory, calls>>

RegisterKeep(c) ==
    /\ at[c] = "register_keep"
    /\ held' = [held EXCEPT !["wallet"][Encryption] = held[c][Encryption], ![c][Encryption] = NoInstance]
    /\ memory' = [memory EXCEPT !.opened = TRUE]
    /\ at' = [at EXCEPT ![c] = "register_insert"]
    /\ UNCHANGED <<platform, stored, identifiers, used, disk, cell, guard, calls>>

\* insert_data fails if there is a registration, or otherwise.
RegisterInsert(c) ==
    /\ at[c] = "register_insert"
    /\ \/ /\ ~disk.registered
          /\ disk' = [disk EXCEPT !.registered = TRUE]
          /\ memory' = [memory EXCEPT !.registered = TRUE]
          /\ held' = [held EXCEPT !["wallet"][Signing] = held[c][Signing], ![c][Signing] = NoInstance]
          /\ at' = [at EXCEPT ![c] = "idle"] /\ guard' = NoOne
          /\ UNCHANGED identifiers
       \/ Unlocks(c) /\ UNCHANGED <<disk, memory>>
    /\ UNCHANGED <<platform, stored, used, cell, calls>>

-----------------------------------------------------------------------------
(* reset_to_initial_state                                                   *)

ResetCall(c) ==
    /\ cell = "full" /\ guard = NoOne /\ memory.registered
    /\ Call(c, "reset_storage")
    /\ guard' = c
    /\ memory' = [opened |-> FALSE, registered |-> FALSE]
    /\ \E deleted \in BOOLEAN : disk' = [exists |-> ~deleted, registered |-> ~deleted]
    /\ UNCHANGED <<platform, keyStore, cell>>

\* clear takes the open database; its key is dropped at the end of it.
ResetStorage(c) ==
    /\ at[c] = "reset_storage"
    /\ DeleteKey(Encryption)
    /\ at' = [at EXCEPT ![c] = "reset_cleared"]
    /\ UNCHANGED <<identifiers, held, rest>>

ResetCleared(c) ==
    /\ at[c] = "reset_cleared"
    /\ DropInstances("wallet", {Encryption})
    /\ at' = [at EXCEPT ![c] = "reset_hw"]
    /\ UNCHANGED <<stored, used, rest>>

ResetHw(c) ==
    /\ at[c] = "reset_hw"
    /\ DeleteKey(Signing)
    /\ at' = [at EXCEPT ![c] = "reset_done"]
    /\ UNCHANGED <<identifiers, held, rest>>

ResetDone(c) ==
    /\ at[c] = "reset_done"
    /\ DropInstances("wallet", {Signing})
    /\ at' = [at EXCEPT ![c] = "idle"] /\ guard' = NoOne
    /\ UNCHANGED <<platform, stored, used, disk, cell, memory, calls>>

-----------------------------------------------------------------------------

\* An unlocked wallet uses its keys, under the lock.
WalletUses ==
    /\ cell = "full" /\ guard = NoOne
    /\ \E t \in Types : held["wallet"][t].live /\ Use("wallet", t)
    /\ UNCHANGED <<rest, at>>

\* Keys in software, as used in tests and simulators, end with the process.
ProcessEnds ==
    /\ calls < MaxCalls
    /\ held' = [o \in Owners |-> [t \in Types |-> NoInstance]] /\ identifiers' = {}
    /\ stored' = IF platform = "hardware" THEN stored ELSE [t \in Types |-> 0]
    /\ used' = IF platform = "hardware" THEN used ELSE [t \in Types |-> 0]
    /\ cell' = "empty" /\ guard' = NoOne
    /\ memory' = [opened |-> FALSE, registered |-> FALSE]
    /\ at' = [c \in Callers |-> "idle"]
    /\ UNCHANGED <<platform, disk, calls>>

KeyStoreNext ==
    \/ \E c \in Callers :
          \/ CreateWallet(c) \/ InitClaim(c) \/ InitOpen(c) \/ InitHw(c) \/ InitDone(c)
          \/ RegisterCall(c) \/ RegisterHw(c) \/ RegisterRequest(c) \/ RegisterClaim(c)
          \/ RegisterOpen(c) \/ RegisterKeep(c) \/ RegisterInsert(c)
          \/ ResetCall(c) \/ ResetStorage(c) \/ ResetCleared(c) \/ ResetHw(c) \/ ResetDone(c)
    \/ WalletUses \/ ProcessEnds

KeyStoreSpec == KeyStoreInit /\ [][KeyStoreNext]_keyStoreVars

-----------------------------------------------------------------------------
(* Properties.                                                              *)

\* new_unique always finds its identifier free: the calls of init, register and
\* reset_wallet, whichever of their steps fail and in whatever order they come,
\* never have "wallet hardware key identifier is already in use" or "database key
\* file key identifier is already in use" for an answer.
NeverInUse == \A c \in Callers : at[c] # "panicked"

\* "If the type is simply dropped, it will remain in the backing store": a key
\* that was used is still the stored one until it is deleted by its only owner.
UsedKeyIsKept ==
    \A t \in Types :
        /\ used[t] # 0 => stored[t] = used[t]
        /\ \A o, p \in Live(t) : o = p

\* A key has one owner at a time, however init, register and reset_wallet overlap and
\* fail: so new_unique does not panic, and no key that is in use is lost.
KeyHasOneOwner == NeverInUse /\ UsedKeyIsKept
=============================================================================
