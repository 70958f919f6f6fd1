------------------------ MODULE MCProviderAndDevice -------------------------
(***************************************************************************)
(* Small components of the wallet provider and of the phone that share     *)
(* nothing, checked in one run: a behaviour is one of the PIN policy, of   *)
(* the configuration, of the provider's keys, of the PIN rules or of the   *)
(* phone's key store, while the other components rest.                     *)
(***************************************************************************)
EXTENDS MCPinRetry, Configuration, ProviderKeys, PinEntry, KeyStore

VARIABLE component

allVars == <<component, mcVars, configVars, keyVars, pinVars, keyStoreVars>>

KeyScene(max_sessions, most, challenges, instructions, counts, latest) ==
    [max_sessions |-> max_sessions, opened |-> most, challenges |-> challenges,
     instructions |-> instructions, counts |-> counts, latest |-> latest]

\* Two wallets with one session; one wallet with two sessions; a clock that runs on.
MCKeyScenes ==
    <<KeyScene(1, 2, <<1, 1>>, <<1, 1>>, {2}, 0),
      KeyScene(2, 3, <<2, 0>>, <<2, 0>>, {1, 2}, 1),
      KeyScene(1, 2, <<2, 0>>, <<1, 0>>, {1}, 3)>>

\* A configuration that is up to date, and a policy without attempts.
ConfigRests ==
    /\ published = 1 /\ version = 1 /\ initial = 1
    /\ etagFile = 1 /\ configFile = 1
    /\ running = TRUE /\ etag = 1 /\ config = 1
    /\ task = "idle" /\ response = NoResponse
    /\ callback = "none" /\ setting = FALSE /\ shown = Absent
    /\ kept = 1 /\ faults = 0 /\ cut = FALSE /\ missed = FALSE

PolicyRests == MCInit /\ policy = Policy(1, 2, <<>>)
KeysRest == KeyInit /\ key_scene = 1
KeyStoreRests == KeyStoreInit /\ platform = "hardware"

SumInit ==
    \/ component = "policy" /\ MCInit /\ ConfigRests /\ KeysRest /\ PinInit /\ KeyStoreRests
    \/ component = "configuration" /\ ConfigInit /\ PolicyRests /\ KeysRest /\ PinInit /\ KeyStoreRests
    \/ component = "keys" /\ KeyInit /\ PolicyRests /\ ConfigRests /\ PinInit /\ KeyStoreRests
    \/ component = "pin" /\ PinInit /\ PolicyRests /\ ConfigRests /\ KeysRest /\ KeyStoreRests
    \/ component = "key store" /\ KeyStoreInit /\ PolicyRests /\ ConfigRests /\ KeysRest /\ PinInit

SumNext ==
    \/ /\ component = "policy" /\ MCNext
       /\ UNCHANGED <<component, configVars, keyVars, pinVars, keyStoreVars>>
    \/ /\ component = "configuration" /\ ConfigNext
       /\ UNCHANGED <<component, mcVars, keyVars, pinVars, keyStoreVars>>
    \/ /\ component = "keys" /\ KeyNext
       /\ UNCHANGED <<component, mcVars, configVars, pinVars, keyStoreVars>>
    \/ /\ component = "pin" /\ PinNext
       /\ UNCHANGED <<component, mcVars, configVars, keyVars, keyStoreVars>>
    \/ /\ component = "key store" /\ KeyStoreNext
       /\ UNCHANGED <<component, mcVars, configVars, keyVars, pinVars>>

SumSpec == SumInit /\ [][SumNext]_allVars /\ ConfigFairness
=============================================================================
