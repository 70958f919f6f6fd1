--------------------------- MODULE Configuration ----------------------------
(***************************************************************************)
(* The wallet's configuration: a signed document that the configuration    *)
(* server publishes, that the wallet fetches at intervals, keeps in memory *)
(* and in a file, and shows to the user interface through a callback.      *)
(*                                                                         *)
(* A configuration is known by its version.  The n-th document that the    *)
(* server publishes has n as its ETag; documents may repeat or lower a     *)
(* version.  The wallet runs on a phone: its process may end at any step,  *)
(* and a file that is written in place may then be left torn.              *)
(***************************************************************************)
EXTENDS Integers

CONSTANTS MaxVersion,           \* bound on the versions published or shipped
          MaxPublications,      \* bound on the documents published
          MaxFaults             \* bound on failures and ends of the process

ASSUME ConfigurationAssumption ==
    /\ MaxVersion \in Nat \ {0}
    /\ MaxPublications \in Nat \ {0}
    /\ MaxFaults \in Nat

Absent == 0         \* no file, no ETag
Torn == -1          \* a file of which only a part was written

Versions == 1..MaxVersion
Tags == {Torn, Absent} \cup 1..MaxPublications

VARIABLES
    published,      \* ETag of the document that the server serves
    version,        \* and the version in it
    initial,        \* version of default_configuration(), part of the app
    etagFile, configFile,
    running,        \* WALLET is initialized
    etag,           \* latest_etag
    config,         \* version of the configuration in memory
    task,           \* where the update task is
    response,       \* what it received: [etag, version]
    callback,       \* whose callback is registered: no one's, that of the
                    \* "newest" stream or that of a "replaced" one
    setting,        \* set_config_callback called it, but did not store it yet
    shown,          \* last version given to the newest stream
    kept,           \* highest version whose fetch or init has returned Ok
    faults,
    cut,            \* a fetch or a write was cut short after its first effect
    missed          \* an update did not reach the newest stream

serverVars == <<published, version>>
fileVars == <<etagFile, configFile>>
streamVars == <<callback, setting, shown, missed>>
configVars == <<published, version, initial, etagFile, configFile, running, etag,
                config, task, response, callback, setting, shown, kept, faults,
                cut, missed>>

NoResponse == [etag |-> Absent, version |-> Absent]

ConfigInit ==
    /\ published = 1 /\ version \in Versions
    /\ initial \in Versions
    /\ etagFile = Absent /\ configFile = Absent
    /\ running = FALSE /\ etag = Absent /\ config = Absent
    /\ task = "stopped" /\ response = NoResponse
    /\ callback = "none" /\ setting = FALSE /\ shown = Absent
    /\ kept = Absent /\ faults = 0 /\ cut = FALSE /\ missed = FALSE

-----------------------------------------------------------------------------
(* The configuration server.                                               *)

\* A new deployment of the server, with another wallet_config_jwt.
Publish ==
    /\ published < MaxPublications
    /\ published' = published + 1
    /\ version' \in Versions
    /\ UNCHANGED <<initial, fileVars, running, etag, config, task, response,
                   streamVars, kept, faults, cut>>

\* What configuration answers to a request with If-None-Match: tag.
configuration(tag) ==
    IF tag = Torn THEN "BAD_REQUEST"
    ELSE IF tag = published THEN "NOT_MODIFIED" ELSE "OK"

-----------------------------------------------------------------------------
(* Faults.                                                                 *)

\* What fs::write may leave behind when it fails.
FailedWrite(old) == {old, Torn}

Stopped ==
    /\ running' = FALSE
    /\ etag' = Absent /\ config' = Absent
    /\ task' = "stopped" /\ response' = NoResponse
    /\ callback' = "none" /\ setting' = FALSE /\ shown' = Absent /\ missed' = FALSE

\* The file that the task is writing to, if it is: a process that ends then
\* leaves the old content, the new one or a part of the new one.
Kill ==
    /\ running /\ faults < MaxFaults
    /\ faults' = faults + 1
    /\ etagFile' \in IF task = "tag" THEN {etagFile, response.etag, Torn} ELSE {etagFile}
    /\ configFile' \in IF task = "store" THEN {configFile, config, Torn} ELSE {configFile}
    /\ cut' = (cut \/ task \in {"tag", "body", "store"})
    /\ Stopped
    /\ UNCHANGED <<serverVars, initial, kept>>

\* The app is updated while it does not run.
UpdateApp ==
    /\ ~running /\ initial < MaxVersion
    /\ initial' = initial + 1
    /\ UNCHANGED <<serverVars, fileVars, running, etag, config, task, response,
                   streamVars, kept, faults, cut>>

-----------------------------------------------------------------------------
(* init: the file is read first, then the ETag, then the task is spawned.  *)

\* Mutant: the configuration that came with the app always wins.
default_config_shipped(stored) == initial

\* FileStorageConfigurationRepository::init, when the file could be read.
default_config(stored) ==
    IF stored = Absent \/ initial > stored THEN initial ELSE stored

Start ==
    /\ ~running /\ configFile # Torn
    /\ config' = default_config(configFile)
    /\ configFile' = IF configFile # Absent /\ initial > configFile
                     THEN initial ELSE configFile
    /\ etag' = etagFile
    /\ running' = TRUE
    /\ task' = "idle"
    /\ kept' = IF config' > kept THEN config' ELSE kept
    /\ UNCHANGED <<serverVars, initial, etagFile, response, streamVars, faults, cut>>

\* Overwriting the stored file fails: so does init, which may be called again.
StartFails ==
    /\ ~running /\ configFile # Torn /\ faults < MaxFaults
    /\ configFile # Absent /\ initial > configFile
    /\ configFile' \in FailedWrite(configFile)
    /\ cut' = (cut \/ configFile' = Torn)
    /\ faults' = faults + 1
    /\ UNCHANGED <<serverVars, initial, etagFile, running, etag, config, task,
                   response, streamVars, kept>>

-----------------------------------------------------------------------------
(* The update task: every interval one fetch, its steps in this order.     *)

\* Mutant: the task ends at the first fetch that brings nothing new.
FetchAnswered_once ==
    /\ task = "idle"
    /\ IF configuration(etag) = "OK"
       THEN /\ task' = "tag"
            /\ response' = [etag |-> published, version |-> version]
       ELSE task' = "stopped" /\ UNCHANGED response
    /\ UNCHANGED <<serverVars, initial, fileVars, running, etag, config, streamVars,
                   kept, faults, cut>>

\* get_wallet_config sends the request with the latest ETag it knows, and the
\* server answers.  304 ends the fetch as Unmodified, 400 as an error.
FetchAnswered ==
    /\ task = "idle"
    /\ IF configuration(etag) = "OK"
       THEN /\ task' = "tag"
            /\ response' = [etag |-> published, version |-> version]
       ELSE UNCHANGED <<task, response>>
    /\ UNCHANGED <<serverVars, initial, fileVars, running, etag, config, streamVars,
                   kept, faults, cut>>

\* The request or its answer is lost: an error that is only logged.
FetchLost ==
    /\ task = "idle" /\ faults < MaxFaults
    /\ faults' = faults + 1
    /\ UNCHANGED <<serverVars, initial, fileVars, running, etag, config, task,
                   response, streamVars, kept, cut>>

\* Mutant: the ETag is noted although the body has not been looked at, and
\* the fetch ends there when the header is one that memory already had.
store_latest_etag_only ==
    /\ task = "tag"
    /\ etagFile' = response.etag
    /\ etag' = response.etag
    /\ task' = "idle"
    /\ UNCHANGED <<serverVars, initial, configFile, running, config, response,
                   streamVars, kept, faults, cut>>

\* store_latest_etag, then the same in memory.
store_latest_etag ==
    /\ task = "tag"
    /\ etagFile' = response.etag
    /\ etag' = response.etag
    /\ task' = "body"
    /\ UNCHANGED <<serverVars, initial, configFile, running, config, response,
                   streamVars, kept, faults, cut>>

EtagFails ==
    /\ task = "tag" /\ faults < MaxFaults
    /\ etagFile' \in FailedWrite(etagFile)
    /\ cut' = (cut \/ etagFile' = Torn)
    /\ task' = "idle" /\ response' = NoResponse
    /\ faults' = faults + 1
    /\ UNCHANGED <<serverVars, initial, configFile, running, etag, config, streamVars,
                   kept>>

\* The body does not arrive, or parse_and_verify refuses it.
BodyFails ==
    /\ task = "body" /\ faults < MaxFaults
    /\ cut' = TRUE
    /\ task' = "idle" /\ response' = NoResponse
    /\ faults' = faults + 1
    /\ UNCHANGED <<serverVars, initial, fileVars, running, etag, config, streamVars,
                   kept>>

IsNewer(new, current) == new > current

\* HttpConfigurationRepository::fetch, with the body in hand.
fetch ==
    /\ task = "body"
    /\ IF IsNewer(response.version, config)
       THEN config' = response.version /\ task' = "store"
       ELSE UNCHANGED config /\ task' = "idle"
    /\ response' = NoResponse
    /\ UNCHANGED <<serverVars, initial, fileVars, running, etag, streamVars, kept,
                   faults, cut>>

\* FileStorageConfigurationRepository::fetch, after Updated.
update_config_file ==
    /\ task = "store"
    /\ configFile' = config
    /\ kept' = IF config > kept THEN config ELSE kept
    /\ task' = "call"
    /\ UNCHANGED <<serverVars, initial, etagFile, running, etag, config, response,
                   streamVars, faults, cut>>

\* It fails: the error hides the update from the callback.
StoreFails ==
    /\ task = "store" /\ faults < MaxFaults
    /\ configFile' \in FailedWrite(configFile)
    /\ cut' = TRUE /\ missed' = TRUE
    /\ task' = "idle"
    /\ faults' = faults + 1
    /\ UNCHANGED <<serverVars, initial, etagFile, running, etag, config, response,
                   callback, setting, shown, kept>>

\* The loop of start_update_task after Ok(Updated).
CallBack ==
    /\ task = "call"
    /\ shown' = IF callback = "newest" THEN config ELSE shown
    /\ missed' = (callback # "newest")
    /\ task' = "idle"
    /\ UNCHANGED <<serverVars, initial, fileVars, running, etag, config, response,
                   callback, setting, kept, faults, cut>>

-----------------------------------------------------------------------------
(* The user interface: set_configuration_stream and its counterpart, which *)
(* run next to the task.                                                   *)

\* set_config_callback first calls the callback ...
set_config_callback ==
    /\ running /\ ~setting
    /\ shown' = config
    /\ missed' = FALSE
    /\ setting' = TRUE
    /\ callback' = IF callback = "none" THEN "none" ELSE "replaced"
    /\ UNCHANGED <<serverVars, initial, fileVars, running, etag, config, task,
                   response, kept, faults, cut>>

\* ... and then stores it.
register_callback_on_update ==
    /\ setting
    /\ callback' = "newest"
    /\ setting' = FALSE
    /\ UNCHANGED <<serverVars, initial, fileVars, running, etag, config, task,
                   response, shown, missed, kept, faults, cut>>

clear_config_callback ==
    /\ running /\ ~setting /\ callback # "none"
    /\ callback' = "none"
    /\ UNCHANGED <<serverVars, initial, fileVars, running, etag, config, task,
                   response, setting, shown, missed, kept, faults, cut>>

-----------------------------------------------------------------------------

ServerStep == Publish
PhoneStep == Kill \/ UpdateApp \/ Start \/ StartFails
TaskStep ==
    FetchAnswered \/ store_latest_etag \/ fetch \/ update_config_file \/ CallBack
TaskFault == FetchLost \/ EtagFails \/ BodyFails \/ StoreFails
StreamStep ==
    set_config_callback \/ register_callback_on_update \/ clear_config_callback

ConfigNext == ServerStep \/ PhoneStep \/ TaskStep \/ TaskFault \/ StreamStep

\* The user opens the app again, and tokio runs the task: its interval ticks
\* and a fetch that got an answer goes on.
ConfigFairness == WF_configVars(Start) /\ WF_configVars(TaskStep)

ConfigSpec == ConfigInit /\ [][ConfigNext]_configVars /\ ConfigFairness

-----------------------------------------------------------------------------

ConfigTypeOK ==
    /\ published \in 1..MaxPublications /\ version \in Versions
    /\ initial \in Versions
    /\ etagFile \in Tags /\ etag \in Tags
    /\ configFile \in {Torn, Absent} \cup Versions
    /\ config \in {Absent} \cup Versions /\ kept \in {Absent} \cup Versions
    /\ running \in BOOLEAN /\ setting \in BOOLEAN
    /\ cut \in BOOLEAN /\ missed \in BOOLEAN
    /\ task \in {"stopped", "idle", "tag", "body", "store", "call"}
    /\ response.etag \in 0..MaxPublications /\ response.version \in 0..MaxVersion
    /\ callback \in {"none", "newest", "replaced"}
    /\ shown \in {Absent} \cup Versions
    /\ faults \in 0..MaxFaults

\* The wallet cannot get the published document any more, however often it
\* asks: it does not start, its ETag is refused, or the server answers 304 to
\* an ETag whose document was never taken over.
Wedged ==
    \/ ~running /\ (configFile = Torn \/ etagFile = Torn)
    \/ running /\ etag = Torn
    \/ etagFile = published /\ task \notin {"tag", "body"}
       /\ (running => config < version)
       /\ (~running => default_config(configFile) < version)

\* A configuration that stays published is adopted in the end, through losses
\* and restarts, unless the wallet is wedged: it learned the ETag (written
\* before the body is read) but not the document, or left a file torn.
PublishedIsAdopted ==
    \A n \in 1..MaxPublications :
        published = n ~> (published # n \/ (running /\ config >= version) \/ Wedged)

\* The wallet is wedged only after a fetch or a file write was cut short
\* between the write of the ETag file and that of the configuration file; a
\* request that is lost, or a process that ends elsewhere, does no harm.
WedgedOnlyIfCut == Wedged => cut

\* A configuration that fetch or init reported as taken over survives every
\* restart and app update: the version in memory never falls below it.
TakenOverIsKept == running => config >= kept

\* The user interface shows the configuration in force once the task rests,
\* unless its file could not be written or the update ran into the gap between
\* calling the new callback and registering it.
ShownIsCurrent ==
    running /\ task \in {"idle", "tag", "body"} /\ callback = "newest" /\ ~missed
        => shown = config

\* Memory agrees with what was there before and with what is on the screen: no
\* restart or app update takes the wallet back to an older configuration, and the
\* stream has been given the one in force (fetch, set_config_callback).
InForceIsKept == TakenOverIsKept /\ ShownIsCurrent
=============================================================================
