------------------------------ MODULE BleDevice ------------------------------
(***************************************************************************)
(* One BleDevice (core/ble_device.py): the connection task with everything *)
(* it runs (connect and pair, one session after another, reconnect, the    *)
(* firmware update), the tasks of a READY session, and stop() running      *)
(* beside it.                                                              *)
(*                                                                         *)
(* The code is asyncio: between two awaits a task runs alone, so an action *)
(* is what the connection task does from the await named by pc to the next *)
(* one, and every await is a point where stop(), trigger_ota(), a new      *)
(* config or the radio can come in between.  What an await may return is a *)
(* nondeterministic choice.  task.cancel() makes the await the task stands *)
(* at raise CancelledError, which then meets the handlers of that place.   *)
(*                                                                         *)
(* start() and stop() are called one after the other here; DeviceCalls     *)
(* explores calls that overlap.                                            *)
(***************************************************************************)
EXTENDS Naturals, BleStates

CONSTANTS
    MaxConnect,     \* connect_max_retries
    MaxDiscover,    \* discover_max_retries
    MaxSync,        \* sync_max_retries
    MaxReconnect    \* reconnect_max_retries

ASSUME RetriesAssumption ==
    /\ MaxConnect \in Nat \ {0}
    /\ MaxDiscover \in Nat \ {0}
    /\ MaxSync \in Nat \ {0}
    /\ MaxReconnect \in Nat \ {0}

VARIABLES
    state,        \* _state
    pc,           \* the await at which the connection task is suspended
    result,       \* what the innermost call of the task returned so far
    attempts,     \* the retry counter of the phase the task is in
    cancel,       \* "no", "requested" by task.cancel(), or "unwinding"
    stopPc,       \* the await at which stop() is suspended, or "idle"
    link,         \* the link of the session's client: "none", "up", "lost"
    otaLink,      \* the link of ota_client or fp_client: "none", "up"
    client,       \* _client: "none" or "held"
    poll,         \* _poll_task: "none", "running", "ended"
    helpers,      \* live ones of _priority_downgrade_task and _passkey_task
    otaEvent,     \* _ota_event is set
    pendingOta,   \* _pending_ota is not None
    regionUnset,  \* _lora_region_unset
    sess,         \* some field that _reset_session_data clears is set
    auto,         \* _cfg.auto_connect
    serialPort,   \* a USB serial adapter is plugged in
    leaked        \* the await at which the last cancelled task abandoned a
                  \* connected client, or "nowhere"

links == <<link, otaLink, client>>
tasks == <<poll, helpers>>
ota   == <<otaEvent, pendingOta>>
flags == <<regionUnset, sess>>
env   == <<auto, serialPort>>
vars  == <<state, pc, result, attempts, cancel, stopPc, links, tasks, ota,
           flags, env, leaked>>

-----------------------------------------------------------------------------
(* Where the connection task can be suspended.                             *)

\* Outside _run_one_session: nothing there handles CancelledError.
LoopPcs ==
    {"connect", "pause", "retryDelay", "checkPin", "pinWait", "recheckPin",
     "pair", "dropUnpaired", "reconnect"}

\* Inside _connected_session, before READY.
SetupPcs ==
    {"discDelay", "discConnect", "linkSetup", "sync", "syncDrop",
     "syncConnect", "setRegion", "regionDrop", "subscribe"}

\* READY and the way out of it.
ReadyPcs == {"ready", "leaveReady", "otaPoll"}

\* Inside _run_ota_flow.
OtaPcs ==
    {"otaPending", "otaConnect", "otaMtu", "otaRun", "otaDrop", "nvsConnect",
     "nvsSend", "nvsDrop", "serialPoll", "serialProbe", "serialErase"}

Pcs == LoopPcs \cup SetupPcs \cup ReadyPcs \cup OtaPcs \cup {"closeLink", "done"}

Results ==
    {"none", "idle", "reconnecting", "firmware_incompatible",
     "scan_immediately", "crash", "refused", "ota", "ok",
     "nvs_mismatch", "error", "resent"}

\* The task runs on from the await p: not finished, no cancellation due.
Resumes(p) == pc = p /\ cancel = "no"

\* _transition(s); and _transition(s) followed by _transition(t).
Enter(s) == s \in Legal[state] /\ state' = s
Via(s, t) == s \in Legal[state] /\ t \in Legal[s] /\ state' = t

-----------------------------------------------------------------------------
Init ==
    /\ state = "OFFLINE"
    /\ pc = "done"
    /\ result = "none"
    /\ attempts = 0
    /\ cancel = "no"
    /\ stopPc = "idle"
    /\ link = "none" /\ otaLink = "none" /\ client = "none"
    /\ poll = "none" /\ helpers = {}
    /\ otaEvent = FALSE /\ pendingOta = FALSE
    /\ regionUnset = FALSE /\ sess = FALSE
    /\ auto \in BOOLEAN
    /\ serialPort \in BOOLEAN
    /\ leaked = "nowhere"

-----------------------------------------------------------------------------
(* Pieces shared by the actions of the connection task.                    *)

\* The top of the loop, reached by _transition(SCANNING): the session fields
\* are cleared, CONNECTING is entered and client.connect() awaited.  No await
\* separates the two transitions, so SCANNING is never seen at a suspension.
ToConnecting(n) ==
    /\ Via("SCANNING", "CONNECTING")
    /\ pc' = "connect"
    /\ attempts' = n
    /\ sess' = FALSE

\* (Mutant) The crash handler only logs.
LoopCrashLogged ==
    /\ pc' = "done"
    /\ UNCHANGED state

\* The handler of _connection_loop: the task ends.
LoopCrash ==
    /\ state' = Recovered(state)
    /\ pc' = "done"

\* return r inside _run_one_session: its finally block awaits the end of a
\* poll task that still runs, which it cancels, and the disconnection.
Close(r) ==
    /\ result' = r
    /\ pc' = "closeLink"
    /\ poll' = "none" /\ link' = "none"

\* An exception nothing in the session catches: _run_one_session's handler.
\* The code returns "idle"; the model calls it "crash" to tell it apart.
SessionCrash ==
    /\ state' = Recovered(state)
    /\ Close("crash")

\* The head of the discovery loop on a connected client, after n failures,
\* entered by _transition(DISCOVERING).  The services of the client say what
\* runs on the radio.
Discover(n) ==
    \/ \* Meshtastic, new enough: MTU and connection priority come next
       /\ Enter("DISCOVERING")
       /\ pc' = "linkSetup" /\ attempts' = 0
       /\ UNCHANGED <<result, poll>>
       /\ link' = "up"
    \/ \* no services, no Meshtastic service or no FROMNUM: wait and retry
       /\ n + 1 < MaxDiscover
       /\ Enter("DISCOVERING")
       /\ pc' = "discDelay" /\ attempts' = n + 1
       /\ UNCHANGED <<result, poll>>
       /\ link' = "up"
    \/ /\ n + 1 >= MaxDiscover
       /\ Via("DISCOVERING", "OFFLINE")
       /\ attempts' = n + 1
       /\ Close("idle")
    \/ \* a bootloader answers: BOOTLOADER_STUCK is shown, then OFFLINE
       /\ "OTA_BOOTLOADER_STUCK" \in Legal["DISCOVERING"]
       /\ "DISCOVERING" \in Legal[state]
       /\ "OFFLINE" \in Legal["OTA_BOOTLOADER_STUCK"]
       /\ state' = "OFFLINE"
       /\ attempts' = n
       /\ Close("idle")
    \/ \* firmware before 2.3
       /\ Via("DISCOVERING", "FIRMWARE_INCOMPATIBLE")
       /\ attempts' = n
       /\ Close("firmware_incompatible")

\* _run_one_session(client): remember the client, start discovering.
RunOneSession ==
    /\ client' = "held"
    /\ Discover(0)

-----------------------------------------------------------------------------
(* The connection loop outside a session.                                  *)

\* client.connect() succeeds on a paired radio.
ConnectPaired ==
    /\ Resumes("connect")
    /\ RunOneSession
    /\ UNCHANGED <<cancel, stopPc, otaLink, helpers, ota, flags, env, leaked>>

\* client.connect() succeeds, BlueZ says the radio is not paired.
ConnectUnpaired ==
    /\ Resumes("connect")
    /\ pc' = "checkPin" /\ attempts' = 0 /\ link' = "up"
    /\ UNCHANGED <<state, result, cancel, stopPc, otaLink, client, tasks, ota,
                   flags, env, leaked>>

\* (Mutant) The limit is compared with > instead of >=.
ConnectFailsOneMore ==
    /\ Resumes("connect")
    /\ \/ /\ attempts + 1 <= MaxConnect
          /\ pc' = "retryDelay"
          /\ UNCHANGED state
       \/ /\ attempts + 1 > MaxConnect
          /\ Enter("OFFLINE")
          /\ pc' = IF auto THEN "pause" ELSE "done"
    /\ attempts' = attempts + 1
    /\ UNCHANGED <<result, cancel, stopPc, links, tasks, ota, flags, env, leaked>>

\* (Mutant) Failures are not counted.
ConnectFailsUncounted ==
    /\ Resumes("connect")
    /\ pc' = "retryDelay"
    /\ UNCHANGED <<state, result, attempts, cancel, stopPc, links, tasks, ota,
                   flags, env, leaked>>

\* client.connect() fails with an error of the list the loop expects.
ConnectFails ==
    /\ Resumes("connect")
    /\ \/ /\ attempts + 1 < MaxConnect
          /\ pc' = "retryDelay"
          /\ UNCHANGED state
       \/ /\ attempts + 1 >= MaxConnect
          /\ Enter("OFFLINE")
          /\ pc' = IF auto THEN "pause" ELSE "done"
    /\ attempts' = attempts + 1
    /\ UNCHANGED <<result, cancel, stopPc, links, tasks, ota, flags, env, leaked>>

\* connect() raises something else: the task dies in its crash handler.
ConnectRaises ==
    /\ \/ Resumes("connect") \/ Resumes("reconnect")
    /\ LoopCrash
    /\ UNCHANGED <<result, attempts, cancel, stopPc, links, tasks, ota, flags,
                   env, leaked>>

\* asyncio.sleep(connect_retry_delay_s) is over.
RetryConnect ==
    /\ Resumes("retryDelay")
    /\ ToConnecting(attempts)
    /\ UNCHANGED <<result, cancel, stopPc, links, tasks, ota, regionUnset, env,
                   leaked>>

\* A sleep in OFFLINE is over: after scan_pause_s, or after failed pairing.
PauseOver ==
    /\ Resumes("pause")
    /\ ToConnecting(0)
    /\ UNCHANGED <<result, cancel, stopPc, links, tasks, ota, regionUnset, env,
                   leaked>>

\* _check_has_pin() answers: pair at once, or wait for the user's PIN.
PinChecked ==
    /\ Resumes("checkPin")
    /\ Enter("NEED_PAIR")
    /\ pc' \in {"pair", "pinWait"}
    /\ UNCHANGED <<result, attempts, cancel, stopPc, links, tasks, ota, flags,
                   env, leaked>>

\* The wait for retry_pair() ends, by the event or after 120 s.
PinWaitOver ==
    /\ Resumes("pinWait")
    /\ pc' = "recheckPin"
    /\ UNCHANGED <<state, result, attempts, cancel, stopPc, links, tasks, ota,
                   flags, env, leaked>>

PinRechecked ==
    /\ Resumes("recheckPin")
    /\ \/ pc' = "pair" /\ UNCHANGED link
       \/ pc' = "dropUnpaired" /\ link' = "none"
    /\ UNCHANGED <<state, result, attempts, cancel, stopPc, otaLink, client,
                   tasks, ota, flags, env, leaked>>

\* client.pair() returns: the session starts on the same client.
PairOk ==
    /\ Resumes("pair")
    /\ link = "up"
    /\ RunOneSession
    /\ UNCHANGED <<cancel, stopPc, otaLink, helpers, ota, flags, env, leaked>>

PairFails ==
    /\ Resumes("pair")
    /\ pc' = "dropUnpaired" /\ link' = "none"
    /\ UNCHANGED <<state, result, attempts, cancel, stopPc, otaLink, client,
                   tasks, ota, flags, env, leaked>>

\* The unpaired client is disconnected: OFFLINE, and another cycle after a
\* pause, whatever auto_connect says.
UnpairedDropped ==
    /\ Resumes("dropUnpaired")
    /\ Enter("OFFLINE")
    /\ pc' = "pause"
    /\ UNCHANGED <<result, attempts, cancel, stopPc, links, tasks, ota, flags,
                   env, leaked>>

\* One attempt of _do_reconnect: the backoff sleep, then connect().
ReconnectOk ==
    /\ Resumes("reconnect")
    /\ RunOneSession
    /\ sess' = FALSE
    /\ UNCHANGED <<cancel, stopPc, otaLink, helpers, ota, regionUnset, env, leaked>>

ReconnectFails ==
    /\ Resumes("reconnect")
    /\ attempts' = attempts + 1
    /\ \/ /\ attempts + 1 < MaxReconnect
          /\ UNCHANGED <<state, pc>>
       \/ /\ attempts + 1 >= MaxReconnect
          /\ Enter("OFFLINE")
          /\ pc' = IF auto THEN "pause" ELSE "done"
    /\ UNCHANGED <<result, cancel, stopPc, links, tasks, ota, flags, env, leaked>>

LoopStep ==
    \/ ConnectPaired \/ ConnectUnpaired \/ ConnectFails \/ ConnectRaises
    \/ RetryConnect \/ PauseOver
    \/ PinChecked \/ PinWaitOver \/ PinRechecked
    \/ PairOk \/ PairFails \/ UnpairedDropped
    \/ ReconnectOk \/ ReconnectFails

-----------------------------------------------------------------------------
(* A session: _connected_session, up to READY.                             *)

\* The delay before another look at the services is over.
RetryDiscover ==
    /\ Resumes("discDelay")
    /\ Enter("CONNECTING")
    /\ pc' = "discConnect"
    /\ UNCHANGED <<result, attempts, cancel, stopPc, links, tasks, ota, flags,
                   env, leaked>>

DiscoverConnected ==
    /\ Resumes("discConnect")
    /\ Discover(attempts)
    /\ UNCHANGED <<cancel, stopPc, otaLink, client, helpers, ota, flags, env, leaked>>

\* Any exception of this connect() ends the session.
DiscoverConnectFails ==
    /\ Resumes("discConnect")
    /\ Enter("OFFLINE")
    /\ Close("idle")
    /\ UNCHANGED <<attempts, cancel, stopPc, otaLink, client, helpers, ota,
                   flags, env, leaked>>

\* MTU and connection priority are settled, whatever came of them: SYNCING.
LinkIsSetUp ==
    /\ Resumes("linkSetup")
    /\ Enter("SYNCING")
    /\ pc' = "sync" /\ attempts' = 0
    /\ sess' = TRUE
    /\ UNCHANGED <<result, cancel, stopPc, links, tasks, ota, regionUnset, env,
                   leaked>>

\* What a sync read of the LoRa region: a config with region 0 sets the flag,
\* nothing in a sync clears it.
RegionRead == \E unset \in BOOLEAN : regionUnset' = (regionUnset \/ unset)

\* config_complete arrived.  With the flag set the session ends here: the
\* region is written when one is configured, and REGION_UNSET is shown.
SyncComplete ==
    /\ Resumes("sync")
    /\ link = "up"
    /\ \E unset \in BOOLEAN :
         \/ /\ ~(regionUnset \/ unset)
            /\ regionUnset' = FALSE
            /\ pc' = "subscribe"
            /\ UNCHANGED <<state, link>>
         \/ /\ regionUnset \/ unset
            /\ regionUnset' = FALSE
            /\ \/ \* lora_region configured: _set_lora_region is awaited
                  pc' = "setRegion" /\ UNCHANGED <<state, link>>
               \/ /\ Enter("REGION_UNSET")
                  /\ pc' = "regionDrop" /\ link' = "none"
    /\ UNCHANGED <<result, attempts, cancel, stopPc, otaLink, client, tasks, ota,
                   sess, env, leaked>>

\* The sync timed out or hit a BleakError.  While retries are left the client
\* is disconnected, to be connected again.
SyncFails ==
    /\ Resumes("sync")
    /\ RegionRead
    /\ attempts' = attempts + 1
    /\ \/ /\ attempts + 1 >= MaxSync
          /\ Enter("OFFLINE")
          /\ Close("idle")
       \/ /\ attempts + 1 < MaxSync
          /\ Enter("CONNECTING")
          /\ pc' = "syncDrop" /\ link' = "none"
          /\ UNCHANGED <<result, poll>>
    /\ UNCHANGED <<cancel, stopPc, otaLink, client, helpers, ota, sess, env, leaked>>

SyncDropped ==
    /\ Resumes("syncDrop")
    /\ pc' = "syncConnect"
    /\ UNCHANGED <<state, result, attempts, cancel, stopPc, links, tasks, ota,
                   flags, env, leaked>>

\* client.connect() succeeds, but CONNECTING does not lead to SYNCING: the
\* refused transition raises in the try block of connect(), whose handler ends
\* the session.  The code returns "idle"; the model says "refused".
SyncReconnected ==
    /\ Resumes("syncConnect")
    /\ "SYNCING" \notin Legal[state]
    /\ Enter("OFFLINE")
    /\ Close("refused")
    /\ UNCHANGED <<attempts, cancel, stopPc, otaLink, client, helpers, ota,
                   flags, env, leaked>>

SyncReconnectFails ==
    /\ Resumes("syncConnect")
    /\ Enter("OFFLINE")
    /\ Close("idle")
    /\ UNCHANGED <<attempts, cancel, stopPc, otaLink, client, helpers, ota,
                   flags, env, leaked>>

\* _set_lora_region returned or raised, the code goes on either way.
RegionWritten ==
    /\ Resumes("setRegion")
    /\ Enter("REGION_UNSET")
    /\ pc' = "regionDrop" /\ link' = "none"
    /\ UNCHANGED <<result, attempts, cancel, stopPc, otaLink, client, tasks, ota,
                   flags, env, leaked>>

\* (Mutant) The session returns a value the loop does not know.
RegionDroppedUnknown ==
    /\ Resumes("regionDrop")
    /\ Enter("OFFLINE")
    /\ Close("rescan")
    /\ UNCHANGED <<attempts, cancel, stopPc, otaLink, client, helpers, ota,
                   flags, env, leaked>>

\* The radio reboots to apply the region: connect again at once.
RegionDropped ==
    /\ Resumes("regionDrop")
    /\ Enter("OFFLINE")
    /\ Close("scan_immediately")
    /\ UNCHANGED <<attempts, cancel, stopPc, otaLink, client, helpers, ota,
                   flags, env, leaked>>

\* start_notify(FROMNUM) succeeds: READY, and the tasks of a session start.
Subscribed ==
    /\ Resumes("subscribe")
    /\ link = "up"
    /\ Enter("READY")
    /\ pc' = "ready"
    /\ poll' = "running"
    /\ helpers' = {"priority", "passkey"}
    /\ UNCHANGED <<result, attempts, cancel, stopPc, links, ota, flags, env, leaked>>

\* (Mutant) The session returns without going OFFLINE.
SubscribeFailsSilently ==
    /\ Resumes("subscribe")
    /\ Close("idle")
    /\ UNCHANGED <<state, attempts, cancel, stopPc, otaLink, client, helpers,
                   ota, flags, env, leaked>>

\* start_notify raises a BleakError.
SubscribeFails ==
    /\ Resumes("subscribe")
    /\ Enter("OFFLINE")
    /\ Close("idle")
    /\ UNCHANGED <<attempts, cancel, stopPc, otaLink, client, helpers, ota,
                   flags, env, leaked>>

\* An exception the session does not expect (an OSError out of D-Bus).
SetupRaises ==
    /\ \/ Resumes("sync") /\ RegionRead
       \/ Resumes("subscribe") /\ UNCHANGED regionUnset
    /\ SessionCrash
    /\ UNCHANGED <<attempts, cancel, stopPc, otaLink, client, helpers, ota,
                   sess, env, leaked>>

SetupStep ==
    \/ RetryDiscover \/ DiscoverConnected \/ DiscoverConnectFails
    \/ LinkIsSetUp
    \/ SyncComplete \/ SyncFails \/ SyncDropped
    \/ SyncReconnected \/ SyncReconnectFails
    \/ RegionWritten \/ RegionDropped
    \/ Subscribed \/ SubscribeFails \/ SetupRaises

-----------------------------------------------------------------------------
(* READY, and the two ways out of it.                                      *)

\* _run_ota_flow begins: take the path, validate the file.  A file that
\* cannot be read asks for OTA_ERROR, which READY does not lead to; a missing
\* path raises before that.  Otherwise OTA_PENDING and the reboot request.
StartOta ==
    /\ pendingOta' = FALSE
    /\ \/ /\ pendingOta
          /\ Enter("OTA_PENDING")
          /\ pc' = "otaPending" /\ poll' = "none"
          /\ UNCHANGED <<result, link>>
       \/ /\ ~pendingOta \/ "OTA_ERROR" \notin Legal[state]
          /\ SessionCrash

\* The finally block of the READY wait is done: the poll task ended, or an
\* update was asked for.
LeaveReady(why) ==
    \/ /\ why = "reconnecting"
       /\ Enter("RECONNECTING")
       /\ Close("reconnecting")
       /\ UNCHANGED ota
    \/ /\ why = "ota"
       /\ otaEvent' = FALSE
       /\ \/ /\ poll = "running"       \* cancel it and await its end
             /\ poll' = "ended" /\ pc' = "otaPoll" /\ result' = "ota"
             /\ UNCHANGED <<state, link, pendingOta>>
          \/ /\ poll = "ended"
             /\ StartOta
          \/ /\ poll = "none"          \* stop() set _poll_task to None
             /\ SessionCrash
             /\ UNCHANGED pendingOta

\* asyncio.wait returns: the poll task is done or the OTA event is set.  Live
\* helper tasks are cancelled and awaited first.
ReadyWaitOver ==
    /\ Resumes("ready")
    /\ \E why \in {"ota", "reconnecting"} :
         /\ why = "ota" => otaEvent
         /\ why = "reconnecting" => poll # "running"
         /\ \/ /\ helpers # {}
               /\ helpers' = {} /\ pc' = "leaveReady" /\ result' = why
               /\ UNCHANGED <<state, link, poll, ota>>
            \/ /\ helpers = {}
               /\ LeaveReady(why)
               /\ UNCHANGED helpers
    /\ UNCHANGED <<attempts, cancel, stopPc, otaLink, client, flags, env, leaked>>

HelpersCancelled ==
    /\ Resumes("leaveReady")
    /\ LeaveReady(result)
    /\ UNCHANGED <<attempts, cancel, stopPc, otaLink, client, helpers, flags,
                   env, leaked>>

PollCancelled ==
    /\ Resumes("otaPoll")
    /\ StartOta
    /\ UNCHANGED <<attempts, cancel, stopPc, otaLink, client, helpers, otaEvent,
                   flags, env, leaked>>

ReadyStep == ReadyWaitOver \/ HelpersCancelled \/ PollCancelled

-----------------------------------------------------------------------------
(* The firmware update: _run_ota_flow and _serial_erase_nvs.               *)

\* The update ends: OTA_ERROR is shown on the way to OFFLINE.
OtaFails ==
    /\ Via("OTA_ERROR", "OFFLINE")
    /\ Close("idle")

\* The update steps that can only fail into OtaFails.
OtaStepFails ==
    /\ \/ Resumes("otaPending")     \* request refused, or no reboot in time
       \/ Resumes("otaConnect")     \* the bootloader does not answer
       \/ Resumes("serialProbe")    \* not in ROM bootloader, or timeout
       \/ Resumes("serialErase")    \* esptool failed, or timeout
    /\ OtaFails
    /\ UNCHANGED <<attempts, cancel, stopPc, otaLink, client, helpers, ota,
                   flags, env, leaked>>

\* The radio has dropped the link to reboot into its bootloader.
OtaDisconnected ==
    /\ Resumes("otaPending")
    /\ link # "up"
    /\ Enter("OTA_HANDSHAKE")
    /\ pc' = "otaConnect"
    /\ UNCHANGED <<result, attempts, cancel, stopPc, links, tasks, ota, flags,
                   env, leaked>>

OtaConnected ==
    /\ Resumes("otaConnect")
    /\ pc' = "otaMtu" /\ otaLink' = "up"
    /\ UNCHANGED <<state, result, attempts, cancel, stopPc, link, client, tasks,
                   ota, flags, env, leaked>>

\* _acquire_mtu returned or raised; session.run() begins.
OtaMtuKnown ==
    /\ Resumes("otaMtu")
    /\ pc' = "otaRun"
    /\ UNCHANGED <<state, result, attempts, cancel, stopPc, links, tasks, ota,
                   flags, env, leaked>>

\* The bootloader accepted the image: session.run() calls on_transition.
OtaFlashing ==
    /\ Resumes("otaRun")
    /\ Enter("OTA_FLASHING")
    /\ UNCHANGED <<pc, result, attempts, cancel, stopPc, links, tasks, ota, flags,
                   env, leaked>>

\* session.run() returns or raises; ota_client is disconnected either way.
OtaSessionOver ==
    /\ Resumes("otaRun")
    /\ \/ result' = "error"
       \/ state = "OTA_FLASHING" /\ result' = "ok"
       \/ state = "OTA_HANDSHAKE" /\ result' = "nvs_mismatch"
    /\ pc' = "otaDrop" /\ otaLink' = "none"
    /\ UNCHANGED <<state, attempts, cancel, stopPc, link, client, tasks, ota,
                   flags, env, leaked>>

OtaClientDropped ==
    /\ Resumes("otaDrop")
    /\ \/ /\ result = "ok"
          /\ Via("OTA_COMPLETE", "OFFLINE")
          /\ Close("scan_immediately")
       \/ /\ result = "nvs_mismatch"
          /\ Enter("OTA_NVS_MISMATCH")
          /\ pc' = "nvsConnect"
          /\ UNCHANGED <<result, link, poll>>
       \/ /\ result = "error"
          /\ OtaFails
    /\ UNCHANGED <<attempts, cancel, stopPc, otaLink, client, helpers, ota,
                   flags, env, leaked>>

\* NVS recovery, the fast path: connect again, repeat the request.
NvsConnected ==
    /\ Resumes("nvsConnect")
    /\ pc' = "nvsSend" /\ otaLink' = "up"
    /\ UNCHANGED <<state, result, attempts, cancel, stopPc, link, client, tasks,
                   ota, flags, env, leaked>>

\* The fast path is over, fp_client is disconnected.
NvsFastPathOver ==
    /\ \/ Resumes("nvsConnect") /\ UNCHANGED result
       \/ Resumes("nvsSend") /\ result' \in {"resent", "nvs_mismatch"}
    /\ pc' = "nvsDrop" /\ otaLink' = "none"
    /\ UNCHANGED <<state, attempts, cancel, stopPc, link, client, tasks, ota,
                   flags, env, leaked>>

\* The request went out: OFFLINE.  Else the user must plug a serial adapter.
NvsClientDropped ==
    /\ Resumes("nvsDrop")
    /\ \/ /\ result = "resent"
          /\ Enter("OFFLINE")
          /\ Close("scan_immediately")
       \/ /\ result = "nvs_mismatch"
          /\ Enter("OTA_SERIAL_WAIT")
          /\ pc' = "serialPoll"
          /\ UNCHANGED <<result, link, poll>>
    /\ UNCHANGED <<attempts, cancel, stopPc, otaLink, client, helpers, ota,
                   flags, env, leaked>>

\* The first poll of _serial_erase_nvs.  With a port the probe is started;
\* without one the argument _deadline_ms of the progress event, a name of the
\* calling function, raises NameError, which the caller takes for a failed
\* erase.
SerialPolled ==
    /\ Resumes("serialPoll")
    /\ \/ /\ serialPort
          /\ pc' = "serialProbe"
          /\ UNCHANGED <<state, result, link, poll>>
       \/ /\ ~serialPort
          /\ OtaFails
    /\ UNCHANGED <<attempts, cancel, stopPc, otaLink, client, helpers, ota,
                   flags, env, leaked>>

SerialProbed ==
    /\ Resumes("serialProbe")
    /\ Enter("OTA_SERIAL_ERASING")
    /\ pc' = "serialErase"
    /\ UNCHANGED <<result, attempts, cancel, stopPc, links, tasks, ota, flags,
                   env, leaked>>

\* (Mutant) After the erase the session reconnects instead of ending.
SerialErasedReconnects ==
    /\ Resumes("serialErase")
    /\ state' = "RECONNECTING"
    /\ Close("reconnecting")
    /\ UNCHANGED <<attempts, cancel, stopPc, otaLink, client, helpers, ota,
                   flags, env, leaked>>

SerialErased ==
    /\ Resumes("serialErase")
    /\ Enter("OFFLINE")
    /\ Close("idle")
    /\ UNCHANGED <<attempts, cancel, stopPc, otaLink, client, helpers, ota,
                   flags, env, leaked>>

OtaStep ==
    \/ OtaStepFails \/ OtaDisconnected \/ OtaConnected \/ OtaMtuKnown
    \/ OtaFlashing \/ OtaSessionOver \/ OtaClientDropped
    \/ NvsConnected \/ NvsFastPathOver \/ NvsClientDropped
    \/ SerialPolled \/ SerialProbed \/ SerialErased

-----------------------------------------------------------------------------
(* The end of a session.                                                   *)

\* The loop takes over from a session that returned: reconnect, stop for good,
\* or start the next cycle.  A session that returned in a state other than
\* OFFLINE makes the loop raise.
NextCycle ==
    \/ /\ result = "reconnecting"
       /\ pc' = "reconnect" /\ attempts' = 0
       /\ UNCHANGED <<state, sess>>
    \/ /\ result = "firmware_incompatible"
       /\ pc' = "done"
       /\ UNCHANGED <<state, attempts, sess>>
    \/ /\ result \in {"idle", "crash", "refused", "scan_immediately"}
       /\ \/ /\ ~auto \/ state # "OFFLINE"
             /\ LoopCrash               \* leaves an OFFLINE device as it is
             /\ UNCHANGED <<attempts, sess>>
          \/ /\ auto /\ state = "OFFLINE" /\ result = "scan_immediately"
             /\ ToConnecting(0)
          \/ /\ auto /\ state = "OFFLINE" /\ result # "scan_immediately"
             /\ pc' = "pause"
             /\ UNCHANGED <<state, attempts, sess>>

LinkClosed ==
    /\ Resumes("closeLink")
    /\ client' = "none"
    /\ NextCycle
    /\ UNCHANGED <<result, cancel, stopPc, link, otaLink, tasks, ota,
                   regionUnset, env, leaked>>

-----------------------------------------------------------------------------
(* Cancellation of the connection task.                                    *)

\* CancelledError leaves the session: its finally block runs, then the task
\* ends.
Unwind ==
    /\ cancel' = "unwinding"
    /\ Close(result)
    /\ UNCHANGED helpers

\* Outside a session nothing disconnects the client of the loop.
CancelInLoop ==
    /\ pc \in LoopPcs
    /\ pc' = "done" /\ cancel' = "no"
    /\ leaked' = IF link = "up" THEN pc ELSE leaked
    /\ link' = "none"
    /\ UNCHANGED <<result, otaLink, client, tasks>>

\* The await of a cancelled helper or poll task stands in
\* contextlib.suppress(CancelledError): the task's own cancellation is
\* suppressed with it, and the task goes on.
CancelSuppressed ==
    /\ pc \in {"leaveReady", "otaPoll"}
    /\ cancel' = "no"
    /\ UNCHANGED <<pc, result, links, tasks, leaked>>

\* (Mutant) The READY wait has no finally block.
CancelInReadyUnguarded ==
    /\ pc = "ready"
    /\ Unwind
    /\ UNCHANGED <<otaLink, client, leaked>>

\* Cancelled in the READY wait: its finally block first ends the helpers.
CancelInReady ==
    /\ pc = "ready"
    /\ \/ /\ helpers # {}
          /\ helpers' = {} /\ pc' = "leaveReady" /\ cancel' = "unwinding"
          /\ UNCHANGED <<result, link, poll>>
       \/ /\ helpers = {}
          /\ Unwind
    /\ UNCHANGED <<otaLink, client, leaked>>

\* (Mutant) session.run() has no finally block.
CancelInOtaRunUnguarded ==
    /\ pc = "otaRun"
    /\ pc' = "otaDrop" /\ otaLink' = "none" /\ cancel' = "unwinding"
    /\ leaked' = "otaRun"
    /\ UNCHANGED <<result, link, client, tasks>>

\* Cancelled in session.run(): its finally block disconnects ota_client.
CancelInOtaRun ==
    /\ pc = "otaRun"
    /\ pc' = "otaDrop" /\ otaLink' = "none" /\ cancel' = "unwinding"
    /\ UNCHANGED <<result, link, client, tasks, leaked>>

\* Elsewhere in a session.  The handlers around ota_client and fp_client
\* catch Exception, which CancelledError is not, so a connected one stays.
CancelInSession ==
    /\ pc \in SetupPcs \cup (OtaPcs \ {"otaRun"})
    /\ Unwind
    /\ leaked' = IF otaLink = "up" THEN pc ELSE leaked
    /\ otaLink' = "none"
    /\ UNCHANGED client

\* Cancelled in the disconnect of the finally block: _client is not cleared.
CancelInClose ==
    /\ pc = "closeLink"
    /\ pc' = "done" /\ cancel' = "no"
    /\ UNCHANGED <<result, links, tasks, leaked>>

CancelDelivered ==
    /\ cancel = "requested"
    /\ \/ CancelInLoop \/ CancelSuppressed \/ CancelInReady
       \/ CancelInOtaRun \/ CancelInSession \/ CancelInClose
    /\ UNCHANGED <<state, attempts, stopPc, ota, flags, env>>

\* The awaits a cancelled task still has to pass on its way out.
UnwindStep ==
    /\ cancel = "unwinding"
    /\ \/ /\ pc \in {"leaveReady", "otaDrop"}
          /\ Close(result)
          /\ UNCHANGED <<cancel, client>>
       \/ /\ pc = "closeLink"
          /\ pc' = "done" /\ cancel' = "no" /\ client' = "none"
          /\ UNCHANGED <<result, link, poll>>
    /\ UNCHANGED <<state, attempts, stopPc, otaLink, helpers, ota, flags, env,
                   leaked>>

ConnTask ==
    \/ LoopStep \/ SetupStep \/ ReadyStep \/ OtaStep
    \/ LinkClosed \/ CancelDelivered \/ UnwindStep

-----------------------------------------------------------------------------
(* start() and stop().                                                     *)

\* start() with no connection task alive.  From FIRMWARE_INCOMPATIBLE the new
\* task's first transition is refused and the crash handler ends it.
Start ==
    /\ stopPc = "idle" /\ pc = "done"
    /\ result' = "none" /\ leaked' = "nowhere"
    /\ \/ ToConnecting(0)
       \/ /\ "SCANNING" \notin Legal[state]
          /\ LoopCrash
          /\ UNCHANGED <<attempts, sess>>
    /\ UNCHANGED <<cancel, stopPc, links, tasks, ota, regionUnset, env>>

\* How far stop() has come.  It suspends only to await something that is
\* alive, so from one await it runs through every step with nothing to do.
AtHelpers == stopPc = "idle"
AtPoll    == (AtHelpers /\ helpers = {}) \/ stopPc = "helpers"
AtConn    == (AtPoll /\ poll # "running") \/ stopPc = "poll"
AtClient  == (AtConn \/ stopPc = "conn") /\ pc = "done"

\* (Mutant) After the client is disconnected stop() is not resumed.
AtEndWithoutClient == AtClient /\ client = "none"

\* Nothing is left to await.
AtEnd == (AtClient /\ client = "none") \/ stopPc = "client"

\* _poll_task is None once stop() has awaited it.
PollForgotten == poll' = IF stopPc = "poll" THEN "none" ELSE poll

StopHelpers ==
    /\ AtHelpers /\ helpers # {}
    /\ helpers' = {} /\ stopPc' = "helpers"
    /\ UNCHANGED <<state, pc, cancel, links, poll, sess>>

StopPoll ==
    /\ AtPoll /\ poll = "running"
    /\ poll' = "ended" /\ stopPc' = "poll"
    /\ UNCHANGED <<state, pc, cancel, links, helpers, sess>>

StopConn ==
    /\ AtConn /\ pc # "done"
    /\ cancel' = "requested" /\ stopPc' = "conn"
    /\ PollForgotten
    /\ UNCHANGED <<state, pc, links, helpers, sess>>

StopClient ==
    /\ AtClient /\ client = "held"
    /\ link' = "none" /\ stopPc' = "client"
    /\ PollForgotten
    /\ UNCHANGED <<state, pc, cancel, otaLink, client, helpers, sess>>

\* The one write of _state outside _transition, with a fresh DeviceData.
StopEnd ==
    /\ AtEnd
    /\ stopPc' = "idle" /\ client' = "none"
    /\ PollForgotten
    /\ state' = "OFFLINE"
    /\ sess' = IF state = "OFFLINE" THEN sess ELSE FALSE
    /\ UNCHANGED <<pc, cancel, link, otaLink, helpers>>

StopStep ==
    /\ StopHelpers \/ StopPoll \/ StopConn \/ StopClient \/ StopEnd
    /\ UNCHANGED <<result, attempts, ota, regionUnset, env, leaked>>

-----------------------------------------------------------------------------
(* The other callers, the other tasks, and the world.                      *)

\* trigger_ota(): refused unless READY.
TriggerOta ==
    /\ state = "READY"
    /\ otaEvent' = TRUE /\ pendingOta' = TRUE
    /\ UNCHANGED <<state, pc, result, attempts, cancel, stopPc, links, tasks,
                   flags, env, leaked>>

\* update_config(): auto_connect is read where it is needed.
UpdateConfig ==
    /\ auto' = ~auto
    /\ UNCHANGED <<state, pc, result, attempts, cancel, stopPc, links, tasks,
                   ota, flags, serialPort, leaked>>

\* The notify loop ends with a BleakError: a read failed, or the idle check
\* found the link lost.
NotifyLoopEnds ==
    /\ poll = "running"
    /\ poll' = "ended"
    /\ UNCHANGED <<state, pc, result, attempts, cancel, stopPc, links, helpers,
                   ota, flags, env, leaked>>

\* The priority task has done its work; the passkey task dies of a failed
\* write, which nobody notices.
HelperEnds ==
    /\ \E h \in helpers : helpers' = helpers \ {h}
    /\ UNCHANGED <<state, pc, result, attempts, cancel, stopPc, links, poll,
                   ota, flags, env, leaked>>

LinkLost ==
    /\ link = "up"
    /\ link' = "lost"
    /\ UNCHANGED <<state, pc, result, attempts, cancel, stopPc, otaLink, client,
                   tasks, ota, flags, env, leaked>>

PlugSerial ==
    /\ serialPort' = ~serialPort
    /\ UNCHANGED <<state, pc, result, attempts, cancel, stopPc, links, tasks,
                   ota, flags, auto, leaked>>

Environment ==
    \/ TriggerOta \/ UpdateConfig \/ NotifyLoopEnds \/ HelperEnds
    \/ LinkLost \/ PlugSerial

Next == ConnTask \/ Start \/ StopStep \/ Environment

Spec == Init /\ [][Next]_vars

\* Every await of the connection task returns: sleeps and wait_for by their
\* timeouts, the calls of bleak by BlueZ's own.  A notify loop on a lost link
\* finds out, and a stop() in progress goes on when what it awaits is done.
Fairness ==
    /\ WF_vars(ConnTask)
    /\ WF_vars(NotifyLoopEnds /\ link = "lost")
    /\ WF_vars(StopStep /\ stopPc # "idle")

FairSpec == Spec /\ Fairness

-----------------------------------------------------------------------------
(* Properties.                                                             *)

\* Every variable stays in its type.
TypeOK ==
    /\ state \in States
    /\ pc \in Pcs
    /\ result \in Results
    /\ attempts \in Nat
    /\ cancel \in {"no", "requested", "unwinding"}
    /\ stopPc \in {"idle", "helpers", "poll", "conn", "client"}
    /\ link \in {"none", "up", "lost"}
    /\ otaLink \in {"none", "up"}
    /\ client \in {"none", "held"}
    /\ poll \in {"none", "running", "ended"}
    /\ helpers \subseteq {"priority", "passkey"}
    /\ otaEvent \in BOOLEAN /\ pendingOta \in BOOLEAN
    /\ regionUnset \in BOOLEAN /\ sess \in BOOLEAN
    /\ auto \in BOOLEAN /\ serialPort \in BOOLEAN
    /\ leaked \in Pcs \cup {"nowhere"}

\* What the consumers are shown is what the task is doing: through every
\* retry, failure and suppressed cancellation, the state is one that belongs
\* to the await the task stands at.  In particular a session that returned
\* has gone OFFLINE, the assertion the loop itself makes (ble_device.py:1023).
StateAgreesWithTask ==
    cancel # "unwinding" =>
    /\ pc \in {"connect", "retryDelay", "checkPin", "discConnect", "syncDrop",
               "syncConnect"}                        => state = "CONNECTING"
    /\ pc = "pause"                                  => state = "OFFLINE"
    /\ pc \in {"pinWait", "recheckPin", "pair", "dropUnpaired"}
                                                     => state = "NEED_PAIR"
    /\ pc = "reconnect"                              => state = "RECONNECTING"
    /\ pc \in {"discDelay", "linkSetup"}             => state = "DISCOVERING"
    /\ pc \in {"sync", "setRegion", "subscribe"}     => state = "SYNCING"
    /\ pc = "regionDrop"                             => state = "REGION_UNSET"
    /\ pc \in ReadyPcs                               => state = "READY"
    /\ pc = "otaPending"                             => state = "OTA_PENDING"
    /\ pc \in {"otaConnect", "otaMtu"}               => state = "OTA_HANDSHAKE"
    /\ pc \in {"otaRun", "otaDrop"}   => state \in {"OTA_HANDSHAKE", "OTA_FLASHING"}
    /\ pc = "otaDrop" /\ result = "ok"               => state = "OTA_FLASHING"
    /\ pc = "otaDrop" /\ result = "nvs_mismatch"     => state = "OTA_HANDSHAKE"
    /\ pc \in {"nvsConnect", "nvsSend", "nvsDrop"}   => state = "OTA_NVS_MISMATCH"
    /\ pc \in {"serialPoll", "serialProbe"}          => state = "OTA_SERIAL_WAIT"
    /\ pc = "serialErase"                            => state = "OTA_SERIAL_ERASING"
    /\ pc = "closeLink" =>
         state = CASE result = "reconnecting"          -> "RECONNECTING"
                   [] result = "firmware_incompatible" -> "FIRMWARE_INCOMPATIBLE"
                   [] OTHER                            -> "OFFLINE"

\* No phase of the life cycle retries more often than it is configured to: the
\* counter of the phase the task is in stays below its limit.
RetriesBounded ==
    /\ pc \in {"connect", "retryDelay"}       => attempts < MaxConnect
    /\ pc \in {"discDelay", "discConnect"}    => attempts < MaxDiscover
    /\ pc \in {"sync", "syncDrop", "syncConnect"} => attempts < MaxSync
    /\ pc = "reconnect"                       => attempts < MaxReconnect

\* No crash, cancellation or early return leaves a device without a task in a
\* state that looks busy: when the task is gone and no stop() is in progress,
\* the device shows OFFLINE or FIRMWARE_INCOMPATIBLE.
DeadTaskRests ==
    pc = "done" /\ stopPc = "idle" => state \in {"OFFLINE", "FIRMWARE_INCOMPATIBLE"}

\* READY is shown without a client only while stop() is tearing the session
\* down; the senders (send_toradio, send_admin) rely on it.
ReadyHasClient ==
    state = "READY" /\ client = "none" => stopPc \in {"conn", "client"}

\* Between a stop() and the next start() nothing of a session survives: no
\* notify loop, no helper task, no client, no link the code still refers to.
NothingSurvivesStop ==
    pc = "done" /\ stopPc = "idle" =>
        poll # "running" /\ helpers = {} /\ client = "none"
        /\ link = "none" /\ otaLink = "none"

\* The helper tasks, which write to the client of their session, never
\* outlive its READY state.
HelpersOnlyInReady == helpers # {} => state = "READY" /\ pc = "ready"

\* The update client is connected only when the link of the session is gone:
\* the radio never has two connections of this gateway at once.
OneLink == otaLink = "up" => link # "up"

\* The only awaits at which a cancelled task walks away from a connected
\* client: between connect() and the session, and around the MTU exchange and
\* the repeated request of an update.
LeaksOnlyWhereUnguarded ==
    leaked \in {"nowhere", "checkPin", "pinWait", "recheckPin", "pair", "otaMtu",
                "nvsSend"}

\* "Ensures a failed or OTA-bootloader session never leaves stale MTU /
\* priority / passkey values visible" (ble_device.py:751): by the time a
\* device connects again nothing is left of the session before, whichever of
\* the three ways back it took.
SessionDataReset ==
    pc \in {"connect", "retryDelay", "checkPin", "pinWait", "recheckPin", "pair",
            "dropUnpaired", "discDelay", "discConnect", "linkSetup"} => sess = FALSE

\* What the runs check of these.  A device without a task is at rest, nothing
\* of a session is left, and the next one starts without its data; READY is served by a client, and by
\* helpers that end with it; no client is connected twice, or lost but there.
NothingLeftBehind == DeadTaskRests /\ NothingSurvivesStop /\ SessionDataReset

\* See NothingLeftBehind: READY has its client, and the helpers only READY
\* (ble_device.py:587-640, 1587-1608).
ReadyIsServed == ReadyHasClient /\ HelpersOnlyInReady

\* See NothingLeftBehind: every client connected is one the device refers to,
\* but at those awaits (ble_device.py:940-970, 1161-1201).
ClientsAccounted == OneLink /\ LeaksOnlyWhereUnguarded

-----------------------------------------------------------------------------
(* The inductive invariant behind the properties above: who holds what at   *)
(* each await, and how far stop() can be.                                   *)

\* _client is the client of the session exactly while a session runs, except
\* when the disconnect of its finally block was cancelled: stop() clears it.
ClientHeldInSession ==
    /\ pc \in LoopPcs => client = "none"
    /\ pc \notin LoopPcs \cup {"done"} => client = "held"
    /\ pc = "done" /\ client = "held" => stopPc \in {"conn", "client"}

\* A link exists only from connect() to the disconnect of the same cycle.
LinkInCycle ==
    /\ pc \in {"done", "connect", "pause", "retryDelay", "dropUnpaired",
               "reconnect", "closeLink"} => link = "none"
    /\ pc \in OtaPcs \ {"otaPending"} => link # "up"
    /\ otaLink = "up" => pc \in {"otaMtu", "otaRun", "nvsSend"}

\* The notify loop lives in READY.
PollInReady == pc \notin ReadyPcs => poll = "none"

\* Only stop() cancels, it waits for the task it cancelled before it
\* disconnects the client, and an unwinding task stands at one of three awaits.
CancelledByStop ==
    /\ cancel # "no" => stopPc = "conn" /\ pc # "done"
    /\ stopPc = "client" => pc = "done"
    /\ cancel = "unwinding" => pc \in {"leaveReady", "otaDrop", "closeLink"}

\* Unless stop() cancelled it, the task ended in a state of rest.
RestsUnlessCancelled ==
    pc = "done" /\ stopPc \notin {"conn", "client"} =>
        state \in {"OFFLINE", "FIRMWARE_INCOMPATIBLE"}

IInv ==
    /\ TypeOK
    /\ StateAgreesWithTask
    /\ ClientHeldInSession
    /\ LinkInCycle
    /\ PollInReady
    /\ HelpersOnlyInReady
    /\ CancelledByStop
    /\ RestsUnlessCancelled

-----------------------------------------------------------------------------
\* The states in which something is under way that the task must finish.
Busy == States \ {"OFFLINE", "READY", "FIRMWARE_INCOMPATIBLE"}

\* Whatever the radio does, a busy state does not last: every retry is
\* bounded and every step of an update has a way out.
BusyEnds == state \in Busy ~> state \notin Busy

\* stop() returns, unless the connection task suppressed its cancellation and
\* runs on.
StopReturns ==
    stopPc # "idle" ~>
        \/ stopPc = "idle"
        \/ stopPc = "conn" /\ cancel = "no" /\ pc # "done"

\* The phase of the abstract life cycle each state stands for.
PhaseOf(s) ==
    CASE s = "OFFLINE"               -> "off"
      [] s = "READY"                 -> "ready"
      [] s = "FIRMWARE_INCOMPATIBLE" -> "blocked"
      [] s \in OtaStates             -> "updating"
      [] OTHER                       -> "linking"

Lifecycle == INSTANCE BleLifecycle WITH phase <- PhaseOf(state)

\* The device implements the life cycle it promises to consumers.
ImplementsLifecycle == Lifecycle!FairSpec

-----------------------------------------------------------------------------
(* What the source says of itself and the code does not do.                *)

\* "Reconnect and retry SYNCING" (ble_device.py:1496): a client connected
\* again after a failed sync gets to sync again; no session ends because
\* _transition refused a move.
SyncRetryResumes == result # "refused"

\* "Poll for serial device (user must connect USB-serial adapter)"
\* (ble_device.py:1275): finding no adapter at one poll keeps the update
\* waiting for one.
SerialPollWaits ==
    [][pc = "serialPoll" /\ ~serialPort => state' \in {"OTA_SERIAL_WAIT"}]_vars

\* "Hard shutdown from any state. Cancels all tasks" (ble_device.py:391): once
\* stop() has cancelled the connection task, that task only unwinds.
CancelIsFinal == stopPc = "conn" /\ pc # "done" => cancel # "no"

\* "Sync state -- reset per connection cycle" (ble_device.py:275): what an
\* earlier cycle found out about the region does not reach the next one.
RegionFlagFresh == pc = "connect" => ~regionUnset
=============================================================================
