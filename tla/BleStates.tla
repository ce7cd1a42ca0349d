------------------------------ MODULE BleStates ------------------------------
(***************************************************************************)
(* The finite-state machine of one BLE device (core/ble_device.py): its    *)
(* states, the table _LEGAL of legal transitions, and what the two crash   *)
(* handlers make of the state they find.  Pure data: the modules of the    *)
(* connection task, of the public calls and of the abstract life cycle     *)
(* share it.                                                               *)
(***************************************************************************)

\* The state constants of the source, each the string the code emits.
States ==
    {"OFFLINE", "SCANNING", "CONNECTING", "NEED_PAIR", "DISCOVERING",
     "SYNCING", "READY", "RECONNECTING", "FIRMWARE_INCOMPATIBLE",
     "OTA_PENDING", "OTA_HANDSHAKE", "OTA_FLASHING", "OTA_COMPLETE",
     "OTA_BOOTLOADER_STUCK", "OTA_NVS_MISMATCH", "OTA_SERIAL_WAIT",
     "OTA_SERIAL_ERASING", "OTA_ERROR", "REGION_UNSET"}

\* _LEGAL: where _transition may go from each state.
Legal ==
    [ OFFLINE               |-> {"SCANNING"},
      SCANNING              |-> {"CONNECTING", "OFFLINE"},
      CONNECTING            |-> {"DISCOVERING", "NEED_PAIR", "SCANNING", "OFFLINE"},
      NEED_PAIR             |-> {"OFFLINE", "DISCOVERING", "CONNECTING"},
      DISCOVERING           |-> {"SYNCING", "OTA_BOOTLOADER_STUCK",
                                 "FIRMWARE_INCOMPATIBLE", "CONNECTING", "OFFLINE"},
      SYNCING               |-> {"READY", "REGION_UNSET", "CONNECTING", "OFFLINE"},
      READY                 |-> {"RECONNECTING", "OTA_PENDING", "OFFLINE"},
      RECONNECTING          |-> {"DISCOVERING", "OFFLINE"},
      FIRMWARE_INCOMPATIBLE |-> {"OFFLINE"},
      OTA_PENDING           |-> {"OTA_HANDSHAKE", "OTA_ERROR"},
      OTA_HANDSHAKE         |-> {"OTA_FLASHING", "OTA_NVS_MISMATCH", "OTA_ERROR"},
      OTA_FLASHING          |-> {"OTA_COMPLETE", "OTA_ERROR"},
      OTA_COMPLETE          |-> {"OFFLINE"},
      OTA_BOOTLOADER_STUCK  |-> {"OFFLINE"},
      OTA_NVS_MISMATCH      |-> {"OTA_SERIAL_WAIT", "OFFLINE"},
      OTA_SERIAL_WAIT       |-> {"OTA_SERIAL_ERASING", "OTA_ERROR"},
      OTA_SERIAL_ERASING    |-> {"OFFLINE", "OTA_ERROR"},
      OTA_ERROR             |-> {"OFFLINE"},
      REGION_UNSET          |-> {"OFFLINE"} ]

\* _NEEDS_OTA_ERROR_TO_OFFLINE: the crash handlers go through OTA_ERROR.
NeedsOtaErrorToOffline ==
    {"OTA_PENDING", "OTA_HANDSHAKE", "OTA_FLASHING", "OTA_SERIAL_WAIT"}

\* The state in which the handler of an unexpected exception leaves a device
\* it finds in s.  A transition of the handler that the table refuses raises
\* again and leaves the state where it was.
Recovered(s) ==
    LET Try(from, to) == IF to \in Legal[from] THEN to ELSE from
    IN  IF s \in NeedsOtaErrorToOffline
        THEN Try(Try(s, "OTA_ERROR"), "OFFLINE")
        ELSE Try(s, "OFFLINE")

\* The states of a firmware update.
OtaStates ==
    {"OTA_PENDING", "OTA_HANDSHAKE", "OTA_FLASHING", "OTA_COMPLETE",
     "OTA_NVS_MISMATCH", "OTA_SERIAL_WAIT", "OTA_SERIAL_ERASING", "OTA_ERROR"}
=============================================================================
