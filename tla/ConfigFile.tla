------------------------------ MODULE ConfigFile ------------------------------
(***************************************************************************)
(* bridge_config.yaml (core/bridge_config.py, core/config.py) and the      *)
(* requests that load, change and save it (module/server.py): POST         *)
(* /devices, PATCH /ble_devices/{address}, DELETE /ble/known/{address},    *)
(* PUT /bridge_config and PUT /mqtt_publish; with DELETE /devices/{addr},  *)
(* POST /reload, the start of the server and its crashes.                  *)
(*                                                                         *)
(* A request loads, changes and saves without an await.  save() empties    *)
(* the file and then writes it: a crash or a full disk leaves the first    *)
(* part.  The registry is a set here: what a reload does to the devices,   *)
(* and where it suspends, is DeviceManager.  The settings are one value,   *)
(* 0 its default.  An entry cut within its address names no radio, and is  *)
(* left out.                                                               *)
(***************************************************************************)
EXTENDS Naturals

CONSTANTS
    Addrs,      \* the BLE addresses
    Values,     \* the values of the settings, 0 among them
    Unknown     \* in the histories: nothing is promised

ASSUME ConfigAssumption ==
    /\ Values \subseteq Nat /\ 0 \in Values
    /\ Unknown \notin Values /\ Unknown \notin {"auto", "manual", "absent"}

VARIABLES
    file,       \* what is in the file
    up,         \* the server runs
    registry,   \* the addresses in _devices
    promised,   \* (history) what was answered of each entry, and not changed since
    setting     \* (history) the same of the settings

fileVars == <<file, up, registry, promised, setting>>

Present == {"auto", "manual"}
Entries == [Addrs -> Present \cup {"absent"}]

\* `readable`: it is YAML.  `odd`: its last entry is cut to something that is
\* no mapping.
Configs == [readable : BOOLEAN, odd : BOOLEAN, devices : Entries, setting : Values]

Defaults == [readable |-> TRUE, odd |-> FALSE, devices |-> [a \in Addrs |-> "absent"], setting |-> 0]

\* bridge_config.load(): what cannot be read counts as empty.
Loaded == IF file.readable THEN file ELSE Defaults

\* config.load(): what cannot be read, or has an entry without get(), raises.
Loadable(f) == f.readable /\ ~f.odd
Configured(f) == {a \in Addrs : f.devices[a] # "absent"}

\* What may be left of f: nothing, its first entries, the last of them without
\* its auto_connect, all entries without the settings, a text that is no YAML.
CutOf(f) ==
    {[Defaults EXCEPT !.readable = FALSE]} \cup
    {c \in Configs :
        /\ c.readable
        /\ c.setting = 0 \/ [f EXCEPT !.setting = 0] = [c EXCEPT !.setting = 0]
        /\ c.setting \in {0, f.setting}
        /\ \A a \in Addrs :
             \/ c.devices[a] \in {"absent", f.devices[a]}
             \/ c.devices[a] = "auto" /\ f.devices[a] = "manual"}

FileInit ==
    /\ file = Defaults
    /\ up = FALSE
    /\ registry = {}
    /\ promised = [a \in Addrs |-> "absent"]
    /\ setting = 0

-----------------------------------------------------------------------------
(* save()                                                                  *)

\* A cut save leaves no promise but that what was absent, and not being
\* added, is absent.
LosesPromises(touched) ==
    /\ promised' = [a \in Addrs |->
          IF promised[a] = "absent" /\ a \notin touched THEN "absent" ELSE Unknown]
    /\ setting' = Unknown

\* The file is written, or cut off: by an error, which is answered with 500,
\* or by the end of the server.
CutShort(new, touched) ==
    /\ file' \in CutOf(new)
    /\ LosesPromises(touched)
    /\ up' \in BOOLEAN
    /\ registry' = IF up' THEN registry ELSE {}

\* (Mutant of Reloaded) What cannot be read counts as empty here too.
ReloadedAnyway(f) == IF Loadable(f) THEN Configured(f) ELSE {}

\* The registry after reload_config(), the file being f; what cannot be read
\* is answered with 500.
Reloaded(f) == IF Loadable(f) THEN Configured(f) ELSE registry

-----------------------------------------------------------------------------
(* The requests.                                                           *)

WithEntry(f, a, entry) == [f EXCEPT !.devices[a] = entry]

\* POST /devices.  An address already listed keeps its entry.  Without persist,
\* or with an entry that has no get(), nothing is saved; then all is reloaded.
AddDevice(a, entry, persist) ==
    /\ up
    /\ \/ /\ persist /\ ~Loaded.odd /\ Loaded.devices[a] = "absent"
          /\ LET new == WithEntry(Loaded, a, entry)
             IN  \/ /\ file' = new
                    /\ promised' = [promised EXCEPT ![a] = entry]
                    /\ registry' = Reloaded(new)
                    /\ UNCHANGED <<up, setting>>
                 \/ CutShort(new, {a})
       \/ /\ ~persist \/ (~Loaded.odd /\ Loaded.devices[a] # "absent")
          /\ registry' = Reloaded(file)
          /\ UNCHANGED <<file, up, promised, setting>>

\* PATCH /ble_devices/{address}: auto_connect of the entry, which is created if
\* absent; the search ends before an odd entry if it finds the address.
PatchDevice(a, entry) ==
    /\ up
    /\ Loaded.odd => Loaded.devices[a] # "absent"
    /\ LET new == WithEntry(Loaded, a, entry)
       IN  \/ /\ file' = new
              /\ promised' = [promised EXCEPT ![a] = entry]
              /\ UNCHANGED <<up, registry, setting>>
           \/ CutShort(new, {a})

\* DELETE /ble/known/{address}: from the registry, then from the file, which
\* fails at an odd entry.
ForgetDevice(a) ==
    /\ up
    /\ IF Loaded.odd
       THEN registry' = registry \ {a} /\ UNCHANGED <<file, up, promised, setting>>
       ELSE LET new == WithEntry(Loaded, a, "absent")
            IN  \/ /\ file' = new
                   /\ promised' = [promised EXCEPT ![a] = "absent"]
                   /\ registry' = registry \ {a}
                   /\ UNCHANGED <<up, setting>>
                \/ /\ file' \in CutOf(new)
                   /\ LosesPromises({a})
                   /\ up' \in BOOLEAN
                   /\ registry' = IF up' THEN registry \ {a} ELSE {}

\* DELETE /devices/{addr}: from the registry only.
RemoveDevice(a) ==
    /\ up /\ a \in registry
    /\ registry' = registry \ {a}
    /\ UNCHANGED <<file, up, promised, setting>>

\* (Mutant of WithSetting) A ble_devices in the body replaces the list.
WithSettingAndList(f, v) == [Defaults EXCEPT !.setting = v]

WithSetting(f, v) == [f EXCEPT !.setting = v]

\* PUT /bridge_config and PUT /mqtt_publish: the body is merged into what was
\* loaded; the list of devices, odd or not, is written back.
PutSettings(v) ==
    /\ up
    /\ LET new == WithSetting(Loaded, v)
       IN  \/ /\ file' = new
              /\ setting' = v
              /\ UNCHANGED <<up, registry, promised>>
           \/ CutShort(new, {})

\* POST /reload and SIGHUP.
Reload ==
    /\ up
    /\ registry' = Reloaded(file)
    /\ UNCHANGED <<file, up, promised, setting>>

\* The server starts, if config.load() does not raise.
Start ==
    /\ ~up /\ Loadable(file)
    /\ up' = TRUE
    /\ registry' = Configured(file)
    /\ UNCHANGED <<file, promised, setting>>

\* It stops, between two requests.
Crash ==
    /\ up
    /\ up' = FALSE
    /\ registry' = {}
    /\ UNCHANGED <<file, promised, setting>>

\* Somebody removes a file that the server does not start with.
Repair ==
    /\ ~up /\ ~Loadable(file)
    /\ file' = Defaults
    /\ LosesPromises({})
    /\ UNCHANGED <<up, registry>>

-----------------------------------------------------------------------------
FileNext ==
    \/ \E a \in Addrs, e \in Present, persist \in BOOLEAN : AddDevice(a, e, persist)
    \/ \E a \in Addrs, e \in Present : PatchDevice(a, e)
    \/ \E a \in Addrs : ForgetDevice(a) \/ RemoveDevice(a)
    \/ \E v \in Values : PutSettings(v)
    \/ Reload \/ Start \/ Crash \/ Repair

FileSpec == FileInit /\ [][FileNext]_fileVars

-----------------------------------------------------------------------------
\* Every variable has its type; no device is registered with the server down.
FileTypeOK ==
    /\ file \in Configs /\ (~file.readable => file = [Defaults EXCEPT !.readable = FALSE])
    /\ up \in BOOLEAN
    /\ registry \subseteq Addrs /\ (~up => registry = {})
    /\ promised \in [Addrs -> Present \cup {"absent", Unknown}]
    /\ setting \in Values \cup {Unknown}

\* What a request answered to have saved is in the file, through every other
\* request, crash and restart, until a save is cut short: an entry with its
\* auto_connect, the absence of one that was removed, the settings.
PromisesKept ==
    /\ \A a \in Addrs : promised[a] # Unknown => file.devices[a] = promised[a]
    /\ setting # Unknown => file.setting = setting

\* Types, and what the file holds of what was answered.
ConfigInv == FileTypeOK /\ PromisesKept

\* A running server drops a device only when asked to, or when a reload reads a
\* file that a cut save left without its entry: never one whose entry was
\* promised, and never because the file cannot be read.
DevicesKept ==
    [][\A a \in registry \ registry' :
         \/ ~up'
         \/ ForgetDevice(a) \/ RemoveDevice(a)
         \/ promised[a] \in {"absent", Unknown} /\ Loadable(file')]_fileVars
=============================================================================
