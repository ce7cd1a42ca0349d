----------------------------- MODULE DeviceManager -----------------------------
(***************************************************************************)
(* The registry of devices (module/device_manager.py) and the requests     *)
(* that change it: reload (start-up, SIGHUP and POST /reload), POST        *)
(* /devices, POST /devices/{addr}/connect, DELETE /devices/{addr}, DELETE  *)
(* /ble/known/{addr} and the shutdown (module/server.py).                  *)
(*                                                                         *)
(* All run on one event loop.  A request keeps the turn until it suspends, *)
(* which it does only in dev.stop(), for the tasks it cancelled, and in    *)
(* dev.start(), for the TCP gateway.  Nothing else keeps two requests      *)
(* apart.                                                                  *)
(*                                                                         *)
(* A BleDevice object is named by the request that created it and its      *)
(* address.  What start() and stop() do inside one object is DeviceCalls,  *)
(* what is seen of that here is DeviceObject.                              *)
(***************************************************************************)
EXTENDS Naturals, FiniteSets

CONSTANTS
    Requests,   \* the requests made
    Addrs,      \* the BLE addresses
    MayOverlap, \* (bound) the operations that may begin while one is suspended
    None        \* Python's None

Ops == {"reload", "add", "connect", "delete", "forget", "shutdown"}

ASSUME RequestsAssumption ==
    /\ MayOverlap \subseteq Ops
    /\ None \notin Requests

VARIABLES
    config,     \* bridge_config.yaml: "auto" or "manual" (auto_connect), or "absent"
    devices,    \* _devices: the creator of the object registered, or None
    run,        \* what each object does: run[creator][address]
    req,        \* where each request stands
    turn,       \* the request that has the event loop, or None
    overlapped  \* (history) a request has begun while another was suspended

vars == <<config, devices, run, req, turn, overlapped>>

Kinds == {"absent", "manual", "auto"}

NewRequest ==
    [pc |-> "new", op |-> None, addr |-> None, obj |-> None, auto |-> FALSE,
     wanted |-> [a \in Addrs |-> "absent"], removed |-> {}, kept |-> {}, added |-> {}, list |-> {}]

Suspended == {"awaitStop", "awaitStart", "awaitConnect"}
Ended     == {"done", "keyError", "failed", "notFound", "timedOut"}
Running   == {"reconcile", "remove", "stopAll"}

Init ==
    /\ config \in [Addrs -> Kinds]
    /\ devices = [a \in Addrs |-> None]
    /\ run = [r \in Requests |-> [a \in Addrs |-> "none"]]
    /\ req = [r \in Requests |-> NewRequest]
    /\ turn = None
    /\ overlapped = FALSE

Registered    == {a \in Addrs : devices[a] # None}
Configured(f) == {a \in Addrs : f[a] # "absent"}

\* A request is taken up now.
Begins(r, op) ==
    /\ turn = None
    /\ req[r].pc = "new"
    /\ LET others == {q \in Requests : req[q].pc \in Suspended}
       IN  /\ others # {} => op \in MayOverlap /\ \A q \in others : req[q].op \in MayOverlap
           /\ overlapped' = (overlapped \/ others # {})

\* r runs, its last step not having suspended it.
Runs(r, pc) == turn = r /\ req[r].pc = pc

\* What is left of a request that is answered.
Answer(how) == [NewRequest EXCEPT !.pc = how]

Ends(r, how) ==
    /\ req' = [req EXCEPT ![r] = Answer(how)]
    /\ turn' = None

\* r goes on at pc, knowing rec, or ends there.
Continues(r, rec, pc) ==
    IF pc \in Ended
    THEN Ends(r, pc)
    ELSE req' = [req EXCEPT ![r] = [rec EXCEPT !.pc = pc]] /\ turn' = r

-----------------------------------------------------------------------------
(* dev.start() and dev.stop(), called by r as the last thing of a step; rec *)
(* is what r knows by then.                                                 *)

\* start() of <<q, a>>: nothing if it runs.  It may suspend to open the
\* gateway.  Between the two halves of another request's stop() it finds the
\* old task, and does nothing, or starts a new one.
Start(r, rec, q, a, wait, next, runs) ==
    \/ /\ runs[q][a] \in {"live", "stopping"}
       /\ run' = runs
       /\ Continues(r, rec, next)
    \/ /\ runs[q][a] # "live"
       /\ run' = [runs EXCEPT ![q][a] = "live"]
       /\ Continues(r, rec, next)
    \/ /\ runs[q][a] # "live"
       /\ run' = runs
       /\ req' = [req EXCEPT ![r] = [rec EXCEPT !.pc = wait, !.obj = <<q, a>>]]
       /\ turn' = None

\* stop() of <<q, a>> suspends if there is a task to cancel, or if that has
\* ended and left a gateway with clients.
Stop(r, rec, q, a, next) ==
    \/ /\ run[q][a] \in {"live", "stopping", "ended"}
       /\ run' = [run EXCEPT ![q][a] = "stopping"]
       /\ req' = [req EXCEPT ![r] = [rec EXCEPT !.pc = "awaitStop", !.obj = <<q, a>>]]
       /\ turn' = None
    \/ /\ run[q][a] \notin {"live", "stopping"}
       /\ Continues(r, rec, next)
       /\ UNCHANGED run

-----------------------------------------------------------------------------
(* reconcile()                                                             *)

\* (Mutant) Only the devices with auto_connect count as wanted.
DiffAuto(f) ==
    LET auto == {a \in Addrs : f[a] = "auto"}
    IN  [wanted  |-> f,
         removed |-> Registered \ auto,
         kept    |-> Registered \cap auto,
         added   |-> auto \ Registered]

\* The file is read and compared with _devices, once.
Diff(f) ==
    [wanted  |-> f,
     removed |-> Registered \ Configured(f),
     kept    |-> Registered \cap Configured(f),
     added   |-> Configured(f) \ Registered]

Reconcile(r, op, a, auto, f) ==
    LET d == Diff(f)
    IN  /\ req' = [req EXCEPT ![r] = [@ EXCEPT
                !.pc = "reconcile", !.op = op, !.addr = a, !.auto = auto,
                !.wanted = d.wanted, !.removed = d.removed,
                !.kept = d.kept, !.added = d.added]]
        /\ turn' = r
        /\ UNCHANGED <<devices, run>>

\* Start-up, POST /reload or SIGHUP.
BeginReload(r) ==
    /\ Begins(r, "reload")
    /\ Reconcile(r, "reload", None, FALSE, config)
    /\ UNCHANGED config

\* POST /devices: the entry is written unless the address has one already or
\* persist is false; then comes a reload.
BeginAdd(r) ==
    /\ Begins(r, "add")
    /\ \E a \in Addrs, auto \in BOOLEAN, persist \in BOOLEAN :
         /\ config' = IF persist /\ config[a] = "absent"
                      THEN [config EXCEPT ![a] = IF auto THEN "auto" ELSE "manual"]
                      ELSE config
         /\ Reconcile(r, "add", a, auto, config')

\* (Mutant) A device that left the file is forgotten but not stopped.
StopRemovedUnstopped(r) ==
    /\ Runs(r, "reconcile")
    /\ \E a \in req[r].removed :
         /\ devices[a] # None
         /\ devices' = [devices EXCEPT ![a] = None]
         /\ req' = [req EXCEPT ![r].removed = @ \ {a}]
    /\ UNCHANGED <<config, run, turn, overlapped>>

\* A device that left the file is popped and stopped.
StopRemoved(r) ==
    /\ Runs(r, "reconcile")
    /\ \E a \in req[r].removed :
         /\ devices[a] # None
         /\ devices' = [devices EXCEPT ![a] = None]
         /\ Stop(r, [req[r] EXCEPT !.removed = @ \ {a}], devices[a], a, "reconcile")
    /\ UNCHANGED <<config, overlapped>>

\* It is no longer there: pop() raises KeyError.
RemovedMissing(r) ==
    /\ Runs(r, "reconcile")
    /\ \E a \in req[r].removed : devices[a] = None
    /\ Ends(r, "keyError")
    /\ UNCHANGED <<config, devices, run, overlapped>>

\* The devices that stay get their new settings; the link is left alone.
UpdateKept(r) ==
    /\ Runs(r, "reconcile")
    /\ req[r].removed = {} /\ req[r].kept # {}
    /\ req[r].kept \subseteq Registered
    /\ req' = [req EXCEPT ![r].kept = {}]
    /\ UNCHANGED <<config, devices, run, turn, overlapped>>

\* One of them is no longer there: _devices[addr] raises KeyError.
KeptMissing(r) ==
    /\ Runs(r, "reconcile")
    /\ req[r].removed = {}
    /\ ~(req[r].kept \subseteq Registered)
    /\ Ends(r, "keyError")
    /\ UNCHANGED <<config, devices, run, overlapped>>

\* A device of the file is created, registered and, with auto_connect,
\* started.
AddNew(r) ==
    /\ Runs(r, "reconcile")
    /\ req[r].removed = {} /\ req[r].kept = {}
    /\ \E a \in req[r].added :
         LET rec  == [req[r] EXCEPT !.added = @ \ {a}]
             runs == [run EXCEPT ![r][a] = "offline"]
         IN  /\ devices' = [devices EXCEPT ![a] = r]
             /\ IF req[r].wanted[a] = "auto"
                THEN Start(r, rec, r, a, "awaitStart", "reconcile", runs)
                ELSE /\ run' = runs
                     /\ req' = [req EXCEPT ![r] = rec]
                     /\ turn' = r
    /\ UNCHANGED <<config, overlapped>>

\* The reload is over; POST /devices goes on to start its device.
Reconciled(r) ==
    /\ Runs(r, "reconcile")
    /\ req[r].removed = {} /\ req[r].kept = {} /\ req[r].added = {}
    /\ IF req[r].auto /\ devices[req[r].addr] # None
       THEN Start(r, req[r], devices[req[r].addr], req[r].addr, "awaitConnect", "done", run)
       ELSE Ends(r, "done") /\ UNCHANGED run
    /\ UNCHANGED <<config, devices, overlapped>>

-----------------------------------------------------------------------------
(* The other requests.                                                     *)

\* The address is unknown: HTTP 404.
NotFound(r) ==
    /\ \E op \in {"connect", "delete"} : Begins(r, op)
    /\ \E a \in Addrs : devices[a] = None
    /\ Ends(r, "notFound")
    /\ UNCHANGED <<config, devices, run>>

\* POST /devices/{addr}/connect
BeginConnect(r) ==
    /\ Begins(r, "connect")
    /\ \E a \in Registered :
         Start(r, [req[r] EXCEPT !.op = "connect", !.addr = a],
               devices[a], a, "awaitConnect", "done", run)
    /\ UNCHANGED <<config, devices>>

\* DELETE /devices/{addr}: the device is stopped, and removed after that.
BeginDelete(r) ==
    /\ Begins(r, "delete")
    /\ \E a \in Registered :
         Stop(r, [req[r] EXCEPT !.op = "delete", !.addr = a], devices[a], a, "remove")
    /\ UNCHANGED <<config, devices>>

\* DELETE /ble/known/{addr}: the same, if there is a device, and the entry is
\* taken out of the file.
BeginForget(r) ==
    /\ Begins(r, "forget")
    /\ \E a \in Addrs :
         LET rec == [req[r] EXCEPT !.op = "forget", !.addr = a]
         IN  IF devices[a] # None
             THEN Stop(r, rec, devices[a], a, "remove")
             ELSE /\ req' = [req EXCEPT ![r] = [rec EXCEPT !.pc = "remove"]]
                  /\ turn' = r
                  /\ UNCHANGED run
    /\ UNCHANGED <<config, devices>>

\* What is registered under the address by now is removed.
Removed(r) ==
    /\ Runs(r, "remove")
    /\ devices' = [devices EXCEPT ![req[r].addr] = None]
    /\ config' = IF req[r].op = "forget"
                 THEN [config EXCEPT ![req[r].addr] = "absent"] ELSE config
    /\ Ends(r, "done")
    /\ UNCHANGED <<run, overlapped>>

\* The shutdown waits for the HTTP requests, not for a reload asked for by
\* SIGHUP, and stops the devices registered when it begins.
BeginShutdown(r) ==
    /\ Begins(r, "shutdown")
    /\ \A q \in Requests : req[q].pc \in Suspended => req[q].op = "reload"
    /\ req' = [req EXCEPT ![r] = [@ EXCEPT !.pc = "stopAll", !.op = "shutdown",
                                  !.list = {<<devices[a], a>> : a \in Registered}]]
    /\ turn' = r
    /\ UNCHANGED <<config, devices, run>>

\* (Mutant) The shutdown stops the first device and forgets the others.
StopListedFirst(r) ==
    /\ Runs(r, "stopAll")
    /\ \E o \in req[r].list :
         Stop(r, [req[r] EXCEPT !.list = {}], o[1], o[2], "stopAll")
    /\ UNCHANGED <<config, devices, overlapped>>

StopListed(r) ==
    /\ Runs(r, "stopAll")
    /\ \E o \in req[r].list :
         Stop(r, [req[r] EXCEPT !.list = @ \ {o}], o[1], o[2], "stopAll")
    /\ UNCHANGED <<config, devices, overlapped>>

Cleared(r) ==
    /\ Runs(r, "stopAll")
    /\ req[r].list = {}
    /\ devices' = [a \in Addrs |-> None]
    /\ Ends(r, "done")
    /\ UNCHANGED <<config, run, overlapped>>

-----------------------------------------------------------------------------
(* What ends a suspension.                                                 *)

\* 15 seconds are over: wait_for() cancels stop_all().  If dev.stop() waits
\* for a task it swallows that and goes on; if it waits for the gateway, the
\* shutdown ends there, and the devices it has not come to are left as they
\* are.
ShutdownCut(r) ==
    /\ turn = None
    /\ req[r].pc = "awaitStop" /\ req[r].op = "shutdown"
    /\ LET q == req[r].obj[1] a == req[r].obj[2]
       IN  run' = [run EXCEPT ![q][a] = IF @ = "stopping" THEN "ended" ELSE @]
    /\ Ends(r, "timedOut")
    /\ UNCHANGED <<config, devices, overlapped>>

AfterStop(op) ==
    CASE op \in {"reload", "add"}    -> "reconcile"
      [] op \in {"delete", "forget"} -> "remove"
      [] op = "shutdown"             -> "stopAll"

\* stop() returns; a task started meanwhile lives on.
StopEnds(r) ==
    /\ turn = None
    /\ req[r].pc = "awaitStop"
    /\ LET q == req[r].obj[1] a == req[r].obj[2]
       IN  run' = [run EXCEPT ![q][a] = IF @ = "stopping" THEN "offline" ELSE @]
    /\ Continues(r, [req[r] EXCEPT !.obj = None], AfterStop(req[r].op))
    /\ UNCHANGED <<config, devices, overlapped>>

\* The gateway listens: the task is created.
StartEnds(r) ==
    /\ turn = None
    /\ req[r].pc \in {"awaitStart", "awaitConnect"}
    /\ LET q == req[r].obj[1] a == req[r].obj[2]
       IN  run' = [run EXCEPT ![q][a] = "live"]
    /\ Continues(r, [req[r] EXCEPT !.obj = None],
                 IF req[r].pc = "awaitStart" THEN "reconcile" ELSE "done")
    /\ UNCHANGED <<config, devices, overlapped>>

\* The port is taken: OSError ends the request, whatever it had left to do.
StartFails(r) ==
    /\ turn = None
    /\ req[r].pc \in {"awaitStart", "awaitConnect"}
    /\ Ends(r, "failed")
    /\ UNCHANGED <<config, devices, run, overlapped>>

-----------------------------------------------------------------------------
(* The environment.                                                        *)

\* Somebody edits the file.
EditConfig(a) ==
    /\ turn = None
    /\ \E k \in Kinds \ {config[a]} : config' = [config EXCEPT ![a] = k]
    /\ UNCHANGED <<devices, run, req, turn, overlapped>>

\* The connection task of a device ends by itself; a gateway stays open.
TaskEnds(r, a) ==
    /\ turn = None
    /\ run[r][a] = "live"
    /\ \E left \in {"ended", "offline"} : run' = [run EXCEPT ![r][a] = left]
    /\ UNCHANGED <<config, devices, req, turn, overlapped>>

RequestStep(r) ==
    \/ StopRemoved(r) \/ RemovedMissing(r) \/ UpdateKept(r) \/ KeptMissing(r)
    \/ AddNew(r) \/ Reconciled(r) \/ Removed(r) \/ StopListed(r) \/ Cleared(r)
    \/ StopEnds(r) \/ ShutdownCut(r) \/ StartEnds(r) \/ StartFails(r)

Next ==
    \/ \E r \in Requests :
         \/ RequestStep(r)
         \/ BeginReload(r) \/ BeginAdd(r) \/ NotFound(r) \/ BeginConnect(r)
         \/ BeginDelete(r) \/ BeginForget(r) \/ BeginShutdown(r)
         \/ \E a \in Addrs : TaskEnds(r, a)
    \/ \E a \in Addrs : EditConfig(a)

Spec == Init /\ [][Next]_vars

-----------------------------------------------------------------------------
(* Properties.                                                             *)

\* The types; that a request holds the event loop exactly while it runs; and
\* that what is registered, or waited for, has been created
\* (device_manager.py:116-119).
TypeOK ==
    /\ config \in [Addrs -> Kinds]
    /\ devices \in [Addrs -> Requests \cup {None}]
    /\ run \in [Requests -> [Addrs -> {"none", "offline", "live", "ended", "stopping"}]]
    /\ turn \in Requests \cup {None}
    /\ overlapped \in BOOLEAN
    /\ \A r \in Requests :
         /\ req[r].pc \in {"new"} \cup Suspended \cup Running \cup Ended
         /\ req[r].op \in Ops \cup {None}
         /\ turn = r <=> req[r].pc \in Running
         /\ req[r].pc \in Suspended => run[req[r].obj[1]][req[r].obj[2]] # "none"
    /\ \A a \in Addrs : devices[a] # None => run[devices[a]][a] # "none"

\* "owns the BleDevice lifecycle" (device_manager.py:1): no two objects hold
\* connections to one radio at a time.
OneDevicePerRadio ==
    \A a \in Addrs :
        Cardinality({r \in Requests : run[r][a] \in {"live", "stopping"}}) <= 1

\* As long as no request begins while another is suspended there is one, and
\* it is one the API can reach, and so can stop: no reload, DELETE or failed
\* start leaves a connection behind (device_manager.py:102-105, 116-119).
SerialDevicesInReach ==
    ~overlapped =>
        /\ OneDevicePerRadio
        /\ \A r \in Requests, a \in Addrs : run[r][a] = "live" => devices[a] = r

\* "reconcile() is the single place where the device list changes"
\* (device_manager.py:5-6): what a reload found in _devices is there when it
\* comes to it, and none is cut short by a KeyError, as long as no request
\* begins while another is suspended.
SerialReloadsFind == ~overlapped => \A r \in Requests : req[r].pc # "keyError"

\* Types, and the two invariants of requests that do not overlap.
ManagerInv == TypeOK /\ SerialDevicesInReach /\ SerialReloadsFind

\* A reload that returns leaves the devices of the file it read, whatever
\* failed reloads, deletions and edits came before it
\* (device_manager.py:91, "create, update, or stop").
ReloadFollowsFile ==
    [][\A r \in Requests :
         /\ ~overlapped
         /\ req[r].pc = "reconcile" /\ req'[r].pc \in {"done", "awaitConnect"}
         => Registered' = Configured(req[r].wanted)]_vars

\* "BLE connections are preserved across a reload" (README.md:242): whatever
\* runs at the same time, a connection is stopped only by a request to remove
\* that device, by the shutdown, or by a reload of a file that lacks it.
ReloadPreserves ==
    [][\A r \in Requests, a \in Addrs :
         run[r][a] = "live" /\ run'[r][a] = "stopping"
         => \E q \in Requests :
              /\ req'[q] # req[q]
              /\ \/ req'[q].op \in {"delete", "forget"} /\ req'[q].addr = a
                 \/ req'[q].op = "shutdown"
                 \/ req'[q].op \in {"reload", "add"} /\ req'[q].wanted[a] = "absent"]_vars

\* A reload brings the devices of the file, all of them, and drops no
\* connection of one that stays (device_manager.py:91, README.md:242).
ReloadsAreExact == ReloadFollowsFile /\ ReloadPreserves

\* The shutdown leaves no device connected (device_manager.py:121-124), but
\* for those it had not come to when its 15 seconds were over
\* (server.py:82-85): the one it was then stopping, and every one before it,
\* is at rest.  This is so unless a reload asked for by SIGHUP overlaps it.
ShutdownStopsAll ==
    [][\A r \in Requests :
         /\ ~overlapped
         /\ req[r].op = "shutdown" /\ req[r].pc \in {"stopAll", "awaitStop"}
         /\ req'[r].pc \in {"done", "timedOut"}
         => \A q \in Requests, a \in Addrs :
              run'[q][a] \in {"live", "stopping"}
              => req'[r].pc = "timedOut" /\ <<q, a>> \in req[r].list]_vars
=============================================================================
