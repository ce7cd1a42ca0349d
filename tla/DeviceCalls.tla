------------------------------ MODULE DeviceCalls ------------------------------
(***************************************************************************)
(* start() and stop() of one BleDevice (core/ble_device.py:372-449) called *)
(* by several requests: POST /devices and /connect, DELETE, a reload and   *)
(* the shutdown all end in one of the two, and nothing serialises them.    *)
(* Both suspend: start() while the TCP gateway binds its port, stop() for  *)
(* the tasks it cancelled and for the gateway to close.                    *)
(*                                                                         *)
(* A call names the connection task and the gateway it creates.  The task  *)
(* is BleDevice's reduced to the states it shows on the usual path; what   *)
(* matters here is that all tasks of a device share _state.                *)
(***************************************************************************)
EXTENDS Naturals, FiniteSets, BleStates

CONSTANTS
    Calls,      \* the calls made, each one start() or stop()
    None        \* Python's None

ASSUME CallsAssumption ==
    /\ IsFiniteSet(Calls)
    /\ None \notin Calls

VARIABLES
    tcpPort,    \* _cfg.tcp_port is set
    call,       \* where each call stands
    awaited,    \* the task a stop() awaits, then the gateway
    connTask,   \* _conn_task: the call that created it, or None
    gateway,    \* _tcp_gateway: the call that created it, or None
    server,     \* the listening socket of each gateway
    task,       \* the connection task each call created
    pos,        \* the state in which each task last left the device
    state,      \* _state, shared by all tasks
    overlapped  \* (history) a start() has overlapped another call

vars == <<tcpPort, call, awaited, connTask, gateway, server, task, pos, state, overlapped>>

Suspended ==
    {"opening", "awaitHelpers", "awaitConn", "awaitGateway"}

\* The task is not done().
Alive(t) == task[t] \in {"running", "cancelled"}

\* _conn_task is set and not done().
ConnAlive == \E t \in Calls : t = connTask /\ Alive(t)

\* The listening socket is open, or closed with clients still connected.
Open == {"listening", "closing", "held"}

\* The gateway's stop() has something to wait for.
SocketOpen == \E g \in Calls : g = gateway /\ server[g] \in Open

Init ==
    /\ tcpPort \in BOOLEAN
    /\ call = [c \in Calls |-> "new"]
    /\ awaited = [c \in Calls |-> None]
    /\ connTask = None
    /\ gateway = None
    /\ server = [c \in Calls |-> "none"]
    /\ task = [c \in Calls |-> "none"]
    /\ pos = [c \in Calls |-> "OFFLINE"]
    /\ state = "OFFLINE"
    /\ overlapped = FALSE

\* A request makes the call now.  A start() overlaps any call under way, a
\* stop() another start().
Begins(c, rivals) ==
    /\ call[c] = "new"
    /\ overlapped' = (overlapped \/ \E d \in Calls : call[d] \in rivals)

MoveCall(c, to) == call' = [call EXCEPT ![c] = to]

-----------------------------------------------------------------------------
(* start()                                                                 *)

\* _conn_task is alive: there is nothing to do.
StartAgain(c) ==
    /\ Begins(c, Suspended)
    /\ ConnAlive
    /\ MoveCall(c, "returned")
    /\ UNCHANGED <<tcpPort, awaited, connTask, gateway, server, task, pos, state>>

CreateTask(c) ==
    /\ connTask' = c
    /\ task' = [task EXCEPT ![c] = "running"]
    /\ MoveCall(c, "returned")

\* (Mutant) The task is created before the gateway is opened, and again after.
StartDirectlyAlways(c) ==
    /\ Begins(c, Suspended)
    /\ CreateTask(c)
    /\ UNCHANGED <<tcpPort, awaited, gateway, server, pos, state>>

\* No gateway is wanted, or there is one already.
StartDirectly(c) ==
    /\ Begins(c, Suspended)
    /\ ~ConnAlive
    /\ tcpPort => gateway # None
    /\ CreateTask(c)
    /\ UNCHANGED <<tcpPort, awaited, gateway, server, pos, state>>

\* A gateway is created and asked to listen.
StartGateway(c) ==
    /\ Begins(c, Suspended)
    /\ ~ConnAlive
    /\ tcpPort /\ gateway = None
    /\ gateway' = c
    /\ MoveCall(c, "opening")
    /\ UNCHANGED <<tcpPort, awaited, connTask, server, task, pos, state>>

\* It listens: start() goes on to create the task, without another look at
\* _conn_task.
GatewayOpens(c) ==
    /\ call[c] = "opening"
    /\ \A d \in Calls : server[d] # "listening"
    /\ server' = [server EXCEPT ![c] = "listening"]
    /\ CreateTask(c)
    /\ UNCHANGED <<tcpPort, awaited, gateway, pos, state, overlapped>>

\* The port is taken: OSError leaves start(), _tcp_gateway stays set.
GatewayFails(c) ==
    /\ call[c] = "opening"
    /\ MoveCall(c, "raised")
    /\ UNCHANGED <<tcpPort, awaited, connTask, gateway, server, task, pos, state, overlapped>>

-----------------------------------------------------------------------------
(* stop()                                                                  *)

\* The last part: the gateway is closed and OFFLINE forced.  Its stop()
\* suspends only if there is a socket to close; a client that stays connected
\* or does not read what it is sent holds it.
CloseGateway(c) ==
    \/ /\ SocketOpen
       /\ \E to \in {"closing", "held"} :
            server' = [server EXCEPT ![gateway] = IF @ = "listening" THEN to ELSE @]
       /\ awaited' = [awaited EXCEPT ![c] = gateway]
       /\ MoveCall(c, "awaitGateway")
       /\ UNCHANGED <<gateway, state>>
    \/ /\ ~SocketOpen
       /\ gateway' = None
       /\ state' = "OFFLINE"
       /\ MoveCall(c, "returned")
       /\ UNCHANGED <<awaited, server>>

\* The connection task, when it is alive, is cancelled and awaited.
CancelConn(c) ==
    \/ /\ ConnAlive
       /\ task' = [task EXCEPT ![connTask] = "cancelled"]
       /\ awaited' = [awaited EXCEPT ![c] = connTask]
       /\ MoveCall(c, "awaitConn")
       /\ UNCHANGED <<connTask, gateway, server, state>>
    \/ /\ ~ConnAlive
       /\ CloseGateway(c)
       /\ UNCHANGED <<task, connTask>>

\* The notify loop and the helpers of a READY session come first.
StopCalled(c) ==
    /\ Begins(c, {"opening"})
    /\ \/ /\ \E t \in Calls : Alive(t) /\ pos[t] = "READY"
          /\ MoveCall(c, "awaitHelpers")
          /\ UNCHANGED <<awaited, connTask, gateway, server, task, state>>
       \/ /\ \A t \in Calls : ~(Alive(t) /\ pos[t] = "READY")
          /\ CancelConn(c)
    /\ UNCHANGED <<tcpPort, pos>>

HelpersEnded(c) ==
    /\ call[c] = "awaitHelpers"
    /\ CancelConn(c)
    /\ UNCHANGED <<tcpPort, pos, overlapped>>

\* (Mutant) stop() does not wait for the task it cancelled.
ConnEndedUnawaited(c) ==
    /\ call[c] = "awaitConn"
    /\ connTask' = None
    /\ CloseGateway(c)
    /\ UNCHANGED <<tcpPort, task, pos, overlapped>>

\* (Mutant) stop() waits for whatever task there is by now.
ConnEndedOfAnother(c) ==
    /\ call[c] = "awaitConn"
    /\ ~ConnAlive
    /\ connTask' = None
    /\ CloseGateway(c)
    /\ UNCHANGED <<tcpPort, task, pos, overlapped>>

\* _conn_task is set to None, whatever it is by now.
ConnEnded(c) ==
    /\ call[c] = "awaitConn"
    /\ ~Alive(awaited[c])
    /\ connTask' = None
    /\ CloseGateway(c)
    /\ UNCHANGED <<tcpPort, task, pos, overlapped>>

\* _tcp_gateway is set to None, whatever it is by now, and OFFLINE forced.
GatewayClosed(c) ==
    /\ call[c] = "awaitGateway" /\ server[awaited[c]] # "held"
    /\ server' = [server EXCEPT ![awaited[c]] = "closed"]
    /\ gateway' = None
    /\ state' = "OFFLINE"
    /\ MoveCall(c, "returned")
    /\ UNCHANGED <<tcpPort, awaited, connTask, task, pos, overlapped>>

\* The last client leaves.
ClientGoes(g) ==
    /\ server[g] = "held"
    /\ server' = [server EXCEPT ![g] = "closing"]
    /\ UNCHANGED <<tcpPort, call, awaited, connTask, gateway, task, pos, state, overlapped>>

-----------------------------------------------------------------------------
(* The connection tasks.                                                   *)

\* The transitions a task asks for next, from the state it last showed, on
\* the way up, down and round again.  SCANNING stands for itself and the
\* CONNECTING that follows it without an await.
Asks(p) ==
    CASE p = "OFFLINE"      -> {"SCANNING"}
      [] p = "CONNECTING"   -> {"DISCOVERING", "SCANNING", "OFFLINE"}
      [] p = "DISCOVERING"  -> {"SYNCING", "OFFLINE"}
      [] p = "SYNCING"      -> {"READY", "OFFLINE"}
      [] p = "READY"        -> {"RECONNECTING"}
      [] p = "RECONNECTING" -> {"DISCOVERING", "OFFLINE"}

\* A session catches a refused transition itself and the loop goes on.
InSession == {"DISCOVERING", "SYNCING", "READY"}

Shown(t, s) ==
    /\ state' = s
    /\ pos' = [pos EXCEPT ![t] = s]

\* A task makes its next transition.
TaskMoves(t) ==
    /\ task[t] = "running"
    /\ \E s \in Asks(pos[t]) :
         /\ s \in Legal[state]
         /\ Shown(t, IF s = "SCANNING" THEN "CONNECTING" ELSE s)
    /\ UNCHANGED <<tcpPort, call, awaited, connTask, gateway, server, task, overlapped>>

\* Another call has moved _state away from what the task expects: the
\* transition is refused and the crash handler makes the device OFFLINE.
TaskRefused(t) ==
    /\ task[t] = "running"
    /\ \E s \in Asks(pos[t]) : s \notin Legal[state]
    /\ Shown(t, Recovered(state))
    /\ task' = [task EXCEPT ![t] = IF pos[t] \in InSession THEN @ ELSE "ended"]
    /\ UNCHANGED <<tcpPort, call, awaited, connTask, gateway, server, overlapped>>

\* A task ends by itself: auto_connect is off, or it crashed.
TaskEnds(t) ==
    /\ task[t] = "running"
    /\ task' = [task EXCEPT ![t] = "ended"]
    /\ Shown(t, Recovered(state))
    /\ UNCHANGED <<tcpPort, call, awaited, connTask, gateway, server, overlapped>>

\* A cancelled task unwinds and ends, without a transition.
TaskCancelled(t) ==
    /\ task[t] = "cancelled"
    /\ task' = [task EXCEPT ![t] = "ended"]
    /\ UNCHANGED <<tcpPort, call, awaited, connTask, gateway, server, pos, state, overlapped>>

\* The cancellation arrives while the task waits for a helper it has itself
\* cancelled, at the end of a session: it is taken for the helper's and the
\* task runs on.
TaskSwallows(t) ==
    /\ task[t] = "cancelled" /\ pos[t] \in {"READY", "OFFLINE"}
    /\ task' = [task EXCEPT ![t] = "running"]
    /\ UNCHANGED <<tcpPort, call, awaited, connTask, gateway, server, pos, state, overlapped>>

-----------------------------------------------------------------------------
CallStep(c) ==
    \/ StartAgain(c) \/ StartDirectly(c) \/ StartGateway(c)
    \/ GatewayOpens(c) \/ GatewayFails(c)
    \/ StopCalled(c) \/ HelpersEnded(c) \/ ConnEnded(c) \/ GatewayClosed(c)

TaskStep(t) ==
    TaskMoves(t) \/ TaskRefused(t) \/ TaskEnds(t) \/ TaskCancelled(t) \/ TaskSwallows(t)

Next == \E c \in Calls : CallStep(c) \/ TaskStep(c) \/ ClientGoes(c)

Spec == Init /\ [][Next]_vars

\* The event loop runs every call and every cancelled task on, to its end or
\* past the cancellation.  No client need leave.
Fairness ==
    \A c \in Calls :
        /\ WF_vars(CallStep(c) /\ call[c] \in Suspended)
        /\ WF_vars(TaskCancelled(c) \/ TaskSwallows(c))

FairSpec == Spec /\ Fairness

-----------------------------------------------------------------------------
(* Properties.                                                             *)

\* The types, and that a stop() that waits for a task or for a gateway has one
\* to wait for (ble_device.py:410-419).
TypeOK ==
    /\ tcpPort \in BOOLEAN
    /\ call \in [Calls -> Suspended \cup {"new", "returned", "raised"}]
    /\ awaited \in [Calls -> Calls \cup {None}]
    /\ connTask \in Calls \cup {None}
    /\ gateway \in Calls \cup {None}
    /\ server \in [Calls -> Open \cup {"none", "closed"}]
    /\ task \in [Calls -> {"none", "running", "cancelled", "ended"}]
    /\ pos \in [Calls -> States]
    /\ state \in States
    /\ overlapped \in BOOLEAN
    /\ \A c \in Calls : call[c] \in {"awaitConn", "awaitGateway"} => awaited[c] # None

\* "Idempotent -- safe to call twice" (ble_device.py:373): a device never has
\* two connection tasks.
OneTask == Cardinality({t \in Calls : Alive(t)}) <= 1

\* It is true as long as no start() overlaps another call, however many stop()
\* do: one task, and it shows what it does, no forced OFFLINE slipping under it
\* (ble_device.py:374, 425).
SerialCallsOneTask ==
    ~overlapped => OneTask /\ \A t \in Calls : Alive(t) => state = pos[t]

\* What is alive is within reach of stop(), again as long as no start()
\* overlaps another call: every task is the one stop() cancels or awaits, and
\* the socket a device listens on is the one stop() closes
\* (ble_device.py:410-419).
SerialCallsInReach ==
    ~overlapped =>
        /\ \A t \in Calls :
             Alive(t) => \/ connTask = t
                         \/ \E c \in Calls : call[c] = "awaitConn" /\ awaited[c] = t
        /\ \A g \in Calls : server[g] = "listening" => gateway = g

\* Types, and the two invariants of a start() that overlaps no other call.
CallsInv == TypeOK /\ SerialCallsOneTask /\ SerialCallsInReach

\* "Hard shutdown from any state" (ble_device.py:391): a stop() that awaited
\* anything, and that no start() overlapped, leaves no task, no socket and
\* OFFLINE when it returns, however many others stop the device meanwhile.
StopIsComplete ==
    [][\A c \in Calls :
         /\ ~overlapped
         /\ call[c] \in {"awaitHelpers", "awaitConn", "awaitGateway"}
         /\ call'[c] = "returned"
         => /\ \A t \in Calls : task'[t] \in {"none", "ended"}
            /\ \A g \in Calls : server'[g] \in {"none", "closed"}
            /\ state' = "OFFLINE"]_vars

\* What the registry sees of the object.
StopUnderWay == \E c \in Calls : call[c] \in {"awaitHelpers", "awaitConn", "awaitGateway"}

Seen ==
    CASE StopUnderWay                               -> "stopping"
      [] ~StopUnderWay /\ ConnAlive                 -> "live"
      [] ~StopUnderWay /\ ~ConnAlive /\ SocketOpen  -> "ended"
      [] ~StopUnderWay /\ ~ConnAlive /\ ~SocketOpen -> "offline"

Object == INSTANCE DeviceObject WITH run <- Seen

\* As long as no start() overlaps another call, the device is the object the
\* registry reckons with: a stop() that has anything to wait for is seen to
\* begin and to end, nothing else is seen meanwhile, and it ends with the
\* device at rest (ble_device.py:391-419, device_manager.py:102-124).
ServesRegistry == Object!Init /\ [][~overlapped' => Object!Next]_Seen

\* Both promises of stop().
StopKeepsWord == StopIsComplete /\ ServesRegistry

\* However many calls overlap, one comes to an end unless the task that it
\* awaits has swallowed the cancellation, or a client holds the gateway that
\* it awaits: no stop() waits for a task or a socket that another call has
\* taken away or put there since (ble_device.py:413, 418).
CallsEnd ==
    \A c \in Calls :
        call[c] \in Suspended ~>
            \/ call[c] \notin Suspended
            \/ call[c] = "awaitConn" /\ task[awaited[c]] = "running"
            \/ call[c] = "awaitGateway" /\ server[awaited[c]] = "held"
=============================================================================
