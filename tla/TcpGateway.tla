------------------------------ MODULE TcpGateway ------------------------------
(***************************************************************************)
(* The TCP gateway of one device (core/tcp_gateway.py): the server, one    *)
(* handler task for each client, the packets that go to all of them, and   *)
(* stop(), which closes the server and then the clients it finds listed.   *)
(*                                                                         *)
(* A client may stay silent, send anything, read slowly and leave at any   *)
(* point.  Closing a connection takes effect when what it still has to     *)
(* send is gone (asyncio, external).  Whether wait_closed() of a server    *)
(* waits for the connections depends on the version of Python: `waits`.    *)
(* DeviceCalls has start() and stop() of the device around this.           *)
(***************************************************************************)
EXTENDS Naturals, Sequences

CONSTANTS
    Clients,    \* (bound) connections of a behaviour
    MaxInbox,   \* (bound) messages of a client not yet read
    MaxUnsent   \* (bound) packets that a client has not taken

ASSUME GatewayAssumption == MaxInbox \in Nat /\ MaxUnsent \in Nat

VARIABLES
    waits,      \* wait_closed() of the server waits for its connections
    stop,       \* where stop() is
    closing,    \* the clients stop() has yet to close
    current,    \* the one it waits for, if any, as a set
    clients,    \* _clients
    handler,    \* the handler task of each client
    inbox,      \* what a client has sent and its handler not read
    unsent,     \* what the gateway has written and a client not taken
    shut,       \* writer.close() was called
    lost,       \* the connection is gone: wait_closed() returns
    peer,       \* the client keeps its end open
    late        \* (history) a handler that started behind stop()'s back

tasks == <<stop, closing, current, clients, handler, late>>
wire == <<inbox, unsent, lost, peer>>
gatewayVars == <<waits, tasks, wire, shut>>

\* What a client sends: bytes to wake the gateway, a frame, anything else.
Messages == {"wakeup", "frame", "other"}

Runs(c) == handler[c] \in {"reading", "forwarding"}

GatewayInit ==
    /\ waits \in BOOLEAN
    /\ stop = "idle" /\ closing = {} /\ current = {} /\ clients = {} /\ late = {}
    /\ handler = [c \in Clients |-> "none"]
    /\ inbox = [c \in Clients |-> <<>>]
    /\ unsent = [c \in Clients |-> 0]
    /\ shut = [c \in Clients |-> FALSE]
    /\ lost = [c \in Clients |-> FALSE]
    /\ peer = [c \in Clients |-> FALSE]

-----------------------------------------------------------------------------
(* The handler of a client.                                                *)

\* The server accepts while it is open; the handler is a task, run later.
Accept(c) ==
    /\ stop = "idle" /\ handler[c] = "none"
    /\ handler' = [handler EXCEPT ![c] = "accepted"]
    /\ peer' = [peer EXCEPT ![c] = TRUE]
    /\ UNCHANGED <<waits, stop, closing, current, clients, late, inbox, unsent, shut, lost>>

HandlerStarts(c) ==
    /\ handler[c] = "accepted"
    /\ handler' = [handler EXCEPT ![c] = "reading"]
    /\ clients' = clients \cup {c}
    /\ late' = IF stop \in {"walking", "done"} THEN late \cup {c} ELSE late
    /\ UNCHANGED <<waits, stop, closing, current, wire, shut>>

\* (mutant of LeavesLoop) the writer is not closed.
LeavesLoopOpen(c) ==
    /\ handler' = [handler EXCEPT ![c] = "leaving"]
    /\ clients' = clients \ {c}
    /\ UNCHANGED shut

\* The finally clause.
LeavesLoop(c) ==
    /\ handler' = [handler EXCEPT ![c] = "leaving"]
    /\ clients' = clients \ {c}
    /\ shut' = [shut EXCEPT ![c] = TRUE]

HandlerReads(c) ==
    /\ handler[c] = "reading" /\ inbox[c] # <<>>
    /\ inbox' = [inbox EXCEPT ![c] = Tail(@)]
    /\ \/ Head(inbox[c]) = "wakeup" /\ UNCHANGED <<handler, clients, shut>>
       \/ Head(inbox[c]) = "frame" /\ handler' = [handler EXCEPT ![c] = "forwarding"]
          /\ UNCHANGED <<clients, shut>>
       \/ Head(inbox[c]) = "other" /\ LeavesLoop(c)
    /\ UNCHANGED <<waits, stop, closing, current, late, unsent, lost, peer>>

\* IncompleteReadError: the client left, or the connection is gone, and all
\* that had arrived before is read.
HandlerEof(c) ==
    /\ handler[c] = "reading" /\ inbox[c] = <<>>
    /\ ~peer[c] \/ lost[c]
    /\ LeavesLoop(c)
    /\ UNCHANGED <<waits, stop, closing, current, late, wire>>

\* on_to_radio() is send_toradio(), which writes, drops or raises.
ForwardReturns(c) ==
    /\ handler[c] = "forwarding"
    /\ handler' = [handler EXCEPT ![c] = "reading"]
    /\ UNCHANGED <<waits, stop, closing, current, clients, late, wire, shut>>

HandlerEnds(c) ==
    /\ handler[c] = "leaving" /\ lost[c]
    /\ handler' = [handler EXCEPT ![c] = "ended"]
    /\ UNCHANGED <<waits, stop, closing, current, clients, late, wire, shut>>

\* broadcast() writes and does not wait, so nothing bounds what a slow client
\* leaves unsent.  A write to a connection that is gone may raise (uvloop) or
\* not (asyncio); the writers that raise are dropped.  The device makes no
\* packets once it stops.
Broadcast ==
    /\ stop = "idle" /\ clients # {}
    /\ unsent' = [c \in Clients |->
                    IF c \in clients /\ ~lost[c] /\ unsent[c] < MaxUnsent
                    THEN unsent[c] + 1 ELSE unsent[c]]
    /\ \E dead \in SUBSET {c \in clients : lost[c]} : clients' = clients \ dead
    /\ UNCHANGED <<waits, stop, closing, current, handler, late, inbox, lost, peer, shut>>

-----------------------------------------------------------------------------
(* stop().                                                                 *)

StopBegins ==
    /\ stop = "idle"
    /\ stop' = "server"
    /\ UNCHANGED <<waits, closing, current, clients, handler, late, wire, shut>>

\* A connection that is not gone.
Connected(c) == handler[c] # "none" /\ ~lost[c]

\* (mutant of ServerClosed) the list is emptied before the walk.
ServerClosedCleared ==
    /\ stop = "server"
    /\ waits => \A c \in Clients : ~Connected(c)
    /\ stop' = "walking"
    /\ clients' = {} /\ closing' = {}
    /\ UNCHANGED <<waits, current, handler, late, wire, shut>>

\* The server is closed; the clients are those listed now.
ServerClosed ==
    /\ stop = "server"
    /\ waits => \A c \in Clients : ~Connected(c)
    /\ stop' = "walking"
    /\ closing' = clients
    /\ UNCHANGED <<waits, current, clients, handler, late, wire, shut>>

\* (mutant of ClosesClient) stop() waits for the client to leave.
ClosesClientWaits(c) ==
    /\ stop = "walking" /\ current = {}
    /\ c \in closing
    /\ current' = {c} /\ closing' = closing \ {c}
    /\ UNCHANGED <<waits, stop, clients, handler, late, wire, shut>>

\* One client after the other: writer.close(), then wait_closed().
ClosesClient(c) ==
    /\ stop = "walking" /\ current = {}
    /\ c \in closing
    /\ current' = {c} /\ closing' = closing \ {c}
    /\ shut' = [shut EXCEPT ![c] = TRUE]
    /\ UNCHANGED <<waits, stop, clients, handler, late, wire>>

ClientClosed(c) ==
    /\ current = {c} /\ lost[c]
    /\ current' = {}
    /\ UNCHANGED <<waits, stop, closing, clients, handler, late, wire, shut>>

StopEnds ==
    /\ stop = "walking" /\ current = {} /\ closing = {}
    /\ stop' = "done"
    /\ clients' = {}
    /\ UNCHANGED <<waits, closing, current, handler, late, wire, shut>>

-----------------------------------------------------------------------------
(* The clients, the connections and the device, which are external.        *)

ClientSends(c, m) ==
    /\ peer[c] /\ ~shut[c] /\ ~lost[c]
    /\ Len(inbox[c]) < MaxInbox
    /\ inbox' = [inbox EXCEPT ![c] = Append(@, m)]
    /\ UNCHANGED <<waits, tasks, unsent, lost, peer, shut>>

ClientTakes(c) ==
    /\ peer[c] /\ unsent[c] > 0
    /\ unsent' = [unsent EXCEPT ![c] = @ - 1]
    /\ UNCHANGED <<waits, tasks, inbox, lost, peer, shut>>

ClientLeaves(c) ==
    /\ peer[c]
    /\ peer' = [peer EXCEPT ![c] = FALSE]
    /\ UNCHANGED <<waits, tasks, inbox, unsent, lost, shut>>

\* The connection is gone at once, with all that is under way.
ConnectionReset(c) ==
    /\ peer[c]
    /\ lost' = [lost EXCEPT ![c] = TRUE]
    /\ peer' = [peer EXCEPT ![c] = FALSE]
    /\ unsent' = [unsent EXCEPT ![c] = 0]
    /\ inbox' = [inbox EXCEPT ![c] = <<>>]
    /\ UNCHANGED <<waits, tasks, shut>>

\* A connection that was shut is gone once it has nothing left to send, or
\* nobody to send it to.
ConnectionLost(c) ==
    /\ shut[c] /\ ~lost[c]
    /\ unsent[c] = 0 \/ ~peer[c]
    /\ lost' = [lost EXCEPT ![c] = TRUE]
    /\ peer' = [peer EXCEPT ![c] = FALSE]
    /\ unsent' = [unsent EXCEPT ![c] = 0]
    /\ UNCHANGED <<waits, tasks, inbox, shut>>

-----------------------------------------------------------------------------
HandlerStep(c) ==
    \/ HandlerStarts(c) \/ HandlerReads(c) \/ HandlerEof(c)
    \/ ForwardReturns(c) \/ HandlerEnds(c)

StopStep ==
    \/ ServerClosed \/ StopEnds
    \/ \E c \in Clients : ClosesClient(c) \/ ClientClosed(c)

GatewayNext ==
    \/ \E c \in Clients : Accept(c) \/ HandlerStep(c)
    \/ Broadcast
    \/ StopBegins \/ StopStep
    \/ \E c \in Clients, m \in Messages : ClientSends(c, m)
    \/ \E c \in Clients :
         ClientTakes(c) \/ ClientLeaves(c) \/ ConnectionReset(c) \/ ConnectionLost(c)

\* Tasks are run, closed connections go, and a client reads what it is sent;
\* it need not send, nor leave, and stop() need not be called.
GatewayFairness ==
    /\ WF_gatewayVars(StopStep)
    /\ \A c \in Clients :
         /\ WF_gatewayVars(HandlerStep(c)) /\ WF_gatewayVars(ConnectionLost(c))
         /\ WF_gatewayVars(ClientTakes(c))

GatewaySpec == GatewayInit /\ [][GatewayNext]_gatewayVars /\ GatewayFairness

-----------------------------------------------------------------------------
\* Every variable has its type, and the writers listed are those of handlers
\* that still read or forward: broadcast() never keeps that of one that left.
GatewayTypeOK ==
    /\ waits \in BOOLEAN
    /\ stop \in {"idle", "server", "walking", "done"}
    /\ clients \subseteq {c \in Clients : Runs(c)}
    /\ closing \subseteq Clients /\ current \subseteq Clients /\ late \subseteq Clients
    /\ handler \in [Clients -> {"none", "accepted", "reading", "forwarding", "leaving", "ended"}]
    /\ inbox \in [Clients -> Seq(Messages)]
    /\ unsent \in [Clients -> 0..MaxUnsent]
    /\ shut \in [Clients -> BOOLEAN] /\ lost \in [Clients -> BOOLEAN]
    /\ peer \in [Clients -> BOOLEAN]

\* When stop() has returned, a connection that is not gone is of a handler
\* that stop() did not find listed: it has not started, or did so after stop()
\* had taken the list, or it has closed the connection itself and is waiting
\* for its client to take the rest.
AllClosed ==
    stop = "done" =>
        \A c \in Clients :
            Connected(c) =>
                \/ c \in late \/ handler[c] = "accepted"
                \/ handler[c] = "leaving" /\ shut[c]

\* Types, and what stop() may leave behind.
GatewayInv == GatewayTypeOK /\ AllClosed

\* The task of a client that left, or whose connection stop() has closed,
\* ends, after the frames it had received.
HandlersEnd ==
    \A c \in Clients :
        handler[c] # "none" /\ (~peer[c] \/ lost[c]) ~> handler[c] = "ended"

\* stop() returns, unless it waits for the server first, as Python 3.12 does,
\* and a client stays connected: then it waits for that client to leave.
StopReturns ==
    stop # "idle" ~> stop = "done" \/ (waits /\ \E c \in Clients : Connected(c))
=============================================================================
