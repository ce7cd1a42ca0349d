------------------------------ MODULE EventFanout ------------------------------
(***************************************************************************)
(* The path of an event from a device to the clients of /events:           *)
(* BleDevice._enqueue puts it in one queue shared by all devices,          *)
(* _drain_loop (module/server.py) copies it to the queue of each           *)
(* subscriber, and the handler of a WebSocket sends it on.  AppRouter      *)
(* (core/app_router.py) is a subscriber too: it decodes packets and puts   *)
(* what it finds back in the shared queue.                                 *)
(*                                                                         *)
(* All queues are bounded and drop what does not fit.  A client first gets *)
(* a snapshot, with the last state event of the device, and is subscribed  *)
(* once that is sent.  State events are numbered; of the others only the   *)
(* type matters.                                                           *)
(***************************************************************************)
EXTENDS Naturals, Sequences

CONSTANTS
    Clients,    \* WebSocket connections
    Router,     \* AppRouter's subscription
    QueueSize,  \* maxsize of the shared queue (module/main.py:40)
    InboxSize,  \* maxsize of a subscriber's queue
    MaxStates,  \* (bound) state events
    MaxPackets  \* (bound) packets, and broadcasts

ASSUME FanoutAssumption ==
    /\ Router \notin Clients
    /\ QueueSize \in Nat \ {0} /\ InboxSize \in Nat \ {0}
    /\ MaxStates \in Nat /\ MaxPackets \in Nat

VARIABLES
    sent,        \* number of _last_state_event
    packets,     \* packets read, and events broadcast, so far
    queue,       \* dm.queue
    subscribers, \* dm._subscribers
    inbox,       \* the queue of each subscriber
    client,      \* the handler of each connection, and what its client shows
    lost         \* (history) whether the last state event passed a client by

vars == <<sent, packets, queue, subscribers, inbox, client, lost>>

Topics == {"all", "packets"}    \* subscribe=* and subscribe=packet
Types  == {"state", "packet", "text", "data"}

State(n)  == [type |-> "state", n |-> n]
Other(t)  == [type |-> t, n |-> 0]

Nothing == Other("data")     \* out, when nothing is being sent

Away == [pc |-> "away", out |-> Nothing, topics |-> "all", shown |-> 0,
         gone |-> FALSE, recv |-> "ended"]

Init ==
    /\ sent = 0
    /\ packets = 0
    /\ queue = <<>>
    /\ subscribers = {Router}
    /\ inbox = [s \in Clients \cup {Router} |-> <<>>]
    /\ client = [c \in Clients |-> Away]
    /\ lost = [c \in Clients |-> FALSE]

\* put_nowait of several events in turn: what does not fit is dropped, which
\* is only logged.
Put(q, size, es) ==
    IF Len(q \o es) <= size THEN q \o es ELSE SubSeq(q \o es, 1, size)

Enqueue(es) == queue' = Put(queue, QueueSize, es)

\* The event e passes the clients cs by.
Passes(e, cs) ==
    lost' = [c \in Clients |-> lost[c] \/ (c \in cs /\ e = State(sent))]

-----------------------------------------------------------------------------
(* The devices and the server, as sources of events.                       *)

\* _transition(), stop() or the progress of an update: a new state event.
\* READY is followed by the data of the device and by its own node.
StateChanges ==
    /\ sent < MaxStates
    /\ sent' = sent + 1
    /\ \E data \in {<<>>, <<Other("data"), Other("data")>>} :
         Enqueue(<<State(sent + 1)>> \o data)
    /\ lost' = [c \in Clients |-> Len(queue) = QueueSize]
    /\ UNCHANGED <<packets, subscribers, inbox, client>>

\* A packet is read in READY.
PacketRead ==
    /\ packets < MaxPackets
    /\ packets' = packets + 1
    /\ Enqueue(<<Other("packet")>>)
    /\ UNCHANGED <<sent, subscribers, inbox, client, lost>>

\* What e adds to the queue of each subscriber.
Delivered(e) ==
    inbox' = [s \in Clients \cup {Router} |->
                 IF s \in subscribers THEN Put(inbox[s], InboxSize, <<e>>) ELSE inbox[s]]

\* The progress of a download goes to the subscribers directly.
Broadcast ==
    /\ packets < MaxPackets
    /\ packets' = packets + 1
    /\ Delivered(Other("data"))
    /\ UNCHANGED <<sent, queue, subscribers, client, lost>>

-----------------------------------------------------------------------------
(* _drain_loop                                                             *)

\* The clients that do not get the next event: the queue is full, or they
\* have had their snapshot taken before e was made and no subscription yet.
Unserved(e) ==
    {c \in Clients :
        \/ c \in subscribers /\ Len(inbox[c]) = InboxSize
        \/ client[c].pc = "snapshot" /\ e.n > client[c].out.n}

\* (Mutant) A full queue ends the fan-out of the event.
DrainUntilFull ==
    /\ queue # <<>>
    /\ queue' = Tail(queue)
    /\ IF \E s \in subscribers : Len(inbox[s]) = InboxSize
       THEN UNCHANGED inbox
       ELSE Delivered(Head(queue))
    /\ Passes(Head(queue), Unserved(Head(queue)))
    /\ UNCHANGED <<sent, packets, subscribers, client>>

\* One event is copied to every subscriber.
Drain ==
    /\ queue # <<>>
    /\ queue' = Tail(queue)
    /\ Delivered(Head(queue))
    /\ Passes(Head(queue), Unserved(Head(queue)))
    /\ UNCHANGED <<sent, packets, subscribers, client>>

-----------------------------------------------------------------------------
(* AppRouter                                                               *)

\* (Mutant) It hands on the packet too.
RoutedAgain(e) ==
    IF e.type = "packet" THEN {<<Other("text"), e>>} ELSE {<<>>}

\* What the router finds in an event: in a packet, nothing it can read; a
\* typed event or a private_app; or a typed event and a node_update.
Routed(e) ==
    IF e.type = "packet"
    THEN {<<>>, <<Other("text")>>, <<Other("text"), Other("data")>>}
    ELSE {<<>>}

RouterStep ==
    /\ inbox[Router] # <<>>
    /\ inbox' = [inbox EXCEPT ![Router] = Tail(@)]
    /\ \E es \in Routed(Head(inbox[Router])) : Enqueue(es)
    /\ UNCHANGED <<sent, packets, subscribers, client, lost>>

-----------------------------------------------------------------------------
(* The handler of /events                                                  *)

\* The connection is accepted and the snapshot taken; sending it suspends.
Connects(c) ==
    /\ client[c].pc = "away"
    /\ \E t \in Topics :
         client' = [client EXCEPT ![c] =
             [pc |-> "snapshot", out |-> State(sent), topics |-> t, shown |-> 0,
              gone |-> FALSE, recv |-> "open"]]
    /\ UNCHANGED <<sent, packets, queue, subscribers, inbox, lost>>

\* The snapshot is sent whatever the topics.  A new queue is subscribed.
SnapshotSent(c) ==
    /\ client[c].pc = "snapshot"
    /\ client' = [client EXCEPT
         ![c].pc = "waiting", ![c].out = Nothing, ![c].shown = client[c].out.n]
    /\ subscribers' = subscribers \cup {c}
    /\ inbox' = [inbox EXCEPT ![c] = <<>>]
    /\ UNCHANGED <<sent, packets, queue, lost>>

\* Nothing is subscribed yet, and nothing left to do.
SnapshotFails(c) ==
    /\ client[c].pc = "snapshot"
    /\ client[c].gone
    /\ client' = [client EXCEPT ![c] = Away]
    /\ UNCHANGED <<sent, packets, queue, subscribers, inbox, lost>>

Wanted(c, e) == client[c].topics = "all" \/ e.type = "packet"

\* _send_loop takes an event, and sends it if it is of a wanted type.
TakesEvent(c) ==
    /\ client[c].pc = "waiting"
    /\ inbox[c] # <<>>
    /\ LET e == Head(inbox[c])
       IN  /\ client' = IF Wanted(c, e)
                        THEN [client EXCEPT ![c].pc = "sending", ![c].out = e]
                        ELSE client
           /\ Passes(e, IF Wanted(c, e) THEN {} ELSE {c})
    /\ inbox' = [inbox EXCEPT ![c] = Tail(@)]
    /\ UNCHANGED <<sent, packets, queue, subscribers>>

\* stop_event is looked at between two events.
EventSent(c) ==
    /\ client[c].pc = "sending"
    /\ client' = [client EXCEPT
         ![c].pc = IF client[c].recv = "open" THEN "waiting" ELSE "ended",
         ![c].out = Nothing,
         ![c].shown = IF client[c].out.type = "state" THEN client[c].out.n ELSE @]
    /\ UNCHANGED <<sent, packets, queue, subscribers, inbox, lost>>

\* The send fails: stop_event is set.
SendFails(c) ==
    /\ client[c].pc = "sending"
    /\ client[c].gone
    /\ client' = [client EXCEPT ![c].pc = "ended", ![c].out = Nothing]
    /\ UNCHANGED <<sent, packets, queue, subscribers, inbox, lost>>

\* stop_event is set: _send_loop finds out within a second.
SendLoopEnds(c) ==
    /\ client[c].pc = "waiting"
    /\ client[c].recv = "ended"
    /\ client' = [client EXCEPT ![c].pc = "ended"]
    /\ UNCHANGED <<sent, packets, queue, subscribers, inbox, lost>>

\* _recv_loop: the client asks for other topics.
NewTopics(c) ==
    /\ client[c].pc \in {"waiting", "sending"}
    /\ client[c].recv = "open" /\ ~client[c].gone
    /\ \E t \in Topics \ {client[c].topics} :
         client' = [client EXCEPT ![c].topics = t]
    /\ UNCHANGED <<sent, packets, queue, subscribers, inbox, lost>>

\* (Mutant) The disconnect is taken for one of the errors that are ignored.
RecvIgnores(c) ==
    /\ client[c].pc \in {"waiting", "sending", "ended"}
    /\ client[c].recv = "open" /\ client[c].gone
    /\ UNCHANGED vars

\* WebSocketDisconnect: stop_event is set.
RecvLoopEnds(c) ==
    /\ client[c].pc \in {"waiting", "sending", "ended"}
    /\ client[c].recv = "open" /\ client[c].gone
    /\ client' = [client EXCEPT ![c].recv = "ended"]
    /\ UNCHANGED <<sent, packets, queue, subscribers, inbox, lost>>

\* Both loops have ended: unsubscribe.
Unsubscribes(c) ==
    /\ client[c].pc = "ended" /\ client[c].recv = "ended"
    /\ client' = [client EXCEPT ![c] = Away]
    /\ subscribers' = subscribers \ {c}
    /\ inbox' = [inbox EXCEPT ![c] = <<>>]
    /\ UNCHANGED <<sent, packets, queue, lost>>

\* The client closes the connection, or the network does.
Leaves(c) ==
    /\ client[c].pc # "away" /\ ~client[c].gone
    /\ client' = [client EXCEPT ![c].gone = TRUE]
    /\ UNCHANGED <<sent, packets, queue, subscribers, inbox, lost>>

-----------------------------------------------------------------------------
SendLoop(c) ==
    \/ SnapshotSent(c) \/ SnapshotFails(c)
    \/ TakesEvent(c) \/ EventSent(c) \/ SendFails(c) \/ SendLoopEnds(c)

Next ==
    \/ StateChanges \/ PacketRead \/ Broadcast
    \/ Drain \/ RouterStep
    \/ \E c \in Clients :
         \/ Connects(c) \/ Leaves(c) \/ NewTopics(c)
         \/ SendLoop(c) \/ RecvLoopEnds(c) \/ Unsubscribes(c)

Spec == Init /\ [][Next]_vars

\* The drain loop and the router run.  Of a client only this is assumed: once
\* it is gone, what is sent to it fails or gets lost, and the server finds
\* out.  A client that stays may be as slow as it likes.
FairSpec ==
    /\ Spec
    /\ WF_vars(Drain) /\ WF_vars(RouterStep)
    /\ \A c \in Clients :
         /\ WF_vars(SendLoop(c) /\ client[c].gone)
         /\ WF_vars(RecvLoopEnds(c)) /\ WF_vars(Unsubscribes(c))

-----------------------------------------------------------------------------
(* Properties.                                                             *)

Event == [type : Types, n : Nat]

\* The types, the limits of the queues, and that exactly the connections past
\* their snapshot are subscribed (server.py:586, 636).
TypeOK ==
    /\ sent \in Nat /\ packets \in Nat
    /\ queue \in Seq(Event) /\ Len(queue) <= QueueSize
    /\ inbox \in [Clients \cup {Router} -> Seq(Event)]
    /\ \A s \in Clients \cup {Router} : Len(inbox[s]) <= InboxSize
    /\ client \in [Clients ->
         [pc : {"away", "snapshot", "waiting", "sending", "ended"}, out : Event,
          topics : Topics, shown : Nat, gone : BOOLEAN, recv : {"open", "ended"}]]
    /\ lost \in [Clients -> BOOLEAN]
    /\ subscribers = {Router} \cup {c \in Clients : client[c].pc \notin {"away", "snapshot"}}

\* A state event is on its way in q.
Coming(q) == \E i \in 1..Len(q) : q[i].type = "state"

\* When nothing more is on its way, a client shows the state the device is
\* in, or the very last state event is one it lost: to a full queue, to its
\* own choice of topics, or between its snapshot and its subscription
\* (ble_device.py:359-366, server.py:576-603, 797-803).  A loss before that
\* is made good, and an old event that arrives after the snapshot too.
ShownIsCurrent ==
    \A c \in Clients :
        client[c].pc = "waiting" /\ ~Coming(queue) /\ ~Coming(inbox[c])
        => client[c].shown = sent \/ lost[c]

\* Types, subscriptions included, and what a client shows.
FanoutInv == TypeOK /\ ShownIsCurrent

\* The router reads the events it writes, and does not feed itself: when the
\* radio is silent the queues run empty (app_router.py:151-153).
RouterSettles == <>[](queue = <<>> /\ inbox[Router] = <<>>)

\* A client that is gone does not stay subscribed, wherever its handler was
\* (server.py:609-636).
GoneIsUnsubscribed ==
    \A c \in Clients : client[c].gone ~> c \notin subscribers
=============================================================================
