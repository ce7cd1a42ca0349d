--------------------------- MODULE EventFanoutProofs ---------------------------
(***************************************************************************)
(* What a client shows, for any number of clients, events and topics, and  *)
(* queues of any size.  Queues drop events but keep their order, so behind *)
(* the last state event comes no older one.  That event is in the shared   *)
(* queue, then with every client that is served, in its queue, on its way  *)
(* out or shown; wherever it is dropped instead, the client has lost it.   *)
(***************************************************************************)
EXTENDS EventFanout, TLAPS

IsState(e) == e.type = "state"

\* The state events of a queue are no later than now, and each later than the
\* ones before it.
InOrder(q) ==
    \A i \in 1..Len(q) : IsState(q[i]) =>
        /\ q[i].n <= sent
        /\ \A j \in 1..Len(q) : i < j /\ IsState(q[j]) => q[i].n < q[j].n

\* Those of q are earlier than those of r.
Before(q, r) ==
    \A i \in 1..Len(q), j \in 1..Len(r) : IsState(q[i]) /\ IsState(r[j]) => q[i].n < r[j].n

\* The drain loop keeps the order, and so does every queue that drops.
Ordered ==
    /\ InOrder(queue)
    /\ \A c \in Clients : InOrder(inbox[c]) /\ Before(inbox[c], queue)

\* What a handler sends: nothing between two events, and first the snapshot.
Sends(h) ==
    /\ h.pc \in {"away", "waiting", "ended"} => h.out = Nothing
    /\ h.pc = "snapshot" => IsState(h.out) /\ h.out.n <= sent

\* The last state event is in q.
LastIn(q) == \E i \in 1..Len(q) : q[i] = State(sent)

\* The last state event has got as far as to the handler h with the queue q, if
\* that serves a client, and no other is behind it.
Reached(h, q) ==
    \/ h.pc \in {"away", "ended"}
    \/ h.pc = "snapshot" /\ h.out.n = sent
    \/ /\ h.pc \in {"waiting", "sending"}
       /\ \/ LastIn(q)
          \/ /\ ~Coming(q)
             /\ \/ h.out = State(sent)
                \/ ~IsState(h.out) /\ h.shown = sent

\* The last state event is lost to c, on its way to the subscribers, or there.
Underway ==
    \A c \in Clients : lost[c] \/ LastIn(queue) \/ (~Coming(queue) /\ Reached(client[c], inbox[c]))

IInv == TypeOK /\ Ordered /\ (\A c \in Clients : Sends(client[c])) /\ Underway

\* What fits of es is put behind q, and the first does if there is room.
LEMMA PutFacts ==
    ASSUME NEW q \in Seq(Event), NEW size \in Nat, Len(q) <= size, NEW es \in Seq(Event)
    PROVE  /\ Put(q, size, es) \in Seq(Event)
           /\ Len(Put(q, size, es)) \in Len(q)..size
           /\ Len(q) < size /\ Len(es) > 0 => Len(Put(q, size, es)) > Len(q)
           /\ \A i \in 1..Len(q) : Put(q, size, es)[i] = q[i]
           /\ \A i \in 1..Len(Put(q, size, es)) : i > Len(q) =>
                i - Len(q) \in 1..Len(es) /\ Put(q, size, es)[i] = es[i - Len(q)]
  <1> DEFINE j == q \o es
  <1>1. /\ j \in Seq(Event) /\ Len(j) = Len(q) + Len(es)
        /\ \A i \in 1..Len(q) : j[i] = q[i]
        /\ \A i \in 1..Len(j) : i > Len(q) =>
             i - Len(q) \in 1..Len(es) /\ j[i] = es[i - Len(q)]
    OBVIOUS
  <1>2. CASE Len(j) <= size
    <2>1. Put(q, size, es) = j
      BY <1>2 DEF Put
    <2>2. QED BY <1>1, <1>2, <2>1
  <1>3. CASE Len(j) > size
    <2>1. Put(q, size, es) = SubSeq(j, 1, size)
      BY <1>1, <1>3 DEF Put
    <2> HIDE DEF j
    <2>2. /\ SubSeq(j, 1, size) \in Seq(Event) /\ Len(SubSeq(j, 1, size)) = size
          /\ \A i \in 1..size : SubSeq(j, 1, size)[i] = j[i]
      BY <1>1, <1>3
    <2>3. QED BY <1>1, <1>3, <2>1, <2>2
  <1>4. QED BY <1>1, <1>2, <1>3

Handlers ==
    [pc : {"away", "snapshot", "waiting", "sending", "ended"}, out : Event,
     topics : Topics, shown : Nat, gone : BOOLEAN, recv : {"open", "ended"}]

\* What a handler and its queue become is up to the handler, if it keeps the
\* order and, unless it loses it, the last state event.
LEMMA HandlerMoves ==
    ASSUME IInv, NEW c \in Clients, NEW h \in Handlers, NEW q \in Seq(Event),
           client' = [client EXCEPT ![c] = h], inbox' = [inbox EXCEPT ![c] = q],
           UNCHANGED <<sent, packets, queue>>,
           subscribers' = IF h.pc \in {"away", "snapshot"}
                          THEN subscribers \ {c} ELSE subscribers \cup {c},
           lost' \in [Clients -> BOOLEAN], \A d \in Clients \ {c} : lost'[d] = lost[d],
           Len(q) <= InboxSize, InOrder(q), Before(q, queue), Sends(h),
           lost'[c] \/ LastIn(queue) \/ (~Coming(queue) /\ Reached(h, q))
    PROVE  IInv'
  <1>1. /\ client' \in [Clients -> Handlers] /\ client'[c] = h
        /\ \A d \in Clients \ {c} : client'[d] = client[d]
    BY DEF IInv, TypeOK, Handlers
  <1>2. /\ inbox' \in [Clients \cup {Router} -> Seq(Event)] /\ inbox'[c] = q
        /\ \A d \in (Clients \cup {Router}) \ {c} : inbox'[d] = inbox[d]
    BY DEF IInv, TypeOK
  <1>3. TypeOK'
    <2>1. \A s \in Clients \cup {Router} : Len(inbox'[s]) <= InboxSize
      BY <1>2 DEF IInv, TypeOK
    <2>2. subscribers' = {Router} \cup {d \in Clients : client'[d].pc \notin {"away", "snapshot"}}
      BY <1>1, FanoutAssumption DEF IInv, TypeOK
    <2>3. QED BY <1>1, <1>2, <2>1, <2>2 DEF IInv, TypeOK, Handlers
  <1>4. Ordered'
    <2>1. InOrder(queue)'
      BY DEF IInv, Ordered, InOrder
    <2>2. ASSUME NEW d \in Clients PROVE (InOrder(inbox[d]) /\ Before(inbox[d], queue))'
      <3>1. CASE d = c
        BY <1>2, <3>1 DEF InOrder, Before
      <3>2. CASE d # c
        BY <1>2, <3>2 DEF IInv, Ordered, InOrder, Before
      <3>3. QED BY <3>1, <3>2
    <2>3. QED BY <2>1, <2>2 DEF Ordered
  <1>5. (\A d \in Clients : Sends(client[d]))'
    BY <1>1 DEF IInv, Sends
  <1>6. Underway'
    <2> SUFFICES ASSUME NEW d \in Clients
                 PROVE  (lost[d] \/ LastIn(queue) \/ (~Coming(queue) /\ Reached(client[d], inbox[d])))'
      BY DEF Underway
    <2>1. CASE d = c
      BY <1>1, <1>2, <2>1 DEF LastIn, Coming, Reached, State
    <2>2. CASE d # c
      <3>1. lost[d] \/ LastIn(queue) \/ (~Coming(queue) /\ Reached(client[d], inbox[d]))
        BY DEF IInv, Underway
      <3>2. QED BY <1>1, <1>2, <2>2, <3>1 DEF LastIn, Coming, Reached, State
    <2>3. QED BY <2>1, <2>2
  <1>7. QED BY <1>3, <1>4, <1>5, <1>6 DEF IInv

\* A step of a handler that leaves the queues alone.
LEMMA HandlerPreserves ==
    ASSUME IInv, NEW c \in Clients,
           \/ Connects(c) \/ Leaves(c) \/ NewTopics(c) \/ RecvLoopEnds(c)
           \/ SnapshotFails(c) \/ EventSent(c) \/ SendFails(c) \/ SendLoopEnds(c)
    PROVE  IInv'
  <1> DEFINE k == client[c]
  <1>1. UNCHANGED <<sent, packets, queue, subscribers, inbox, lost>>
    BY DEF Connects, Leaves, NewTopics, RecvLoopEnds, SnapshotFails, EventSent, SendFails,
           SendLoopEnds
  <1>2. /\ k \in Handlers /\ Sends(k) /\ sent \in Nat
        /\ lost[c] \/ LastIn(queue) \/ (~Coming(queue) /\ Reached(k, inbox[c]))
    BY DEF IInv, TypeOK, Handlers, Underway
  <1>3. \E h \in Handlers :
          /\ client' = [client EXCEPT ![c] = h]
          /\ h.pc \in {"away", "snapshot"} <=> k.pc \in {"away", "snapshot"}
          /\ Sends(h)
          /\ Reached(k, inbox[c]) => Reached(h, inbox[c])
    <2> USE <1>2 DEF Handlers, Sends, Reached, IsState, State, Other, Nothing, Event, Types, Topics
    <2>1. CASE Connects(c)
      <3>1. PICK t \in Topics :
              client' = [client EXCEPT ![c] =
                 [pc |-> "snapshot", out |-> State(sent), topics |-> t, shown |-> 0,
                  gone |-> FALSE, recv |-> "open"]]
        BY <2>1 DEF Connects
      <3> DEFINE h == [pc |-> "snapshot", out |-> State(sent), topics |-> t, shown |-> 0,
                       gone |-> FALSE, recv |-> "open"]
      <3>2. h \in Handlers /\ Sends(h) /\ Reached(h, inbox[c])
        OBVIOUS
      <3>3. client' = [client EXCEPT ![c] = h] /\ h.pc = "snapshot" /\ k.pc = "away"
        BY <2>1, <3>1 DEF Connects
      <3>4. QED BY ONLY <3>2, <3>3
    <2>2. CASE Leaves(c)
      <3> WITNESS [k EXCEPT !.gone = TRUE] \in Handlers
      <3>2. QED BY <2>2 DEF Leaves
    <2>3. CASE NewTopics(c)
      <3>1. PICK t \in Topics : client' = [client EXCEPT ![c].topics = t]
        BY <2>3 DEF NewTopics
      <3> WITNESS [k EXCEPT !.topics = t] \in Handlers
      <3>3. QED BY <2>3, <3>1 DEF NewTopics
    <2>4. CASE RecvLoopEnds(c)
      <3> WITNESS [k EXCEPT !.recv = "ended"] \in Handlers
      <3>2. QED BY <2>4 DEF RecvLoopEnds
    <2>5. CASE SnapshotFails(c)
      <3> USE DEF Away
      <3> WITNESS Away \in Handlers
      <3>2. QED BY <2>5 DEF SnapshotFails, Away
    <2>6. CASE EventSent(c)
      <3> DEFINE s == IF k.out.type = "state" THEN k.out.n ELSE k.shown
                 h == [k EXCEPT !.pc = IF k.recv = "open" THEN "waiting" ELSE "ended",
                                !.out = Nothing, !.shown = s]
      <3>1. s \in Nat
        OBVIOUS
      <3>2. k.pc = "sending" /\ client' = [client EXCEPT ![c] = h]
        <4>1. k.pc = "sending"
          BY <2>6 DEF EventSent
        <4>2. client' = [client EXCEPT
                 ![c].pc = IF k.recv = "open" THEN "waiting" ELSE "ended",
                 ![c].out = Nothing, ![c].shown = s]
          BY <2>6 DEF EventSent
        <4>3. QED BY ONLY <4>1, <4>2
      <3>3. h \in Handlers /\ Sends(h) /\ h.pc \in {"waiting", "ended"}
        BY <3>1
      <3>4. ASSUME Reached(k, inbox[c]) PROVE Reached(h, inbox[c])
        <4>1. ~Coming(inbox[c]) /\ ~LastIn(inbox[c]) => s = sent
          BY <3>2, <3>4
        <4>2. QED BY <3>2, <3>4, <4>1
      <3>5. h.pc \in {"away", "snapshot"} <=> k.pc \in {"away", "snapshot"}
        BY <3>2, <3>3
      <3> HIDE DEF h
      <3>6. QED BY ONLY <3>2, <3>3, <3>4, <3>5
    <2>7. CASE SendFails(c)
      <3> WITNESS [k EXCEPT !.pc = "ended", !.out = Nothing] \in Handlers
      <3>2. QED BY <2>7 DEF SendFails
    <2>8. CASE SendLoopEnds(c)
      <3> WITNESS [k EXCEPT !.pc = "ended"] \in Handlers
      <3>2. QED BY <2>8 DEF SendLoopEnds
    <2>9. QED BY <2>1, <2>2, <2>3, <2>4, <2>5, <2>6, <2>7, <2>8
  <1>4. PICK h \in Handlers :
          /\ client' = [client EXCEPT ![c] = h]
          /\ h.pc \in {"away", "snapshot"} <=> k.pc \in {"away", "snapshot"}
          /\ Sends(h)
          /\ Reached(k, inbox[c]) => Reached(h, inbox[c])
    BY <1>3
  <1>5. PICK q \in Seq(Event) : q = inbox[c]
    BY DEF IInv, TypeOK
  <1>6. /\ inbox' = [inbox EXCEPT ![c] = q] /\ lost' \in [Clients -> BOOLEAN]
        /\ \A d \in Clients \ {c} : lost'[d] = lost[d]
        /\ Len(q) <= InboxSize
    BY <1>1, <1>5 DEF IInv, TypeOK
  <1>7. subscribers' = IF h.pc \in {"away", "snapshot"}
                       THEN subscribers \ {c} ELSE subscribers \cup {c}
    BY <1>1, <1>4, FanoutAssumption DEF IInv, TypeOK
  <1>8. InOrder(q) /\ Before(q, queue)
    BY <1>5 DEF IInv, Ordered
  <1>9. lost'[c] \/ LastIn(queue) \/ (~Coming(queue) /\ Reached(h, q))
    BY <1>1, <1>2, <1>4, <1>5
  <1> HIDE DEF k
  <1>10. QED BY <1>1, <1>4, <1>6, <1>7, <1>8, <1>9, HandlerMoves

\* One event is put behind q, if there is room.
LEMMA PutOne ==
    ASSUME NEW q \in Seq(Event), NEW size \in Nat, Len(q) <= size, NEW e \in Event
    PROVE  Put(q, size, <<e>>) = IF Len(q) < size THEN Append(q, e) ELSE q
  <1>1. q \o <<e>> = Append(q, e)
    OBVIOUS
  <1>2. SubSeq(Append(q, e), 1, Len(q)) = q
    OBVIOUS
  <1>3. Len(Append(q, e)) = Len(q) + 1
    OBVIOUS
  <1>4. Put(q, size, <<e>>) = IF Len(q) + 1 <= size THEN Append(q, e) ELSE SubSeq(Append(q, e), 1, size)
    BY <1>1, <1>3 DEF Put
  <1>5. CASE Len(q) < size
    BY <1>4, <1>5
  <1>6. CASE Len(q) = size
    BY <1>2, <1>4, <1>6
  <1>7. QED BY <1>5, <1>6

\* What an event that goes to the subscribers does to their queues.
LEMMA DeliveredFacts ==
    ASSUME TypeOK, NEW e \in Event, Delivered(e)
    PROVE  /\ inbox' \in [Clients \cup {Router} -> Seq(Event)]
           /\ \A s \in Clients \cup {Router} :
                /\ Len(inbox'[s]) <= InboxSize
                /\ inbox'[s] = IF s \in subscribers /\ Len(inbox[s]) < InboxSize
                               THEN Append(inbox[s], e) ELSE inbox[s]
  <1>1. ASSUME NEW s \in Clients \cup {Router}
        PROVE  Put(inbox[s], InboxSize, <<e>>)
                 = IF Len(inbox[s]) < InboxSize THEN Append(inbox[s], e) ELSE inbox[s]
    <2>1. inbox[s] \in Seq(Event) /\ Len(inbox[s]) <= InboxSize /\ InboxSize \in Nat
      BY FanoutAssumption DEF TypeOK
    <2>2. QED BY <2>1, PutOne
  <1>2. ASSUME NEW s \in Clients \cup {Router}
        PROVE  inbox'[s] = IF s \in subscribers /\ Len(inbox[s]) < InboxSize
                           THEN Append(inbox[s], e) ELSE inbox[s]
    BY <1>1 DEF Delivered
  <1>3. ASSUME NEW s \in Clients \cup {Router}
        PROVE  inbox'[s] \in Seq(Event) /\ Len(inbox'[s]) <= InboxSize
    <2>1. inbox[s] \in Seq(Event) /\ Len(inbox[s]) <= InboxSize /\ InboxSize \in Nat
      BY FanoutAssumption DEF TypeOK
    <2>2. Append(inbox[s], e) \in Seq(Event) /\ Len(Append(inbox[s], e)) = Len(inbox[s]) + 1
      BY <2>1
    <2>3. CASE s \in subscribers /\ Len(inbox[s]) < InboxSize
      <3>1. inbox'[s] = Append(inbox[s], e)
        BY <1>2, <2>3
      <3>2. QED BY <2>1, <2>2, <2>3, <3>1
    <2>4. CASE ~(s \in subscribers /\ Len(inbox[s]) < InboxSize)
      <3>1. inbox'[s] = inbox[s]
        BY <1>2, <2>4
      <3>2. QED BY <2>1, <3>1
    <2>5. QED BY <2>3, <2>4
  <1>4. inbox' \in [Clients \cup {Router} -> Seq(Event)]
    <2>1. inbox' = [s \in Clients \cup {Router} |-> inbox'[s]]
      BY DEF Delivered
    <2>2. QED BY <1>3, <2>1
  <1>5. QED BY <1>2, <1>3, <1>4

\* An event that is no state event changes nothing of what Reached says.
LEMMA ReachedKeeps ==
    ASSUME NEW h, NEW q \in Seq(Event), NEW e \in Event, ~IsState(e), Reached(h, q)
    PROVE  Reached(h, Append(q, e))
  <1>1. /\ Len(Append(q, e)) = Len(q) + 1
        /\ \A i \in 1..Len(q) : Append(q, e)[i] = q[i]
        /\ Append(q, e)[Len(q) + 1] = e
    OBVIOUS
  <1>2. LastIn(q) => LastIn(Append(q, e))
    BY <1>1 DEF LastIn
  <1>3. ~Coming(q) => ~Coming(Append(q, e))
    BY <1>1 DEF Coming, IsState
  <1>4. QED BY <1>2, <1>3 DEF Reached

\* The progress of a download.
LEMMA BroadcastPreserves == ASSUME IInv, Broadcast PROVE IInv'
  <1> DEFINE e == Other("data")
  <1>1. e \in Event /\ ~IsState(e)
    BY DEF Other, Event, Types, IsState
  <1>2. /\ UNCHANGED <<sent, queue, subscribers, client, lost>>
        /\ packets' = packets + 1 /\ Delivered(e)
    BY DEF Broadcast
  <1> HIDE DEF e
  <1>3. /\ inbox' \in [Clients \cup {Router} -> Seq(Event)]
        /\ \A s \in Clients \cup {Router} :
             Len(inbox'[s]) <= InboxSize /\ inbox'[s] \in {Append(inbox[s], e), inbox[s]}
    BY <1>1, <1>2, DeliveredFacts DEF IInv
  <1>4. TypeOK'
    BY <1>2, <1>3 DEF IInv, TypeOK
  <1>5. Ordered'
    <2> SUFFICES ASSUME NEW c \in Clients PROVE (InOrder(inbox[c]) /\ Before(inbox[c], queue))'
      BY <1>2 DEF IInv, Ordered, InOrder
    <2>1. inbox[c] \in Seq(Event) /\ InOrder(inbox[c]) /\ Before(inbox[c], queue)
      BY DEF IInv, TypeOK, Ordered
    <2>2. CASE inbox'[c] = inbox[c]
      BY <1>2, <2>1, <2>2 DEF InOrder, Before
    <2>3. CASE inbox'[c] = Append(inbox[c], e)
      <3>1. /\ Len(inbox'[c]) = Len(inbox[c]) + 1
            /\ \A i \in 1..Len(inbox[c]) : inbox'[c][i] = inbox[c][i]
            /\ inbox'[c][Len(inbox[c]) + 1] = e
        BY <1>1, <2>1, <2>3
      <3>2. ASSUME NEW i \in 1..Len(inbox'[c]), IsState(inbox'[c][i])
            PROVE  i \in 1..Len(inbox[c]) /\ inbox'[c][i] = inbox[c][i]
        BY <1>1, <2>1, <3>1, <3>2
      <3>3. InOrder(inbox[c])'
        BY <1>2, <2>1, <3>2 DEF InOrder
      <3>4. Before(inbox[c], queue)'
        BY <1>2, <2>1, <3>2 DEF Before
      <3>5. QED BY <3>3, <3>4
    <2>4. QED BY <1>3, <2>2, <2>3
  <1>6. (\A c \in Clients : Sends(client[c]))'
    BY <1>2 DEF IInv, Sends
  <1>7. Underway'
    <2> SUFFICES ASSUME NEW c \in Clients
                 PROVE  (lost[c] \/ LastIn(queue) \/ (~Coming(queue) /\ Reached(client[c], inbox[c])))'
      BY DEF Underway
    <2>1. inbox[c] \in Seq(Event)
          /\ (lost[c] \/ LastIn(queue) \/ (~Coming(queue) /\ Reached(client[c], inbox[c])))
      BY DEF IInv, TypeOK, Underway
    <2>2. PICK q \in Seq(Event) : q = inbox'[c]
      BY <1>3
    <2>3. Reached(client[c], inbox[c]) => Reached(client[c], q)
      BY <1>1, <1>3, <2>1, <2>2, ReachedKeeps
    <2>4. QED BY <1>2, <2>1, <2>2, <2>3 DEF LastIn, Coming, Reached
  <1>8. QED BY <1>4, <1>5, <1>6, <1>7 DEF IInv

\* The drain loop hands on the next event.
LEMMA DrainPreserves == ASSUME IInv, Drain PROVE IInv'
  <1>1. PICK e \in Event : e = queue[1] /\ Delivered(e) /\ Passes(e, Unserved(e))
    BY DEF IInv, TypeOK, Drain
  <1>2. /\ UNCHANGED <<sent, packets, subscribers, client>>
        /\ queue' \in Seq(Event) /\ queue \in Seq(Event) /\ Len(queue) > 0
        /\ Len(queue') = Len(queue) - 1
        /\ \A i \in 1..Len(queue') : i + 1 \in 1..Len(queue) /\ queue'[i] = queue[i + 1]
    BY DEF IInv, TypeOK, Drain
  <1>3. /\ inbox' \in [Clients \cup {Router} -> Seq(Event)]
        /\ \A s \in Clients \cup {Router} :
             /\ Len(inbox'[s]) <= InboxSize
             /\ inbox'[s] = IF s \in subscribers /\ Len(inbox[s]) < InboxSize
                            THEN Append(inbox[s], e) ELSE inbox[s]
    BY <1>1, DeliveredFacts DEF IInv
  <1>4. lost' \in [Clients -> BOOLEAN]
        /\ \A c \in Clients : lost'[c] <=> lost[c] \/ (c \in Unserved(e) /\ e = State(sent))
    BY <1>1 DEF IInv, TypeOK, Passes
  <1>5. TypeOK'
    <2>1. Len(queue') <= QueueSize
      BY <1>2, FanoutAssumption DEF IInv, TypeOK
    <2>2. QED BY <1>2, <1>3, <1>4, <2>1 DEF IInv, TypeOK
  <1>6. /\ InOrder(queue) /\ sent \in Nat
        /\ \A c \in Clients : InOrder(inbox[c]) /\ Before(inbox[c], queue)
    BY DEF IInv, TypeOK, Ordered
  <1>7. IsState(e) => e.n <= sent /\ \A j \in 1..Len(queue') : IsState(queue'[j]) => e.n < queue'[j].n
    BY <1>1, <1>2, <1>6 DEF InOrder
  <1>8. Ordered'
    <2>1. InOrder(queue)'
      <3> SUFFICES ASSUME NEW i \in 1..Len(queue'), IsState(queue'[i])
                   PROVE  /\ queue'[i].n <= sent
                          /\ \A j \in 1..Len(queue') :
                               i < j /\ IsState(queue'[j]) => queue'[i].n < queue'[j].n
        BY <1>2 DEF InOrder
      <3>1. i + 1 \in 1..Len(queue) /\ queue'[i] = queue[i + 1]
        BY <1>2
      <3>2. /\ queue[i + 1].n <= sent
            /\ \A j \in 1..Len(queue) :
                 i + 1 < j /\ IsState(queue[j]) => queue[i + 1].n < queue[j].n
        BY <1>6, <3>1 DEF InOrder
      <3>3. QED BY <1>2, <3>1, <3>2
    <2>2. ASSUME NEW c \in Clients PROVE (InOrder(inbox[c]) /\ Before(inbox[c], queue))'
      <3>1. inbox[c] \in Seq(Event)
        BY DEF IInv, TypeOK
      <3>2. \A i \in 1..Len(inbox'[c]) :
              \/ i \in 1..Len(inbox[c]) /\ inbox'[c][i] = inbox[c][i]
              \/ i > Len(inbox[c]) /\ inbox'[c][i] = e /\ i = Len(inbox'[c])
        <4>1. CASE inbox'[c] = inbox[c]
          BY <3>1, <4>1
        <4>2. CASE inbox'[c] = Append(inbox[c], e)
          BY <3>1, <4>2
        <4>3. QED BY <1>3, <4>1, <4>2
      <3>3. ASSUME NEW i \in 1..Len(inbox[c]), NEW j \in 1..Len(queue),
                   IsState(inbox[c][i]), IsState(queue[j])
            PROVE  inbox[c][i].n < queue[j].n
        BY <1>6, <3>3 DEF Before
      <3>4. \A i \in 1..Len(inbox[c]) : IsState(inbox[c][i]) /\ IsState(e) => inbox[c][i].n < e.n
        BY <1>1, <1>2, <3>3
      <3>5. InOrder(inbox[c])'
        <4> SUFFICES ASSUME NEW i \in 1..Len(inbox'[c]), IsState(inbox'[c][i])
                     PROVE  /\ inbox'[c][i].n <= sent
                            /\ \A j \in 1..Len(inbox'[c]) :
                                 i < j /\ IsState(inbox'[c][j]) => inbox'[c][i].n < inbox'[c][j].n
          BY <1>2 DEF InOrder
        <4>1. CASE inbox'[c][i] = e /\ i = Len(inbox'[c])
          BY <1>7, <4>1
        <4>2. CASE i \in 1..Len(inbox[c]) /\ inbox'[c][i] = inbox[c][i]
          <5>1. /\ inbox[c][i].n <= sent
                /\ \A j \in 1..Len(inbox[c]) :
                     i < j /\ IsState(inbox[c][j]) => inbox[c][i].n < inbox[c][j].n
            BY <1>6, <4>2 DEF InOrder
          <5>2. QED BY <3>2, <3>4, <4>2, <5>1
        <4>3. QED BY <3>2, <4>1, <4>2
      <3>6. Before(inbox[c], queue)'
        <4> SUFFICES ASSUME NEW i \in 1..Len(inbox'[c]), NEW j \in 1..Len(queue'),
                            IsState(inbox'[c][i]), IsState(queue'[j])
                     PROVE  inbox'[c][i].n < queue'[j].n
          BY DEF Before
        <4>1. j + 1 \in 1..Len(queue) /\ queue'[j] = queue[j + 1]
          BY <1>2
        <4>2. CASE inbox'[c][i] = e
          BY <1>7, <4>2
        <4>3. CASE i \in 1..Len(inbox[c]) /\ inbox'[c][i] = inbox[c][i]
          BY <3>3, <4>1, <4>3
        <4>4. QED BY <3>2, <4>2, <4>3
      <3>7. QED BY <3>5, <3>6
    <2>3. QED BY <2>1, <2>2 DEF Ordered
  <1>9. (\A c \in Clients : Sends(client[c]))'
    BY <1>2 DEF IInv, Sends
  <1>10. Underway'
    <2> SUFFICES ASSUME NEW c \in Clients, ~lost'[c]
                 PROVE  LastIn(queue)' \/ (~Coming(queue) /\ Reached(client[c], inbox[c]))'
      BY DEF Underway
    <2> DEFINE k == client[c]
    <2>1. /\ ~lost[c] /\ (e = State(sent) => c \notin Unserved(e))
          /\ LastIn(queue) \/ (~Coming(queue) /\ Reached(k, inbox[c]))
      BY <1>4 DEF IInv, Underway
    <2>2. /\ inbox[c] \in Seq(Event) /\ k \in Handlers /\ Sends(k)
          /\ k.pc \in {"waiting", "sending"} => c \in subscribers
          /\ Len(inbox[c]) <= InboxSize
      BY DEF IInv, TypeOK, Handlers
    <2>3. PICK q \in Seq(Event) :
            /\ q = inbox'[c]
            /\ q = IF c \in subscribers /\ Len(inbox[c]) < InboxSize
                   THEN Append(inbox[c], e) ELSE inbox[c]
      BY <1>3
    <2>4. CASE e = State(sent)
      <3>1. ~Coming(queue)'
        <4> SUFFICES ASSUME NEW i \in 1..Len(queue'), IsState(queue'[i]) PROVE FALSE
          BY DEF Coming, IsState
        <4>1. IsState(e) /\ e.n = sent
          BY <2>4 DEF State, IsState
        <4>2. sent < queue'[i].n
          BY <1>7, <4>1
        <4>3. i + 1 \in 1..Len(queue) /\ queue'[i] = queue[i + 1] /\ queue'[i].n \in Nat
          <5>1. i + 1 \in 1..Len(queue) /\ queue'[i] = queue[i + 1]
            BY <1>2
          <5>2. queue[i + 1] \in Event
            BY <1>2, <5>1
          <5>3. QED BY <5>1, <5>2 DEF Event
        <4>4. queue'[i].n <= sent
          BY <1>6, <4>3 DEF InOrder
        <4>5. QED BY <1>6, <4>2, <4>3, <4>4
      <3>2. /\ c \in subscribers => Len(inbox[c]) # InboxSize
            /\ k.pc = "snapshot" => ~(e.n > k.out.n)
        BY <2>1, <2>4 DEF Unserved
      <3>3. k.pc = "snapshot" => k.out.n = sent
        BY <1>6, <2>2, <2>4, <3>2 DEF Sends, State, Handlers, Event
      <3>4. k.pc \in {"waiting", "sending"} => LastIn(q)
        <4> SUFFICES ASSUME k.pc \in {"waiting", "sending"} PROVE LastIn(q)
          OBVIOUS
        <4>1. q = Append(inbox[c], e)
          BY <2>2, <2>3, <3>2, FanoutAssumption
        <4>2. q[Len(q)] = e /\ Len(q) \in 1..Len(q)
          BY <2>2, <4>1
        <4>3. QED BY <2>4, <4>2 DEF LastIn
      <3>5. Reached(k, q)
        BY <2>2, <3>3, <3>4 DEF Reached, Handlers
      <3>6. QED BY <1>2, <2>3, <3>1, <3>5 DEF Reached, LastIn, Coming
    <2>5. CASE e # State(sent) /\ LastIn(queue)
      <3>1. PICK i \in 1..Len(queue) : queue[i] = State(sent)
        BY <2>5 DEF LastIn
      <3>2. i # 1
        BY <1>1, <2>5, <3>1
      <3>3. i - 1 \in 1..Len(queue') /\ queue'[i - 1] = State(sent)
        BY <1>2, <3>1, <3>2
      <3>4. QED BY <1>2, <3>3 DEF LastIn, State
    <2>6. CASE ~LastIn(queue)
      <3>1. ~Coming(queue) /\ Reached(k, inbox[c])
        BY <2>1, <2>6
      <3>2. ~IsState(e) /\ ~Coming(queue)'
        BY <1>1, <1>2, <3>1 DEF Coming, IsState
      <3>3. Reached(k, q)
        BY <2>2, <2>3, <3>1, <3>2, ReachedKeeps
      <3>4. QED BY <1>2, <2>3, <3>2, <3>3 DEF Reached, LastIn, Coming
    <2>7. QED BY <2>4, <2>5, <2>6
  <1>11. QED BY <1>5, <1>8, <1>9, <1>10 DEF IInv

\* Events that are no state events are put in the shared queue: by a packet
\* that is read, and by the router.
LEMMA OthersQueued ==
    ASSUME IInv, NEW es \in Seq(Event), \A i \in 1..Len(es) : ~IsState(es[i]),
           Enqueue(es), UNCHANGED <<sent, subscribers, client, lost>>, packets' \in Nat,
           inbox' \in [Clients \cup {Router} -> Seq(Event)],
           \A s \in Clients \cup {Router} : Len(inbox'[s]) <= InboxSize,
           \A c \in Clients : inbox'[c] = inbox[c]
    PROVE  IInv'
  <1>1. queue \in Seq(Event) /\ Len(queue) <= QueueSize /\ QueueSize \in Nat
    BY FanoutAssumption DEF IInv, TypeOK
  <1>2. PICK q \in Seq(Event) :
          /\ q = queue' /\ Len(q) \in Len(queue)..QueueSize
          /\ \A i \in 1..Len(queue) : q[i] = queue[i]
          /\ \A i \in 1..Len(q) : i > Len(queue) =>
               i - Len(queue) \in 1..Len(es) /\ q[i] = es[i - Len(queue)]
    BY <1>1, PutFacts DEF Enqueue
  <1>3. ASSUME NEW i \in 1..Len(q), IsState(q[i])
        PROVE  i \in 1..Len(queue) /\ q[i] = queue[i]
    BY <1>1, <1>2, <1>3
  <1>4. TypeOK'
    BY <1>1, <1>2 DEF IInv, TypeOK
  <1>5. Ordered'
    <2>1. InOrder(queue)'
      BY <1>2, <1>3 DEF IInv, Ordered, InOrder
    <2>2. ASSUME NEW c \in Clients PROVE (InOrder(inbox[c]) /\ Before(inbox[c], queue))'
      BY <1>2, <1>3 DEF IInv, Ordered, InOrder, Before
    <2>3. QED BY <2>1, <2>2 DEF Ordered
  <1>6. (\A c \in Clients : Sends(client[c]))'
    BY DEF IInv, Sends
  <1>7. Underway'
    <2>1. LastIn(queue) => LastIn(queue)'
      BY <1>1, <1>2 DEF LastIn, State
    <2>2. ~Coming(queue) => ~Coming(queue)'
      BY <1>2, <1>3 DEF Coming, IsState
    <2>3. \A c \in Clients : Reached(client[c], inbox[c]) => Reached(client[c], inbox[c])'
      BY DEF Reached, LastIn, Coming
    <2>4. QED BY <2>1, <2>2, <2>3 DEF IInv, Underway
  <1>8. QED BY <1>4, <1>5, <1>6, <1>7 DEF IInv

LEMMA PacketReadPreserves == ASSUME IInv, PacketRead PROVE IInv'
  <1> DEFINE es == <<Other("packet")>>
  <1>1. es \in Seq(Event) /\ Len(es) = 1 /\ ~IsState(es[1])
    BY DEF Other, Event, Types, IsState
  <1>2. Enqueue(es) /\ UNCHANGED <<sent, subscribers, inbox, client, lost>> /\ packets' \in Nat
    BY DEF PacketRead, IInv, TypeOK
  <1> HIDE DEF es
  <1>3. /\ inbox' \in [Clients \cup {Router} -> Seq(Event)]
        /\ \A s \in Clients \cup {Router} : Len(inbox'[s]) <= InboxSize
        /\ \A c \in Clients : inbox'[c] = inbox[c]
    BY <1>2 DEF IInv, TypeOK
  <1>4. \A i \in 1..Len(es) : ~IsState(es[i])
    BY <1>1
  <1>5. QED BY <1>1, <1>2, <1>3, <1>4, OthersQueued

LEMMA RouterPreserves == ASSUME IInv, RouterStep PROVE IInv'
  <1>1. PICK es : es \in Routed(Head(inbox[Router])) /\ Enqueue(es)
    BY DEF RouterStep
  <1>2. es \in Seq(Event) /\ \A i \in 1..Len(es) : ~IsState(es[i])
    <2>1. es \in {<<>>, <<Other("text")>>, <<Other("text"), Other("data")>>}
      BY <1>1 DEF Routed
    <2>2. /\ Other("text") \in Event /\ Other("data") \in Event
          /\ ~IsState(Other("text")) /\ ~IsState(Other("data"))
      BY DEF Other, Event, Types, IsState
    <2> HIDE DEF Other
    <2>3. CASE es = <<>>
      BY <2>3
    <2>4. CASE es = <<Other("text")>>
      BY <2>2, <2>4
    <2>5. CASE es = <<Other("text"), Other("data")>>
      BY <2>2, <2>5
    <2>6. QED BY <2>1, <2>3, <2>4, <2>5
  <1>3. /\ UNCHANGED <<sent, packets, subscribers, client, lost>>
        /\ inbox[Router] \in Seq(Event) /\ inbox[Router] # <<>>
        /\ inbox' = [inbox EXCEPT ![Router] = Tail(@)]
    BY DEF RouterStep, IInv, TypeOK
  <1>4. Tail(inbox[Router]) \in Seq(Event) /\ Len(Tail(inbox[Router])) <= InboxSize
    BY <1>3, FanoutAssumption DEF IInv, TypeOK
  <1>5. /\ inbox' \in [Clients \cup {Router} -> Seq(Event)]
        /\ \A s \in Clients \cup {Router} : Len(inbox'[s]) <= InboxSize
        /\ \A c \in Clients : inbox'[c] = inbox[c]
    BY <1>3, <1>4, FanoutAssumption DEF IInv, TypeOK
  <1>6. packets' \in Nat
    BY <1>3 DEF IInv, TypeOK
  <1>7. QED BY <1>1, <1>2, <1>3, <1>5, <1>6, OthersQueued

\* A new queue, or none.
LEMMA SubscribingPreserves ==
    ASSUME IInv, NEW c \in Clients, SnapshotSent(c) \/ Unsubscribes(c)
    PROVE  IInv'
  <1> DEFINE k == client[c]
             q == <<>>
  <1>1. /\ k \in Handlers /\ Sends(k) /\ sent \in Nat
        /\ lost[c] \/ LastIn(queue) \/ (~Coming(queue) /\ Reached(k, inbox[c]))
    BY DEF IInv, TypeOK, Handlers, Underway
  <1>2. /\ UNCHANGED <<sent, packets, queue, lost>> /\ lost' \in [Clients -> BOOLEAN]
        /\ inbox' = [inbox EXCEPT ![c] = q]
    BY DEF SnapshotSent, Unsubscribes, IInv, TypeOK
  <1>3. q \in Seq(Event) /\ Len(q) <= InboxSize /\ InOrder(q) /\ Before(q, queue)
        /\ ~Coming(q)
    BY FanoutAssumption DEF InOrder, Before, Coming
  <1>4. CASE SnapshotSent(c)
    <2>1. PICK h : h = [k EXCEPT !.pc = "waiting", !.out = Nothing, !.shown = k.out.n]
      OBVIOUS
    <2>2. /\ client' = [client EXCEPT ![c] = h] /\ k.pc = "snapshot"
          /\ subscribers' = subscribers \cup {c}
      BY <1>4, <2>1 DEF SnapshotSent
    <2>3. h \in Handlers /\ h.pc = "waiting" /\ h.out = Nothing /\ h.shown = k.out.n
      BY <1>1, <2>1 DEF Handlers, Nothing, Other, Event, Types
    <2>4. Sends(h) /\ ~IsState(h.out)
      BY <2>3 DEF Sends, Nothing, Other, IsState
    <2>5. Reached(k, inbox[c]) => Reached(h, q)
      BY <1>3, <2>2, <2>3, <2>4 DEF Reached
    <2>6. lost'[c] \/ LastIn(queue) \/ (~Coming(queue) /\ Reached(h, q))
      BY <1>1, <1>2, <2>5
    <2>7. subscribers' = IF h.pc \in {"away", "snapshot"}
                         THEN subscribers \ {c} ELSE subscribers \cup {c}
      BY <2>2, <2>3
    <2> HIDE DEF k, q
    <2>8. QED BY <1>2, <1>3, <2>2, <2>3, <2>4, <2>6, <2>7, HandlerMoves
  <1>5. CASE Unsubscribes(c)
    <2>1. /\ client' = [client EXCEPT ![c] = Away] /\ k.pc = "ended"
          /\ subscribers' = subscribers \ {c}
      BY <1>5 DEF Unsubscribes
    <2>2. Away \in Handlers /\ Away.pc = "away" /\ Sends(Away)
      BY DEF Handlers, Away, Sends, Nothing, Other, Event, Types, Topics
    <2>3. lost'[c] \/ LastIn(queue) \/ (~Coming(queue) /\ Reached(Away, q))
      BY <1>1, <1>2, <2>2 DEF Reached
    <2>4. subscribers' = IF Away.pc \in {"away", "snapshot"}
                         THEN subscribers \ {c} ELSE subscribers \cup {c}
      BY <2>1, <2>2
    <2> HIDE DEF k, q
    <2>5. QED BY <1>2, <1>3, <2>1, <2>2, <2>3, <2>4, HandlerMoves
  <1>6. QED BY <1>4, <1>5

LEMMA TailFacts ==
    ASSUME NEW q \in Seq(Event), q # <<>>
    PROVE  /\ Tail(q) \in Seq(Event) /\ Len(Tail(q)) = Len(q) - 1
           /\ \A i \in 1..Len(Tail(q)) : i + 1 \in 1..Len(q) /\ Tail(q)[i] = q[i + 1]
  <1>1. Len(q) \in Nat /\ Len(q) # 0
    OBVIOUS
  <1>2. QED BY <1>1

\* The next event of its queue is sent, or passed over.
LEMMA TakesPreserves == ASSUME IInv, NEW c \in Clients, TakesEvent(c) PROVE IInv'
  <1> DEFINE k == client[c]
  <1>1. /\ k \in Handlers /\ k.pc = "waiting" /\ k.out = Nothing /\ sent \in Nat
        /\ inbox[c] \in Seq(Event) /\ inbox[c] # <<>> /\ Len(inbox[c]) <= InboxSize
        /\ InOrder(inbox[c]) /\ Before(inbox[c], queue)
        /\ lost[c] \/ LastIn(queue) \/ (~Coming(queue) /\ Reached(k, inbox[c]))
    BY DEF IInv, TypeOK, Handlers, Ordered, Underway, Sends, TakesEvent
  <1>2. PICK e \in Event : e = inbox[c][1] /\ e = Head(inbox[c])
    <2>1. inbox[c] \in Seq(Event) /\ inbox[c] # <<>>
      BY <1>1
    <2>2. QED BY ONLY <2>1
  <1>3. PICK q \in Seq(Event) :
          /\ q = Tail(inbox[c]) /\ Len(q) = Len(inbox[c]) - 1
          /\ \A i \in 1..Len(q) : i + 1 \in 1..Len(inbox[c]) /\ q[i] = inbox[c][i + 1]
    <2>1. PICK s \in Seq(Event) : s = inbox[c] /\ s # <<>>
      BY <1>1
    <2>2. QED BY <2>1, TailFacts
  <1>4. InboxSize \in Nat /\ Len(q) <= InboxSize
    BY <1>1, <1>3, FanoutAssumption
  <1>5. InOrder(q) /\ Before(q, queue)
    <2>1. InOrder(q)
      <3> SUFFICES ASSUME NEW i \in 1..Len(q), IsState(q[i])
                   PROVE  /\ q[i].n <= sent
                          /\ \A j \in 1..Len(q) : i < j /\ IsState(q[j]) => q[i].n < q[j].n
        BY DEF InOrder
      <3>1. i + 1 \in 1..Len(inbox[c]) /\ q[i] = inbox[c][i + 1]
        BY <1>3
      <3>2. /\ inbox[c][i + 1].n <= sent
            /\ \A j \in 1..Len(inbox[c]) :
                 i + 1 < j /\ IsState(inbox[c][j]) => inbox[c][i + 1].n < inbox[c][j].n
        BY <1>1, <3>1 DEF InOrder
      <3>3. QED BY <1>3, <3>1, <3>2
    <2>2. Before(q, queue)
      BY <1>1, <1>3 DEF Before
    <2>3. QED BY <2>1, <2>2
  <1>6. IsState(e) => \A j \in 1..Len(q) : IsState(q[j]) => e.n < q[j].n
    BY <1>1, <1>2, <1>3 DEF InOrder
  <1>7. PICK h : h = IF Wanted(c, e) THEN [k EXCEPT !.pc = "sending", !.out = e] ELSE k
    OBVIOUS
  <1>8. /\ client' = [client EXCEPT ![c] = h] /\ inbox' = [inbox EXCEPT ![c] = q]
        /\ Passes(e, IF Wanted(c, e) THEN {} ELSE {c})
        /\ UNCHANGED <<sent, packets, queue, subscribers>>
    BY <1>1, <1>2, <1>3, <1>7 DEF TakesEvent, IInv, TypeOK
  <1>9. h \in Handlers /\ Sends(h) /\ h.pc \in {"waiting", "sending"}
        /\ h.shown = k.shown /\ h.out = IF Wanted(c, e) THEN e ELSE Nothing
    BY <1>1, <1>7 DEF Handlers, Sends
  <1>10. /\ lost' \in [Clients -> BOOLEAN]
         /\ \A d \in Clients \ {c} : lost'[d] = lost[d]
         /\ lost'[c] <=> lost[c] \/ (~Wanted(c, e) /\ e = State(sent))
    BY <1>8 DEF Passes, IInv, TypeOK
  <1>11. subscribers' = IF h.pc \in {"away", "snapshot"}
                        THEN subscribers \ {c} ELSE subscribers \cup {c}
    BY <1>1, <1>8, <1>9 DEF IInv, TypeOK
  <1>12. ASSUME ~lost'[c], Reached(k, inbox[c]) PROVE Reached(h, q)
    <2>1. CASE e = State(sent)
      <3>1. Wanted(c, e) /\ h.out = State(sent)
        BY <1>9, <1>10, <1>12, <2>1
      <3>2. ASSUME NEW j \in 1..Len(q), IsState(q[j]) PROVE FALSE
        <4>1. sent < q[j].n
          BY <1>6, <2>1, <3>2 DEF State, IsState
        <4>2. q[j].n <= sent
          BY <1>5, <3>2 DEF InOrder
        <4>3. q[j] \in Event
          OBVIOUS
        <4>4. QED BY <1>1, <4>1, <4>2, <4>3 DEF Event
      <3>3. QED BY <1>9, <3>1, <3>2 DEF Reached, Coming, IsState
    <2>2. CASE e # State(sent) /\ LastIn(inbox[c])
      <3>1. PICK i \in 1..Len(inbox[c]) : inbox[c][i] = State(sent)
        BY <2>2 DEF LastIn
      <3>2. i # 1
        BY <1>2, <2>2, <3>1
      <3>3. i - 1 \in 1..Len(q) /\ q[i - 1] = State(sent)
        BY <1>3, <3>1, <3>2
      <3>4. QED BY <1>9, <3>3 DEF Reached, LastIn
    <2>3. CASE ~LastIn(inbox[c])
      <3>1. ~Coming(inbox[c]) /\ k.shown = sent
        BY <1>1, <1>12, <2>3 DEF Reached, Nothing, Other, State
      <3>2. ~IsState(e) /\ ~Coming(q)
        BY <1>1, <1>2, <1>3, <3>1 DEF Coming, IsState
      <3>3. ~IsState(h.out)
        BY <1>9, <3>2 DEF Nothing, Other, IsState
      <3>4. QED BY <1>9, <3>1, <3>2, <3>3 DEF Reached
    <2>4. QED BY <2>1, <2>2, <2>3
  <1>13. lost'[c] \/ LastIn(queue) \/ (~Coming(queue) /\ Reached(h, q))
    BY <1>1, <1>10, <1>12
  <1> HIDE DEF k
  <1>14. QED BY <1>4, <1>5, <1>8, <1>9, <1>10, <1>11, <1>13, HandlerMoves

\* A new state event is made, and put in the shared queue if that has room.
LEMMA StatePreserves == ASSUME IInv, StateChanges PROVE IInv'
  <1>1. sent \in Nat /\ QueueSize \in Nat /\ queue \in Seq(Event) /\ Len(queue) <= QueueSize
    BY FanoutAssumption DEF IInv, TypeOK
  <1>2. PICK data \in {<<>>, <<Other("data"), Other("data")>>} :
          Enqueue(<<State(sent + 1)>> \o data)
    BY DEF StateChanges
  <1>3. /\ sent' = sent + 1 /\ UNCHANGED <<packets, subscribers, inbox, client>>
        /\ lost' = [c \in Clients |-> Len(queue) = QueueSize]
    BY DEF StateChanges
  <1>4. PICK es \in Seq(Event) :
          /\ Enqueue(es) /\ Len(es) > 0 /\ es[1] = State(sent + 1)
          /\ \A i \in 1..Len(es) : i > 1 => ~IsState(es[i])
    <2> DEFINE x == State(sent + 1)
               o == Other("data")
    <2>1. x \in Event /\ o \in Event /\ ~IsState(o) /\ data \in {<<>>, <<o, o>>}
      BY <1>1 DEF State, Other, Event, Types, IsState
    <2> HIDE DEF x, o
    <2>2. data \in Seq(Event) /\ \A i \in 1..Len(data) : ~IsState(data[i])
      <3>1. CASE data = <<>>
        BY <3>1
      <3>2. CASE data = <<o, o>>
        BY <2>1, <3>2
      <3>3. QED BY <2>1, <3>1, <3>2
    <2>3. /\ <<x>> \o data \in Seq(Event) /\ Len(<<x>> \o data) = Len(data) + 1
          /\ (<<x>> \o data)[1] = x
          /\ \A i \in 1..Len(<<x>> \o data) :
               i > 1 => i - 1 \in 1..Len(data) /\ (<<x>> \o data)[i] = data[i - 1]
      BY <2>1, <2>2
    <2>4. PICK es \in Seq(Event) : es = <<x>> \o data
      BY <2>3
    <2>5. Enqueue(es) /\ es[1] = State(sent + 1)
      BY <1>2, <2>3, <2>4 DEF x
    <2>6. Len(es) > 0 /\ \A i \in 1..Len(es) : i > 1 => ~IsState(es[i])
      BY <2>2, <2>3, <2>4
    <2>7. QED BY <2>5, <2>6
  <1>5. PICK q \in Seq(Event) :
          /\ q = queue' /\ Len(q) \in Len(queue)..QueueSize
          /\ Len(queue) < QueueSize => Len(q) > Len(queue)
          /\ \A i \in 1..Len(queue) : q[i] = queue[i]
          /\ \A i \in 1..Len(q) : i > Len(queue) =>
               i - Len(queue) \in 1..Len(es) /\ q[i] = es[i - Len(queue)]
    <2>1. PICK q : q = Put(queue, QueueSize, es)
      OBVIOUS
    <2>2. queue' = q
      BY <1>4, <2>1 DEF Enqueue
    <2>3. /\ q \in Seq(Event) /\ Len(q) \in Len(queue)..QueueSize
          /\ Len(queue) < QueueSize /\ Len(es) > 0 => Len(q) > Len(queue)
          /\ \A i \in 1..Len(queue) : q[i] = queue[i]
          /\ \A i \in 1..Len(q) : i > Len(queue) =>
               i - Len(queue) \in 1..Len(es) /\ q[i] = es[i - Len(queue)]
      <3>1. es \in Seq(Event)
        OBVIOUS
      <3>2. PICK r \in Seq(Event) : r = queue
        BY <1>1
      <3>3. QueueSize \in Nat /\ Len(r) <= QueueSize /\ q = Put(r, QueueSize, es)
        BY ONLY <1>1, <2>1, <3>2
      <3>4. /\ q \in Seq(Event) /\ Len(q) \in Len(r)..QueueSize
            /\ Len(r) < QueueSize /\ Len(es) > 0 => Len(q) > Len(r)
            /\ \A i \in 1..Len(r) : q[i] = r[i]
            /\ \A i \in 1..Len(q) : i > Len(r) =>
                 i - Len(r) \in 1..Len(es) /\ q[i] = es[i - Len(r)]
        BY ONLY <3>1, <3>2, <3>3, PutFacts, ZenonT(30)
      <3>5. QED BY <3>2, <3>4
    <2>4. QED BY <1>4, <2>2, <2>3
  <1>6. ASSUME NEW i \in 1..Len(q), IsState(q[i])
        PROVE  \/ i \in 1..Len(queue) /\ q[i] = queue[i]
               \/ i = Len(queue) + 1 /\ q[i] = State(sent + 1)
    BY <1>1, <1>4, <1>5, <1>6
  <1>7. TypeOK'
    BY <1>1, <1>3, <1>5 DEF IInv, TypeOK
  <1>8. Ordered'
    <2>1. State(sent + 1).n = sent + 1
      BY DEF State
    <2>2. ASSUME NEW i \in 1..Len(queue), IsState(queue[i])
          PROVE  queue[i].n <= sent /\ queue[i].n \in Nat
      <3>1. queue[i].n <= sent
        BY <2>2 DEF IInv, Ordered, InOrder
      <3>2. queue[i] \in Event
        BY <1>1
      <3>3. QED BY <3>1, <3>2 DEF Event
    <2>3. InOrder(queue)'
      <3> SUFFICES ASSUME NEW i \in 1..Len(q), IsState(q[i])
                   PROVE  /\ q[i].n <= sent + 1
                          /\ \A j \in 1..Len(q) : i < j /\ IsState(q[j]) => q[i].n < q[j].n
        BY <1>3, <1>5 DEF InOrder
      <3>1. CASE i \in 1..Len(queue) /\ q[i] = queue[i]
        <4>1. \A j \in 1..Len(queue) : i < j /\ IsState(queue[j]) => queue[i].n < queue[j].n
          BY <3>1 DEF IInv, Ordered, InOrder
        <4>2. queue[i].n <= sent /\ queue[i].n \in Nat
          BY <2>2, <3>1
        <4>3. ASSUME NEW j \in 1..Len(q), i < j, IsState(q[j])
              PROVE  q[i].n < q[j].n
          <5>1. CASE j \in 1..Len(queue) /\ q[j] = queue[j]
            BY <3>1, <4>1, <4>3, <5>1
          <5>2. CASE q[j] = State(sent + 1)
            BY <1>1, <2>1, <3>1, <4>2, <5>2
          <5>3. QED BY <1>6, <4>3, <5>1, <5>2
        <4>4. QED BY <1>1, <3>1, <4>2, <4>3
      <3>2. CASE i = Len(queue) + 1 /\ q[i] = State(sent + 1)
        BY <1>1, <1>6, <2>1, <3>2
      <3>3. QED BY <1>6, <3>1, <3>2
    <2>4. ASSUME NEW c \in Clients PROVE (InOrder(inbox[c]) /\ Before(inbox[c], queue))'
      <3>1. ASSUME NEW i \in 1..Len(inbox[c]), IsState(inbox[c][i])
            PROVE  inbox[c][i].n <= sent /\ inbox[c][i].n \in Nat
        <4>1. inbox[c][i].n <= sent
          BY <3>1 DEF IInv, Ordered, InOrder
        <4>2. inbox[c][i] \in Event
          BY DEF IInv, TypeOK
        <4>3. QED BY <4>1, <4>2 DEF Event
      <3>2. InOrder(inbox[c])'
        <4>1. \A i, j \in 1..Len(inbox[c]) :
                i < j /\ IsState(inbox[c][i]) /\ IsState(inbox[c][j])
                  => inbox[c][i].n < inbox[c][j].n
          BY DEF IInv, Ordered, InOrder
        <4>2. \A i \in 1..Len(inbox[c]) : IsState(inbox[c][i]) => inbox[c][i].n <= sent + 1
          BY <1>1, <3>1
        <4>3. QED BY <1>3, <4>1, <4>2 DEF InOrder
      <3>3. Before(inbox[c], queue)'
        <4> SUFFICES ASSUME NEW i \in 1..Len(inbox[c]), NEW j \in 1..Len(q),
                            IsState(inbox[c][i]), IsState(q[j])
                     PROVE  inbox[c][i].n < q[j].n
          BY <1>3, <1>5 DEF Before
        <4>1. inbox[c][i].n <= sent /\ inbox[c][i].n \in Nat
          BY <3>1
        <4>2. CASE j \in 1..Len(queue) /\ q[j] = queue[j]
          BY <4>2 DEF IInv, Ordered, Before
        <4>3. CASE q[j] = State(sent + 1)
          BY <1>1, <2>1, <4>1, <4>3
        <4>4. QED BY <1>6, <4>2, <4>3
      <3>4. QED BY <3>2, <3>3
    <2>5. QED BY <2>3, <2>4 DEF Ordered
  <1>9. (\A c \in Clients : Sends(client[c]))'
    BY <1>1, <1>3 DEF IInv, TypeOK, Sends, Event
  <1>10. Underway'
    <2>1. CASE Len(queue) = QueueSize
      BY <1>3, <2>1 DEF Underway
    <2>2. CASE Len(queue) < QueueSize
      <3>1. Len(queue) + 1 \in 1..Len(q) /\ q[Len(queue) + 1] = State(sent + 1)
        <4>1. Len(queue) + 1 \in 1..Len(q) /\ Len(queue) + 1 > Len(queue)
          BY <1>1, <1>5, <2>2
        <4>2. (Len(queue) + 1) - Len(queue) = 1
          BY <1>1
        <4>3. q[Len(queue) + 1] = es[1]
          BY <1>5, <4>1, <4>2
        <4>4. QED BY <1>4, <4>1, <4>3
      <3>2. LastIn(queue)'
        BY <1>3, <1>5, <3>1 DEF LastIn, State
      <3>3. QED BY <3>2 DEF Underway
    <2>3. QED BY <1>1, <2>1, <2>2
  <1>11. QED BY <1>7, <1>8, <1>9, <1>10 DEF IInv

\* Whatever is dropped, missed, passed over or late: the last state event is
\* lost to a client, or has got as far as to it, in order, and nothing older
\* comes behind it (ble_device.py:359-366, server.py:576-636, 797-803).
THEOREM LastStateArrives == Spec => []IInv
  <1>1. Init => IInv
    <2> SUFFICES ASSUME Init PROVE IInv
      OBVIOUS
    <2> USE DEF Init
    <2>1. TypeOK
      BY FanoutAssumption DEF TypeOK, Away, Nothing, Other, Event, Types, Topics
    <2>2. Ordered
      BY DEF Ordered, InOrder, Before
    <2>3. \A c \in Clients : Sends(client[c])
      BY DEF Sends, Away
    <2>4. Underway
      <3>1. ~Coming(queue) /\ \A c \in Clients : client[c].pc = "away"
        BY DEF Coming, Away
      <3>2. QED BY <3>1 DEF Underway, Reached
    <2>5. QED BY <2>1, <2>2, <2>3, <2>4 DEF IInv
  <1>2. IInv /\ [Next]_vars => IInv'
    <2> SUFFICES ASSUME IInv, [Next]_vars PROVE IInv'
      OBVIOUS
    <2>1. CASE UNCHANGED vars
      <3>1. UNCHANGED <<sent, packets, queue, subscribers, inbox, client, lost>>
        BY <2>1 DEF vars
      <3>2. QED BY <3>1 DEF IInv, TypeOK, Ordered, InOrder, Before, Sends, Underway, LastIn,
                            Coming, Reached
    <2>2. QED
      BY <2>1, StatePreserves, PacketReadPreserves, BroadcastPreserves, DrainPreserves,
         RouterPreserves, HandlerPreserves, SubscribingPreserves, TakesPreserves
      DEF Next, SendLoop
  <1>3. QED BY <1>1, <1>2, PTL DEF Spec

\* When nothing more is on its way to it, a client shows the state the device
\* is in, or the very last state event is one it lost; and exactly the
\* connections past their snapshot are subscribed.
THEOREM ClientsShowTheState == Spec => []FanoutInv
  <1>1. IInv => FanoutInv
    <2> SUFFICES ASSUME IInv, NEW c \in Clients,
                        client[c].pc = "waiting", ~Coming(queue), ~Coming(inbox[c]), ~lost[c]
                 PROVE  client[c].shown = sent
      BY DEF IInv, FanoutInv, ShownIsCurrent
    <2>1. ~LastIn(queue) /\ ~LastIn(inbox[c])
      BY DEF LastIn, Coming, State
    <2>2. Reached(client[c], inbox[c]) /\ client[c].out = Nothing
      BY <2>1 DEF IInv, Underway, Sends
    <2>3. QED BY <2>1, <2>2 DEF Reached, Nothing, Other, State
  <1>2. QED BY <1>1, LastStateArrives, PTL

=============================================================================
