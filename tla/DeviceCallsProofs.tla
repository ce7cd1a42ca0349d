--------------------------- MODULE DeviceCallsProofs ---------------------------
(***************************************************************************)
(* What start() and stop() promise when no start() overlaps another call,  *)
(* for any number of calls.  No lock says so: a call finds the device with *)
(* one task, or none and OFFLINE, and one listener, or none, and any       *)
(* number of stop() wait for the same two.                                 *)
(***************************************************************************)
EXTENDS DeviceCalls, TcpGateway, FiniteSetTheorems, TLAPS

\* The listeners the device may have: they are not closed with all they had.
Bound(g) == server[g] \in Open

\* A start() is under way alone.
StartAlone ==
    \A c, d \in Calls : call[c] = "opening" /\ call[d] \in Suspended => c = d

\* _conn_task is the only task that can be alive, even while stop() awaits it,
\* and it has been cancelled only by a stop() that awaits it.
TaskIsKnown ==
    \A t \in Calls :
        /\ Alive(t) => connTask = t
        /\ task[t] = "cancelled" => \E c \in Calls : call[c] = "awaitConn" /\ awaited[c] = t

\* _tcp_gateway is the only gateway with a socket, and only its stop() closes it.
SocketIsKnown ==
    \A g \in Calls :
        /\ Bound(g) => gateway = g
        /\ server[g] \in {"closing", "held"} => \E c \in Calls : call[c] = "awaitGateway"

\* What a suspended call can rely on when it is resumed.
ResumesAsLeft ==
    \A c \in Calls :
        /\ call[c] = "opening" => gateway = c /\ \A t \in Calls : ~Alive(t) /\ ~Bound(t)
        /\ call[c] = "awaitConn" => \A t \in Calls : Alive(t) => awaited[c] = t
        /\ call[c] = "awaitGateway" =>
             \A t \in Calls : ~Alive(t) /\ server[t] # "listening" /\ (Bound(t) => awaited[c] = t)

\* A call not yet made has left no trace, and no stop() awaits the gateway of
\* one.
Unmade ==
    \A c \in Calls :
        /\ call[c] \in {"new", "opening"} =>
              task[c] = "none" /\ server[c] = "none" /\ pos[c] = "OFFLINE"
        /\ call[c] = "awaitGateway" => server[awaited[c]] # "none"

\* The states of a device that is not updating and not blocked, which every
\* task knows how to leave.
UsualStates ==
    {"OFFLINE", "CONNECTING", "DISCOVERING", "SYNCING", "READY", "RECONNECTING"}
Usual == state \in UsualStates /\ \A t \in Calls : pos[t] \in UsualStates

\* A task shows its own state, and no task is OFFLINE, but for the time a
\* stop() needs to come to that.
Shows ==
    /\ \A t \in Calls : Alive(t) => state = pos[t]
    /\ \/ state = "OFFLINE"
       \/ \E t \in Calls : Alive(t)
       \/ \E c \in Calls : call[c] \in {"awaitConn", "awaitGateway"}

Serial ==
    ~overlapped =>
        StartAlone /\ TaskIsKnown /\ SocketIsKnown /\ ResumesAsLeft /\ Shows

IInv == TypeOK /\ Unmade /\ Usual /\ Serial

\* From a usual state a task asks for usual states, or to scan, and the crash
\* handler comes to OFFLINE.
LEMMA UsualMoves ==
    ASSUME NEW p \in UsualStates
    PROVE  /\ Asks(p) \subseteq UsualStates \cup {"SCANNING"}
           /\ Recovered(p) = "OFFLINE"
  BY DEF UsualStates, Asks, Recovered, Legal, NeedsOtaErrorToOffline

LEMMA UsualIsState == UsualStates \subseteq States
  BY DEF UsualStates, States

\* A call begins unnoticed by others only if none of its rivals is under way.
LEMMA BeginsAlone ==
    ASSUME TypeOK, NEW c \in Calls, NEW rivals, Begins(c, rivals)
    PROVE  /\ overlapped' \in BOOLEAN
           /\ overlapped' = FALSE =>
                overlapped = FALSE /\ \A d \in Calls : call[d] \notin rivals
  BY DEF TypeOK, Begins

LEMMA StartPreserves ==
    ASSUME IInv, NEW c \in Calls, StartAgain(c) \/ StartDirectly(c) \/ StartGateway(c)
    PROVE  IInv'
  <1> USE CallsAssumption
      DEF IInv, TypeOK, Unmade, Usual, Serial, StartAlone, TaskIsKnown, SocketIsKnown,
          ResumesAsLeft, Shows, Alive, Bound, Open, Suspended, Begins, MoveCall, ConnAlive
  <1>1. CASE StartAgain(c)
    BY <1>1 DEF StartAgain
  <1>2. CASE StartDirectly(c)
    BY <1>2, ZenonT(60) DEF StartDirectly, CreateTask
  <1>3. CASE StartGateway(c)
    BY <1>3, ZenonT(60) DEF StartGateway
  <1>4. QED BY <1>1, <1>2, <1>3

LEMMA BindPreserves ==
    ASSUME IInv, NEW c \in Calls, GatewayOpens(c) \/ GatewayFails(c)
    PROVE  IInv'
  <1> USE CallsAssumption
      DEF IInv, TypeOK, Unmade, Usual, Serial, StartAlone, TaskIsKnown, SocketIsKnown,
          ResumesAsLeft, Shows, Alive, Bound, Open, Suspended, MoveCall
  <1>1. CASE GatewayOpens(c)
    BY <1>1 DEF GatewayOpens, CreateTask
  <1>2. CASE GatewayFails(c)
    BY <1>2 DEF GatewayFails
  <1>3. QED BY <1>1, <1>2

\* stop() from where it comes to the connection task.
LEMMA CancelPreserves ==
    ASSUME IInv, NEW c \in Calls, CancelConn(c), call[c] \in {"new", "awaitHelpers"},
           UNCHANGED <<tcpPort, pos>>, overlapped' \in BOOLEAN,
           overlapped' = FALSE => overlapped = FALSE /\ \A d \in Calls : call[d] # "opening"
    PROVE  IInv'
  <1> USE CallsAssumption
      DEF IInv, TypeOK, Unmade, Usual, Serial, StartAlone, TaskIsKnown, SocketIsKnown,
          ResumesAsLeft, Shows, Alive, Bound, Open, Suspended, MoveCall, ConnAlive
  <1>1. CASE ConnAlive
    BY <1>1 DEF CancelConn
  <1>2. CASE ~ConnAlive /\ SocketOpen
    BY <1>2 DEF CancelConn, CloseGateway, SocketOpen
  <1>3. CASE ~ConnAlive /\ ~SocketOpen
    BY <1>3, UsualIsState DEF CancelConn, CloseGateway, SocketOpen, UsualStates
  <1>4. QED BY <1>1, <1>2, <1>3

LEMMA StopPreserves ==
    ASSUME IInv, NEW c \in Calls,
           StopCalled(c) \/ HelpersEnded(c) \/ ConnEnded(c) \/ GatewayClosed(c)
    PROVE  IInv'
  <1>1. CASE StopCalled(c) /\ CancelConn(c)
    BY <1>1, CancelPreserves DEF StopCalled, Begins, IInv, TypeOK, Suspended
  <1>2. CASE StopCalled(c) /\ ~CancelConn(c)
    <2>1. /\ MoveCall(c, "awaitHelpers")
          /\ UNCHANGED <<tcpPort, pos, awaited, connTask, gateway, server, task, state>>
          /\ call[c] = "new"
          /\ \E t \in Calls : Alive(t)
      BY <1>2 DEF StopCalled, Begins
    <2>2. /\ overlapped' \in BOOLEAN
          /\ overlapped' = FALSE =>
                overlapped = FALSE /\ \A d \in Calls : call[d] # "opening"
      BY <1>2, BeginsAlone DEF StopCalled, IInv
    <2>3. QED
      BY <2>1, <2>2
      DEF MoveCall, Suspended, IInv, TypeOK, Unmade, Usual, Serial, StartAlone,
          TaskIsKnown, SocketIsKnown, ResumesAsLeft, Shows, Alive, Bound, Open
  <1>3. CASE HelpersEnded(c)
    BY <1>3, CancelPreserves DEF HelpersEnded, IInv, TypeOK, Suspended, Serial, StartAlone
  <1> USE CallsAssumption
      DEF IInv, TypeOK, Unmade, Usual, Serial, StartAlone, TaskIsKnown, SocketIsKnown,
          ResumesAsLeft, Shows, Alive, Bound, Open, Suspended, MoveCall
  <1>4. CASE ConnEnded(c) /\ SocketOpen
    BY <1>4 DEF ConnEnded, CloseGateway, SocketOpen
  <1>5. CASE ConnEnded(c) /\ ~SocketOpen
    BY <1>5, UsualIsState DEF ConnEnded, CloseGateway, SocketOpen, UsualStates
  <1>6. CASE GatewayClosed(c)
    <2>1. awaited[c] \in Calls /\ server[awaited[c]] # "none"
      BY <1>6 DEF GatewayClosed
    <2>2. /\ server' = [server EXCEPT ![awaited[c]] = "closed"]
          /\ call' = [call EXCEPT ![c] = "returned"]
          /\ gateway' = None /\ state' = "OFFLINE"
          /\ UNCHANGED <<tcpPort, awaited, connTask, task, pos, overlapped>>
      BY <1>6 DEF GatewayClosed
    <2>3. TypeOK' /\ Unmade' /\ Usual'
      BY <2>1, <2>2, UsualIsState DEF UsualStates
    <2>4. ASSUME ~overlapped PROVE StartAlone' /\ TaskIsKnown' /\ ResumesAsLeft' /\ Shows'
      BY <1>6, <2>1, <2>2, <2>4 DEF GatewayClosed
    <2>5. ASSUME ~overlapped PROVE SocketIsKnown'
      <3>1. \A g \in Calls : server[g] \in Open => awaited[c] = g
        BY <1>6, <2>5 DEF GatewayClosed
      <3>2. \A g \in Calls : server'[g] \notin Open
        BY <2>1, <2>2, <3>1
      <3>3. QED BY <3>2
    <2>6. QED BY <2>2, <2>3, <2>4, <2>5
  <1>7. QED BY <1>1, <1>2, <1>3, <1>4, <1>5, <1>6

LEMMA TaskPreserves ==
    ASSUME IInv, NEW t \in Calls, TaskStep(t)
    PROVE  IInv'
  <1> USE CallsAssumption, UsualIsState
      DEF IInv, TypeOK, Unmade, Usual, Serial, StartAlone, TaskIsKnown, SocketIsKnown,
          ResumesAsLeft, Shows, Alive, Bound, Open, Suspended, Shown
  <1>1. CASE TaskMoves(t)
    <2>1. PICK s \in Asks(pos[t]) : Shown(t, IF s = "SCANNING" THEN "CONNECTING" ELSE s)
      BY <1>1 DEF TaskMoves
    <2>2. PICK u \in UsualStates : Shown(t, u)
      <3>1. s \in UsualStates \cup {"SCANNING"}
        BY <2>1, UsualMoves
      <3>2. QED BY <2>1, <3>1 DEF UsualStates
    <2>3. QED BY <1>1, <2>2 DEF TaskMoves
  <1>2. Recovered(state) = "OFFLINE" /\ "OFFLINE" \in UsualStates
    BY UsualMoves DEF UsualStates
  <1>3. CASE TaskRefused(t)
    BY <1>2, <1>3 DEF TaskRefused
  <1>4. CASE TaskEnds(t)
    BY <1>2, <1>4 DEF TaskEnds
  <1>5. CASE TaskCancelled(t)
    BY <1>5 DEF TaskCancelled
  <1>6. CASE TaskSwallows(t)
    BY <1>6 DEF TaskSwallows
  <1>7. QED BY <1>1, <1>3, <1>4, <1>5, <1>6 DEF TaskStep

LEMMA ClientPreserves ==
    ASSUME IInv, NEW g \in Calls, ClientGoes(g)
    PROVE  IInv'
  BY DEF ClientGoes, IInv, TypeOK, Unmade, Usual, Serial, StartAlone, TaskIsKnown, SocketIsKnown,
         ResumesAsLeft, Shows, Alive, Bound, Open, Suspended

\* Whatever the calls and the tasks do, a call that no start() overlaps finds
\* the task and the listener it has to deal with, and no more than one of each
\* (ble_device.py:372-449).
THEOREM InductiveInvariant == Spec => []IInv
  <1>1. Init => IInv
    <2> SUFFICES ASSUME Init PROVE IInv
      OBVIOUS
    <2>1. "OFFLINE" \in UsualStates /\ "OFFLINE" \in States
      BY UsualIsState DEF UsualStates
    <2>2. TypeOK
      BY <2>1, CallsAssumption DEF Init, TypeOK, Suspended
    <2>3. Unmade /\ Usual
      BY <2>1 DEF Init, Unmade, Usual
    <2>4. Serial
      BY DEF Init, Serial, StartAlone, TaskIsKnown, SocketIsKnown, ResumesAsLeft, Shows,
             Alive, Bound, Open, Suspended
    <2>5. QED BY <2>2, <2>3, <2>4 DEF IInv
  <1>2. IInv /\ [Next]_vars => IInv'
    <2> SUFFICES ASSUME IInv, [Next]_vars PROVE IInv'
      OBVIOUS
    <2>1. CASE UNCHANGED vars
      BY <2>1 DEF IInv, TypeOK, Unmade, Usual, Serial, StartAlone, TaskIsKnown, SocketIsKnown,
                  ResumesAsLeft, Shows, Alive, Bound, Open, vars
    <2>2. QED
      BY <2>1, StartPreserves, BindPreserves, StopPreserves, TaskPreserves, ClientPreserves
      DEF Next, CallStep
  <1>3. QED BY <1>1, <1>2, PTL DEF Spec

\* Of calls no start() overlaps, a device has one connection task, which shows
\* what it does, and one listener, both within reach of stop()
\* (ble_device.py:373-374, 410-419, 425).
THEOREM CallsCorrect == Spec => []CallsInv
  <1>1. ASSUME IInv PROVE CallsInv
    <2>1. ASSUME ~overlapped PROVE OneTask
      <3> DEFINE T == {t \in Calls : Alive(t)}
      <3>1. T = {} \/ T = {connTask}
        BY <1>1, <2>1 DEF IInv, Serial, TaskIsKnown
      <3>2. Cardinality({}) = 0 /\ Cardinality({connTask}) = 1
        BY FS_EmptySet, FS_Singleton
      <3>3. QED BY <3>1, <3>2 DEF OneTask
    <2>2. SerialCallsOneTask
      BY <1>1, <2>1 DEF IInv, Serial, Shows, SerialCallsOneTask
    <2>3. SerialCallsInReach
      BY <1>1 DEF IInv, Serial, TaskIsKnown, SocketIsKnown, Bound, Open, SerialCallsInReach
    <2>4. QED BY <1>1, <2>2, <2>3 DEF IInv, CallsInv
  <1>2. QED BY <1>1, InductiveInvariant, PTL

\* A stop() that awaited anything, and that no start() overlapped, leaves no
\* task, no socket and OFFLINE (ble_device.py:391, "hard shutdown from any
\* state"), however many others are under way.
THEOREM StopCompletes == Spec => StopIsComplete
  <1> DEFINE Complete ==
        \A c \in Calls :
          /\ ~overlapped
          /\ call[c] \in {"awaitHelpers", "awaitConn", "awaitGateway"}
          /\ call'[c] = "returned"
          => /\ \A t \in Calls : task'[t] \in {"none", "ended"}
             /\ \A g \in Calls : server'[g] \in {"none", "closed"}
             /\ state' = "OFFLINE"
  <1>1. IInv /\ [Next]_vars => [Complete]_vars
    <2> SUFFICES ASSUME IInv, Next, NEW c \in Calls, ~overlapped,
                        call[c] \in {"awaitHelpers", "awaitConn", "awaitGateway"},
                        call'[c] = "returned"
                 PROVE  /\ \A t \in Calls : task'[t] \in {"none", "ended"}
                        /\ \A g \in Calls : server'[g] \in {"none", "closed"}
                        /\ state' = "OFFLINE"
      OBVIOUS
    <2> USE DEF IInv, TypeOK, Serial, StartAlone, TaskIsKnown, SocketIsKnown, ResumesAsLeft,
                Alive, Bound, Open, Suspended, MoveCall
    <2>1. HelpersEnded(c) \/ ConnEnded(c) \/ GatewayClosed(c)
      <3>1. PICK d \in Calls : CallStep(d) \/ TaskStep(d) \/ ClientGoes(d)
        BY DEF Next
      <3>2. c = d /\ CallStep(d)
        BY <3>1 DEF CallStep, TaskStep, StartAgain, StartDirectly, StartGateway, CreateTask,
                    GatewayOpens, GatewayFails, StopCalled, HelpersEnded, ConnEnded,
                    GatewayClosed, CancelConn, CloseGateway, TaskMoves, TaskRefused,
                    TaskEnds, TaskCancelled, TaskSwallows, ClientGoes, Begins
      <3>3. QED BY <3>2 DEF CallStep, StartAgain, StartDirectly, StartGateway,
                            GatewayOpens, GatewayFails, StopCalled, Begins
    <2>2. CASE HelpersEnded(c)
      BY <2>2 DEF HelpersEnded, CancelConn, CloseGateway, ConnAlive, SocketOpen
    <2>3. CASE ConnEnded(c)
      BY <2>3 DEF ConnEnded, CloseGateway, SocketOpen
    <2>4. CASE GatewayClosed(c)
      BY <2>4 DEF GatewayClosed
    <2>5. QED BY <2>1, <2>2, <2>3, <2>4
  <1>2. QED BY <1>1, InductiveInvariant, PTL DEF Spec, StopIsComplete

\* A step that touches no call, or none that stops, and neither the task nor
\* the listener of the device, is not seen.
LEMMA Unseen ==
    ASSUME StopUnderWay' <=> StopUnderWay, ConnAlive' <=> ConnAlive, SocketOpen' <=> SocketOpen
    PROVE  Seen' = Seen
  BY DEF Seen

\* What a stop() does when it comes to the task is seen as its beginning, its
\* end, or not at all.
LEMMA CancelIsSeen ==
    ASSUME IInv, NEW c \in Calls, call[c] \in {"new", "awaitHelpers"}, CancelConn(c)
    PROVE  Object!Next \/ Seen' = Seen
  <1> USE DEF IInv, TypeOK, MoveCall, Suspended
  <1>2. ASSUME ConnAlive PROVE Object!Next \/ Seen' = Seen
    <2>1. StopUnderWay'
      BY <1>2 DEF CancelConn, StopUnderWay
    <2>2. Seen' = "stopping" /\ Seen \in {"stopping", "live"}
      BY <1>2, <2>1 DEF Seen
    <2>3. QED BY <2>2 DEF Object!Next, Object!StopSuspends
  <1>3. ASSUME ~ConnAlive, SocketOpen PROVE Object!Next \/ Seen' = Seen
    <2>1. StopUnderWay'
      BY <1>3 DEF CancelConn, CloseGateway, StopUnderWay
    <2>2. Seen' = "stopping" /\ Seen \in {"stopping", "ended"}
      BY <1>3, <2>1 DEF Seen
    <2>3. QED BY <2>2 DEF Object!Next, Object!StopSuspends
  <1>4. ASSUME ~ConnAlive, ~SocketOpen PROVE Object!Next \/ Seen' = Seen
    <2>1. /\ call' = [call EXCEPT ![c] = "returned"]
          /\ gateway' = None /\ UNCHANGED <<task, connTask>>
      BY <1>4 DEF CancelConn, CloseGateway
    <2>2. ~ConnAlive' /\ ~SocketOpen'
      BY <1>4, <2>1, CallsAssumption DEF ConnAlive, Alive, SocketOpen
    <2>3. StopUnderWay' => StopUnderWay
      BY <2>1 DEF StopUnderWay
    <2>4. Seen \in {"stopping", "offline"} /\ Seen' \in {Seen, "offline"}
      BY <1>4, <2>2, <2>3 DEF Seen
    <2>5. QED BY <2>4 DEF Object!Next, Object!StopReturns
  <1>5. QED BY <1>2, <1>3, <1>4

\* The steps of start().
LEMMA StartIsSeen ==
    ASSUME IInv, ~overlapped, NEW c \in Calls,
           \A d \in Calls : d # c => call[d] \notin Suspended,
           \/ StartAgain(c) \/ StartDirectly(c) \/ StartGateway(c)
           \/ GatewayOpens(c) \/ GatewayFails(c)
    PROVE  Object!Next \/ Seen' = Seen
  <1> USE DEF IInv, TypeOK, MoveCall, Suspended
  <1>1. ~StopUnderWay /\ ~StopUnderWay'
    BY DEF StopUnderWay, StartAgain, StartDirectly, StartGateway, GatewayOpens, GatewayFails,
           CreateTask, Begins
  <1>2. ASSUME StartAgain(c) \/ GatewayFails(c) PROVE Seen' = Seen
    <2>1. (ConnAlive' <=> ConnAlive) /\ (SocketOpen' <=> SocketOpen)
      BY <1>2 DEF StartAgain, GatewayFails, ConnAlive, Alive, SocketOpen
    <2>2. QED BY <1>1, <2>1, Unseen
  <1>3. ASSUME StartGateway(c) PROVE Seen' = Seen
    <2>1. ~SocketOpen /\ ~SocketOpen'
      BY <1>3, CallsAssumption DEF StartGateway, Begins, SocketOpen, Open, Unmade
    <2>2. ConnAlive' <=> ConnAlive
      BY <1>3 DEF StartGateway, ConnAlive, Alive
    <2>3. QED BY <1>1, <2>1, <2>2, Unseen
  <1>4. ASSUME StartDirectly(c) \/ GatewayOpens(c) PROVE Object!Next
    <2>1. ~ConnAlive
      BY <1>4 DEF StartDirectly, GatewayOpens, ConnAlive, Serial, ResumesAsLeft
    <2>2. ConnAlive'
      BY <1>4 DEF StartDirectly, GatewayOpens, CreateTask, ConnAlive, Alive
    <2>3. Seen \in {"ended", "offline"} /\ Seen' = "live"
      BY <1>1, <2>1, <2>2 DEF Seen
    <2>4. QED BY <2>3 DEF Object!Next, Object!Started
  <1>5. QED BY <1>2, <1>3, <1>4

\* The steps of stop().
LEMMA StopIsSeen ==
    ASSUME IInv, ~overlapped, NEW c \in Calls,
           StopCalled(c) \/ HelpersEnded(c) \/ ConnEnded(c) \/ GatewayClosed(c)
    PROVE  Object!Next \/ Seen' = Seen
  <1> USE DEF IInv, TypeOK, MoveCall, Suspended
  <1>1. ASSUME StopCalled(c), \E t \in Calls : Alive(t) /\ pos[t] = "READY"
        PROVE  Object!Next \/ Seen' = Seen
    <2>1. StopUnderWay'
      BY <1>1 DEF StopCalled, StopUnderWay
    <2>2. ConnAlive
      BY <1>1 DEF ConnAlive, Serial, TaskIsKnown
    <2>3. Seen \in {"live", "stopping"} /\ Seen' = "stopping"
      BY <2>1, <2>2 DEF Seen
    <2>4. QED BY <2>3 DEF Object!Next, Object!StopSuspends
  <1>2. ASSUME \/ StopCalled(c) /\ ~(\E t \in Calls : Alive(t) /\ pos[t] = "READY")
               \/ HelpersEnded(c)
        PROVE  Object!Next \/ Seen' = Seen
    BY <1>2, CancelIsSeen DEF StopCalled, HelpersEnded, Begins
  <1>3. ASSUME ConnEnded(c) \/ GatewayClosed(c) PROVE Object!Next \/ Seen' = Seen
    <2>1. Seen = "stopping"
      BY <1>3 DEF ConnEnded, GatewayClosed, StopUnderWay, Seen
    <2>2. CASE StopUnderWay'
      BY <2>1, <2>2 DEF Seen
    <2>3. CASE ~StopUnderWay'
      <3>1. call'[c] = "returned"
        BY <1>3, <2>3 DEF ConnEnded, CloseGateway, GatewayClosed, StopUnderWay
      <3>2. ~ConnAlive'
        BY <1>3, CallsAssumption
        DEF ConnEnded, GatewayClosed, ConnAlive, Alive, Serial, ResumesAsLeft
      <3>3. ~SocketOpen'
        BY <1>3, <3>1, CallsAssumption DEF ConnEnded, CloseGateway, GatewayClosed, SocketOpen
      <3>4. Seen' = "offline"
        BY <2>3, <3>2, <3>3 DEF Seen
      <3>5. QED BY <2>1, <3>4 DEF Object!Next, Object!StopReturns
    <2>4. QED BY <2>2, <2>3
  <1>4. QED BY <1>1, <1>2, <1>3

\* The steps of the connection task, of which only its end is seen.
LEMMA TaskIsSeen ==
    ASSUME IInv, ~overlapped, NEW t \in Calls, TaskStep(t)
    PROVE  Object!Next \/ Seen' = Seen
  <1> USE DEF IInv, TypeOK
  <1>1. UNCHANGED <<call, connTask, gateway, server>>
    BY DEF TaskStep, TaskMoves, TaskRefused, TaskEnds, TaskCancelled, TaskSwallows
  <1>2. StopUnderWay' = StopUnderWay /\ SocketOpen' = SocketOpen
    BY <1>1 DEF StopUnderWay, SocketOpen
  <1>3. ConnAlive' => ConnAlive
    BY <1>1 DEF ConnAlive, Alive, TaskStep, TaskMoves, TaskRefused, TaskEnds, TaskCancelled, TaskSwallows
  <1>4. CASE ConnAlive' = ConnAlive \/ StopUnderWay
    BY <1>2, <1>4 DEF Seen
  <1>5. CASE ConnAlive /\ ~ConnAlive' /\ ~StopUnderWay
    <2>1. Seen = "live" /\ Seen' \in {"offline", "ended"}
      BY <1>2, <1>5 DEF Seen
    <2>2. QED BY <2>1 DEF Object!Next, Object!Ends
  <1>6. QED BY <1>3, <1>4, <1>5 DEF ConnAlive

\* As long as no start() overlaps a call, the device takes only the steps the
\* registry reckons with (ble_device.py:391-419, device_manager.py:102-124).
THEOREM DeviceServesRegistry == Spec => ServesRegistry
  <1>1. Init => Object!Init
    BY CallsAssumption
    DEF Init, Object!Init, Seen, StopUnderWay, ConnAlive, SocketOpen, Alive
  <1>2. IInv /\ [Next]_vars => [~overlapped' => Object!Next]_Seen
    <2>1. ASSUME UNCHANGED vars PROVE Seen' = Seen
      BY <2>1 DEF vars, Seen, StopUnderWay, ConnAlive, Alive, SocketOpen
    <2>2. ASSUME IInv, Next, ~overlapped' PROVE Object!Next \/ Seen' = Seen
      <3>1. PICK c \in Calls : CallStep(c) \/ TaskStep(c) \/ ClientGoes(c)
        BY <2>2 DEF Next
      <3>2. ASSUME CallStep(c) PROVE Object!Next \/ Seen' = Seen
        <4>1. ~overlapped
          BY <2>2, <3>2
          DEF CallStep, StartAgain, StartDirectly, StartGateway, GatewayOpens, GatewayFails,
              StopCalled, HelpersEnded, ConnEnded, GatewayClosed, Begins
        <4>2. CASE \/ StartAgain(c) \/ StartDirectly(c) \/ StartGateway(c)
                   \/ GatewayOpens(c) \/ GatewayFails(c)
          <5>1. \A d \in Calls : d # c => call[d] \notin Suspended
            BY <2>2, <4>1, <4>2
            DEF StartAgain, StartDirectly, StartGateway, GatewayOpens, GatewayFails, Begins,
                IInv, Serial, StartAlone
          <5>2. QED BY <2>2, <4>1, <4>2, <5>1, StartIsSeen
        <4>3. CASE StopCalled(c) \/ HelpersEnded(c) \/ ConnEnded(c) \/ GatewayClosed(c)
          BY <2>2, <4>1, <4>3, StopIsSeen
        <4>4. QED BY <3>2, <4>2, <4>3 DEF CallStep
      <3>3. ASSUME TaskStep(c) PROVE Object!Next \/ Seen' = Seen
        BY <2>2, <3>3, TaskIsSeen
        DEF TaskStep, TaskMoves, TaskRefused, TaskEnds, TaskCancelled, TaskSwallows
      <3>4. ASSUME ClientGoes(c) PROVE Seen' = Seen
        <4>1. UNCHANGED <<call, connTask, gateway, task>>
          BY <3>4 DEF ClientGoes
        <4>2. (StopUnderWay' <=> StopUnderWay) /\ (ConnAlive' <=> ConnAlive)
          BY <4>1 DEF StopUnderWay, ConnAlive, Alive
        <4>3. SocketOpen' <=> SocketOpen
          BY <2>2, <3>4, <4>1 DEF ClientGoes, SocketOpen, Open, IInv, TypeOK
        <4>4. QED BY <4>2, <4>3, Unseen
      <3>5. QED BY <3>1, <3>2, <3>3, <3>4
    <2>3. QED BY <2>1, <2>2
  <1>3. QED BY <1>1, <1>2, InductiveInvariant, PTL DEF Spec, ServesRegistry

\* stop() keeps both its promises, to its caller and to the registry
\* (ble_device.py:391-419).
THEOREM StopServes == Spec => StopKeepsWord
  BY StopCompletes, DeviceServesRegistry, PTL DEF StopKeepsWord

-----------------------------------------------------------------------------
(* The gateway that start() opens and stop() closes, seen from inside:     *)
(* what stop() may leave open, for any number of clients, messages and     *)
(* packets.  Until it returns, the list has every handler that reads from  *)
(* a connection that is not gone; it walks over all of these.              *)

\* The writer of a handler that reads is listed until stop() has returned,
\* unless its connection is gone.
Listed == stop # "done" => \A c \in Clients : Runs(c) => c \in clients \/ lost[c]

\* A handler that leaves has closed its connection, and ends with it.
Leaves ==
    \A c \in Clients :
        /\ handler[c] = "leaving" => shut[c]
        /\ handler[c] = "ended" => lost[c]

\* What stop() has yet to close, waits for, or has closed, is every
\* connection but those that came late.
Walked ==
    stop \in {"walking", "done"} =>
        \A c \in Clients : Runs(c) => lost[c] \/ c \in late \cup closing \cup current

\* stop() returns with nothing left to close.
WalkOver == stop = "done" => closing = {} /\ current = {}

GatewayIInv == GatewayTypeOK /\ Listed /\ Leaves /\ Walked /\ WalkOver

LEMMA HandlersPreserve ==
    ASSUME GatewayIInv, NEW c \in Clients, Accept(c) \/ HandlerStep(c)
    PROVE  GatewayIInv'
  <1> USE DEF GatewayIInv, GatewayTypeOK, Listed, Leaves, Walked, WalkOver, Runs, tasks, wire
  <1>1. CASE Accept(c)
    BY <1>1 DEF Accept
  <1>2. CASE HandlerStarts(c)
    BY <1>2 DEF HandlerStarts
  <1>3. CASE HandlerReads(c)
    <2>1. Tail(inbox[c]) \in Seq(Messages)
      BY <1>3 DEF HandlerReads
    <2>2. CASE UNCHANGED <<handler, clients, shut>>
      BY <1>3, <2>1, <2>2 DEF HandlerReads
    <2>3. CASE handler' = [handler EXCEPT ![c] = "forwarding"] /\ UNCHANGED <<clients, shut>>
      BY <1>3, <2>1, <2>3 DEF HandlerReads
    <2>4. CASE LeavesLoop(c)
      BY <1>3, <2>1, <2>4 DEF HandlerReads, LeavesLoop
    <2>5. QED BY <1>3, <2>2, <2>3, <2>4 DEF HandlerReads
  <1>4. CASE HandlerEof(c)
    BY <1>4 DEF HandlerEof, LeavesLoop
  <1>5. CASE ForwardReturns(c)
    BY <1>5 DEF ForwardReturns
  <1>6. CASE HandlerEnds(c)
    BY <1>6 DEF HandlerEnds
  <1>7. QED BY <1>1, <1>2, <1>3, <1>4, <1>5, <1>6 DEF HandlerStep

LEMMA StopOfGatewayPreserves ==
    ASSUME GatewayIInv, StopBegins \/ StopStep
    PROVE  GatewayIInv'
  <1> USE DEF GatewayIInv, GatewayTypeOK, Listed, Leaves, Walked, WalkOver, Runs, wire
  <1>1. CASE StopBegins
    BY <1>1 DEF StopBegins
  <1>2. CASE ServerClosed
    BY <1>2 DEF ServerClosed
  <1>3. CASE StopEnds
    BY <1>3 DEF StopEnds
  <1>4. ASSUME NEW c \in Clients, ClosesClient(c) PROVE GatewayIInv'
    BY <1>4 DEF ClosesClient
  <1>5. ASSUME NEW c \in Clients, ClientClosed(c) PROVE GatewayIInv'
    BY <1>5 DEF ClientClosed
  <1>6. QED BY <1>1, <1>2, <1>3, <1>4, <1>5 DEF StopStep

\* The world changes no task.
LEMMA ClientsPreserve ==
    ASSUME GatewayIInv,
           \/ Broadcast
           \/ \E c \in Clients, m \in Messages : ClientSends(c, m)
           \/ \E c \in Clients : ClientTakes(c) \/ ClientLeaves(c) \/ ConnectionReset(c) \/ ConnectionLost(c)
    PROVE  GatewayIInv'
  <1> USE GatewayAssumption
      DEF GatewayIInv, GatewayTypeOK, Listed, Leaves, Walked, WalkOver, Runs, tasks
  <1>1. CASE Broadcast
    BY <1>1 DEF Broadcast
  <1>2. ASSUME NEW c \in Clients, NEW m \in Messages, ClientSends(c, m) PROVE GatewayIInv'
    BY <1>2 DEF ClientSends
  <1>3. ASSUME NEW c \in Clients, ClientTakes(c) PROVE GatewayIInv'
    BY <1>3 DEF ClientTakes
  <1>4. ASSUME NEW c \in Clients, ClientLeaves(c) PROVE GatewayIInv'
    BY <1>4 DEF ClientLeaves
  <1>5. ASSUME NEW c \in Clients, ConnectionLost(c) PROVE GatewayIInv'
    BY <1>5 DEF ConnectionLost
  <1>6. ASSUME NEW c \in Clients, ConnectionReset(c) PROVE GatewayIInv'
    BY <1>6 DEF ConnectionReset
  <1>7. QED BY <1>1, <1>2, <1>3, <1>4, <1>5, <1>6

\* Whatever the handlers, the clients and stop() do, the walk of stop() is on
\* its way over all connections there were (tcp_gateway.py:52-64, 83-128).
THEOREM WalkIsComplete == GatewaySpec => []GatewayIInv
  <1>1. GatewayInit => GatewayIInv
    BY GatewayAssumption DEF GatewayInit, GatewayIInv, GatewayTypeOK, Listed, Leaves, Walked, WalkOver, Runs
  <1>2. GatewayIInv /\ [GatewayNext]_gatewayVars => GatewayIInv'
    <2> SUFFICES ASSUME GatewayIInv, [GatewayNext]_gatewayVars PROVE GatewayIInv'
      OBVIOUS
    <2>1. CASE UNCHANGED gatewayVars
      BY <2>1 DEF GatewayIInv, GatewayTypeOK, Listed, Leaves, Walked, WalkOver, Runs, gatewayVars, tasks, wire
    <2>2. QED
      BY <2>1, HandlersPreserve, StopOfGatewayPreserves, ClientsPreserve DEF GatewayNext
  <1>3. QED BY <1>1, <1>2, PTL DEF GatewaySpec

\* When stop() has returned, what is still connected is of a handler that had
\* not started when stop() took its list, or of one that has itself closed the
\* connection and waits for its client (tcp_gateway.py:52-64, 83-86, 122-125).
THEOREM StopClosesAll == GatewaySpec => []GatewayInv
  <1>1. GatewayIInv => GatewayInv
    <2>1. SUFFICES ASSUME GatewayIInv, stop = "done", NEW c \in Clients, Connected(c)
                   PROVE  \/ c \in late \/ handler[c] = "accepted"
                          \/ handler[c] = "leaving" /\ shut[c]
      BY DEF GatewayIInv, GatewayInv, AllClosed
    <2>2. handler[c] \in {"accepted", "reading", "forwarding", "leaving", "ended"} /\ ~lost[c]
      BY <2>1 DEF GatewayIInv, GatewayTypeOK, Connected
    <2>3. QED BY <2>1, <2>2 DEF GatewayIInv, Leaves, Walked, WalkOver, Runs
  <1>2. QED BY <1>1, WalkIsComplete, PTL

=============================================================================
