--------------------------- MODULE BleDeviceProofs ---------------------------
(***************************************************************************)
(* Proofs about the connection task of BleDevice, for every value of the   *)
(* four retry limits and every interleaving.                               *)
(*                                                                         *)
(* The core is IInv: what the task holds at each await (client, link, poll *)
(* task, helpers), which state it shows there, and how far stop() can be.  *)
(* None of the properties is inductive alone: that a dead task rests needs *)
(* that a session returns in a state of rest, that READY has a client needs*)
(* that the client is held at every await of a session.  One lemma per     *)
(* group of actions shows that it preserves IInv, one step per action; the *)
(* properties follow from IInv.                                            *)
(***************************************************************************)
EXTENDS BleDevice, TLAPS

\* Both crash handlers end in OFFLINE from every state: _LEGAL never refuses
\* the route they take (ble_device.py:107-109, 774-782, 916-921).
LEMMA RecoveredIsOffline ==
    \A s \in States : Recovered(s) = "OFFLINE"
  BY DEF States, Recovered, NeedsOtaErrorToOffline, Legal

\* Outside a session.
LEMMA LoopPreserves ==
    ASSUME IInv, LoopStep PROVE IInv'
  <1> USE DEF IInv, TypeOK, StateAgreesWithTask, ClientHeldInSession,
        LinkInCycle, PollInReady, HelpersOnlyInReady, CancelledByStop,
        RestsUnlessCancelled, Resumes, links, tasks, ota, flags, env,
        LoopPcs, SetupPcs, ReadyPcs, OtaPcs, Pcs, Results, States
  <1>1. CASE ConnectPaired
    BY <1>1 DEF ConnectPaired, RunOneSession, Discover, Enter, Via, Close
  <1>2. CASE ConnectUnpaired
    BY <1>2 DEF ConnectUnpaired
  <1>3. CASE ConnectFails
    BY <1>3 DEF ConnectFails, Enter
  <1>4. CASE ConnectRaises
    BY <1>4, RecoveredIsOffline DEF ConnectRaises, LoopCrash
  <1>5. CASE RetryConnect
    <2>1. sess' \in BOOLEAN
      BY <1>5, Zenon DEF RetryConnect, ToConnecting
    <2>2. QED BY <1>5, <2>1 DEF RetryConnect, ToConnecting, Via
  <1>6. CASE PauseOver
    <2>1. sess' \in BOOLEAN
      BY <1>6, Zenon DEF PauseOver, ToConnecting
    <2>2. QED BY <1>6, <2>1 DEF PauseOver, ToConnecting, Via
  <1>7. CASE PinChecked
    BY <1>7 DEF PinChecked, Enter
  <1>8. CASE PinWaitOver
    BY <1>8 DEF PinWaitOver
  <1>9. CASE PinRechecked
    BY <1>9 DEF PinRechecked
  <1>10. CASE PairOk
    BY <1>10 DEF PairOk, RunOneSession, Discover, Enter, Via, Close
  <1>11. CASE PairFails
    BY <1>11 DEF PairFails
  <1>12. CASE UnpairedDropped
    BY <1>12 DEF UnpairedDropped, Enter
  <1>13. CASE ReconnectOk
    <2>1. sess' \in BOOLEAN
      BY <1>13, Zenon DEF ReconnectOk
    <2>2. QED BY <1>13, <2>1 DEF ReconnectOk, RunOneSession, Discover, Enter,
      Via, Close
  <1>14. CASE ReconnectFails
    BY <1>14 DEF ReconnectFails, Enter
  <1>15. QED BY <1>1, <1>2, <1>3, <1>4, <1>5, <1>6, <1>7, <1>8, <1>9, <1>10,
      <1>11, <1>12, <1>13, <1>14 DEF LoopStep

\* A session up to READY.
LEMMA SetupPreserves ==
    ASSUME IInv, SetupStep PROVE IInv'
  <1> USE DEF IInv, TypeOK, StateAgreesWithTask, ClientHeldInSession,
        LinkInCycle, PollInReady, HelpersOnlyInReady, CancelledByStop,
        RestsUnlessCancelled, Resumes, links, tasks, ota, flags, env,
        LoopPcs, SetupPcs, ReadyPcs, OtaPcs, Pcs, Results, States
  <1>1. CASE RetryDiscover
    BY <1>1 DEF RetryDiscover, Enter
  <1>2. CASE DiscoverConnected
    BY <1>2 DEF DiscoverConnected, Discover, Enter, Via, Close
  <1>3. CASE DiscoverConnectFails
    BY <1>3 DEF DiscoverConnectFails, Enter, Close
  <1>4. CASE LinkIsSetUp
    <2>1. sess' \in BOOLEAN
      BY <1>4, Zenon DEF LinkIsSetUp
    <2>2. QED BY <1>4, <2>1 DEF LinkIsSetUp, Enter
  <1>5. CASE SyncComplete
    <2>1. regionUnset' \in BOOLEAN
      BY <1>5, Zenon DEF SyncComplete
    <2>2. QED BY <1>5, <2>1 DEF SyncComplete, Enter
  <1>6. CASE SyncFails
    <2>1. regionUnset' \in BOOLEAN
      BY <1>6, Zenon DEF SyncFails, RegionRead
    <2>2. QED BY <1>6, <2>1 DEF SyncFails, Enter, Close
  <1>7. CASE SyncDropped
    BY <1>7 DEF SyncDropped
  <1>8. CASE SyncReconnected
    BY <1>8 DEF SyncReconnected, Enter, Close
  <1>9. CASE SyncReconnectFails
    BY <1>9 DEF SyncReconnectFails, Enter, Close
  <1>10. CASE RegionWritten
    BY <1>10 DEF RegionWritten, Enter
  <1>11. CASE RegionDropped
    BY <1>11 DEF RegionDropped, Enter, Close
  <1>12. CASE Subscribed
    BY <1>12 DEF Subscribed, Enter
  <1>13. CASE SubscribeFails
    BY <1>13 DEF SubscribeFails, Enter, Close
  <1>14. CASE SetupRaises
    <2>1. regionUnset' \in BOOLEAN
      BY <1>14, Zenon DEF SetupRaises, RegionRead
    <2>2. QED BY <1>14, RecoveredIsOffline, <2>1 DEF SetupRaises,
      SessionCrash, Close
  <1>15. QED BY <1>1, <1>2, <1>3, <1>4, <1>5, <1>6, <1>7, <1>8, <1>9, <1>10,
      <1>11, <1>12, <1>13, <1>14 DEF SetupStep

\* READY and leaving it.
LEMMA ReadyPreserves ==
    ASSUME IInv, ReadyStep PROVE IInv'
  <1> USE DEF IInv, TypeOK, StateAgreesWithTask, ClientHeldInSession,
        LinkInCycle, PollInReady, HelpersOnlyInReady, CancelledByStop,
        RestsUnlessCancelled, Resumes, links, tasks, ota, flags, env,
        LoopPcs, SetupPcs, ReadyPcs, OtaPcs, Pcs, Results, States
  <1>1. CASE ReadyWaitOver
    <2>1. otaEvent' \in BOOLEAN /\ pendingOta' \in BOOLEAN
      BY <1>1, Zenon DEF ReadyWaitOver, LeaveReady, StartOta
    <2>2. QED BY <1>1, RecoveredIsOffline, <2>1 DEF ReadyWaitOver,
      LeaveReady, StartOta, SessionCrash, Enter, Close
  <1>2. CASE HelpersCancelled
    <2>1. otaEvent' \in BOOLEAN /\ pendingOta' \in BOOLEAN
      BY <1>2, Zenon DEF HelpersCancelled, LeaveReady, StartOta
    <2>2. QED BY <1>2, RecoveredIsOffline, <2>1 DEF HelpersCancelled,
      LeaveReady, StartOta, SessionCrash, Enter, Close
  <1>3. CASE PollCancelled
    <2>1. otaEvent' \in BOOLEAN /\ pendingOta' \in BOOLEAN
      BY <1>3, Zenon DEF PollCancelled, StartOta
    <2>2. QED BY <1>3, RecoveredIsOffline, <2>1 DEF PollCancelled, StartOta,
      SessionCrash, Enter, Close
  <1>4. QED BY <1>1, <1>2, <1>3 DEF ReadyStep

\* The firmware update.
LEMMA OtaPreserves ==
    ASSUME IInv, OtaStep PROVE IInv'
  <1> USE DEF IInv, TypeOK, StateAgreesWithTask, ClientHeldInSession,
        LinkInCycle, PollInReady, HelpersOnlyInReady, CancelledByStop,
        RestsUnlessCancelled, Resumes, links, tasks, ota, flags, env,
        LoopPcs, SetupPcs, ReadyPcs, OtaPcs, Pcs, Results, States
  <1>1. CASE OtaStepFails
    BY <1>1 DEF OtaStepFails, OtaFails, Via, Close
  <1>2. CASE OtaDisconnected
    BY <1>2 DEF OtaDisconnected, Enter
  <1>3. CASE OtaConnected
    BY <1>3 DEF OtaConnected
  <1>4. CASE OtaMtuKnown
    BY <1>4 DEF OtaMtuKnown
  <1>5. CASE OtaFlashing
    BY <1>5 DEF OtaFlashing, Enter
  <1>6. CASE OtaSessionOver
    BY <1>6 DEF OtaSessionOver
  <1>7. CASE OtaClientDropped
    BY <1>7 DEF OtaClientDropped, OtaFails, Enter, Via, Close
  <1>8. CASE NvsConnected
    BY <1>8 DEF NvsConnected
  <1>9. CASE NvsFastPathOver
    BY <1>9 DEF NvsFastPathOver
  <1>10. CASE NvsClientDropped
    BY <1>10 DEF NvsClientDropped, Enter, Close
  <1>11. CASE SerialPolled
    BY <1>11 DEF SerialPolled, OtaFails, Via, Close
  <1>12. CASE SerialProbed
    BY <1>12 DEF SerialProbed, Enter
  <1>13. CASE SerialErased
    BY <1>13 DEF SerialErased, Enter, Close
  <1>14. QED BY <1>1, <1>2, <1>3, <1>4, <1>5, <1>6, <1>7, <1>8, <1>9, <1>10,
      <1>11, <1>12, <1>13 DEF OtaStep

\* The end of a session and the start of a task.
LEMMA CyclePreserves ==
    ASSUME IInv, LinkClosed \/ Start \/ UnwindStep PROVE IInv'
  <1> USE DEF IInv, TypeOK, StateAgreesWithTask, ClientHeldInSession,
        LinkInCycle, PollInReady, HelpersOnlyInReady, CancelledByStop,
        RestsUnlessCancelled, Resumes, links, tasks, ota, flags, env,
        LoopPcs, SetupPcs, ReadyPcs, OtaPcs, Pcs, Results, States
  <1>1. CASE LinkClosed
    <2>1. sess' \in BOOLEAN
      BY <1>1, Zenon DEF LinkClosed, NextCycle, ToConnecting, LoopCrash
    <2>2. QED BY <1>1, RecoveredIsOffline, <2>1 DEF LinkClosed, NextCycle,
      LoopCrash, ToConnecting, Via
  <1>2. CASE Start
    <2>1. sess' \in BOOLEAN
      BY <1>2, Zenon DEF Start, LoopCrash, ToConnecting
    <2>2. QED BY <1>2, RecoveredIsOffline, <2>1 DEF Start, LoopCrash,
      ToConnecting, Via
  <1>3. CASE UnwindStep
    BY <1>3 DEF UnwindStep, Close
  <1>4. QED BY <1>1, <1>2, <1>3

\* Cancellation: the task is where its await was, minus what it released.
LEMMA CancelPreserves ==
    ASSUME IInv, CancelDelivered PROVE IInv'
  <1> USE DEF IInv, TypeOK, StateAgreesWithTask, ClientHeldInSession,
        LinkInCycle, PollInReady, HelpersOnlyInReady, CancelledByStop,
        RestsUnlessCancelled, Resumes, links, tasks, ota, flags, env,
        LoopPcs, SetupPcs, ReadyPcs, OtaPcs, Pcs, Results, States
  <1>1. CASE CancelInLoop
    BY <1>1 DEF CancelInLoop, CancelDelivered
  <1>2. CASE CancelSuppressed
    BY <1>2 DEF CancelSuppressed, CancelDelivered
  <1>3. CASE CancelInReady
    BY <1>3 DEF CancelInReady, Unwind, Close, CancelDelivered
  <1>4. CASE CancelInOtaRun
    BY <1>4 DEF CancelInOtaRun, CancelDelivered
  <1>5. CASE CancelInSession
    BY <1>5 DEF CancelInSession, Unwind, Close, CancelDelivered
  <1>6. CASE CancelInClose
    BY <1>6 DEF CancelInClose, CancelDelivered
  <1>7. QED BY <1>1, <1>2, <1>3, <1>4, <1>5, <1>6 DEF CancelDelivered

\* stop() beside the task.
LEMMA StopPreserves ==
    ASSUME IInv, StopStep PROVE IInv'
  <1> USE DEF IInv, TypeOK, StateAgreesWithTask, ClientHeldInSession,
        LinkInCycle, PollInReady, HelpersOnlyInReady, CancelledByStop,
        RestsUnlessCancelled, Resumes, links, tasks, ota, flags, env,
        LoopPcs, SetupPcs, ReadyPcs, OtaPcs, Pcs, Results, States
  <1>1. CASE StopHelpers
    BY <1>1 DEF StopHelpers, AtHelpers, StopStep
  <1>2. CASE StopPoll
    BY <1>2 DEF StopPoll, AtPoll, AtHelpers, StopStep
  <1>3. CASE StopConn
    BY <1>3 DEF StopConn, AtConn, AtPoll, AtHelpers, PollForgotten, StopStep
  <1>4. CASE StopClient
    BY <1>4 DEF StopClient, AtClient, AtConn, AtPoll, AtHelpers,
      PollForgotten, StopStep
  <1>5. CASE StopEnd
    <2>1. sess' \in BOOLEAN
      BY <1>5, Zenon DEF StopEnd
    <2>2. pc = "done"
      BY <1>5 DEF StopEnd, AtEnd, AtClient
    <2>3. /\ state' = "OFFLINE" /\ stopPc' = "idle" /\ client' = "none"
          /\ UNCHANGED <<pc, cancel, link, otaLink, helpers, result, attempts,
                        ota, regionUnset, env, leaked>>
      BY <1>5 DEF StopEnd, StopStep
    <2>4. poll' \in {poll, "none"}
      BY <1>5 DEF StopEnd, PollForgotten
    <2>5. QED BY <2>1, <2>2, <2>3, <2>4
  <1>6. QED BY <1>1, <1>2, <1>3, <1>4, <1>5 DEF StopStep

\* The other callers and the radio.
LEMMA EnvironmentPreserves ==
    ASSUME IInv, Environment PROVE IInv'
  <1> USE DEF IInv, TypeOK, StateAgreesWithTask, ClientHeldInSession,
        LinkInCycle, PollInReady, HelpersOnlyInReady, CancelledByStop,
        RestsUnlessCancelled, Resumes, links, tasks, ota, flags, env,
        LoopPcs, SetupPcs, ReadyPcs, OtaPcs, Pcs, Results, States
  <1>1. CASE TriggerOta
    <2>1. otaEvent' \in BOOLEAN /\ pendingOta' \in BOOLEAN
      BY <1>1, Zenon DEF TriggerOta
    <2>2. QED BY <1>1, <2>1 DEF TriggerOta
  <1>2. CASE UpdateConfig
    <2>1. auto' \in BOOLEAN
      BY <1>2, Zenon DEF UpdateConfig
    <2>2. QED BY <1>2, <2>1 DEF UpdateConfig
  <1>3. CASE NotifyLoopEnds
    BY <1>3 DEF NotifyLoopEnds
  <1>4. CASE HelperEnds
    BY <1>4 DEF HelperEnds
  <1>5. CASE LinkLost
    BY <1>5 DEF LinkLost
  <1>6. CASE PlugSerial
    <2>1. serialPort' \in BOOLEAN
      BY <1>6, Zenon DEF PlugSerial
    <2>2. QED BY <1>6, <2>1 DEF PlugSerial
  <1>7. QED BY <1>1, <1>2, <1>3, <1>4, <1>5, <1>6 DEF Environment

\* The invariant holds in every reachable state: what each await of the
\* connection task holds and shows, and how far stop() can be beside it.
THEOREM InductiveInvariant == Spec => []IInv
  <1>1. Init => IInv
    <2>1. Init => otaEvent \in BOOLEAN /\ pendingOta \in BOOLEAN
      BY Zenon DEF Init
    <2>2. Init => regionUnset \in BOOLEAN /\ sess \in BOOLEAN
      BY Zenon DEF Init
    <2>3. QED BY <2>1, <2>2 DEF Init, IInv, TypeOK, StateAgreesWithTask,
      ClientHeldInSession, LinkInCycle, PollInReady, HelpersOnlyInReady,
      CancelledByStop, RestsUnlessCancelled, LoopPcs, SetupPcs, ReadyPcs,
      OtaPcs, Pcs, Results, States
  <1>2. IInv /\ [Next]_vars => IInv'
    <2> SUFFICES ASSUME IInv, [Next]_vars PROVE IInv'
      OBVIOUS
    <2>1. CASE ConnTask
      BY <2>1, LoopPreserves, SetupPreserves, ReadyPreserves, OtaPreserves,
        CyclePreserves, CancelPreserves DEF ConnTask
    <2>2. CASE Start
      BY <2>2, CyclePreserves
    <2>3. CASE StopStep
      BY <2>3, StopPreserves
    <2>4. CASE Environment
      BY <2>4, EnvironmentPreserves
    <2>5. CASE UNCHANGED vars
      BY <2>5 DEF vars, links, tasks, ota, flags, env, IInv, TypeOK,
        StateAgreesWithTask, ClientHeldInSession, LinkInCycle, PollInReady,
        HelpersOnlyInReady, CancelledByStop, RestsUnlessCancelled
    <2>6. QED BY <2>1, <2>2, <2>3, <2>4, <2>5 DEF Next
  <1>3. QED BY <1>1, <1>2, PTL DEF Spec

-----------------------------------------------------------------------------
(* What follows from the invariant.                                        *)

\* Every variable stays in its type, whatever the retry limits are.
THEOREM TypeCorrectness == Spec => []TypeOK
  <1>1. IInv => TypeOK
    BY DEF IInv
  <1>2. QED BY <1>1, InductiveInvariant, PTL

\* The state a device shows belongs to the await its task stands at
\* (_transition, ble_device.py:313, is called by the task itself).
THEOREM StatesAgree == Spec => []StateAgreesWithTask
  <1>1. IInv => StateAgreesWithTask
    BY DEF IInv
  <1>2. QED BY <1>1, InductiveInvariant, PTL

\* No crash handler, early return or cancellation leaves a device without a
\* task in a busy state (ble_device.py:761-790, 910-921).
THEOREM DeadTasksRest == Spec => []DeadTaskRests
  <1>1. IInv => DeadTaskRests
    BY DEF IInv, RestsUnlessCancelled, DeadTaskRests
  <1>2. QED BY <1>1, InductiveInvariant, PTL

\* The senders find a client in READY unless stop() is at work
\* (ble_device.py:587-640).
THEOREM ReadyKeepsClient == Spec => []ReadyHasClient
  <1>1. IInv => ReadyHasClient
    BY DEF IInv, TypeOK, ClientHeldInSession, StateAgreesWithTask,
      CancelledByStop, RestsUnlessCancelled, ReadyHasClient, LoopPcs, Pcs
  <1>2. QED BY <1>1, InductiveInvariant, PTL

\* Between a stop() and the next start() no task, client or link is left
\* (ble_device.py:390-449).
THEOREM StopLeavesNothing == Spec => []NothingSurvivesStop
  <1>1. IInv => NothingSurvivesStop
    BY DEF IInv, TypeOK, ClientHeldInSession, LinkInCycle, PollInReady,
      HelpersOnlyInReady, NothingSurvivesStop, ReadyPcs
  <1>2. QED BY <1>1, InductiveInvariant, PTL

\* The tasks that write to the client of a session end with its READY state
\* (ble_device.py:1587-1608).
THEOREM HelpersEndWithReady == Spec => []HelpersOnlyInReady
  <1>1. IInv => HelpersOnlyInReady
    BY DEF IInv
  <1>2. QED BY <1>1, InductiveInvariant, PTL

\* The update client connects only after the link of the session is gone
\* (ble_device.py:1161-1201).
THEOREM NeverTwoLinks == Spec => []OneLink
  <1>1. IInv => OneLink
    BY DEF IInv, LinkInCycle, OneLink, OtaPcs
  <1>2. QED BY <1>1, InductiveInvariant, PTL

-----------------------------------------------------------------------------
(* Retries.                                                                *)

\* The counters are inductive by themselves: each phase resets the counter
\* it inherits, and leaves by its exhausted branch at the limit.
LEMMA RetriesStep ==
    ASSUME TypeOK, RetriesBounded, [Next]_vars PROVE RetriesBounded'
  <1> USE RetriesAssumption DEF TypeOK, RetriesBounded, Resumes
  <1>1. CASE LoopStep
    BY <1>1 DEF LoopStep, ConnectPaired, ConnectUnpaired, ConnectFails,
      ConnectRaises, RetryConnect, PauseOver, PinChecked, PinWaitOver,
      PinRechecked, PairOk, PairFails, UnpairedDropped, ReconnectOk,
      ReconnectFails, RunOneSession, Discover, Close, LoopCrash, ToConnecting
  <1>2. CASE SetupStep
    BY <1>2 DEF SetupStep, RetryDiscover, DiscoverConnected,
      DiscoverConnectFails, LinkIsSetUp, SyncComplete, SyncFails, SyncDropped,
      SyncReconnected, SyncReconnectFails, RegionWritten, RegionDropped,
      Subscribed, SubscribeFails, SetupRaises, SessionCrash, Discover, Close
  <1>3. CASE ReadyStep
    BY <1>3 DEF ReadyStep, ReadyWaitOver, HelpersCancelled, PollCancelled,
      LeaveReady, StartOta, SessionCrash, Close
  <1>4. CASE OtaStep
    BY <1>4 DEF OtaStep, OtaStepFails, OtaDisconnected, OtaConnected,
      OtaMtuKnown, OtaFlashing, OtaSessionOver, OtaClientDropped,
      NvsConnected, NvsFastPathOver, NvsClientDropped, SerialPolled,
      SerialProbed, SerialErased, OtaFails, Close
  <1>5. CASE LinkClosed
    BY <1>5 DEF LinkClosed, NextCycle, LoopCrash, ToConnecting
  <1>6. CASE CancelDelivered
    BY <1>6 DEF CancelDelivered, CancelInLoop, CancelSuppressed,
      CancelInReady, CancelInOtaRun, CancelInSession, CancelInClose, Unwind,
      Close
  <1>7. CASE UnwindStep
    BY <1>7 DEF UnwindStep, Close
  <1>8. CASE Start
    BY <1>8 DEF Start, LoopCrash, ToConnecting
  <1>9. CASE StopStep \/ Environment \/ UNCHANGED vars
    BY <1>9 DEF StopStep, StopHelpers, StopPoll, StopConn, StopClient,
      StopEnd, Environment, TriggerOta, UpdateConfig, NotifyLoopEnds,
      HelperEnds, LinkLost, PlugSerial, vars
  <1>10. QED BY <1>1, <1>2, <1>3, <1>4, <1>5, <1>6, <1>7, <1>8, <1>9
    DEF Next, ConnTask

\* No phase retries more often than configured, for every configuration
\* (ble_device.py:944, 1362, 1491, 799).
THEOREM RetriesStayBounded == Spec => []RetriesBounded
  <1>1. Init => RetriesBounded
    BY DEF Init, RetriesBounded
  <1>2. TypeOK /\ RetriesBounded /\ [Next]_vars => RetriesBounded'
    BY RetriesStep
  <1>3. QED BY <1>1, <1>2, TypeCorrectness, PTL DEF Spec

-----------------------------------------------------------------------------
(* Clients left connected by a cancellation.                               *)

\* Only a cancellation writes leaked; LinkInCycle says at which awaits a
\* client is connected there.
LEMMA LeaksStep ==
    ASSUME IInv, LeaksOnlyWhereUnguarded, [Next]_vars
    PROVE  LeaksOnlyWhereUnguarded'
  <1> USE DEF LeaksOnlyWhereUnguarded
  <1>1. CASE CancelInLoop
    BY <1>1 DEF CancelInLoop, IInv, LinkInCycle, LoopPcs
  <1>2. CASE CancelInSession
    BY <1>2 DEF CancelInSession, IInv, LinkInCycle, SetupPcs, OtaPcs
  <1>3. CASE LoopStep
    BY <1>3 DEF LoopStep, ConnectPaired, ConnectUnpaired, ConnectFails,
      ConnectRaises, RetryConnect, PauseOver, PinChecked, PinWaitOver,
      PinRechecked, PairOk, PairFails, UnpairedDropped, ReconnectOk,
      ReconnectFails
  <1>4. CASE SetupStep
    BY <1>4 DEF SetupStep, RetryDiscover, DiscoverConnected,
      DiscoverConnectFails, LinkIsSetUp, SyncComplete, SyncFails, SyncDropped,
      SyncReconnected, SyncReconnectFails, RegionWritten, RegionDropped,
      Subscribed, SubscribeFails, SetupRaises
  <1>5. CASE ReadyStep
    BY <1>5 DEF ReadyStep, ReadyWaitOver, HelpersCancelled, PollCancelled
  <1>6. CASE OtaStep
    BY <1>6 DEF OtaStep, OtaStepFails, OtaDisconnected, OtaConnected,
      OtaMtuKnown, OtaFlashing, OtaSessionOver, OtaClientDropped,
      NvsConnected, NvsFastPathOver, NvsClientDropped, SerialPolled,
      SerialProbed, SerialErased
  <1>7. CASE LinkClosed \/ UnwindStep \/ Start \/ StopStep \/ UNCHANGED vars
    BY <1>7 DEF LinkClosed, UnwindStep, Start, StopStep, vars
  <1>8. CASE Environment
    BY <1>8 DEF Environment, TriggerOta, UpdateConfig, NotifyLoopEnds,
      HelperEnds, LinkLost, PlugSerial
  <1>9. CASE CancelSuppressed \/ CancelInReady \/ CancelInOtaRun
             \/ CancelInClose
    BY <1>9 DEF CancelSuppressed, CancelInReady, CancelInOtaRun, CancelInClose
  <1>10. QED BY <1>1, <1>2, <1>3, <1>4, <1>5, <1>6, <1>7, <1>8, <1>9
    DEF Next, ConnTask, CancelDelivered

\* A cancelled task abandons a connected client only between connect() and
\* the session and at the two unguarded awaits of an update
\* (ble_device.py:963-1006, 1198, 1231).
THEOREM LeaksOnlyThere == Spec => []LeaksOnlyWhereUnguarded
  <1>1. Init => LeaksOnlyWhereUnguarded
    BY DEF Init, LeaksOnlyWhereUnguarded
  <1>2. IInv /\ LeaksOnlyWhereUnguarded /\ [Next]_vars
          => LeaksOnlyWhereUnguarded'
    BY LeaksStep
  <1>3. QED BY <1>1, <1>2, InductiveInvariant, PTL DEF Spec

-----------------------------------------------------------------------------
(* The data of a session.                                                  *)

\* The data are there once the link is set up, and the three ways to another
\* connection clear them.
LEMMA DataStep ==
    ASSUME TypeOK, SessionDataReset, [Next]_vars PROVE SessionDataReset'
  <1> USE DEF TypeOK, SessionDataReset, Resumes, flags
  <1>1. CASE LoopStep
    BY <1>1 DEF LoopStep, ConnectPaired, ConnectUnpaired, ConnectFails,
      ConnectRaises, RetryConnect, PauseOver, PinChecked, PinWaitOver,
      PinRechecked, PairOk, PairFails, UnpairedDropped, ReconnectOk,
      ReconnectFails, RunOneSession, Discover, Close, LoopCrash, ToConnecting
  <1>2. CASE SetupStep
    BY <1>2 DEF SetupStep, RetryDiscover, DiscoverConnected,
      DiscoverConnectFails, LinkIsSetUp, SyncComplete, SyncFails, SyncDropped,
      SyncReconnected, SyncReconnectFails, RegionWritten, RegionDropped,
      Subscribed, SubscribeFails, SetupRaises, SessionCrash, Discover, Close
  <1>3. CASE ReadyStep
    BY <1>3 DEF ReadyStep, ReadyWaitOver, HelpersCancelled, PollCancelled,
      LeaveReady, StartOta, SessionCrash, Close
  <1>4. CASE OtaStep
    BY <1>4 DEF OtaStep, OtaStepFails, OtaDisconnected, OtaConnected,
      OtaMtuKnown, OtaFlashing, OtaSessionOver, OtaClientDropped,
      NvsConnected, NvsFastPathOver, NvsClientDropped, SerialPolled,
      SerialProbed, SerialErased, OtaFails, Close
  <1>5. CASE LinkClosed
    BY <1>5 DEF LinkClosed, NextCycle, LoopCrash, ToConnecting
  <1>6. CASE CancelDelivered
    BY <1>6 DEF CancelDelivered, CancelInLoop, CancelSuppressed,
      CancelInReady, CancelInOtaRun, CancelInSession, CancelInClose, Unwind,
      Close
  <1>7. CASE UnwindStep
    BY <1>7 DEF UnwindStep, Close
  <1>8. CASE Start
    BY <1>8 DEF Start, LoopCrash, ToConnecting
  <1>9. CASE StopStep \/ Environment \/ UNCHANGED vars
    BY <1>9 DEF StopStep, StopHelpers, StopPoll, StopConn, StopClient,
      StopEnd, Environment, TriggerOta, UpdateConfig, NotifyLoopEnds,
      HelperEnds, LinkLost, PlugSerial, vars
  <1>10. QED
    BY <1>1, <1>2, <1>3, <1>4, <1>5, <1>6, <1>7, <1>8, <1>9
    DEF Next, ConnTask

\* A session starts without the data of the one before (ble_device.py:751).
THEOREM DataAreReset == Spec => []SessionDataReset
  <1>1. Init => SessionDataReset
    BY DEF Init, SessionDataReset
  <1>2. TypeOK /\ SessionDataReset /\ [Next]_vars => SessionDataReset'
    BY DataStep
  <1>3. QED BY <1>1, <1>2, TypeCorrectness, PTL DEF Spec

-----------------------------------------------------------------------------
(* The properties that the runs check of these.                            *)

\* A device without a task is at rest, nothing of a session is left, and the
\* next one starts without its data (ble_device.py:390-449, 751-790, 910-921).
THEOREM NothingIsLeft == Spec => []NothingLeftBehind
  <1>1. DeadTaskRests /\ NothingSurvivesStop /\ SessionDataReset
          => NothingLeftBehind
    BY DEF NothingLeftBehind
  <1>2. QED BY <1>1, DeadTasksRest, StopLeavesNothing, DataAreReset, PTL

\* READY is served by a client, and its helpers end with it
\* (ble_device.py:587-640, 1587-1608).
THEOREM ReadyServed == Spec => []ReadyIsServed
  <1>1. ReadyHasClient /\ HelpersOnlyInReady => ReadyIsServed
    BY DEF ReadyIsServed
  <1>2. QED BY <1>1, ReadyKeepsClient, HelpersEndWithReady, PTL

\* No radio has two connections, and a connected client is forgotten only at
\* the unguarded awaits (ble_device.py:940-970, 1161-1201).
THEOREM ClientsKnown == Spec => []ClientsAccounted
  <1>1. OneLink /\ LeaksOnlyWhereUnguarded => ClientsAccounted
    BY DEF ClientsAccounted
  <1>2. QED BY <1>1, NeverTwoLinks, LeaksOnlyThere, PTL

-----------------------------------------------------------------------------
(* Refinement: the device implements its abstract life cycle.              *)

\* A step of the device is a move of the life cycle or leaves its phase.
LEMMA PhaseStep ==
    ASSUME IInv, [Next]_vars PROVE [Lifecycle!Next]_(PhaseOf(state))
  <1> USE DEF IInv, TypeOK, StateAgreesWithTask, RestsUnlessCancelled,
        Resumes, ReadyPcs, PhaseOf, OtaStates, States, Enter, Via,
        Lifecycle!Next, Lifecycle!Begin, Lifecycle!LinkingEnds,
        Lifecycle!ReadyEnds, Lifecycle!UpdateEnds, Lifecycle!Shutdown
  <1>1. CASE LoopStep
    BY <1>1, RecoveredIsOffline DEF LoopStep, ConnectPaired, ConnectUnpaired,
      ConnectFails, ConnectRaises, RetryConnect, PauseOver, PinChecked,
      PinWaitOver, PinRechecked, PairOk, PairFails, UnpairedDropped,
      ReconnectOk, ReconnectFails, RunOneSession, Discover, LoopCrash,
      ToConnecting
  <1>2. CASE SetupStep
    BY <1>2, RecoveredIsOffline DEF SetupStep, RetryDiscover,
      DiscoverConnected, DiscoverConnectFails, LinkIsSetUp, SyncComplete,
      SyncFails, SyncDropped, SyncReconnected, SyncReconnectFails,
      RegionWritten, RegionDropped, Subscribed, SubscribeFails, SetupRaises,
      SessionCrash, Discover
  <1>3. CASE ReadyStep
    BY <1>3, RecoveredIsOffline DEF ReadyStep, ReadyWaitOver,
      HelpersCancelled, PollCancelled, LeaveReady, StartOta, SessionCrash
  <1>4. CASE OtaStep
    BY <1>4 DEF OtaStep, OtaStepFails, OtaDisconnected, OtaConnected,
      OtaMtuKnown, OtaFlashing, OtaSessionOver, OtaClientDropped,
      NvsConnected, NvsFastPathOver, NvsClientDropped, SerialPolled,
      SerialProbed, SerialErased, OtaFails
  <1>5. CASE LinkClosed \/ Start
    <2>1. "SCANNING" \notin Legal["FIRMWARE_INCOMPATIBLE"]
      BY DEF Legal
    <2>2. QED BY <1>5, <2>1, RecoveredIsOffline DEF LinkClosed, Start,
      NextCycle, LoopCrash, ToConnecting
  <1>6. CASE CancelDelivered \/ UnwindStep \/ Environment \/ UNCHANGED vars
    BY <1>6 DEF CancelDelivered, UnwindStep, Environment, TriggerOta,
      UpdateConfig, NotifyLoopEnds, HelperEnds, LinkLost, PlugSerial, vars
  <1>7. CASE StopStep
    BY <1>7 DEF StopStep, StopHelpers, StopPoll, StopConn, StopClient, StopEnd
  <1>8. QED BY <1>1, <1>2, <1>3, <1>4, <1>5, <1>6, <1>7 DEF Next, ConnTask

\* The safety part of ImplementsLifecycle: for every retry limit a device
\* becomes ready only out of linking, and an update only ends in OFFLINE.
THEOREM RefinesLifecycle == Spec => Lifecycle!Spec
  <1>1. Init => Lifecycle!Init
    <2>1. Init => state = "OFFLINE"
      BY DEF Init
    <2>2. PhaseOf("OFFLINE") = "off"
      BY DEF PhaseOf, OtaStates
    <2>3. QED BY <2>1, <2>2 DEF Lifecycle!Init
  <1>2. IInv /\ [Next]_vars => [Lifecycle!Next]_(PhaseOf(state))
    BY PhaseStep
  <1>3. QED BY <1>1, <1>2, InductiveInvariant, PTL DEF Spec, Lifecycle!Spec
=============================================================================
