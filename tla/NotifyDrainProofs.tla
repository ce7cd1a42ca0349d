--------------------------- MODULE NotifyDrainProofs ---------------------------
(***************************************************************************)
(* No lost wakeup, for every number of packets.  The argument: the readers *)
(* clear the event before they read and wait only after a read that found  *)
(* nothing, so whatever is in the queue of a waiting reader came after     *)
(* that, and its announcement is scheduled or has set the event.           *)
(***************************************************************************)
EXTENDS NotifyDrain, TLAPS

\* What a step of the radio leaves true: a packet queued for a subscribed
\* client is announced, and it is late only in READY.
LEMMA QueuesPreserves ==
    ASSUME NEW kind \in {"config", "complete", "mesh"},
           IInv, Queues(kind),
           toDump' \in Nat, toCome' \in Nat,
           passkey' \in {"none", "asked", "answered", "silent"}
    PROVE  IInv'
<1> DEFINE p == Packet(kind)
<1>1. p \in [kind : {"config", "complete", "mesh"}, late : BOOLEAN]
    BY DEF Packet
<1>2. /\ queue' = Append(queue, p)
      /\ calls' = IF subscribed THEN calls + 1 ELSE calls
      /\ UNCHANGED <<pc, event, link, subscribed>>
    BY DEF Queues
<1>3. TypeOK'
    BY <1>1, <1>2 DEF IInv, TypeOK, SyncPcs, ReadyPcs, Over
<1>4. subscribed => calls' > 0
    BY <1>2 DEF IInv, TypeOK
<1>5. SyncNeverSleepsOnData'
    BY <1>2, <1>4 DEF SyncNeverSleepsOnData, WakeupDue
<1>6. ReadyNeverSleepsOnNews'
    BY <1>2, <1>4 DEF IInv, TypeOK, ReadyNeverSleepsOnNews, WakeupDue, ReadyPcs
<1>7. NoNewsBeforeReady'
  <2> SUFFICES ASSUME pc \in SyncPcs \cup {"resubscribe"},
                      NEW i \in 1..Len(queue')
               PROVE  ~queue'[i].late
      BY <1>2 DEF NoNewsBeforeReady
  <2>1. ~p.late
      BY DEF Packet, SyncPcs, ReadyPcs
  <2>2. queue \in Seq([kind : {"config", "complete", "mesh"}, late : BOOLEAN])
      BY DEF IInv, TypeOK
  <2>3. CASE i \in 1..Len(queue)
    <3>1. queue'[i] = queue[i]
        BY <1>1, <1>2, <2>2, <2>3
    <3> QED
        BY <3>1, <2>3 DEF IInv, NoNewsBeforeReady
  <2>4. CASE i = Len(queue) + 1
      BY <1>1, <1>2, <2>1, <2>2, <2>4
  <2> QED
      BY <1>1, <1>2, <2>2, <2>3, <2>4
<1> QED
    BY <1>3, <1>5, <1>6, <1>7 DEF IInv

\* Reading a packet: what is left was there before.
LEMMA ReadPreserves ==
    ASSUME IInv, queue # <<>>, queue' = Tail(queue),
           pc' \in {"syncRead", "readyRead", "unsubscribe"},
           pc' \in ReadyPcs <=> pc \in ReadyPcs,
           pc \in {"syncRead", "readyRead"},
           UNCHANGED <<event, calls, link, subscribed, toDump, toCome, passkey>>
    PROVE  IInv'
<1>1. queue \in Seq([kind : {"config", "complete", "mesh"}, late : BOOLEAN])
    BY DEF IInv, TypeOK
<1>2. TypeOK'
    BY <1>1 DEF IInv, TypeOK, SyncPcs, ReadyPcs
<1>3. SyncNeverSleepsOnData' /\ ReadyNeverSleepsOnNews'
    BY DEF SyncNeverSleepsOnData, ReadyNeverSleepsOnNews
<1>4. NoNewsBeforeReady'
  <2> SUFFICES ASSUME pc' \in SyncPcs \cup {"resubscribe"},
                      NEW i \in 1..Len(queue')
               PROVE  ~queue'[i].late
      BY DEF NoNewsBeforeReady
  <2>1. i + 1 \in 1..Len(queue) /\ queue'[i] = queue[i + 1]
      BY <1>1
  <2>2. pc \in SyncPcs
      BY DEF SyncPcs, ReadyPcs
  <2> QED
      BY <2>1, <2>2 DEF IInv, NoNewsBeforeReady
<1> QED
    BY <1>2, <1>3, <1>4 DEF IInv

\* The inductive invariant.
THEOREM NoLostWakeup == Spec => []IInv
<1>1. Init => IInv
  <2> SUFFICES ASSUME Init PROVE IInv
      OBVIOUS
  <2>1. TypeOK
    <3>1. event \in BOOLEAN /\ link \in BOOLEAN /\ subscribed \in BOOLEAN
        BY Zenon DEF Init
    <3>2. queue \in Seq([kind : {"config", "complete", "mesh"}, late : BOOLEAN])
        BY DEF Init
    <3>3. calls \in Nat /\ toDump \in Nat /\ toCome \in Nat
        BY DrainAssumption DEF Init
    <3>4. pc = "subscribe" /\ passkey = "none"
        BY DEF Init
    <3> QED
        BY <3>1, <3>2, <3>3, <3>4 DEF TypeOK, SyncPcs, ReadyPcs
  <2>2. SyncNeverSleepsOnData /\ ReadyNeverSleepsOnNews /\ NoNewsBeforeReady
      BY DEF Init, SyncNeverSleepsOnData, ReadyNeverSleepsOnNews, NoNewsBeforeReady
  <2> QED
      BY <2>1, <2>2 DEF IInv
<1>2. IInv /\ [Next]_vars => IInv'
  <2> SUFFICES ASSUME IInv, [Next]_vars PROVE IInv'
      OBVIOUS
  <2> USE DEF IInv, TypeOK, SyncNeverSleepsOnData, ReadyNeverSleepsOnNews,
              NoNewsBeforeReady, WakeupDue, SyncPcs, ReadyPcs, Over, radio
  <2>1. CASE RadioDumps
    <3>1. PICK k \in {"config", "complete"} : Queues(k)
        BY <2>1 DEF RadioDumps
    <3>2. toDump' \in Nat /\ toCome' \in Nat /\ passkey' = passkey
        BY <2>1 DEF RadioDumps
    <3> QED
        BY <3>1, <3>2, QueuesPreserves
  <2>2. CASE RadioReceives
    <3>1. toDump' \in Nat /\ toCome' \in Nat /\ passkey' = passkey
        BY <2>2 DEF RadioReceives
    <3> QED
        BY <2>2, <3>1, QueuesPreserves DEF RadioReceives
  <2>3. CASE RadioAnswers
      BY <2>3, QueuesPreserves DEF RadioAnswers
  <2>4. CASE LinkLost
      BY <2>4 DEF LinkLost
  <2>5. CASE EventSet
      BY <2>5 DEF EventSet
  <2>6. CASE SyncSubscribes
      BY <2>6 DEF SyncSubscribes
  <2>7. CASE WantConfig
      BY <2>7, DrainAssumption DEF WantConfig
  <2>8. CASE SyncWakes
      BY <2>8 DEF SyncWakes, Wakes
  <2>9. CASE SyncFindsNothing
      BY <2>9 DEF SyncFindsNothing, FindsNothing
  <2>10. CASE ReadyFindsNothing
      BY <2>10 DEF ReadyFindsNothing, FindsNothing
  <2>11. CASE SyncDrained
      BY <2>11 DEF SyncDrained
  <2>12. CASE SyncReads
      BY <2>12, ReadPreserves DEF SyncReads
  <2>13. CASE SyncFails
      BY <2>13 DEF SyncFails
  <2>14. CASE Unsubscribed
      BY <2>14 DEF Unsubscribed
  <2>15. CASE Resubscribed
      BY <2>15 DEF Resubscribed
  <2>16. CASE ResubscribeFails
      BY <2>16 DEF ResubscribeFails
  <2>17. CASE ReadyWakes
      BY <2>17 DEF ReadyWakes, Wakes
  <2>18. CASE ReadyDrained
      BY <2>18 DEF ReadyDrained
  <2>19. CASE ReadyReads
      BY <2>19, ReadPreserves DEF ReadyReads
  <2>20. CASE ReadyReadFails
      BY <2>20 DEF ReadyReadFails
  <2>21. CASE IdleTimeout
      BY <2>21 DEF IdleTimeout
  <2>22. CASE PasskeyAsks
      BY <2>22 DEF PasskeyAsks
  <2>23. CASE PasskeyFails
      BY <2>23 DEF PasskeyFails
  <2>24. CASE UNCHANGED vars
      BY <2>24 DEF vars
  <2> QED
      BY <2>1, <2>2, <2>3, <2>4, <2>5, <2>6, <2>7, <2>8, <2>9, <2>10,
         <2>11, <2>12, <2>13, <2>14, <2>15, <2>16, <2>17, <2>18, <2>19, <2>20,
         <2>21, <2>22, <2>23, <2>24 DEF Next, Reader, Passkey
<1> QED
    BY <1>1, <1>2, PTL DEF Spec

\* Types, and the subscription of READY, for every number of packets.
THEOREM DrainTypes == Spec => []TypeOK
<1>1. IInv => TypeOK
    BY DEF IInv
<1> QED
    BY <1>1, NoLostWakeup, PTL

\* The sync never sleeps on data it was told of (ble_device.py:1690-1706).
THEOREM SyncAwake == Spec => []SyncNeverSleepsOnData
<1>1. IInv => SyncNeverSleepsOnData
    BY DEF IInv
<1> QED
    BY <1>1, NoLostWakeup, PTL

\* The READY loop never sleeps on a packet queued since READY
\* (ble_device.py:1723-1739).
THEOREM ReadyAwake == Spec => []ReadyNeverSleepsOnNews
<1>1. IInv => ReadyNeverSleepsOnNews
    BY DEF IInv
<1> QED
    BY <1>1, NoLostWakeup, PTL

\* Neither read loop sleeps on a packet it was told of
\* (ble_device.py:1690-1739).
THEOREM NeitherSleeps == Spec => []NeverSleepsOnNews
<1>1. SyncNeverSleepsOnData /\ ReadyNeverSleepsOnNews => NeverSleepsOnNews
    BY DEF NeverSleepsOnNews
<1> QED
    BY <1>1, SyncAwake, ReadyAwake, PTL
=============================================================================
