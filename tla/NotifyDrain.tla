------------------------------ MODULE NotifyDrain ------------------------------
(***************************************************************************)
(* How one session of a BleDevice reads the radio: _run_sync, the second   *)
(* subscription, _on_fromnum and _notify_loop (core/ble_device.py).        *)
(*                                                                         *)
(* The radio keeps packets in a queue and hands one out per read of        *)
(* FROMRADIO.  To a client subscribed to FROMNUM it announces each packet  *)
(* it queues.  The announcement is a callback that schedules               *)
(* _fromnum_event.set() on the event loop, where it runs some time later.  *)
(* The readers wait for the event, clear it and read until the radio has   *)
(* nothing more.                                                           *)
(***************************************************************************)
EXTENDS Naturals, Sequences

CONSTANTS
    ConfigPackets,  \* packets of the configuration before config_complete
    MeshPackets     \* (bound) mesh packets that arrive during the session

ASSUME DrainAssumption == ConfigPackets \in Nat /\ MeshPackets \in Nat

VARIABLES
    pc,         \* the await at which the session is suspended
    event,      \* _fromnum_event is set
    calls,      \* set() calls scheduled by _on_fromnum that have not run yet
    link,       \* the radio is connected
    subscribed, \* the radio announces packets on FROMNUM
    queue,      \* the packets the radio keeps for this client
    toDump,     \* packets of the configuration still to be queued
    toCome,     \* mesh packets that may still arrive
    passkey     \* the session passkey: "none", "asked", "answered" or "silent"

vars == <<pc, event, calls, link, subscribed, queue, toDump, toCome, passkey>>

SyncPcs  == {"subscribe", "wantConfig", "syncWait", "syncRead", "syncEmpty", "unsubscribe"}
ReadyPcs == {"readyWait", "readyRead", "readyEmpty"}
Over     == {"failed", "disconnected"}

\* late: the packet was queued after the session subscribed for READY.
Packet(kind) == [kind |-> kind, late |-> pc \in ReadyPcs]

Init ==
    /\ pc = "subscribe"
    /\ event = FALSE        \* _run_sync clears it first
    /\ calls = 0
    /\ link = TRUE
    /\ subscribed = FALSE
    /\ queue = <<>>
    /\ toDump = 0
    /\ toCome = MeshPackets
    /\ passkey = "none"

radio == <<subscribed, queue, toDump, toCome, passkey>>

-----------------------------------------------------------------------------
(* The radio and the link.                                                 *)

\* The radio queues a packet and announces it.
Queues(kind) ==
    /\ link
    /\ queue' = Append(queue, Packet(kind))
    /\ calls' = IF subscribed THEN calls + 1 ELSE calls
    /\ UNCHANGED <<pc, event, link, subscribed>>

\* It dumps its configuration, config_complete last, at its own pace.
RadioDumps ==
    /\ toDump > 0
    /\ Queues(IF toDump = 1 THEN "complete" ELSE "config")
    /\ toDump' = toDump - 1
    /\ UNCHANGED <<toCome, passkey>>

\* A packet comes in from the mesh.
RadioReceives ==
    /\ toCome > 0
    /\ Queues("mesh")
    /\ toCome' = toCome - 1
    /\ UNCHANGED <<toDump, passkey>>

LinkLost ==
    /\ link
    /\ link' = FALSE
    /\ UNCHANGED <<pc, event, calls, radio>>

\* A scheduled _fromnum_event.set() runs.
EventSet ==
    /\ calls > 0
    /\ calls' = calls - 1
    /\ event' = TRUE
    /\ UNCHANGED <<pc, link, radio>>

-----------------------------------------------------------------------------
(* _run_sync                                                               *)

\* start_notify; that it fails is only logged.
SyncSubscribes ==
    /\ pc = "subscribe"
    /\ pc' = "wantConfig"
    /\ subscribed' \in {link, FALSE}
    /\ UNCHANGED <<event, calls, link, queue, toDump, toCome, passkey>>

\* want_config is written and the first drain triggered.
WantConfig ==
    /\ pc = "wantConfig"
    /\ link
    /\ pc' = "syncWait"
    /\ event' = TRUE
    /\ toDump' = ConfigPackets + 1
    /\ UNCHANGED <<calls, link, subscribed, queue, toCome, passkey>>

\* A reader that waited for the event clears it and starts to read.
Wakes(from, to) ==
    /\ pc = from
    /\ event
    /\ event' = FALSE
    /\ pc' = to
    /\ UNCHANGED <<calls, link, radio>>

SyncWakes == Wakes("syncWait", "syncRead")

\* The radio answers a read with nothing.  The answer takes its time: more
\* packets may be announced before the reader sees it.
FindsNothing(from, to) ==
    /\ pc = from
    /\ link
    /\ queue = <<>>
    /\ pc' = to
    /\ UNCHANGED <<event, calls, link, radio>>

SyncFindsNothing == FindsNothing("syncRead", "syncEmpty")

\* Back to waiting for an announcement, without another look at anything.
SyncDrained ==
    /\ pc = "syncEmpty"
    /\ pc' = "syncWait"
    /\ UNCHANGED <<event, calls, link, radio>>

\* One packet is read; config_complete ends the sync at once, whatever the
\* radio has queued behind it.
SyncReads ==
    /\ pc = "syncRead"
    /\ link
    /\ queue # <<>>
    /\ queue' = Tail(queue)
    /\ pc' = IF Head(queue).kind = "complete" THEN "unsubscribe" ELSE "syncRead"
    /\ UNCHANGED <<event, calls, link, subscribed, toDump, toCome, passkey>>

\* sync_timeout_s is over, or an operation fails because the link is lost.
SyncFails ==
    /\ pc \in SyncPcs \ {"unsubscribe"}
    /\ pc' = "failed"
    /\ subscribed' = FALSE
    /\ UNCHANGED <<event, calls, link, queue, toDump, toCome, passkey>>

\* The finally block: stop_notify, errors suppressed.
Unsubscribed ==
    /\ pc = "unsubscribe"
    /\ pc' = "resubscribe"
    /\ subscribed' = FALSE
    /\ UNCHANGED <<event, calls, link, queue, toDump, toCome, passkey>>

-----------------------------------------------------------------------------
(* READY                                                                   *)

\* (Mutant) A failure is only logged, as in the sync.
ResubscribedOrNot ==
    /\ pc = "resubscribe"
    /\ link
    /\ subscribed' \in BOOLEAN
    /\ pc' = "readyWait"
    /\ UNCHANGED <<event, calls, link, queue, toDump, toCome, passkey>>

\* start_notify for READY; the event is not touched.
Resubscribed ==
    /\ pc = "resubscribe"
    /\ link
    /\ subscribed' = TRUE
    /\ pc' = "readyWait"
    /\ UNCHANGED <<event, calls, link, queue, toDump, toCome, passkey>>

ResubscribeFails ==
    /\ pc = "resubscribe"
    /\ pc' = "failed"
    /\ UNCHANGED <<event, calls, link, radio>>

ReadyWakes == Wakes("readyWait", "readyRead")

ReadyFindsNothing == FindsNothing("readyRead", "readyEmpty")

\* (Mutant) The event is cleared when the reading is over.
ReadyDrainedClears ==
    /\ pc = "readyEmpty"
    /\ pc' = "readyWait"
    /\ event' = FALSE
    /\ UNCHANGED <<calls, link, radio>>

ReadyDrained ==
    /\ pc = "readyEmpty"
    /\ pc' = "readyWait"
    /\ UNCHANGED <<event, calls, link, radio>>

\* (Mutant) One packet is read for each announcement.
ReadyReadsOne ==
    /\ pc = "readyRead"
    /\ link
    /\ queue # <<>>
    /\ queue' = Tail(queue)
    /\ pc' = "readyWait"
    /\ UNCHANGED <<event, calls, link, subscribed, toDump, toCome, passkey>>

ReadyReads ==
    /\ pc = "readyRead"
    /\ link
    /\ queue # <<>>
    /\ queue' = Tail(queue)
    /\ UNCHANGED <<pc, event, calls, link, subscribed, toDump, toCome, passkey>>

\* Reading without a link raises BleakError.
ReadyReadFails ==
    /\ pc = "readyRead"
    /\ ~link
    /\ pc' = "disconnected"
    /\ UNCHANGED <<event, calls, link, radio>>

\* (Mutant) The link is not looked at.
IdleTimeoutUnchecked ==
    /\ pc = "readyWait"
    /\ UNCHANGED vars

\* notify_idle_timeout_s passed without the event: only the link is checked.
\* With a link the loop waits again, which changes nothing.
IdleTimeout ==
    /\ pc = "readyWait"
    /\ ~link
    /\ pc' = "disconnected"
    /\ UNCHANGED <<event, calls, link, radio>>

\* (Mutant) The passkey is fetched for the first time at the first refresh.
PasskeyAsksLater ==
    /\ pc \in ReadyPcs
    /\ link
    /\ passkey = "none"
    /\ toCome = 0
    /\ passkey' = "answered"
    /\ UNCHANGED <<pc, event, calls, link, subscribed, queue, toDump, toCome>>

\* The passkey task asks the radio for the session passkey as soon as the
\* session is READY.  What it asks for later, every admin_passkey_refresh_s,
\* brings in packets like those from the mesh.
PasskeyAsks ==
    /\ pc \in ReadyPcs
    /\ link
    /\ passkey = "none"
    /\ passkey' = "asked"
    /\ UNCHANGED <<pc, event, calls, link, subscribed, queue, toDump, toCome>>

\* The write fails, which ends the passkey task, or the sync has not told the
\* node number to ask: the radio hears nothing.
PasskeyFails ==
    /\ pc \in ReadyPcs
    /\ passkey = "none"
    /\ passkey' = "silent"
    /\ UNCHANGED <<pc, event, calls, link, subscribed, queue, toDump, toCome>>

\* The radio answers with a packet of its own.
RadioAnswers ==
    /\ passkey = "asked"
    /\ Queues("mesh")
    /\ passkey' = "answered"
    /\ UNCHANGED <<toDump, toCome>>

-----------------------------------------------------------------------------
Reader ==
    \/ SyncWakes \/ SyncFindsNothing \/ SyncDrained \/ SyncReads \/ SyncFails \/ Unsubscribed
    \/ SyncSubscribes \/ WantConfig
    \/ Resubscribed \/ ResubscribeFails
    \/ ReadyWakes \/ ReadyFindsNothing \/ ReadyDrained \/ ReadyReads
    \/ ReadyReadFails \/ IdleTimeout

Passkey == PasskeyAsks \/ PasskeyFails

Next ==
    \/ RadioDumps \/ RadioReceives \/ RadioAnswers \/ LinkLost \/ EventSet
    \/ Reader \/ Passkey

Spec == Init /\ [][Next]_vars

\* The event loop runs the reader, the scheduled calls and the passkey task;
\* the timeouts expire; and the radio answers what it is asked.
FairSpec ==
    /\ Spec
    /\ WF_vars(Reader) /\ WF_vars(EventSet)
    /\ WF_vars(Passkey) /\ WF_vars(RadioAnswers)

-----------------------------------------------------------------------------
(* Properties.                                                             *)

\* The types, and that READY is subscribed to FROMNUM (ble_device.py:1545-1550).
TypeOK ==
    /\ pc \in SyncPcs \cup ReadyPcs \cup Over \cup {"resubscribe"}
    /\ event \in BOOLEAN
    /\ calls \in Nat
    /\ link \in BOOLEAN
    /\ subscribed \in BOOLEAN
    /\ queue \in Seq([kind : {"config", "complete", "mesh"}, late : BOOLEAN])
    /\ toDump \in Nat
    /\ toCome \in Nat
    /\ passkey \in {"none", "asked", "answered", "silent"}
    /\ pc \in ReadyPcs => subscribed

\* Something will wake a reader that waits.
WakeupDue == event \/ calls > 0

\* No lost wakeup during the sync (ble_device.py:1690-1706): with FROMNUM
\* subscribed, the sync never waits for an announcement, or goes to wait for
\* one, while packets wait for it.
SyncNeverSleepsOnData ==
    pc \in {"syncEmpty", "syncWait"} /\ subscribed /\ queue # <<>> => WakeupDue

\* No lost wakeup in READY (ble_device.py:1723-1739), for the packets queued
\* since READY.
ReadyNeverSleepsOnNews ==
    pc \in {"readyEmpty", "readyWait"} /\ (\E i \in 1..Len(queue) : queue[i].late) => WakeupDue

\* Neither loop sleeps on a packet it was told of (ble_device.py:1690-1739).
NeverSleepsOnNews == SyncNeverSleepsOnData /\ ReadyNeverSleepsOnNews

\* The inductive invariant: what is late was queued in READY.
NoNewsBeforeReady ==
    pc \in SyncPcs \cup {"resubscribe"} => \A i \in 1..Len(queue) : ~queue[i].late

IInv == TypeOK /\ SyncNeverSleepsOnData /\ ReadyNeverSleepsOnNews /\ NoNewsBeforeReady

\* A packet queued in READY is read, and all those before it, however the
\* announcements meet the reads (ble_device.py:1719-1739).
NewsIsRead ==
    (pc \in ReadyPcs /\ \E i \in 1..Len(queue) : queue[i].late)
        ~> (queue = <<>> \/ ~link)

\* A packet queued behind config_complete, or between the two subscriptions,
\* has no announcement left to wake the loop, and the idle timeout does not
\* read.  The answer to the passkey request flushes it: unless that request
\* fails, no packet stays unread (ble_device.py:901-908, 1546, 1706).
NothingStaysUnread ==
    (pc \in ReadyPcs /\ queue # <<>>)
        ~> (queue = <<>> \/ ~link \/ passkey = "silent")

\* A lost link does not go unnoticed, though nothing announces it
\* (ble_device.py:1727-1732).
LossNoticed == ~link ~> pc \in Over
=============================================================================
