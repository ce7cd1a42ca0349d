--------------------------- MODULE FirmwareTransfer ---------------------------
(***************************************************************************)
(* The transfer of a firmware image to a bootloader, by one of two         *)
(* protocols: OtaSession (core/ota_session.py), which waits for an answer  *)
(* to each chunk, and NordicDfuSession (core/nordic_dfu_session.py), which *)
(* streams packets and waits for a receipt after every prn of them.        *)
(*                                                                         *)
(* The bootloader, which is external, takes what is written in order and   *)
(* answers with notifications.  Answers wait in the session's queue; a     *)
(* receipt sets an event, which has no memory of how often it was set.     *)
(* The bootloader may refuse anything or fall silent, the link may break,  *)
(* and an answer may come too late.  What becomes of the result is         *)
(* BleDevice's OtaSessionEnds.                                             *)
(***************************************************************************)
EXTENDS Naturals, Sequences

CONSTANTS
    Chunks,     \* chunks, or packets, of the image
    Prns,       \* the values of the setting nordic_prn
    MaxErasing  \* (bound) ERASING lines not yet read

ASSUME TransferAssumption ==
    Chunks \in Nat \ {0} /\ Prns \subseteq Nat /\ MaxErasing \in Nat

VARIABLES
    protocol,   \* "bleota" or "nordic"
    prn,        \* packets for each receipt, 0 for none
    pc,         \* the await of the session
    sent,       \* chunks written
    inbox,      \* _notify_queue or _response_queue
    receipt,    \* _prn_event is set
    result,     \* what run() returned, or "exception"
    wire,       \* written, not yet taken by the bootloader
    air,        \* notifications under way
    got,        \* chunks the bootloader has
    verified,   \* it has found the image complete and right
    alive,      \* it still takes what it is sent
    link,       \* the connection
    trouble,    \* (history) something was refused, lost or late, or the bootloader is silent
    timeouts    \* (history) receipts given up

config == <<protocol, prn>>
session == <<pc, sent, inbox, receipt, result, timeouts>>
boot == <<got, verified, alive>>
vars == <<config, session, wire, air, boot, link, trouble>>

Waits == {"version", "erase", "ack", "START", "INIT", "RECEIVE", "VALIDATE"}

\* A notification: what it answers, and what it says.
Note(op, says) == [op |-> op, says |-> says]

Init ==
    /\ protocol \in {"bleota", "nordic"}
    /\ prn \in Prns
    /\ pc = "subscribe"
    /\ sent = 0 /\ got = 0 /\ timeouts = 0
    /\ inbox = <<>> /\ wire = <<>> /\ air = <<>>
    /\ receipt = FALSE
    /\ result = "none"
    /\ verified = FALSE
    /\ alive = TRUE /\ link = TRUE
    /\ trouble = FALSE

-----------------------------------------------------------------------------
(* The steps of a session are made of these.                               *)

Returns(r) == pc' = "done" /\ result' = r /\ UNCHANGED <<wire, sent>>

\* An exception leaves OtaSession; NordicDfuSession turns it into an error.
Raises == Returns(IF protocol = "bleota" THEN "exception" ELSE "error")

\* The session writes and goes on to next; without a link it raises.
Writes(commands, next) ==
    IF link
    THEN /\ wire' = wire \o commands
         /\ pc' = next
         /\ UNCHANGED <<result, sent>>
    ELSE Raises

WritesChunk(commands, next) ==
    IF link
    THEN /\ wire' = wire \o commands \o <<"chunk">>
         /\ sent' = sent + 1
         /\ pc' = next
         /\ UNCHANGED result
    ELSE Raises

\* The bootloader, and what only other steps touch.
Outside == UNCHANGED <<config, air, boot, link>>

\* What the session reads next.
Answer == Head(inbox)

\* The session, waiting at `at', reads it.
Reads(at) ==
    /\ pc = at
    /\ inbox # <<>>
    /\ inbox' = Tail(inbox)
    /\ Outside /\ UNCHANGED <<receipt, trouble, timeouts>>

\* start_notify; what it raises leaves either session.
Subscribes ==
    /\ pc = "subscribe"
    /\ IF link
       THEN pc' = "first" /\ UNCHANGED <<result, wire, sent>>
       ELSE Returns("exception")
    /\ Outside /\ UNCHANGED <<inbox, receipt, trouble, timeouts>>

\* The first command; the Nordic session empties its queue before it.
FirstCommand ==
    /\ pc = "first"
    /\ IF protocol = "bleota"
       THEN Writes(<<"VERSION">>, "version") /\ UNCHANGED inbox
       ELSE Writes(<<"START">>, "START") /\ inbox' = <<>>
    /\ Outside /\ UNCHANGED <<receipt, trouble, timeouts>>

\* (mutant) Only a lost link ends the wait for an answer.
ResponseNeedsLink ==
    /\ pc \in Waits
    /\ inbox = <<>> /\ ~link
    /\ Raises
    /\ trouble' = TRUE
    /\ Outside /\ UNCHANGED <<inbox, receipt, timeouts>>

\* The answer did not come in time.
ResponseTimeout ==
    /\ pc \in Waits
    /\ inbox = <<>>
    /\ Raises
    /\ trouble' = TRUE
    /\ Outside /\ UNCHANGED <<inbox, receipt, timeouts>>

-----------------------------------------------------------------------------
(* OtaSession                                                              *)

VersionAnswered ==
    /\ Reads("version")
    /\ IF Answer.says = "OK" THEN Writes(<<"OTA">>, "erase") ELSE Returns("error")

\* ERASING says that the answer is still to come.
EraseAnswered ==
    /\ Reads("erase")
    /\ CASE Answer.says = "ERASING" -> UNCHANGED <<pc, result, wire, sent>>
         [] Answer.says = "REJECTED" -> Returns("nvs_mismatch")
         [] Answer.says = "OK" -> WritesChunk(<<>>, "ack")
         [] OTHER -> Returns("error")

\* (mutant) An ERR to the last chunk is only logged.
AckWarnsOnly ==
    /\ Reads("ack")
    /\ IF sent < Chunks
       THEN IF Answer.says = "ERR" THEN Returns("error") ELSE WritesChunk(<<>>, "ack")
       ELSE Returns("ok")

\* An ERR ends the session; anything else counts as the answer to the chunk,
\* and after the last chunk as success.
AckRead ==
    /\ Reads("ack")
    /\ IF Answer.says = "ERR" THEN Returns("error")
       ELSE IF sent < Chunks THEN WritesChunk(<<>>, "ack") ELSE Returns("ok")

-----------------------------------------------------------------------------
(* NordicDfuSession                                                        *)

\* _wait_response: the status of another request is an error too.
Granted(op) == Answer.op = op /\ Answer.says = "OK"

StartAnswered ==
    /\ Reads("START")
    /\ IF Granted("START") THEN Writes(<<"INIT">>, "INIT") ELSE Raises

\* The receipts are asked for, the transfer begins, and the first packet goes
\* out; a link that breaks between these writes breaks before the next one.
InitAnswered ==
    /\ Reads("INIT")
    /\ IF Granted("INIT")
       THEN WritesChunk((IF prn > 0 THEN <<"PRN">> ELSE <<>>) \o <<"RECEIVE">>, "packet")
       ELSE Raises

NextPacket ==
    IF sent < Chunks
    THEN WritesChunk(<<>>, "packet")
    ELSE pc' = "RECEIVE" /\ UNCHANGED <<result, wire, sent>>

AtReceipt(k) == prn > 0 /\ k % prn = 0

\* (mutant) The event keeps what the last receipt set.
PacketWrittenKeeps ==
    /\ pc = "packet"
    /\ IF AtReceipt(sent)
       THEN pc' = "receipt" /\ UNCHANGED <<receipt, result, wire, sent>>
       ELSE NextPacket /\ UNCHANGED receipt
    /\ Outside /\ UNCHANGED <<inbox, trouble, timeouts>>

\* The write of a packet returns.  The event is cleared only now: a receipt
\* that came during the write is forgotten.
PacketWritten ==
    /\ pc = "packet"
    /\ IF AtReceipt(sent)
       THEN pc' = "receipt" /\ receipt' = FALSE /\ UNCHANGED <<result, wire, sent>>
       ELSE NextPacket /\ UNCHANGED receipt
    /\ Outside /\ UNCHANGED <<inbox, trouble, timeouts>>

ReceiptSeen ==
    /\ pc = "receipt"
    /\ receipt
    /\ NextPacket
    /\ Outside /\ UNCHANGED <<inbox, receipt, trouble, timeouts>>

\* (mutant) A missing receipt fails the update.
ReceiptTimeoutRaises ==
    /\ pc = "receipt"
    /\ ~receipt
    /\ Raises
    /\ timeouts' = timeouts + 1
    /\ Outside /\ UNCHANGED <<inbox, receipt, trouble>>

\* The stream goes on without the receipt.
ReceiptTimeout ==
    /\ pc = "receipt"
    /\ ~receipt
    /\ NextPacket
    /\ timeouts' = timeouts + 1
    /\ Outside /\ UNCHANGED <<inbox, receipt, trouble>>

ImageAnswered ==
    /\ Reads("RECEIVE")
    /\ IF Granted("RECEIVE") THEN Writes(<<"VALIDATE">>, "VALIDATE") ELSE Raises

\* From here on an exception counts as the reboot: the session returns "ok"
\* whether or not ACTIVATE gets through.
ValidateAnswered ==
    /\ Reads("VALIDATE")
    /\ IF Granted("VALIDATE")
       THEN /\ pc' = "done" /\ result' = "ok"
            /\ wire' = IF link THEN Append(wire, "ACTIVATE") ELSE wire
            /\ UNCHANGED sent
       ELSE Raises

OtaSessionStep == VersionAnswered \/ EraseAnswered \/ AckRead
NordicSessionStep ==
    \/ StartAnswered \/ InitAnswered \/ PacketWritten \/ ReceiptSeen \/ ReceiptTimeout
    \/ ImageAnswered \/ ValidateAnswered
SessionStep ==
    \/ Subscribes \/ FirstCommand \/ ResponseTimeout
    \/ OtaSessionStep \/ NordicSessionStep

-----------------------------------------------------------------------------
(* The bootloader and the link (external).                                 *)

\* The callback of a notification: a receipt sets the event, all else is queued.
Notified ==
    /\ air # <<>>
    /\ air' = Tail(air)
    /\ IF Head(air).says = "receipt"
       THEN receipt' = TRUE /\ UNCHANGED inbox
       ELSE inbox' = Append(inbox, Head(air)) /\ UNCHANGED receipt
    /\ UNCHANGED <<config, pc, sent, result, timeouts, wire, boot, link, trouble>>

\* The bootloader takes the next thing written; it answers with notes.
Takes(command, notes) ==
    /\ alive /\ link
    /\ wire # <<>> /\ command = Head(wire)
    /\ wire' = Tail(wire)
    /\ air' = air \o notes
    /\ UNCHANGED <<config, session>>

Erases ==
    /\ alive /\ link
    /\ wire # <<>> /\ Head(wire) = "OTA"
    /\ Len(SelectSeq(air \o inbox, LAMBDA n : n.says = "ERASING")) < MaxErasing
    /\ air' = Append(air, Note("OTA", "ERASING"))
    /\ UNCHANGED <<config, session, wire, boot, link, trouble>>

TakesCommand ==
    /\ \E command \in {"VERSION", "OTA", "START", "INIT", "VALIDATE"} :
           /\ Takes(command, <<Note(command, "OK")>>)
           /\ verified' = (verified \/ command = "VALIDATE")
    /\ UNCHANGED <<got, alive, link, trouble>>

\* These two are not answered.
TakesSetting ==
    /\ \E command \in {"PRN", "RECEIVE"} : Takes(command, <<>>)
    /\ UNCHANGED <<boot, link, trouble>>

\* The answer to a chunk, or the receipt when one is due; the last packet may
\* have its answer only.
ChunkNotes(k) ==
    IF protocol = "bleota"
    THEN {<<Note("chunk", IF k = Chunks THEN "OK" ELSE "ACK")>>}
    ELSE LET due == IF AtReceipt(k) THEN <<Note("PRN", "receipt")>> ELSE <<>>
             end == <<Note("RECEIVE", "OK")>>
         IN  IF k = Chunks THEN {end, due \o end} ELSE {due}

TakesChunk ==
    /\ \E notes \in ChunkNotes(got + 1) : Takes("chunk", notes)
    /\ got' = got + 1
    /\ verified' = (protocol = "bleota" /\ got' = Chunks)
    /\ UNCHANGED <<alive, link, trouble>>

\* It refuses a command or a chunk, and does nothing more.
Refuses ==
    /\ \E command \in {"VERSION", "OTA", "START", "INIT", "VALIDATE", "chunk"} :
       \E says \in {"ERR", "REJECTED"} :
           /\ says = "REJECTED" => command = "OTA"
           /\ Takes(command,
                  <<Note(IF command = "chunk" /\ protocol = "nordic" THEN "RECEIVE" ELSE command,
                         says)>>)
    /\ alive' = FALSE
    /\ trouble' = TRUE
    /\ UNCHANGED <<got, verified, link>>

FallsSilent ==
    /\ alive /\ pc # "done"
    /\ alive' = FALSE
    /\ trouble' = TRUE
    /\ UNCHANGED <<config, session, wire, air, got, verified, link>>

\* The bootloader starts the new firmware, and the link ends with it.
Reboots ==
    /\ alive /\ link
    /\ \/ protocol = "bleota" /\ verified /\ air = <<>>
       \/ protocol = "nordic" /\ wire # <<>> /\ Head(wire) = "ACTIVATE"
    /\ link' = FALSE
    /\ alive' = FALSE
    /\ wire' = <<>>
    /\ UNCHANGED <<config, session, air, got, verified, trouble>>

LinkLost ==
    /\ link /\ pc # "done"
    /\ link' = FALSE
    /\ wire' = <<>> /\ air' = <<>>
    /\ trouble' = TRUE
    /\ UNCHANGED <<config, session, boot>>

Served == TakesCommand \/ TakesSetting \/ TakesChunk
Bootloader == Served \/ Notified \/ Erases \/ Refuses \/ FallsSilent \/ Reboots \/ LinkLost

Next == SessionStep \/ Bootloader

\* The event loop runs the session, whose waits all have a timeout; a
\* bootloader that is alive and connected takes what is written, so that it also
\* stops erasing at last; what it sends arrives.
Spec ==
    /\ Init /\ [][Next]_vars
    /\ WF_vars(SessionStep)
    /\ WF_vars(Served)
    /\ WF_vars(Notified)

-----------------------------------------------------------------------------
(* Properties                                                              *)

Commands == {"VERSION", "OTA", "START", "INIT", "PRN", "RECEIVE", "VALIDATE", "ACTIVATE", "chunk"}
Notes == [op : Commands, says : {"OK", "ACK", "ERASING", "REJECTED", "ERR", "receipt"}]

\* The shape of the state: the bootloader never has more chunks than were
\* written, nor are more written than the image has.
TypeOK ==
    /\ protocol \in {"bleota", "nordic"} /\ prn \in Prns
    /\ pc \in Waits \cup {"subscribe", "first", "packet", "receipt", "done"}
    /\ sent \in 0..Chunks /\ got \in 0..sent
    /\ inbox \in Seq(Notes) /\ air \in Seq(Notes) /\ wire \in Seq(Commands)
    /\ receipt \in BOOLEAN /\ verified \in BOOLEAN
    /\ alive \in BOOLEAN /\ link \in BOOLEAN /\ trouble \in BOOLEAN
    /\ result \in {"none", "ok", "nvs_mismatch", "error", "exception"}
    /\ (result = "none") = (pc # "done")
    /\ timeouts \in 0..Chunks

\* A session that returns "ok" (ota_session.py, nordic_dfu_session.py: "flash
\* complete", "DFU complete") has a bootloader that has every chunk and has
\* found the image right, whatever was refused, lost or late on the way.
OkMeansFlashed == result = "ok" => got = Chunks /\ verified

\* How far the session may run ahead of the bootloader: a chunk when each is
\* answered, a group of packets when there are receipts, and another group for
\* every receipt that was given up.
Window ==
    CASE protocol = "bleota" -> 1
      [] protocol = "nordic" /\ prn > 0 -> prn * (1 + timeouts)
      [] OTHER -> Chunks

\* The session does not overrun the bootloader: a receipt counts for its own
\* group of packets only, although the event does not say which one it is, and
\* one that comes late makes the session run ahead by a group and no further.
Paced == sent - got <= Window

\* Types, no chunk or packet beyond the image included, and the pace.
TransferInv == TypeOK /\ Paced

\* run() returns, even if the bootloader falls silent or the link breaks at
\* any point: every wait has its timeout.
SessionReturns == <>(pc = "done")

\* When nothing is refused, lost or late, the update succeeds: no receipt that
\* was forgotten or left out, and no ERASING line, can make it fail.
AcceptedCompletes == [](~trouble) => <>(result = "ok")
=============================================================================
