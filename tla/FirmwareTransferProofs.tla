------------------------ MODULE FirmwareTransferProofs ------------------------
(***************************************************************************)
(* What the transfer promises, for any number of chunks and any setting of *)
(* the receipts: what "ok" means, and how far the session runs ahead of    *)
(* the bootloader.  The chunks on the wire are the last of what is written *)
(* there, and as many as the session has sent and the bootloader has not;  *)
(* an answer says what it says because of what the bootloader had then,    *)
(* and has still.                                                          *)
(***************************************************************************)
EXTENDS FirmwareTransfer, SequenceTheorems, TLAPS

Streaming == {"packet", "receipt"}
Asking    == {"version", "ack", "START", "INIT"}

Types ==
    /\ protocol \in {"bleota", "nordic"} /\ prn \in Prns
    /\ pc \in Waits \cup Streaming \cup {"subscribe", "first", "done"}
    /\ sent \in Nat /\ got \in Nat /\ got <= sent /\ sent <= Chunks
    /\ inbox \in Seq(Notes) /\ air \in Seq(Notes) /\ wire \in Seq(Commands)
    /\ receipt \in BOOLEAN /\ verified \in BOOLEAN
    /\ alive \in BOOLEAN /\ link \in BOOLEAN /\ trouble \in BOOLEAN
    /\ result \in {"none", "ok", "nvs_mismatch", "error", "exception"}
    /\ result = "none" <=> pc # "done"
    /\ timeouts \in Nat /\ timeouts <= sent

\* Each protocol has its own awaits; nothing is sent before the chunks, and
\* nothing at all before the first command.
SessionShape ==
    /\ pc \in {"version", "erase", "ack"} => protocol = "bleota"
    /\ pc \in {"START", "INIT", "RECEIVE", "VALIDATE"} \cup Streaming => protocol = "nordic"
    /\ pc \in {"subscribe", "first"} => inbox = <<>> /\ air = <<>> /\ wire = <<>>
    /\ pc \in {"subscribe", "first", "version", "erase", "START", "INIT"} => sent = 0 /\ timeouts = 0
    /\ pc \in {"ack"} \cup Streaming => sent > 0

\* As long as the bootloader takes what is written, the chunks it has not got
\* are the last things on the wire.
InTransit ==
    alive /\ link =>
        /\ sent - got <= Len(wire)
        /\ \A i \in 1..Len(wire) : wire[i] = "chunk" <=> i > Len(wire) - (sent - got)

\* Where the session asks one thing at a time, there is one command on the wire
\* or one answer on its way.
OneUnderWay ==
    pc \in Asking =>
        /\ Len(wire) + Len(air) + Len(inbox) <= 1
        /\ \A i \in 1..Len(wire) : wire[i] # "OTA"

\* ERASING lines come before the answer they announce.
Erasing(notes, n) == \A i \in 1..n : notes[i].says = "ERASING"

AnswerComesLast ==
    pc = "erase" =>
        /\ Len(wire) <= 1
        /\ Erasing(inbox, Len(inbox) - 1) /\ Erasing(air, Len(air) - 1)
        /\ air # <<>> => Erasing(inbox, Len(inbox))
        /\ wire # <<>> => Erasing(inbox, Len(inbox)) /\ Erasing(air, Len(air))

\* What an answer says is so: an answer to a chunk that the chunk was got, the
\* one to the image that all were, and the one to VALIDATE that they are right.
Tells(n) ==
    /\ pc = "ack" /\ n.says # "ERR" => got = sent
    /\ n.op = "RECEIVE" /\ n.says = "OK" => got = Chunks
    /\ n.op = "VALIDATE" /\ n.says = "OK" => got = Chunks /\ verified = TRUE

AnswersTell ==
    /\ \A i \in 1..Len(inbox) : Tells(inbox[i])
    /\ \A i \in 1..Len(air) : Tells(air[i])
    /\ \A i \in 1..Len(wire) :
         /\ pc = "ack" => wire[i] = "chunk"
         /\ wire[i] = "VALIDATE" => got = Chunks
    /\ protocol = "bleota" /\ got = Chunks => verified = TRUE

\* The receipts the session has waited for, and the one it waits for if it is
\* there.
Passed == (sent - 1) \div prn
Here   == IF pc = "receipt" /\ receipt = TRUE THEN 1 ELSE 0

\* In the stream every receipt was given up, or it was sent for a group of its
\* own; those in the air are for later groups.
ReceiptsCount ==
    pc \in Streaming =>
        /\ timeouts < sent
        /\ pc = "receipt" => AtReceipt(sent)
        /\ \A i \in 1..Len(wire) : wire[i] \in {"PRN", "RECEIVE", "chunk"}
        /\ alive /\ link /\ got < Chunks => \A i \in 1..Len(air) : air[i].says = "receipt"
        /\ prn > 0 =>
             \A i \in 0..Len(air) :
               i = 0 \/ air[i].says = "receipt" => Passed + Here + i <= (got \div prn) + timeouts

\* Paced, without its CASE.
Pace ==
    /\ protocol = "bleota" => sent - got <= 1
    /\ protocol = "nordic" /\ prn > 0 => sent - got <= prn * (1 + timeouts)

IInv ==
    /\ Types /\ SessionShape /\ InTransit
    /\ OneUnderWay /\ AnswerComesLast /\ AnswersTell
    /\ ReceiptsCount /\ Pace /\ OkMeansFlashed

-----------------------------------------------------------------------------
(* Arithmetic of the receipts, and sequences.                              *)

LEMMA DivMod ==
    ASSUME NEW p \in Nat \ {0}, NEW k \in Nat
    PROVE  k \div p \in Nat /\ k - p * (k \div p) = k % p
  OBVIOUS

\* A receipt is due exactly where the quotient grows.
LEMMA DivStep ==
    ASSUME NEW p \in Nat \ {0}, NEW k \in Nat
    PROVE  /\ (k + 1) % p = 0 => (k + 1) \div p = (k \div p) + 1
           /\ (k + 1) % p # 0 => (k + 1) \div p = k \div p
  <1>1. k + 1 \in Nat /\ k % p \in 0..(p - 1) /\ (k + 1) % p \in 0..(p - 1)
    OBVIOUS
  <1>2. k - p * (k \div p) = k % p /\ (k + 1) - p * ((k + 1) \div p) = (k + 1) % p
    BY <1>1, DivMod
  <1>3. k \div p \in Nat /\ (k + 1) \div p \in Nat
    BY <1>1, DivMod
  <1>4. QED BY <1>1, <1>2, <1>3

\* Who has passed t receipts more than there were for g packets is ahead by
\* 1 + t groups at most.
LEMMA GroupsAhead ==
    ASSUME NEW p \in Nat \ {0}, NEW s \in Nat, NEW g \in Nat, NEW t \in Nat,
           s \div p <= (g \div p) + t
    PROVE  (s + 1) - g <= p * (1 + t)
  <1>1. s < p * (s \div p) + p /\ p * (g \div p) <= g /\ s \div p \in Nat /\ g \div p \in Nat
    BY DivMod
  <1>2. p * (s \div p) <= p * ((g \div p) + t)
    BY <1>1
  <1>3. QED BY <1>1, <1>2

LEMMA TimesMonotone ==
    ASSUME NEW p \in Nat, NEW s \in Nat, NEW t \in Nat, s <= t
    PROVE  p * (1 + s) <= p * (1 + t) /\ p * (1 + s) \in Int /\ p * (1 + t) \in Int
  OBVIOUS

LEMMA LessAhead ==
    ASSUME NEW s \in Nat, NEW g \in Nat, NEW h \in Nat, g <= h
    PROVE  s - h <= s - g /\ s - h \in Int /\ s - g \in Int
  OBVIOUS

LEMMA HeadFacts ==
    ASSUME NEW S, NEW s \in Seq(S), s # <<>>
    PROVE  /\ Len(s) \in Nat \ {0} /\ Head(s) = s[1] /\ Head(s) \in S
           /\ Tail(s) \in Seq(S) /\ Len(Tail(s)) = Len(s) - 1
           /\ \A i \in 1..Len(Tail(s)) : Tail(s)[i] = s[i + 1] /\ i + 1 \in 1..Len(s)
  OBVIOUS

LEMMA JoinFacts ==
    ASSUME NEW S, NEW s \in Seq(S), NEW t \in Seq(S)
    PROVE  /\ s \o t \in Seq(S) /\ Len(s \o t) = Len(s) + Len(t)
           /\ \A i \in 1..Len(s \o t) :
                (s \o t)[i] = IF i <= Len(s) THEN s[i] ELSE t[i - Len(s)]
  OBVIOUS

-----------------------------------------------------------------------------
(* The session.                                                            *)

\* As long as no chunk is added, the pace is kept.
LEMMA PaceKept ==
    ASSUME Types, Pace, sent' = sent, got' \in Nat, got <= got',
           timeouts' \in Nat, timeouts <= timeouts', UNCHANGED config
    PROVE  Pace'
  <1>1. prn \in Nat
    BY TransferAssumption DEF Types
  <1> DEFINE before == prn * (1 + timeouts)
             after  == prn * (1 + timeouts')
  <1>2. before <= after /\ before \in Int /\ after \in Int
    BY <1>1, TimesMonotone DEF Types
  <1>3. /\ protocol = "bleota" => sent - got <= 1
        /\ protocol = "nordic" /\ prn > 0 => sent - got <= before
    BY DEF Pace
  <1> HIDE DEF before, after
  <1>4. sent - got' <= sent - got /\ sent - got' \in Int /\ sent - got \in Int
    <2>1. sent \in Nat /\ got \in Nat /\ got' \in Nat /\ got <= got'
      BY DEF Types
    <2>2. QED BY ONLY <2>1, LessAhead, Zenon
  <1>5. /\ protocol = "bleota" => sent - got' <= 1
        /\ protocol = "nordic" /\ prn > 0 => sent - got' <= after
    BY <1>2, <1>3, <1>4
  <1>6. QED BY <1>5 DEF Pace, config, after

\* A session that has returned asks nothing more.
LEMMA Returned ==
    ASSUME IInv, pc' = "done", sent' = sent, Outside,
           wire' = wire \/ (wire' = Append(wire, "ACTIVATE") /\ got = sent),
           inbox' \in Seq(Notes), \A i \in 1..Len(inbox') : \E j \in 1..Len(inbox) : inbox'[i] = inbox[j],
           receipt' \in BOOLEAN, trouble' \in BOOLEAN,
           timeouts' \in Nat, timeouts <= timeouts', timeouts' <= sent,
           result' \in {"ok", "nvs_mismatch", "error", "exception"},
           result' = "ok" => got = Chunks /\ verified = TRUE
    PROVE  IInv'
  <1>1. Types /\ wire \in Seq(Commands)
    BY DEF IInv, Types
  <1>2. wire' = wire \/ wire' = Append(wire, "ACTIVATE")
    OBVIOUS
  <1>3. Types'
    <2>1. wire' \in Seq(Commands)
      <3>1. "ACTIVATE" \in Commands
        BY DEF Commands
      <3>2. Append(wire, "ACTIVATE") \in Seq(Commands)
        BY ONLY <1>1, <3>1
      <3>3. QED BY ONLY <1>1, <1>2, <3>2, Zenon
    <2>2. QED BY <1>1, <2>1 DEF Types, Outside, config, boot, Waits
  <1>4. SessionShape' /\ OneUnderWay' /\ AnswerComesLast' /\ ReceiptsCount'
    BY DEF SessionShape, OneUnderWay, AnswerComesLast, ReceiptsCount, Asking, Streaming
  <1>5. InTransit'
    <2>1. CASE wire' = wire
      BY <2>1 DEF IInv, InTransit, Outside, boot
    <2>2. CASE wire' = Append(wire, "ACTIVATE") /\ got = sent
      BY <1>1, <2>2 DEF IInv, Types, InTransit, Outside, boot
    <2>3. QED BY <2>1, <2>2
  <1>6. AnswersTell'
    <2>1. UNCHANGED <<protocol, air, got, verified>> /\ pc' # "ack"
      BY DEF Outside, boot, config
    <2>2. (\A i \in 1..Len(inbox) : Tells(inbox[i]))'
      BY <2>1 DEF IInv, AnswersTell, Tells
    <2>3. (\A i \in 1..Len(air) : Tells(air[i]))'
      BY <2>1 DEF IInv, AnswersTell, Tells
    <2>4. \A i \in 1..Len(wire') : wire'[i] = "VALIDATE" => got = Chunks
      <3>1. CASE wire' = wire
        BY <3>1 DEF IInv, AnswersTell
      <3>2. CASE wire' = Append(wire, "ACTIVATE")
        BY <1>1, <3>2 DEF IInv, AnswersTell
      <3>3. QED BY <3>1, <3>2
    <2>5. QED BY <2>1, <2>2, <2>3, <2>4 DEF IInv, AnswersTell
  <1>7. Pace'
    BY <1>1, PaceKept DEF IInv, Types, Outside, boot
  <1>8. OkMeansFlashed'
    BY DEF OkMeansFlashed, Outside, boot
  <1>9. QED BY <1>3, <1>4, <1>5, <1>6, <1>7, <1>8 DEF IInv

\* What is left in the queue was in it.
LEMMA ReadOne ==
    ASSUME IInv, NEW at, Reads(at)
    PROVE  /\ pc = at /\ inbox' = Tail(inbox) /\ inbox' \in Seq(Notes)
           /\ Len(inbox) \in Nat \ {0} /\ Len(inbox') = Len(inbox) - 1
           /\ Answer = inbox[1] /\ Answer \in Notes
           /\ \A i \in 1..Len(inbox') : inbox'[i] = inbox[i + 1] /\ i + 1 \in 1..Len(inbox)
           /\ \A i \in 1..Len(inbox') : \E j \in 1..Len(inbox) : inbox'[i] = inbox[j]
           /\ Outside /\ UNCHANGED <<receipt, trouble, timeouts>>
           /\ Types /\ receipt' \in BOOLEAN /\ trouble' \in BOOLEAN
           /\ timeouts' \in Nat /\ timeouts <= timeouts' /\ timeouts' <= sent
  BY HeadFacts DEF Reads, Answer, IInv, Types

\* One that reads and returns, or raises.
LEMMA ReadsLast ==
    ASSUME IInv, NEW at, Reads(at), NEW r \in {"ok", "nvs_mismatch", "error", "exception"},
           Returns(r), r = "ok" => got = Chunks /\ verified = TRUE
    PROVE  IInv'
  BY ReadOne, Returned DEF Returns

LEMMA ReadsRaises ==
    ASSUME IInv, NEW at, Reads(at), Raises
    PROVE  IInv'
  BY ReadsLast DEF Raises

\* The answer to what is asked alone leaves nothing on its way.
LEMMA AnswerAlone ==
    ASSUME IInv, pc \in Asking, Reads(pc)
    PROVE  wire = <<>> /\ air = <<>> /\ inbox' = <<>>
  BY ReadOne DEF IInv, Types, OneUnderWay

\* A command is written when nothing is under way and no chunk has been sent.
LEMMA Asked ==
    ASSUME IInv, pc \in {"first", "version", "START"}, wire = <<>>, air = <<>>,
           NEW c \in {"VERSION", "OTA", "START", "INIT"}, wire' = <<c>>, inbox' = <<>>,
           \/ protocol = "bleota" /\ pc' \in {"version", "erase"}
           \/ protocol = "nordic" /\ pc' \in {"START", "INIT"},
           pc' = "erase" <=> c = "OTA",
           UNCHANGED <<result, sent, receipt, trouble, timeouts>>, Outside
    PROVE  IInv'
  <1>1. Types /\ sent = 0 /\ got = 0 /\ timeouts = 0
    BY DEF IInv, Types, SessionShape
  <1>2. wire' \in Seq(Commands) /\ Len(wire') = 1 /\ wire'[1] = c
    BY DEF Commands
  <1>3. Types'
    BY <1>1, <1>2 DEF Types, Outside, config, boot, Waits
  <1>4. SessionShape'
    BY <1>1 DEF SessionShape, Streaming, Outside, config
  <1>5. InTransit'
    BY <1>1, <1>2 DEF InTransit, Outside, boot
  <1>6. OneUnderWay' /\ AnswerComesLast'
    BY <1>2 DEF OneUnderWay, Asking, AnswerComesLast, Erasing, Outside
  <1>7. AnswersTell'
    BY <1>1, <1>2, TransferAssumption DEF AnswersTell, Outside, boot, Types
  <1>8. ReceiptsCount'
    BY DEF ReceiptsCount, Streaming
  <1>9. Pace'
    BY <1>1, PaceKept DEF IInv, Types, Outside, boot
  <1>10. OkMeansFlashed'
    BY <1>1 DEF OkMeansFlashed, Types
  <1>11. QED BY <1>3, <1>4, <1>5, <1>6, <1>7, <1>8, <1>9, <1>10 DEF IInv

LEMMA SubscribesPreserves ==
    ASSUME IInv, Subscribes
    PROVE  IInv'
  <1>1. CASE link
    <2>1. pc' = "first" /\ UNCHANGED <<result, wire, sent, inbox, receipt, trouble, timeouts>> /\ Outside
      BY <1>1 DEF Subscribes
    <2>2. pc = "subscribe" /\ Types
      BY DEF Subscribes, IInv
    <2>3. Types' /\ SessionShape'
      BY <2>1, <2>2 DEF IInv, Types, SessionShape, Outside, config, boot, Streaming
    <2>4. InTransit' /\ OneUnderWay' /\ AnswerComesLast' /\ ReceiptsCount'
      BY <2>1 DEF IInv, InTransit, OneUnderWay, AnswerComesLast, ReceiptsCount, Streaming, Asking,
                  Outside, boot
    <2>5. AnswersTell'
      BY <2>1, <2>2 DEF IInv, AnswersTell, Tells, Outside, config, boot
    <2>6. Pace' /\ OkMeansFlashed'
      BY <2>1, <2>2, PaceKept DEF IInv, Types, OkMeansFlashed, Outside, boot
    <2>7. QED BY <2>3, <2>4, <2>5, <2>6 DEF IInv
  <1>2. CASE ~link
    BY <1>2, Returned DEF Subscribes, Returns, IInv, Types
  <1>3. QED BY <1>1, <1>2

LEMMA FirstCommandPreserves ==
    ASSUME IInv, FirstCommand
    PROVE  IInv'
  <1>1. /\ pc = "first" /\ wire = <<>> /\ air = <<>> /\ inbox = <<>> /\ inbox' = <<>>
        /\ Types /\ Outside /\ UNCHANGED <<receipt, trouble, timeouts>>
    BY DEF IInv, FirstCommand, SessionShape, Types
  <1>2. CASE link
    <2>1. /\ UNCHANGED <<result, sent>>
          /\ \/ protocol = "bleota" /\ pc' = "version" /\ wire' = <<"VERSION">>
             \/ protocol = "nordic" /\ pc' = "START" /\ wire' = <<"START">>
      BY <1>1, <1>2 DEF FirstCommand, Writes, Types, Commands
    <2>2. CASE protocol = "bleota" /\ pc' = "version" /\ wire' = <<"VERSION">>
      BY <1>1, <2>1, <2>2, Asked
    <2>3. CASE protocol = "nordic" /\ pc' = "START" /\ wire' = <<"START">>
      BY <1>1, <2>1, <2>3, Asked
    <2>4. QED BY <2>1, <2>2, <2>3
  <1>3. CASE ~link
    <2>1. Raises
      BY <1>3 DEF FirstCommand, Writes
    <2>2. QED BY <1>1, <2>1, Returned DEF Raises, Returns, Types
  <1>4. QED BY <1>2, <1>3

LEMMA TimeoutPreserves ==
    ASSUME IInv, ResponseTimeout
    PROVE  IInv'
  BY Returned DEF ResponseTimeout, Raises, Returns, IInv, Types

LEMMA VersionPreserves ==
    ASSUME IInv, VersionAnswered
    PROVE  IInv'
  <1>1. Reads("version") /\ pc = "version" /\ protocol = "bleota"
    BY DEF VersionAnswered, Reads, IInv, SessionShape
  <1>2. CASE Answer.says = "OK" /\ link
    <2>1. wire = <<>> /\ air = <<>> /\ inbox' = <<>>
      BY <1>1, AnswerAlone DEF Asking
    <2>2. pc' = "erase" /\ wire' = <<"OTA">> /\ UNCHANGED <<result, sent>>
      BY <1>2, <2>1 DEF VersionAnswered, Writes
    <2>3. QED BY <1>1, <2>1, <2>2, Asked DEF Reads
  <1>3. CASE Answer.says = "OK" /\ ~link
    BY <1>1, <1>3, ReadsRaises DEF VersionAnswered, Writes
  <1>4. CASE Answer.says # "OK"
    BY <1>1, <1>4, ReadsLast DEF VersionAnswered
  <1>5. QED BY <1>2, <1>3, <1>4

\* A chunk is written alone when the bootloader has all that were sent.
LEMMA ChunkAsked ==
    ASSUME IInv, protocol = "bleota", pc \in {"erase", "ack"}, wire = <<>>, air = <<>>,
           got = sent, sent < Chunks, inbox' = <<>>, wire' = <<"chunk">>, sent' = sent + 1,
           pc' = "ack", UNCHANGED <<result, receipt, trouble, timeouts>>, Outside
    PROVE  IInv'
  <1>1. Types /\ Chunks \in Nat
    BY TransferAssumption DEF IInv
  <1>2. wire' \in Seq(Commands) /\ Len(wire') = 1 /\ wire'[1] = "chunk"
    BY DEF Commands
  <1>3. sent \in Nat /\ sent' \in Nat /\ sent' <= Chunks /\ sent' > 0 /\ got <= sent'
        /\ timeouts \in Nat /\ timeouts <= sent' /\ sent' - got = 1
    BY <1>1 DEF Types
  <1>4. Types'
    BY <1>1, <1>2, <1>3 DEF Types, Outside, config, boot, Waits
  <1>5. SessionShape'
    BY <1>3 DEF SessionShape, Streaming, Outside, config
  <1>6. InTransit'
    BY <1>2, <1>3 DEF InTransit, Outside, boot
  <1>7. OneUnderWay' /\ AnswerComesLast' /\ ReceiptsCount'
    BY <1>2 DEF OneUnderWay, Asking, AnswerComesLast, ReceiptsCount, Streaming, Outside
  <1>8. AnswersTell'
    BY <1>1, <1>2, <1>3 DEF IInv, AnswersTell, Tells, Outside, boot, config, Types
  <1>9. Pace' /\ OkMeansFlashed'
    BY <1>1, <1>3 DEF IInv, Types, Pace, OkMeansFlashed, Outside, config, boot
  <1>10. QED BY <1>4, <1>5, <1>6, <1>7, <1>8, <1>9 DEF IInv

LEMMA ErasePreserves ==
    ASSUME IInv, EraseAnswered
    PROVE  IInv'
  <1>1. Reads("erase") /\ pc = "erase" /\ protocol = "bleota" /\ sent = 0 /\ timeouts = 0
    BY DEF EraseAnswered, Reads, IInv, SessionShape
  <1>2. \/ Answer.says = "ERASING" /\ UNCHANGED <<pc, result, wire, sent>>
        \/ Answer.says = "REJECTED" /\ Returns("nvs_mismatch")
        \/ Answer.says = "OK" /\ WritesChunk(<<>>, "ack")
        \/ Returns("error")
    BY Zenon DEF EraseAnswered
  <1>3. /\ Len(inbox) \in Nat \ {0} /\ Len(inbox') = Len(inbox) - 1
        /\ Answer = inbox[1] /\ Answer \in Notes
        /\ \A i \in 1..Len(inbox') : inbox'[i] = inbox[i + 1] /\ i + 1 \in 1..Len(inbox)
        /\ inbox' \in Seq(Notes) /\ Outside /\ UNCHANGED <<receipt, trouble, timeouts>>
        /\ Types
    BY <1>1, ReadOne
  <1>4. CASE Answer.says = "ERASING" /\ UNCHANGED <<pc, result, wire, sent>>
    <2>1. Types' /\ SessionShape'
      BY <1>1, <1>3, <1>4 DEF IInv, Types, SessionShape, Outside, config, boot, Streaming
    <2>2. InTransit' /\ OneUnderWay' /\ ReceiptsCount'
      BY <1>1, <1>3, <1>4
      DEF IInv, InTransit, OneUnderWay, ReceiptsCount, Streaming, Asking, Outside, boot
    <2>3. AnswerComesLast'
      <3>1. /\ Len(wire) <= 1
            /\ Erasing(inbox, Len(inbox) - 1) /\ Erasing(air, Len(air) - 1)
            /\ air # <<>> => Erasing(inbox, Len(inbox))
            /\ wire # <<>> => Erasing(inbox, Len(inbox)) /\ Erasing(air, Len(air))
        BY <1>1 DEF IInv, AnswerComesLast
      <3>2. /\ \A i \in 1..(Len(inbox') - 1) : inbox'[i].says = "ERASING"
            /\ Erasing(inbox, Len(inbox)) => \A i \in 1..Len(inbox') : inbox'[i].says = "ERASING"
        <4>1. Len(inbox) \in Nat \ {0} /\ Len(inbox') = Len(inbox) - 1
          BY ONLY <1>3
        <4>2. \A i \in 1..Len(inbox') :
                 i + 1 \in 1..Len(inbox) /\ (i # Len(inbox') => i + 1 \in 1..(Len(inbox) - 1))
          BY ONLY <4>1
        <4>3. \A i \in 1..(Len(inbox') - 1) : i \in 1..Len(inbox') /\ i # Len(inbox')
          BY ONLY <4>1
        <4>4. \A i \in 1..Len(inbox') : inbox'[i] = inbox[i + 1]
          BY ONLY <1>3
        <4>5. /\ \A i \in 1..(Len(inbox) - 1) : inbox[i].says = "ERASING"
              /\ Erasing(inbox, Len(inbox)) => \A i \in 1..Len(inbox) : inbox[i].says = "ERASING"
          BY ONLY <3>1, Zenon DEF Erasing
        <4>6. QED BY ONLY <4>2, <4>3, <4>4, <4>5, Zenon
      <3>3. wire' = wire /\ air' = air
        BY <1>3, <1>4 DEF Outside
      <3>4. QED BY <3>1, <3>2, <3>3 DEF AnswerComesLast, Erasing
    <2>4. AnswersTell'
      BY <1>1, <1>3, <1>4 DEF IInv, AnswersTell, Tells, Outside, config, boot
    <2>5. Pace' /\ OkMeansFlashed'
      BY <1>1, <1>3, <1>4 DEF IInv, Pace, OkMeansFlashed, Outside, boot, config
    <2>6. QED BY <2>1, <2>2, <2>3, <2>4, <2>5 DEF IInv
  <1>5. CASE Answer.says = "OK" /\ WritesChunk(<<>>, "ack") /\ link
    <2>1. wire = <<>> /\ air = <<>> /\ inbox' = <<>>
      BY <1>1, <1>3, <1>5 DEF IInv, AnswerComesLast, Erasing, Types
    <2>2. pc' = "ack" /\ wire' = <<"chunk">> /\ sent' = sent + 1 /\ UNCHANGED result
      BY <1>5, <2>1 DEF WritesChunk
    <2>3. got = sent /\ sent < Chunks
      BY <1>1, <1>3, TransferAssumption DEF Types
    <2>4. QED BY <1>1, <1>3, <2>1, <2>2, <2>3, ChunkAsked
  <1>6. CASE Answer.says = "OK" /\ WritesChunk(<<>>, "ack") /\ ~link
    BY <1>1, <1>6, ReadsRaises DEF WritesChunk
  <1>7. CASE Returns("nvs_mismatch") \/ Returns("error")
    BY <1>1, <1>7, ReadsLast
  <1>8. QED BY <1>2, <1>4, <1>5, <1>6, <1>7

LEMMA AckPreserves ==
    ASSUME IInv, AckRead
    PROVE  IInv'
  <1>1. Reads("ack") /\ pc = "ack" /\ protocol = "bleota"
    BY DEF AckRead, Reads, IInv, SessionShape
  <1>2. wire = <<>> /\ air = <<>> /\ inbox' = <<>>
    BY <1>1, AnswerAlone DEF Asking
  <1>3. /\ Types /\ Outside /\ UNCHANGED <<receipt, trouble, timeouts>>
        /\ Answer = inbox[1] /\ 1 \in 1..Len(inbox)
    BY <1>1, ReadOne
  <1>4. CASE Answer.says = "ERR"
    BY <1>1, <1>4, ReadsLast DEF AckRead
  <1>5. CASE Answer.says # "ERR"
    <2>1. got = sent
      BY <1>1, <1>3, <1>5 DEF IInv, AnswersTell, Tells
    <2>2. CASE sent < Chunks /\ link
      <3>1. pc' = "ack" /\ wire' = <<"chunk">> /\ sent' = sent + 1 /\ UNCHANGED result
        BY <1>2, <1>5, <2>2 DEF AckRead, WritesChunk
      <3>2. QED BY <1>1, <1>2, <1>3, <2>1, <2>2, <3>1, ChunkAsked
    <2>3. CASE sent < Chunks /\ ~link
      BY <1>1, <1>5, <2>3, ReadsRaises DEF AckRead, WritesChunk
    <2>4. CASE ~(sent < Chunks)
      <3>1. got = Chunks /\ verified = TRUE
        BY <1>1, <1>3, <2>1, <2>4, TransferAssumption DEF IInv, AnswersTell, Types
      <3>2. Returns("ok")
        BY <1>5, <2>4 DEF AckRead
      <3>3. QED BY <1>1, <3>1, <3>2, ReadsLast
    <2>5. QED BY <2>2, <2>3, <2>4
  <1>6. QED BY <1>4, <1>5

LEMMA StartPreserves ==
    ASSUME IInv, StartAnswered
    PROVE  IInv'
  <1>1. Reads("START") /\ pc = "START" /\ protocol = "nordic"
    BY DEF StartAnswered, Reads, IInv, SessionShape
  <1>2. CASE Granted("START") /\ link
    <2>1. wire = <<>> /\ air = <<>> /\ inbox' = <<>>
      BY <1>1, AnswerAlone DEF Asking
    <2>2. pc' = "INIT" /\ wire' = <<"INIT">> /\ UNCHANGED <<result, sent>>
      BY <1>2, <2>1 DEF StartAnswered, Writes
    <2>3. QED BY <1>1, <2>1, <2>2, Asked DEF Reads
  <1>3. CASE ~(Granted("START") /\ link)
    BY <1>1, <1>3, ReadsRaises DEF StartAnswered, Writes
  <1>4. QED BY <1>2, <1>3

\* The stream begins with one packet and nothing on its way.
LEMMA InitPreserves ==
    ASSUME IInv, InitAnswered
    PROVE  IInv'
  <1>1. Reads("INIT") /\ pc = "INIT" /\ protocol = "nordic" /\ sent = 0 /\ timeouts = 0
    BY DEF InitAnswered, Reads, IInv, SessionShape
  <1>2. CASE Granted("INIT") /\ link
    <2>1. wire = <<>> /\ air = <<>> /\ inbox' = <<>>
      BY <1>1, AnswerAlone DEF Asking
    <2>2. /\ pc' = "packet" /\ sent' = 1 /\ UNCHANGED result
          /\ wire' \in {<<"PRN", "RECEIVE", "chunk">>, <<"RECEIVE", "chunk">>}
      BY <1>1, <1>2, <2>1 DEF InitAnswered, WritesChunk
    <2>3. /\ Types /\ Outside /\ UNCHANGED <<receipt, trouble, timeouts>> /\ got = 0
          /\ prn \in Nat
      <3>1. Types /\ Outside /\ UNCHANGED <<receipt, trouble, timeouts>>
        BY <1>1, ReadOne
      <3>2. got = 0 /\ prn \in Nat
        BY <1>1, <3>1, TransferAssumption DEF Types
      <3>3. QED BY <3>1, <3>2
    <2>4. /\ wire' \in Seq(Commands) /\ Len(wire') \in {2, 3}
          /\ \A i \in 1..Len(wire') :
               /\ wire'[i] = "chunk" <=> i > Len(wire') - 1
               /\ wire'[i] \in {"PRN", "RECEIVE", "chunk"}
      <3>1. CASE wire' = <<"PRN", "RECEIVE", "chunk">>
        BY <3>1 DEF Commands
      <3>2. CASE wire' = <<"RECEIVE", "chunk">>
        BY <3>2 DEF Commands
      <3>3. QED BY <2>2, <3>1, <3>2
    <2>5. Types' /\ SessionShape'
      BY <1>1, <2>1, <2>2, <2>3, <2>4, TransferAssumption
      DEF Types, SessionShape, Outside, config, boot, Waits, Streaming
    <2>6. InTransit'
      BY <2>2, <2>3, <2>4 DEF InTransit, Outside, boot
    <2>7. OneUnderWay' /\ AnswerComesLast'
      BY <2>2 DEF OneUnderWay, Asking, AnswerComesLast
    <2>8. AnswersTell'
      BY <1>1, <2>1, <2>2, <2>3, <2>4 DEF AnswersTell, Outside, config
    <2>9. ReceiptsCount'
      <3>1. prn > 0 => (0 \div prn) = 0 /\ (got \div prn) \in Nat
        BY <2>3, DivMod
      <3>2. QED
        BY <1>1, <2>1, <2>2, <2>3, <2>4, <3>1
        DEF ReceiptsCount, Streaming, Outside, boot, config, Passed, Here
    <2>10. Pace'
      <3>1. prn > 0 => 1 <= prn * (1 + 0)
        BY <2>3
      <3>2. QED BY <1>1, <2>2, <2>3, <3>1 DEF Pace, Outside, boot, config
    <2>11. OkMeansFlashed'
      BY <1>1, <2>2, <2>3 DEF OkMeansFlashed, Types
    <2>12. QED BY <2>5, <2>6, <2>7, <2>8, <2>9, <2>10, <2>11 DEF IInv
  <1>3. CASE ~(Granted("INIT") /\ link)
    BY <1>1, <1>3, ReadsRaises DEF InitAnswered, WritesChunk
  <1>4. QED BY <1>2, <1>3

\* The stream goes on: with one packet more, if what has been received and given
\* up allows it, or to the end.
LEMMA NextPacketPreserves ==
    ASSUME IInv, pc \in Streaming, NextPacket, Outside, UNCHANGED <<inbox, trouble>>,
           receipt' \in BOOLEAN, timeouts' \in Nat, timeouts <= timeouts', timeouts' <= sent,
           prn > 0 =>
             \A i \in 0..Len(air) :
               i = 0 \/ air[i].says = "receipt" => (sent \div prn) + i <= (got \div prn) + timeouts'
    PROVE  IInv'
  <1>1. /\ Types /\ Chunks \in Nat /\ prn \in Nat /\ protocol = "nordic" /\ sent \in Nat
        /\ got \in Nat /\ got <= sent /\ sent > 0
    BY TransferAssumption DEF IInv, Types, SessionShape
  <1>2. UNCHANGED <<protocol, prn, air, got, verified, alive, link, inbox, trouble>>
    BY DEF Outside, config, boot
  <1>3. CASE sent < Chunks /\ link
    <2>1. pc' = "packet" /\ sent' = sent + 1 /\ UNCHANGED result
      BY <1>3 DEF NextPacket, WritesChunk
    <2>2. wire \in Seq(Commands) /\ wire' = wire \o <<"chunk">>
      BY <1>1, <1>3 DEF NextPacket, WritesChunk, Types
    <2>3. /\ wire' \in Seq(Commands) /\ Len(wire') = Len(wire) + 1 /\ wire'[Len(wire) + 1] = "chunk"
          /\ \A i \in 1..Len(wire) : wire'[i] = wire[i]
      BY <2>2 DEF Commands
    <2>4. Len(wire) \in Nat
      BY <2>2
    <2>5. Types'
      BY <1>1, <1>2, <1>3, <2>1, <2>3 DEF Types, Streaming
    <2>6. SessionShape'
      BY <1>1, <1>2, <2>1 DEF SessionShape, Streaming
    <2>7. InTransit'
      BY <1>1, <1>2, <2>1, <2>3, <2>4 DEF IInv, InTransit
    <2>8. OneUnderWay' /\ AnswerComesLast'
      BY <2>1 DEF OneUnderWay, Asking, AnswerComesLast
    <2>9. AnswersTell'
      <3>1. pc' # "ack" /\ pc # "ack"
        BY <2>1 DEF Streaming
      <3>2. \A i \in 1..Len(wire') : wire'[i] = "VALIDATE" => got = Chunks
        BY <2>3, <2>4 DEF IInv, AnswersTell
      <3>3. QED BY <1>1, <1>2, <3>1, <3>2 DEF IInv, AnswersTell, Tells
    <2>10. ReceiptsCount'
      <3>1. timeouts' < sent' /\ pc' # "receipt" /\ Here' = 0
        BY <1>1, <2>1 DEF Here
      <3>2. \A i \in 1..Len(wire') : wire'[i] \in {"PRN", "RECEIVE", "chunk"}
        BY <2>3, <2>4 DEF IInv, ReceiptsCount
      <3>3. alive /\ link /\ got < Chunks => \A i \in 1..Len(air) : air[i].says = "receipt"
        BY DEF IInv, ReceiptsCount
      <3>4. Passed' = sent \div prn
        BY <1>1, <1>2, <2>1 DEF Passed
      <3>5. prn > 0 =>
              \A i \in 0..Len(air) :
                i = 0 \/ air[i].says = "receipt" => Passed' + Here' + i <= (got \div prn) + timeouts'
        <4>1. CASE prn > 0
          <5>1. prn \in Nat \ {0}
            BY <1>1, <4>1
          <5>2. sent \div prn \in Nat
            BY ONLY <1>1, <5>1, DivMod, Zenon
          <5>3. QED BY <3>1, <3>4, <5>2
        <4>2. QED BY <1>1, <4>1
      <3>6. QED BY <1>2, <2>1, <3>1, <3>2, <3>3, <3>5 DEF ReceiptsCount
    <2>11. Pace'
      <3>1. CASE prn > 0
        <4>1. prn \in Nat \ {0}
          BY <1>1, <3>1
        <4>2. sent \div prn \in Nat
          BY ONLY <1>1, <4>1, DivMod, Zenon
        <4>3. (sent \div prn) + 0 <= (got \div prn) + timeouts' /\ 0 \in 0..Len(air)
          <5>1. air \in Seq(Notes)
            BY <1>1 DEF Types
          <5>2. 0 \in 0..Len(air)
            BY <5>1
          <5>3. \A i \in 0..Len(air) :
                  i = 0 => (sent \div prn) + i <= (got \div prn) + timeouts'
            BY <3>1
          <5>4. QED BY ONLY <5>2, <5>3, Zenon
        <4>4. sent \div prn <= (got \div prn) + timeouts'
          BY <4>2, <4>3
        <4>5. timeouts' \in Nat
          OBVIOUS
        <4>6. (sent + 1) - got <= prn * (1 + timeouts')
          BY ONLY <1>1, <4>1, <4>4, <4>5, GroupsAhead, Zenon
        <4>7. QED BY <1>1, <1>2, <2>1, <4>6 DEF Pace
      <3>2. QED BY <1>1, <1>2, <3>1 DEF Pace
    <2>12. OkMeansFlashed'
      BY <1>1, <1>2, <2>1 DEF OkMeansFlashed, Types, Streaming
    <2>13. QED BY <2>5, <2>6, <2>7, <2>8, <2>9, <2>10, <2>11, <2>12 DEF IInv
  <1>4. CASE sent < Chunks /\ ~link
    BY <1>1, <1>4, Returned DEF NextPacket, WritesChunk, Raises, Returns, Types
  <1>5. CASE ~(sent < Chunks)
    <2>1. pc' = "RECEIVE" /\ UNCHANGED <<result, wire, sent>>
      BY <1>5 DEF NextPacket
    <2>2. Types' /\ SessionShape'
      BY <1>1, <1>2, <2>1 DEF Types, SessionShape, Streaming, Waits
    <2>3. InTransit'
      BY <1>2, <2>1 DEF IInv, InTransit
    <2>4. OneUnderWay' /\ AnswerComesLast' /\ ReceiptsCount'
      BY <2>1 DEF OneUnderWay, Asking, AnswerComesLast, ReceiptsCount, Streaming
    <2>5. AnswersTell'
      BY <1>1, <1>2, <2>1 DEF IInv, AnswersTell, Tells
    <2>6. Pace'
      BY <1>1, <1>2, <2>1, PaceKept DEF IInv, config
    <2>7. OkMeansFlashed'
      BY <1>1, <1>2, <2>1 DEF OkMeansFlashed, Types, Streaming
    <2>8. QED BY <2>2, <2>3, <2>4, <2>5, <2>6, <2>7 DEF IInv
  <1>6. QED BY <1>3, <1>4, <1>5

\* Going on from a packet passes its receipt, if there is one.
LEMMA PassedNext ==
    ASSUME Types, sent > 0, prn > 0
    PROVE  /\ Passed \in Nat /\ got \div prn \in Nat /\ prn \in Nat \ {0}
           /\ AtReceipt(sent) => sent \div prn = Passed + 1
           /\ ~AtReceipt(sent) => sent \div prn = Passed
  <1>1. prn \in Nat \ {0} /\ sent - 1 \in Nat /\ sent = (sent - 1) + 1 /\ got \in Nat
    BY TransferAssumption DEF Types
  <1>2. Passed \in Nat /\ got \div prn \in Nat
    BY ONLY <1>1, DivMod, Zenon DEF Passed
  <1>3. /\ ((sent - 1) + 1) % prn = 0 => ((sent - 1) + 1) \div prn = ((sent - 1) \div prn) + 1
        /\ ((sent - 1) + 1) % prn # 0 => ((sent - 1) + 1) \div prn = (sent - 1) \div prn
    BY ONLY <1>1, DivStep, Zenon
  <1>4. QED BY <1>1, <1>2, <1>3 DEF AtReceipt, Passed

LEMMA PacketPreserves ==
    ASSUME IInv, PacketWritten
    PROVE  IInv'
  <1>1. /\ pc = "packet" /\ protocol = "nordic" /\ sent > 0 /\ Types /\ Outside
        /\ UNCHANGED <<inbox, trouble, timeouts>>
    BY DEF PacketWritten, IInv, SessionShape, Streaming
  <1>2. UNCHANGED <<protocol, prn, air, got, verified, alive, link, inbox, trouble, timeouts>>
    BY <1>1 DEF Outside, config, boot
  <1>3. /\ timeouts < sent
        /\ \A i \in 1..Len(wire) : wire[i] \in {"PRN", "RECEIVE", "chunk"}
        /\ alive /\ link /\ got < Chunks => \A i \in 1..Len(air) : air[i].says = "receipt"
        /\ prn > 0 =>
             \A i \in 0..Len(air) :
               i = 0 \/ air[i].says = "receipt" => Passed + 0 + i <= (got \div prn) + timeouts
    BY <1>1 DEF IInv, ReceiptsCount, Streaming, Here
  <1>4. CASE AtReceipt(sent)
    <2>1. pc' = "receipt" /\ receipt' = FALSE /\ UNCHANGED <<result, wire, sent>>
      BY <1>4 DEF PacketWritten
    <2>2. Types' /\ SessionShape'
      BY <1>1, <1>2, <2>1 DEF Types, SessionShape, Streaming
    <2>3. InTransit' /\ OneUnderWay' /\ AnswerComesLast'
      BY <1>2, <2>1 DEF IInv, InTransit, OneUnderWay, Asking, AnswerComesLast
    <2>4. AnswersTell'
      BY <1>1, <1>2, <2>1 DEF IInv, AnswersTell, Tells
    <2>5. ReceiptsCount'
      <3>1. Passed' = Passed /\ Here' = 0 /\ AtReceipt(sent)'
        BY <1>2, <1>4, <2>1 DEF Passed, Here, AtReceipt
      <3>2. QED BY <1>2, <1>3, <2>1, <3>1 DEF ReceiptsCount
    <2>6. Pace' /\ OkMeansFlashed'
      BY <1>1, <1>2, <2>1 DEF IInv, Pace, OkMeansFlashed
    <2>7. QED BY <2>2, <2>3, <2>4, <2>5, <2>6 DEF IInv
  <1>5. CASE ~AtReceipt(sent)
    <2>1. NextPacket /\ receipt' \in BOOLEAN
      BY <1>1, <1>5 DEF PacketWritten, Types
    <2>2. timeouts' \in Nat /\ timeouts <= timeouts' /\ timeouts' <= sent
      BY <1>1 DEF Types
    <2>3. prn > 0 =>
            \A i \in 0..Len(air) :
              i = 0 \/ air[i].says = "receipt" => (sent \div prn) + i <= (got \div prn) + timeouts'
      BY <1>1, <1>2, <1>3, <1>5, PassedNext
    <2>4. QED BY <1>1, <2>1, <2>2, <2>3, NextPacketPreserves DEF Streaming
  <1>6. QED BY <1>4, <1>5

\* The wait for a receipt ends, with the receipt or with one more given up.
LEMMA GroupPassed ==
    ASSUME IInv, pc = "receipt", NextPacket, Outside, UNCHANGED <<inbox, receipt, trouble>>,
           \/ receipt = TRUE /\ timeouts' = timeouts
           \/ receipt = FALSE /\ timeouts' = timeouts + 1
    PROVE  IInv'
  <1>1. Types /\ sent > 0 /\ AtReceipt(sent) /\ timeouts < sent
    BY DEF IInv, SessionShape, ReceiptsCount, Streaming
  <1>2. timeouts' \in Nat /\ timeouts <= timeouts' /\ timeouts' <= sent /\ receipt' \in BOOLEAN
    BY <1>1 DEF Types
  <1>3. prn > 0 =>
          \A i \in 0..Len(air) :
            i = 0 \/ air[i].says = "receipt" => (sent \div prn) + i <= (got \div prn) + timeouts'
    <2>1. CASE prn > 0
      <3>1. \A i \in 0..Len(air) :
              i = 0 \/ air[i].says = "receipt" => Passed + Here + i <= (got \div prn) + timeouts
        BY <2>1 DEF IInv, ReceiptsCount, Streaming
      <3>2. Passed \in Nat /\ (got \div prn) \in Nat /\ sent \div prn = Passed + 1
        BY <1>1, <2>1, PassedNext
      <3>3. \/ Here = 1 /\ timeouts' = timeouts
            \/ Here = 0 /\ timeouts' = timeouts + 1
        BY DEF Here
      <3>4. timeouts \in Nat
        BY <1>1 DEF Types
      <3>5. QED BY ONLY <3>1, <3>2, <3>3, <3>4
    <2>2. QED BY <2>1
  <1>4. QED BY <1>2, <1>3, NextPacketPreserves DEF Streaming

LEMMA ReceiptPreserves ==
    ASSUME IInv, ReceiptSeen \/ ReceiptTimeout
    PROVE  IInv'
  <1>1. CASE ReceiptSeen
    <2>1. receipt = TRUE
      BY <1>1 DEF ReceiptSeen, IInv, Types
    <2>2. QED BY <1>1, <2>1, GroupPassed DEF ReceiptSeen
  <1>2. CASE ReceiptTimeout
    <2>1. receipt = FALSE
      BY <1>2 DEF ReceiptTimeout, IInv, Types
    <2>2. QED BY <1>2, <2>1, GroupPassed DEF ReceiptTimeout
  <1>3. QED BY <1>1, <1>2

LEMMA ImagePreserves ==
    ASSUME IInv, ImageAnswered
    PROVE  IInv'
  <1>1. Reads("RECEIVE") /\ pc = "RECEIVE" /\ protocol = "nordic"
    BY DEF ImageAnswered, Reads, IInv, SessionShape
  <1>2. /\ inbox' \in Seq(Notes) /\ Answer = inbox[1] /\ 1 \in 1..Len(inbox)
        /\ \A i \in 1..Len(inbox') : inbox'[i] = inbox[i + 1] /\ i + 1 \in 1..Len(inbox)
        /\ Types /\ Outside /\ UNCHANGED <<receipt, trouble, timeouts>>
    BY <1>1, ReadOne
  <1>3. UNCHANGED <<protocol, prn, air, got, verified, alive, link, trouble, timeouts>>
    BY <1>2 DEF Outside, config, boot
  <1>4. CASE Granted("RECEIVE") /\ link
    <2>1. got = Chunks /\ sent = Chunks
      <3>1. got = Chunks
        BY <1>2, <1>4 DEF IInv, AnswersTell, Tells, Granted
      <3>2. QED BY <1>2, <3>1, TransferAssumption DEF Types
    <2>2. pc' = "VALIDATE" /\ UNCHANGED <<result, sent>> /\ wire' = wire \o <<"VALIDATE">>
      BY <1>4 DEF ImageAnswered, Writes
    <2>3. /\ wire \in Seq(Commands) /\ wire' \in Seq(Commands) /\ Len(wire) \in Nat
          /\ Len(wire') = Len(wire) + 1 /\ wire'[Len(wire) + 1] = "VALIDATE"
          /\ \A i \in 1..Len(wire) : wire'[i] = wire[i]
      <3>1. wire \in Seq(Commands)
        BY <1>2 DEF Types
      <3>2. QED BY <2>2, <3>1 DEF Commands
    <2>4. Types' /\ SessionShape'
      BY <1>1, <1>2, <1>3, <2>2, <2>3 DEF Types, SessionShape, Streaming, Waits
    <2>5. InTransit'
      <3>1. sent - got = 0 /\ sent' - got' = 0
        BY <1>3, <2>1, <2>2, TransferAssumption
      <3>2. alive /\ link => \A i \in 1..Len(wire) : wire[i] # "chunk"
        BY <2>3, <3>1 DEF IInv, InTransit
      <3>3. QED BY <1>3, <2>3, <3>1, <3>2 DEF InTransit
    <2>6. OneUnderWay' /\ AnswerComesLast' /\ ReceiptsCount'
      BY <2>2 DEF OneUnderWay, Asking, AnswerComesLast, ReceiptsCount, Streaming
    <2>7. AnswersTell'
      BY <1>1, <1>2, <1>3, <2>1, <2>2 DEF IInv, AnswersTell, Tells
    <2>8. Pace' /\ OkMeansFlashed'
      BY <1>1, <1>2, <1>3, <2>2 DEF IInv, Pace, OkMeansFlashed
    <2>9. QED BY <2>4, <2>5, <2>6, <2>7, <2>8 DEF IInv
  <1>5. CASE ~(Granted("RECEIVE") /\ link)
    BY <1>1, <1>5, ReadsRaises DEF ImageAnswered, Writes
  <1>6. QED BY <1>4, <1>5

LEMMA ValidatePreserves ==
    ASSUME IInv, ValidateAnswered
    PROVE  IInv'
  <1>1. Reads("VALIDATE") /\ pc = "VALIDATE" /\ protocol = "nordic"
    BY DEF ValidateAnswered, Reads, IInv, SessionShape
  <1>2. CASE Granted("VALIDATE")
    <2>1. /\ Answer = inbox[1] /\ 1 \in 1..Len(inbox) /\ Types
          /\ inbox' \in Seq(Notes) /\ \A i \in 1..Len(inbox') : \E j \in 1..Len(inbox) : inbox'[i] = inbox[j]
          /\ Outside /\ receipt' \in BOOLEAN /\ trouble' \in BOOLEAN
          /\ timeouts' \in Nat /\ timeouts <= timeouts' /\ timeouts' <= sent
      BY <1>1, ReadOne
    <2>2. got = Chunks /\ verified = TRUE
      BY <1>2, <2>1 DEF IInv, AnswersTell, Tells, Granted
    <2>3. got = sent
      BY <2>1, <2>2, TransferAssumption DEF Types
    <2>4. /\ pc' = "done" /\ result' = "ok" /\ sent' = sent
          /\ wire' = wire \/ wire' = Append(wire, "ACTIVATE")
      BY <1>2 DEF ValidateAnswered
    <2>5. QED BY <2>1, <2>2, <2>3, <2>4, Returned
  <1>3. CASE ~Granted("VALIDATE")
    BY <1>1, <1>3, ReadsRaises DEF ValidateAnswered
  <1>4. QED BY <1>2, <1>3

-----------------------------------------------------------------------------
(* The bootloader and the link.                                            *)

\* It stops taking what is written, and what is under way may be lost.
LEMMA NothingMorePreserves ==
    ASSUME IInv, UNCHANGED <<config, session, got, verified>>,
           alive' \in BOOLEAN, link' \in BOOLEAN, trouble' \in BOOLEAN,
           alive' = FALSE \/ link' = FALSE,
           wire' = wire \/ wire' = <<>>, air' = air \/ air' = <<>>
    PROVE  IInv'
  <1>1. UNCHANGED <<protocol, prn, pc, sent, inbox, receipt, result, timeouts, got, verified>>
    BY DEF config, session
  <1>2. /\ Types /\ inbox \in Seq(Notes) /\ air \in Seq(Notes) /\ wire \in Seq(Commands)
        /\ wire' \in Seq(Commands) /\ air' \in Seq(Notes)
    <2>1. /\ Types /\ inbox \in Seq(Notes) /\ air \in Seq(Notes) /\ wire \in Seq(Commands)
      BY DEF IInv, Types
    <2>2. <<>> \in Seq(Commands) /\ <<>> \in Seq(Notes)
      OBVIOUS
    <2>3. QED BY <2>1, <2>2, Zenon
  <1>3. Len(wire') = 0 \/ wire' = wire
    BY <1>2
  <1>4. Len(air') = 0 \/ air' = air
    BY <1>2
  <1>5. Types' /\ SessionShape'
    BY <1>1, <1>2 DEF IInv, Types, SessionShape
  <1>6. InTransit'
    BY DEF InTransit
  <1>7. OneUnderWay'
    <2>1. Len(wire') <= Len(wire) /\ Len(air') <= Len(air)
      BY <1>2, <1>3, <1>4
    <2>2. QED BY <1>1, <1>2, <1>3, <2>1 DEF IInv, OneUnderWay
  <1>8. AnswerComesLast'
    BY <1>1, <1>2, <1>3, <1>4 DEF IInv, AnswerComesLast, Erasing
  <1>9. AnswersTell'
    <2>1. (\A i \in 1..Len(air) : Tells(air[i]))'
      BY <1>1, <1>4 DEF IInv, AnswersTell, Tells
    <2>2. QED BY <1>1, <1>3, <2>1 DEF IInv, AnswersTell, Tells
  <1>10. ReceiptsCount'
    BY <1>1, <1>2, <1>3, <1>4 DEF IInv, ReceiptsCount, Passed, Here, AtReceipt
  <1>11. Pace' /\ OkMeansFlashed'
    BY <1>1 DEF IInv, Pace, OkMeansFlashed
  <1>12. QED BY <1>5, <1>6, <1>7, <1>8, <1>9, <1>10, <1>11 DEF IInv

LEMMA SilentPreserves ==
    ASSUME IInv, FallsSilent \/ Reboots \/ LinkLost
    PROVE  IInv'
  <1>1. alive \in BOOLEAN /\ link \in BOOLEAN /\ trouble \in BOOLEAN
    BY Zenon DEF IInv, Types
  <1>2. UNCHANGED <<config, session, got, verified>>
    BY DEF FallsSilent, Reboots, LinkLost, boot
  <1>3. alive' \in BOOLEAN /\ link' \in BOOLEAN /\ trouble' \in BOOLEAN
    BY <1>1 DEF FallsSilent, Reboots, LinkLost, boot
  <1>4. /\ alive' = FALSE \/ link' = FALSE
        /\ wire' = wire \/ wire' = <<>>
        /\ air' = air \/ air' = <<>>
    BY DEF FallsSilent, Reboots, LinkLost
  <1>5. QED BY <1>2, <1>3, <1>4, NothingMorePreserves

\* What is taken and is not a chunk was before the chunks.
LEMMA TakenBeforeChunks ==
    ASSUME IInv, alive = TRUE, link = TRUE, wire # <<>>, wire[1] # "chunk", wire' = Tail(wire),
           UNCHANGED <<sent, got>>
    PROVE  InTransit'
  <1>1. /\ wire \in Seq(Commands) /\ sent \in Nat /\ got \in Nat /\ got <= sent
    BY DEF IInv, Types
  <1>2. /\ Len(wire) \in Nat \ {0} /\ Len(wire') = Len(wire) - 1
        /\ \A i \in 1..Len(wire') : wire'[i] = wire[i + 1] /\ i + 1 \in 1..Len(wire)
    BY <1>1, HeadFacts
  <1>3. \A i \in 1..Len(wire) : wire[i] = "chunk" <=> i > Len(wire) - (sent - got)
    BY DEF IInv, InTransit
  <1>4. sent - got <= Len(wire) - 1
    BY <1>1, <1>2, <1>3
  <1>5. QED BY <1>1, <1>2, <1>3, <1>4 DEF InTransit

\* It takes one thing, and answers it.
LEMMA AnswerPreserves ==
    ASSUME IInv, NEW n \in Notes, wire # <<>>, wire' = Tail(wire), air' = air \o <<n>>,
           UNCHANGED <<config, session, got, link>>,
           verified' \in BOOLEAN, verified = TRUE => verified' = TRUE,
           alive' \in BOOLEAN, trouble' \in BOOLEAN,
           n.says # "receipt", Tells(n)', InTransit',
           alive' = TRUE => pc \notin Streaming
    PROVE  IInv'
  <1>1. UNCHANGED <<protocol, prn, pc, sent, inbox, receipt, result, timeouts, got, link>>
    BY DEF config, session
  <1>2. /\ Types /\ inbox \in Seq(Notes) /\ air \in Seq(Notes) /\ wire \in Seq(Commands)
        /\ <<n>> \in Seq(Notes)
    BY DEF IInv, Types
  <1>3. /\ Len(wire) \in Nat \ {0} /\ wire' \in Seq(Commands) /\ Len(wire') = Len(wire) - 1
        /\ \A i \in 1..Len(wire') : wire'[i] = wire[i + 1] /\ i + 1 \in 1..Len(wire)
    BY <1>2, HeadFacts
  <1>4. /\ Len(air) \in Nat /\ air' \in Seq(Notes) /\ Len(air') = Len(air) + 1
        /\ air'[Len(air) + 1] = n /\ \A i \in 1..Len(air) : air'[i] = air[i]
    BY <1>2
  <1>5. Types'
    BY <1>1, <1>2, <1>3, <1>4 DEF Types
  <1>6. SessionShape'
    BY <1>1 DEF IInv, SessionShape
  <1>7. OneUnderWay'
    BY <1>1, <1>2, <1>3, <1>4 DEF IInv, OneUnderWay
  <1>8. AnswerComesLast'
    <2>1. CASE pc = "erase"
      <3>1. Len(wire') = 0 /\ Erasing(inbox, Len(inbox)) /\ Erasing(air, Len(air))
        BY <1>3, <2>1 DEF IInv, AnswerComesLast
      <3>2. /\ wire' = <<>> /\ Len(air') - 1 = Len(air)
            /\ \A i \in 1..(Len(inbox) - 1) : i \in 1..Len(inbox)
        <4>1. wire' = <<>>
          BY ONLY <1>3, <3>1
        <4>2. Len(air') - 1 = Len(air)
          BY ONLY <1>4
        <4>3. Len(inbox) \in Nat
          BY ONLY <1>2
        <4>4. \A i \in 1..(Len(inbox) - 1) : i \in 1..Len(inbox)
          BY ONLY <4>3
        <4>5. QED BY ONLY <4>1, <4>2, <4>4, Zenon
      <3>3. /\ \A i \in 1..Len(inbox) : inbox[i].says = "ERASING"
            /\ \A i \in 1..Len(air) : air'[i].says = "ERASING"
        BY <1>4, <3>1 DEF Erasing
      <3>4. Erasing(inbox, Len(inbox))' /\ Erasing(inbox, Len(inbox) - 1)'
        BY <1>1, <3>2, <3>3 DEF Erasing
      <3>5. Erasing(air, Len(air) - 1)'
        BY <3>2, <3>3 DEF Erasing
      <3>6. Len(wire') <= 1
        BY ONLY <3>1
      <3>7. QED BY <3>2, <3>4, <3>5, <3>6 DEF AnswerComesLast
    <2>2. QED BY <1>1, <2>1 DEF AnswerComesLast
  <1>9. AnswersTell'
    <2>1. (\A i \in 1..Len(air) : Tells(air[i]))'
      <3>1. \A i \in 1..Len(air) : Tells(air[i])
        BY DEF IInv, AnswersTell
      <3>2. \A i \in 1..Len(air') : i \in 1..Len(air) \/ i = Len(air) + 1
        BY ONLY <1>4
      <3>3. /\ pc' = "ack" /\ n.says # "ERR" => got' = sent'
            /\ n.op = "RECEIVE" /\ n.says = "OK" => got' = Chunks
            /\ n.op = "VALIDATE" /\ n.says = "OK" => got' = Chunks /\ verified' = TRUE
        BY DEF Tells
      <3>4. \A i \in 1..Len(air) :
              /\ pc' = "ack" /\ air[i].says # "ERR" => got' = sent'
              /\ air[i].op = "RECEIVE" /\ air[i].says = "OK" => got' = Chunks
              /\ air[i].op = "VALIDATE" /\ air[i].says = "OK" => got' = Chunks /\ verified' = TRUE
        BY <1>1, <3>1 DEF Tells
      <3>5. QED BY ONLY <1>4, <3>2, <3>3, <3>4 DEF Tells
    <2>2. (\A i \in 1..Len(inbox) : Tells(inbox[i]))'
      BY <1>1 DEF IInv, AnswersTell, Tells
    <2>3. QED BY <1>1, <1>3, <2>1, <2>2 DEF IInv, AnswersTell
  <1>10. ReceiptsCount'
    <2>1. CASE pc \in Streaming
      <3>1. \A i \in 0..Len(air') : i \in 0..Len(air) \/ i = Len(air) + 1
        BY <1>4
      <3>2. prn > 0 =>
              \A i \in 0..Len(air') :
                i = 0 \/ air'[i].says = "receipt" => Passed + Here + i <= (got \div prn) + timeouts
        BY <1>4, <2>1, <3>1 DEF IInv, ReceiptsCount
      <3>3. Passed' = Passed /\ Here' = Here
        BY <1>1 DEF Passed, Here
      <3>4. QED
        BY <1>1, <1>3, <2>1, <3>2, <3>3 DEF IInv, ReceiptsCount, AtReceipt
    <2>2. QED BY <1>1, <2>1 DEF ReceiptsCount
  <1>11. Pace' /\ OkMeansFlashed'
    BY <1>1 DEF IInv, Pace, OkMeansFlashed
  <1>12. QED BY <1>5, <1>6, <1>7, <1>8, <1>9, <1>10, <1>11 DEF IInv

LEMMA CommandPreserves ==
    ASSUME IInv, TakesCommand
    PROVE  IInv'
  <1>1. PICK command \in {"VERSION", "OTA", "START", "INIT", "VALIDATE"} :
          /\ Takes(command, <<Note(command, "OK")>>)
          /\ verified' = (verified \/ command = "VALIDATE")
    BY DEF TakesCommand
  <1>2. /\ verified' \in BOOLEAN /\ (verified = TRUE => verified' = TRUE)
        /\ command = "VALIDATE" => verified' = TRUE
    BY <1>1, Zenon
  <1>3. alive = TRUE /\ link = TRUE /\ alive' = TRUE /\ trouble' \in BOOLEAN /\ link' = link
    BY <1>1, Zenon DEF TakesCommand, Takes, IInv, Types
  <1>4. /\ wire # <<>> /\ command = Head(wire) /\ wire' = Tail(wire)
        /\ air' = air \o <<Note(command, "OK")>>
        /\ UNCHANGED <<config, session, got>>
    BY <1>1 DEF Takes, TakesCommand
  <1>5. Types /\ 1 \in 1..Len(wire) /\ wire[1] = command
    <2>1. Types /\ wire \in Seq(Commands)
      BY DEF IInv, Types
    <2>2. QED BY <1>4, <2>1
  <1>6. Note(command, "OK") \in Notes
    BY DEF Note, Notes, Commands
  <1>7. InTransit'
    BY <1>3, <1>4, <1>5, TakenBeforeChunks DEF session
  <1>8. pc \notin Streaming /\ pc # "ack" /\ (command = "VALIDATE" => got = Chunks)
    BY <1>5 DEF IInv, AnswersTell, ReceiptsCount
  <1>9. Tells(Note(command, "OK"))'
    BY <1>2, <1>4, <1>8 DEF Tells, Note, session
  <1>10. alive' = TRUE => pc \notin Streaming
    BY <1>8
  <1>11. Note(command, "OK").says # "receipt"
    BY DEF Note
  <1>12. IInv
    OBVIOUS
  <1>13. QED
    BY ONLY <1>2, <1>3, <1>4, <1>6, <1>7, <1>9, <1>10, <1>11, <1>12, AnswerPreserves, Zenon

LEMMA RefusalPreserves ==
    ASSUME IInv, Refuses
    PROVE  IInv'
  <1>1. PICK command \in {"VERSION", "OTA", "START", "INIT", "VALIDATE", "chunk"},
             says \in {"ERR", "REJECTED"} :
          /\ says = "REJECTED" => command = "OTA"
          /\ Takes(command,
                 <<Note(IF command = "chunk" /\ protocol = "nordic" THEN "RECEIVE" ELSE command,
                        says)>>)
    BY DEF Refuses
  <1>2. PICK n : n = Note(IF command = "chunk" /\ protocol = "nordic" THEN "RECEIVE" ELSE command,
                          says)
    OBVIOUS
  <1>3. n \in Notes /\ n.says # "receipt" /\ n.says # "OK"
        /\ (n.says # "ERR" => command = "OTA")
    BY <1>1, <1>2 DEF Note, Notes, Commands
  <1>4. /\ wire # <<>> /\ command = Head(wire) /\ wire' = Tail(wire) /\ air' = air \o <<n>>
        /\ UNCHANGED <<config, session, got, verified, link>>
    BY <1>1, <1>2 DEF Takes, Refuses
  <1>5. alive' = FALSE /\ alive' \in BOOLEAN /\ trouble' \in BOOLEAN /\ verified \in BOOLEAN
    BY DEF Refuses, IInv, Types
  <1>6. 1 \in 1..Len(wire) /\ wire[1] = command
    <2>1. Types /\ wire \in Seq(Commands)
      BY DEF IInv, Types
    <2>2. QED BY <1>4, <2>1
  <1>7. Tells(n)'
    <2>1. n.says # "ERR" => pc # "ack"
      BY <1>3, <1>6 DEF IInv, AnswersTell
    <2>2. QED BY <1>3, <1>4, <2>1 DEF Tells, session
  <1>8. InTransit'
    BY <1>5 DEF InTransit
  <1>9. verified' \in BOOLEAN /\ (verified = TRUE => verified' = TRUE)
    BY <1>4, <1>5
  <1>10. IInv /\ (alive' = TRUE => pc \notin Streaming)
    BY <1>5
  <1>11. QED
    BY ONLY <1>3, <1>4, <1>5, <1>7, <1>8, <1>9, <1>10, AnswerPreserves, Zenon

LEMMA SettingPreserves ==
    ASSUME IInv, TakesSetting
    PROVE  IInv'
  <1>1. PICK command \in {"PRN", "RECEIVE"} : Takes(command, <<>>)
    BY DEF TakesSetting
  <1>2. alive = TRUE /\ link = TRUE
    BY <1>1, Zenon DEF Takes, IInv, Types
  <1>3. Types /\ wire \in Seq(Commands) /\ air \in Seq(Notes) /\ inbox \in Seq(Notes)
    BY DEF IInv, Types
  <1>4. /\ wire # <<>> /\ command = Head(wire) /\ wire' = Tail(wire) /\ air' = air
        /\ UNCHANGED <<protocol, prn, pc, sent, inbox, receipt, result, timeouts>>
        /\ UNCHANGED <<got, verified, alive, link, trouble>>
    BY <1>1, <1>3 DEF Takes, TakesSetting, config, session, boot
  <1>5. /\ Len(wire) \in Nat \ {0} /\ wire' \in Seq(Commands) /\ Len(wire') = Len(wire) - 1
        /\ wire[1] = command
        /\ \A i \in 1..Len(wire') : wire'[i] = wire[i + 1] /\ i + 1 \in 1..Len(wire)
    BY <1>3, <1>4, HeadFacts
  <1>6. Types' /\ SessionShape'
    BY <1>3, <1>4, <1>5 DEF IInv, Types, SessionShape
  <1>7. InTransit'
    BY <1>2, <1>4, <1>5, TakenBeforeChunks
  <1>8. OneUnderWay'
    BY <1>3, <1>4, <1>5 DEF IInv, OneUnderWay
  <1>9. AnswerComesLast'
    <2>1. wire' # <<>> => wire # <<>>
      BY <1>4
    <2>2. Len(wire') <= Len(wire)
      BY <1>5
    <2>3. CASE pc = "erase"
      <3>1. Len(wire') <= 1
        BY <1>5, <2>3 DEF IInv, AnswerComesLast
      <3>2. QED BY <1>4, <2>1, <2>3, <3>1 DEF IInv, AnswerComesLast, Erasing
    <2>4. QED BY <1>4, <2>3 DEF AnswerComesLast
  <1>10. AnswersTell'
    BY <1>4, <1>5 DEF IInv, AnswersTell, Tells
  <1>11. ReceiptsCount'
    BY <1>4, <1>5 DEF IInv, ReceiptsCount, Passed, Here, AtReceipt
  <1>12. Pace' /\ OkMeansFlashed'
    BY <1>4 DEF IInv, Pace, OkMeansFlashed
  <1>13. QED BY <1>6, <1>7, <1>8, <1>9, <1>10, <1>11, <1>12 DEF IInv

\* Only the session that erases, or one that has returned, has OTA on the wire.
LEMMA ErasingPreserves ==
    ASSUME IInv, Erases
    PROVE  IInv'
  <1> DEFINE n == Note("OTA", "ERASING")
  <1>1. Types /\ wire \in Seq(Commands) /\ air \in Seq(Notes) /\ inbox \in Seq(Notes) /\ n \in Notes
    BY DEF IInv, Types, Note, Notes, Commands
  <1>2. /\ wire # <<>> /\ Head(wire) = "OTA" /\ air' = Append(air, n)
        /\ UNCHANGED <<config, session, wire, boot, link, trouble>>
    BY Zenon DEF Erases
  <1>3. UNCHANGED <<protocol, prn, pc, sent, inbox, receipt, result, timeouts, wire, got, verified,
                    alive, link, trouble>>
    BY <1>2 DEF config, session, boot
  <1>4. Len(wire) \in Nat \ {0} /\ 1 \in 1..Len(wire) /\ wire[1] = "OTA"
    BY <1>1, <1>2
  <1>5. pc \notin Asking /\ pc \notin Streaming /\ pc \notin {"subscribe", "first"}
    BY <1>2, <1>4 DEF IInv, SessionShape, OneUnderWay, ReceiptsCount
  <1>6. n.says = "ERASING"
    BY DEF Note
  <1> HIDE DEF n
  <1>7. /\ Len(air) \in Nat /\ air' \in Seq(Notes) /\ Len(air') = Len(air) + 1
        /\ air'[Len(air) + 1] = n /\ \A i \in 1..Len(air) : air'[i] = air[i]
    BY <1>1, <1>2
  <1>8. Types' /\ SessionShape'
    BY <1>1, <1>3, <1>5, <1>7 DEF IInv, Types, SessionShape
  <1>9. InTransit' /\ OneUnderWay' /\ ReceiptsCount'
    BY <1>3, <1>5 DEF IInv, InTransit, OneUnderWay, ReceiptsCount
  <1>10. AnswerComesLast'
    <2>1. CASE pc = "erase"
      <3>1. Len(wire) <= 1 /\ Erasing(inbox, Len(inbox)) /\ Erasing(air, Len(air))
            /\ Erasing(inbox, Len(inbox) - 1)
        BY <1>2, <2>1 DEF IInv, AnswerComesLast
      <3>2. \A i \in 1..Len(air') : air'[i].says = "ERASING"
        BY <1>6, <1>7, <3>1 DEF Erasing
      <3>3. Erasing(air, Len(air))' /\ Erasing(air, Len(air) - 1)'
        BY <1>7, <3>2 DEF Erasing
      <3>4. Erasing(inbox, Len(inbox))' /\ Erasing(inbox, Len(inbox) - 1)'
        BY <1>3, <3>1 DEF Erasing
      <3>5. QED BY <1>3, <3>1, <3>3, <3>4 DEF AnswerComesLast
    <2>2. QED BY <1>3, <2>1 DEF AnswerComesLast
  <1>11. AnswersTell'
    <2>1. (\A i \in 1..Len(air) : Tells(air[i]))'
      BY <1>3, <1>5, <1>6, <1>7 DEF IInv, AnswersTell, Tells, Asking
    <2>2. QED BY <1>3, <2>1 DEF IInv, AnswersTell, Tells
  <1>12. Pace' /\ OkMeansFlashed'
    BY <1>3 DEF IInv, Pace, OkMeansFlashed
  <1>13. QED BY <1>8, <1>9, <1>10, <1>11, <1>12 DEF IInv

\* When a chunk is next on the wire, nothing else is there.
LEMMA ChunkNext ==
    ASSUME IInv, alive = TRUE, link = TRUE, wire # <<>>, Head(wire) = "chunk"
    PROVE  /\ Types /\ wire \in Seq(Commands) /\ Len(wire) = sent - got /\ got < sent
           /\ sent \in Nat /\ got \in Nat /\ Chunks \in Nat /\ got < Chunks
           /\ Len(wire) \in Nat \ {0} /\ \A i \in 1..Len(wire) : wire[i] = "chunk"
           /\ pc \notin {"subscribe", "first", "version", "erase", "START", "INIT"}
  <1>1. /\ Types /\ wire \in Seq(Commands) /\ sent \in Nat /\ got \in Nat /\ Chunks \in Nat
        /\ sent <= Chunks /\ got <= sent
    BY TransferAssumption DEF IInv, Types
  <1>2. Len(wire) \in Nat \ {0} /\ wire[1] = "chunk"
    BY <1>1, HeadFacts
  <1>3. /\ sent - got <= Len(wire)
        /\ \A i \in 1..Len(wire) : wire[i] = "chunk" <=> i > Len(wire) - (sent - got)
    BY DEF IInv, InTransit
  <1>4. Len(wire) = sent - got /\ got < sent
    BY <1>1, <1>2, <1>3
  <1>5. pc \notin {"subscribe", "first", "version", "erase", "START", "INIT"}
    BY <1>1, <1>4 DEF IInv, SessionShape
  <1>6. QED BY <1>1, <1>2, <1>3, <1>4, <1>5

\* The bootloader gets one chunk more; receipts come in the order of their groups.
LEMMA ChunkPreserves ==
    ASSUME IInv, TakesChunk
    PROVE  IInv'
  <1>1. PICK notes \in ChunkNotes(got + 1) : Takes("chunk", notes)
    BY DEF TakesChunk
  <1>2. alive = TRUE /\ link = TRUE /\ alive' = TRUE /\ link' = TRUE
    BY <1>1, Zenon DEF TakesChunk, Takes, IInv, Types
  <1>3. /\ wire # <<>> /\ Head(wire) = "chunk" /\ wire' = Tail(wire) /\ air' = air \o notes
        /\ UNCHANGED <<protocol, prn, pc, sent, inbox, receipt, result, timeouts, trouble>>
        /\ got' = got + 1
    BY <1>1 DEF Takes, TakesChunk, config, session
  <1>4. /\ Types /\ wire \in Seq(Commands) /\ Len(wire) = sent - got /\ got < sent
        /\ sent \in Nat /\ got \in Nat /\ Chunks \in Nat /\ got < Chunks
        /\ Len(wire) \in Nat \ {0} /\ \A i \in 1..Len(wire) : wire[i] = "chunk"
        /\ pc \notin {"subscribe", "first", "version", "erase", "START", "INIT"}
    BY <1>2, <1>3, ChunkNext
  <1>5. /\ wire' \in Seq(Commands) /\ Len(wire') = Len(wire) - 1
        /\ \A i \in 1..Len(wire') : wire'[i] = "chunk"
    BY <1>3, <1>4, HeadFacts
  <1>6. air \in Seq(Notes) /\ inbox \in Seq(Notes) /\ protocol \in {"bleota", "nordic"} /\ prn \in Nat
    BY <1>4, TransferAssumption DEF Types
  <1>7. /\ verified' \in BOOLEAN /\ (protocol = "bleota" /\ got' = Chunks => verified' = TRUE)
    BY Zenon DEF TakesChunk
  \* What it answers: one note to a chunk, a receipt that is due, the end.
  <1>8. /\ notes \in Seq(Notes) /\ Len(notes) \in 0..2
        /\ protocol = "bleota" =>
             Len(notes) = 1 /\ notes[1].op = "chunk"
        /\ protocol = "nordic" => \A i \in 1..Len(notes) :
             \/ notes[i] = Note("PRN", "receipt") /\ i = 1 /\ AtReceipt(got + 1)
             \/ notes[i] = Note("RECEIVE", "OK") /\ got + 1 = Chunks
    <2> DEFINE r == Note("PRN", "receipt")
               e == Note("RECEIVE", "OK")
               a == Note("chunk", IF got + 1 = Chunks THEN "OK" ELSE "ACK")
    <2>1. r \in Notes /\ e \in Notes /\ a \in Notes /\ a.op = "chunk"
      BY DEF Note, Notes, Commands
    <2>2. CASE protocol = "bleota"
      <3>1. notes = <<a>>
        BY <2>2 DEF ChunkNotes
      <3> HIDE DEF a
      <3>2. QED BY <2>1, <2>2, <3>1
    <2>3. CASE protocol = "nordic"
      <3>1. \/ notes = <<r>> \o <<e>> /\ AtReceipt(got + 1) /\ got + 1 = Chunks
            \/ notes = <<>> \o <<e>> /\ got + 1 = Chunks
            \/ notes = <<e>> /\ got + 1 = Chunks
            \/ notes = <<r>> /\ AtReceipt(got + 1)
            \/ notes = <<>>
        BY <2>3, Zenon DEF ChunkNotes
      <3> HIDE DEF r, e
      <3>2. \/ notes = <<r>> \o <<e>> /\ AtReceipt(got + 1) /\ got + 1 = Chunks
            \/ notes = <<e>> /\ got + 1 = Chunks
            \/ notes = <<r>> /\ AtReceipt(got + 1)
            \/ notes = <<>>
        <4>1. <<>> \o <<e>> = <<e>>
          OBVIOUS
        <4>2. QED BY ONLY <3>1, <4>1, Zenon
      <3>3. /\ notes \in Seq(Notes) /\ Len(notes) \in 0..2
            /\ \A i \in 1..Len(notes) :
                 \/ notes[i] = r /\ i = 1 /\ AtReceipt(got + 1)
                 \/ notes[i] = e /\ got + 1 = Chunks
        <4>1. CASE notes = <<r>> \o <<e>> /\ AtReceipt(got + 1) /\ got + 1 = Chunks
          <5>1. /\ <<r>> \in Seq(Notes) /\ Len(<<r>>) = 1 /\ <<r>>[1] = r
                /\ <<e>> \in Seq(Notes) /\ Len(<<e>>) = 1 /\ <<e>>[1] = e
            BY <2>1
          <5>2. /\ notes \in Seq(Notes) /\ Len(notes) = 2
                /\ \A i \in 1..Len(notes) :
                     notes[i] = IF i <= 1 THEN <<r>>[i] ELSE <<e>>[i - 1]
            BY <4>1, <5>1, JoinFacts
          <5>3. notes[1] = r /\ notes[2] = e
            BY <5>1, <5>2
          <5>4. QED BY <4>1, <5>2, <5>3
        <4>2. CASE notes = <<e>> /\ got + 1 = Chunks
          BY <2>1, <4>2
        <4>3. CASE notes = <<r>> /\ AtReceipt(got + 1)
          BY <2>1, <4>3
        <4>4. CASE notes = <<>>
          BY <4>4
        <4>5. QED BY <3>2, <4>1, <4>2, <4>3, <4>4
      <3>4. protocol # "bleota"
        BY <2>3
      <3>5. QED BY <3>3, <3>4 DEF r, e
    <2>4. QED BY <1>6, <2>2, <2>3
  <1>9. /\ air' \in Seq(Notes) /\ Len(air) \in Nat /\ Len(air') = Len(air) + Len(notes)
        /\ \A i \in 1..Len(air') :
             \/ i \in 1..Len(air) /\ air'[i] = air[i]
             \/ (i - Len(air)) \in 1..Len(notes) /\ air'[i] = notes[i - Len(air)]
    BY <1>3, <1>6, <1>8
  <1>10. Types'
    BY <1>2, <1>3, <1>4, <1>5, <1>7, <1>9 DEF Types
  <1>11. SessionShape'
    BY <1>3, <1>4 DEF IInv, SessionShape
  <1>12. InTransit'
    BY <1>3, <1>4, <1>5 DEF InTransit
  <1>13. pc = "ack" => protocol = "bleota" /\ inbox = <<>> /\ air = <<>> /\ Len(wire) = 1
    BY <1>4, <1>6 DEF IInv, SessionShape, OneUnderWay, Asking
  <1>14. OneUnderWay'
    <2>1. CASE pc = "ack"
      <3>1. Len(inbox') = 0 /\ Len(wire') = 0 /\ Len(air') = 1
        BY <1>3, <1>5, <1>8, <1>9, <1>13, <2>1
      <3>2. QED BY <3>1 DEF OneUnderWay
    <2>2. QED BY <1>3, <1>4, <2>1 DEF OneUnderWay, Asking
  <1>15. AnswerComesLast'
    BY <1>3, <1>4 DEF AnswerComesLast
  <1>16. AnswersTell'
    <2>1. (\A i \in 1..Len(inbox) : Tells(inbox[i]))'
      <3>1. \A i \in 1..Len(inbox) : Tells(inbox[i])
        BY DEF IInv, AnswersTell
      <3>2. \A i \in 1..Len(inbox) :
              /\ pc # "ack"
              /\ ~(inbox[i].op = "RECEIVE" /\ inbox[i].says = "OK")
              /\ ~(inbox[i].op = "VALIDATE" /\ inbox[i].says = "OK")
        BY <1>4, <1>6, <1>13, <3>1 DEF Tells
      <3>3. QED BY <1>3, <3>2 DEF Tells
    <2>2. (\A i \in 1..Len(air) : Tells(air[i]))'
      <3>1. \A i \in 1..Len(air) : Tells(air[i])
        BY DEF IInv, AnswersTell
      <3>2. \A i \in 1..Len(air) :
              /\ pc # "ack"
              /\ ~(air[i].op = "RECEIVE" /\ air[i].says = "OK")
              /\ ~(air[i].op = "VALIDATE" /\ air[i].says = "OK")
        BY <1>4, <1>6, <1>13, <3>1 DEF Tells
      <3>3. \A i \in 1..Len(notes) :
              /\ pc = "ack" => got' = sent
              /\ notes[i].op = "RECEIVE" /\ notes[i].says = "OK" => got' = Chunks
              /\ ~(notes[i].op = "VALIDATE" /\ notes[i].says = "OK")
        <4>1. pc = "ack" => got' = sent
          BY <1>3, <1>4, <1>13
        <4>2. CASE protocol = "bleota"
          <5>1. \A i \in 1..Len(notes) : notes[i].op = "chunk"
            <6>1. Len(notes) = 1 /\ notes[1].op = "chunk"
              BY ONLY <1>8, <4>2, Zenon
            <6>2. \A i \in 1..1 : i = 1
              OBVIOUS
            <6>3. QED BY ONLY <6>1, <6>2, Zenon
          <5>2. QED BY <4>1, <5>1
        <4>3. CASE protocol = "nordic"
          <5>1. \A i \in 1..Len(notes) :
                  \/ notes[i].op = "PRN"
                  \/ notes[i].op = "RECEIVE" /\ got' = Chunks
            BY <1>3, <1>8, <4>3 DEF Note
          <5>2. QED BY <4>1, <5>1
        <4>4. QED BY <1>6, <4>2, <4>3
      <3>4. \A i \in 1..Len(air') :
              /\ pc' = "ack" /\ air'[i].says # "ERR" => got' = sent'
              /\ air'[i].op = "RECEIVE" /\ air'[i].says = "OK" => got' = Chunks
              /\ air'[i].op = "VALIDATE" /\ air'[i].says = "OK" => FALSE
        BY ONLY <1>3, <1>9, <3>2, <3>3
      <3>5. QED BY <3>4 DEF Tells
    <2>3. QED BY <1>3, <1>5, <1>7, <2>1, <2>2 DEF AnswersTell
  <1>17. ReceiptsCount'
    <2>1. CASE pc \in Streaming
      <3>1. protocol = "nordic" /\ sent > 0
        BY <2>1 DEF IInv, SessionShape
      <3>2. /\ timeouts < sent
            /\ pc = "receipt" => AtReceipt(sent)
            /\ \A i \in 1..Len(air) : air[i].says = "receipt"
            /\ prn > 0 => \A i \in 0..Len(air) : Passed + Here + i <= (got \div prn) + timeouts
        BY <1>2, <1>4, <2>1 DEF IInv, ReceiptsCount
      <3>3. got' < Chunks => \A i \in 1..Len(air') : air'[i].says = "receipt"
        BY <1>3, <1>8, <1>9, <3>1, <3>2 DEF Note
      <3>4. ASSUME prn > 0, NEW i \in 0..Len(air'), i = 0 \/ air'[i].says = "receipt"
            PROVE  Passed + Here + i <= (got' \div prn) + timeouts
        <4>1. prn \in Nat \ {0} /\ Passed \in Nat /\ got \div prn \in Nat
          BY <1>4, <1>6, <3>1, <3>4, PassedNext
        <4>2. /\ (got + 1) % prn = 0 => got' \div prn = (got \div prn) + 1
              /\ (got + 1) % prn # 0 => got' \div prn = got \div prn
          BY ONLY <1>3, <1>4, <4>1, DivStep, Zenon
        <4>3. Here \in {0, 1} /\ timeouts \in Nat
          BY <1>4 DEF Here, Types
        <4>4. \A k \in 0..Len(air) : Passed + Here + k <= (got \div prn) + timeouts
          BY <3>2, <3>4
        <4>5. CASE i \in 0..Len(air)
          BY ONLY <4>1, <4>2, <4>3, <4>4, <4>5
        <4>6. CASE i \notin 0..Len(air)
          <5>1. i - Len(air) \in 1..Len(notes) /\ notes[i - Len(air)].says = "receipt"
            BY <1>9, <3>4, <4>6
          <5>2. i = Len(air) + 1 /\ AtReceipt(got + 1)
            BY <1>8, <1>9, <3>1, <5>1 DEF Note
          <5>3. got' \div prn = (got \div prn) + 1
            BY <4>2, <5>2 DEF AtReceipt
          <5>4. Passed + Here + Len(air) <= (got \div prn) + timeouts
            BY <1>9, <4>4
          <5>5. QED BY ONLY <1>9, <4>1, <4>3, <5>2, <5>3, <5>4
        <4>7. QED BY <4>5, <4>6
      <3>5. Passed' = Passed /\ Here' = Here /\ prn' = prn /\ timeouts' = timeouts
        BY <1>3 DEF Passed, Here
      <3>6. \A i \in 1..Len(wire') : wire'[i] \in {"PRN", "RECEIVE", "chunk"}
        BY <1>5
      <3>7. pc' = "receipt" => AtReceipt(sent)'
        BY <1>3, <3>2 DEF AtReceipt
      <3>8. prn' > 0 => \A i \in 0..Len(air') :
               i = 0 \/ air'[i].says = "receipt" => Passed' + Here' + i <= (got' \div prn') + timeouts'
        BY <3>4, <3>5
      <3>9. QED BY <1>3, <3>2, <3>3, <3>6, <3>7, <3>8 DEF ReceiptsCount
    <2>2. QED BY <1>3, <2>1 DEF ReceiptsCount
  <1>18. Pace'
    BY <1>3, <1>4, PaceKept DEF IInv, config, Types
  <1>19. OkMeansFlashed'
    BY <1>3, <1>4 DEF IInv, OkMeansFlashed
  <1>20. QED BY <1>10, <1>11, <1>12, <1>14, <1>15, <1>16, <1>17, <1>18, <1>19 DEF IInv

\* What arrives was the first of what was under way.
LEMMA NotifiedPreserves ==
    ASSUME IInv, Notified
    PROVE  IInv'
  <1>1. /\ air # <<>> /\ air' = Tail(air)
        /\ UNCHANGED <<protocol, prn, pc, sent, result, timeouts, wire, got, verified, alive, link,
                       trouble>>
    BY DEF Notified, config, boot
  <1>2. /\ Types /\ inbox \in Seq(Notes) /\ air \in Seq(Notes) /\ wire \in Seq(Commands)
        /\ receipt \in BOOLEAN
    BY DEF IInv, Types
  <1>3. /\ Len(air) \in Nat \ {0} /\ Head(air) = air[1] /\ Head(air) \in Notes
        /\ air' \in Seq(Notes) /\ Len(air') = Len(air) - 1
        /\ \A i \in 1..Len(air') : air'[i] = air[i + 1] /\ i + 1 \in 1..Len(air)
    BY ONLY <1>1, <1>2, HeadFacts
  <1>4. \/ air[1].says = "receipt" /\ receipt' = TRUE /\ inbox' = inbox
        \/ air[1].says # "receipt" /\ receipt' = receipt /\ inbox' = Append(inbox, air[1])
    BY <1>3 DEF Notified
  <1>5. \/ inbox' = inbox
        \/ /\ inbox' \in Seq(Notes) /\ Len(inbox') = Len(inbox) + 1
           /\ inbox'[Len(inbox) + 1] = air[1]
           /\ \A i \in 1..Len(inbox) : inbox'[i] = inbox[i]
    <2>1. CASE inbox' = Append(inbox, air[1])
      <3>1. air[1] \in Notes
        BY <1>3
      <3>2. QED BY ONLY <1>2, <2>1, <3>1
    <2>2. QED BY <1>4, <2>1
  <1>6. Types'
    <2>1. inbox' \in Seq(Notes)
      BY <1>2, <1>5
    <2>2. receipt' \in BOOLEAN
      BY <1>2, <1>4
    <2>3. QED BY <1>1, <1>2, <1>3, <2>1, <2>2 DEF Types
  <1>7. Len(inbox) \in Nat /\ Len(wire) \in Nat
    BY <1>2
  <1>8. SessionShape'
    BY <1>1 DEF IInv, SessionShape
  <1>9. InTransit'
    BY <1>1 DEF IInv, InTransit
  <1>10. OneUnderWay'
    BY <1>1, <1>3, <1>5, <1>7 DEF IInv, OneUnderWay
  <1>11. AnswerComesLast'
    <2>1. CASE pc = "erase"
      <3>1. /\ Len(wire) <= 1
            /\ \A i \in 1..Len(inbox) : inbox[i].says = "ERASING"
            /\ \A i \in 1..(Len(air) - 1) : air[i].says = "ERASING"
            /\ wire # <<>> => \A i \in 1..Len(air) : air[i].says = "ERASING"
        BY <1>1, <2>1 DEF IInv, AnswerComesLast, Erasing
      <3>2. /\ \A i \in 1..(Len(air') - 1) : air'[i].says = "ERASING"
            /\ wire # <<>> => \A i \in 1..Len(air') : air'[i].says = "ERASING"
        <4>1. Len(air) \in Nat \ {0} /\ Len(air') = Len(air) - 1
          BY ONLY <1>3
        <4>2. \A i \in 1..Len(air') :
                i + 1 \in 1..Len(air) /\ (i # Len(air') => i + 1 \in 1..(Len(air) - 1))
          BY ONLY <4>1
        <4>3. \A i \in 1..(Len(air') - 1) : i \in 1..Len(air') /\ i # Len(air')
          BY ONLY <4>1
        <4>4. \A i \in 1..Len(air') : air'[i] = air[i + 1]
          BY ONLY <1>3
        <4>5. \A i \in 1..(Len(air) - 1) : air[i].says = "ERASING"
          BY ONLY <3>1
        <4>6. \A i \in 1..(Len(air') - 1) : air'[i].says = "ERASING"
          BY ONLY <4>2, <4>3, <4>4, <4>5, Zenon
        <4>7. wire # <<>> => \A i \in 1..Len(air) : air[i].says = "ERASING"
          BY ONLY <3>1
        <4>8. wire # <<>> => \A i \in 1..Len(air') : air'[i].says = "ERASING"
          BY ONLY <4>2, <4>4, <4>7, Zenon
        <4>9. QED BY ONLY <4>6, <4>8
      <3>3. /\ \A i \in 1..(Len(inbox') - 1) : inbox'[i].says = "ERASING"
            /\ air[1].says = "ERASING" => \A i \in 1..Len(inbox') : inbox'[i].says = "ERASING"
        <4>1. CASE inbox' = inbox
          <5>1. \A i \in 1..(Len(inbox) - 1) : i \in 1..Len(inbox)
            BY ONLY <1>7
          <5>2. QED BY ONLY <3>1, <4>1, <5>1, Zenon
        <4>2. CASE /\ Len(inbox') = Len(inbox) + 1 /\ inbox'[Len(inbox) + 1] = air[1]
                   /\ \A i \in 1..Len(inbox) : inbox'[i] = inbox[i]
          <5>1. Len(inbox') - 1 = Len(inbox)
            BY ONLY <1>7, <4>2
          <5>2. \A i \in 1..Len(inbox') : i \in 1..Len(inbox) \/ i = Len(inbox) + 1
            BY ONLY <1>7, <4>2
          <5>3. QED BY ONLY <3>1, <4>2, <5>1, <5>2, Zenon
        <4>3. QED BY ONLY <1>5, <4>1, <4>2, Zenon
      <3>4. (air' # <<>> \/ wire # <<>>) => air[1].says = "ERASING"
        BY <1>3, <3>1
      <3>5. Len(wire') <= 1 /\ wire' = wire
        BY <1>1, <3>1
      <3>6. QED BY <3>2, <3>3, <3>4, <3>5 DEF AnswerComesLast, Erasing
    <2>2. QED BY <1>1, <2>1 DEF AnswerComesLast
  <1>12. AnswersTell'
    <2>1. /\ \A i \in 1..Len(inbox) : Tells(inbox[i])
          /\ \A i \in 1..Len(air) : Tells(air[i])
      BY DEF IInv, AnswersTell
    <2>2. (\A i \in 1..Len(air) : Tells(air[i]))'
      BY <1>1, <1>3, <2>1 DEF Tells
    <2>3. (\A i \in 1..Len(inbox) : Tells(inbox[i]))'
      <3>1. Tells(air[1])
        BY <1>3, <2>1
      <3>2. QED BY <1>1, <1>5, <1>7, <2>1, <3>1 DEF Tells
    <2>4. QED BY <1>1, <2>2, <2>3 DEF IInv, AnswersTell
  <1>13. ReceiptsCount'
    <2>1. CASE pc \in Streaming
      <3>1. /\ timeouts < sent
            /\ pc = "receipt" => AtReceipt(sent)
            /\ \A i \in 1..Len(wire) : wire[i] \in {"PRN", "RECEIVE", "chunk"}
            /\ alive /\ link /\ got < Chunks => \A i \in 1..Len(air) : air[i].says = "receipt"
            /\ prn > 0 =>
                 \A i \in 0..Len(air) :
                   i = 0 \/ air[i].says = "receipt" => Passed + Here + i <= (got \div prn) + timeouts
        BY <2>1 DEF IInv, ReceiptsCount
      <3>2. alive /\ link /\ got < Chunks => \A i \in 1..Len(air') : air'[i].says = "receipt"
        BY <1>3, <3>1
      <3>3. ASSUME prn > 0, NEW i \in 0..Len(air'), i = 0 \/ air'[i].says = "receipt"
            PROVE  Passed + Here' + i <= (got \div prn) + timeouts
        <4>1. Passed \in Nat /\ got \div prn \in Nat
          BY <1>2, <2>1, <3>3, PassedNext DEF IInv, SessionShape
        <4>2. /\ Here \in {0, 1} /\ Here' \in {0, 1} /\ timeouts \in Nat
              /\ air[1].says # "receipt" => Here' = Here
          BY <1>1, <1>2, <1>4 DEF Here, Types
        <4>3. i + 1 \in 0..Len(air) /\ i \in Nat
          BY <1>3, <3>3
        <4>4. CASE air[i + 1].says = "receipt"
          <5>1. Passed + Here + (i + 1) <= (got \div prn) + timeouts
            BY <3>1, <3>3, <4>3, <4>4
          <5>2. QED BY ONLY <4>1, <4>2, <4>3, <5>1
        <4>5. CASE air[i + 1].says # "receipt"
          <5>1. i = 0
            BY <1>3, <3>3, <4>3, <4>5
          <5>2. Here' = Here /\ 0 \in 0..Len(air)
            BY <4>2, <4>3, <4>5, <5>1
          <5>3. Passed + Here + 0 <= (got \div prn) + timeouts
            BY <3>1, <3>3, <5>2
          <5>4. QED BY <5>1, <5>2, <5>3
        <4>6. QED BY <4>4, <4>5
      <3>4. Passed' = Passed
        BY <1>1 DEF Passed
      <3>5. prn' > 0 => \A i \in 0..Len(air') :
               i = 0 \/ air'[i].says = "receipt" => Passed' + Here' + i <= (got' \div prn') + timeouts'
        BY <1>1, <3>3, <3>4
      <3>6. QED BY <1>1, <3>1, <3>2, <3>5 DEF ReceiptsCount, AtReceipt
    <2>2. QED BY <1>1, <2>1 DEF ReceiptsCount
  <1>14. Pace' /\ OkMeansFlashed'
    BY <1>1 DEF IInv, Pace, OkMeansFlashed
  <1>15. QED BY <1>6, <1>8, <1>9, <1>10, <1>11, <1>12, <1>13, <1>14 DEF IInv

-----------------------------------------------------------------------------

\* What every step of the session and of the bootloader preserves: answers tell
\* what is so, and receipts are counted (ota_session.py:49-55, nordic_dfu_session.py:125-139).
THEOREM InductiveInvariant == Spec => []IInv
  <1>1. Init => IInv
    <2> SUFFICES ASSUME Init PROVE IInv
      OBVIOUS
    <2>1. /\ pc = "subscribe" /\ sent = 0 /\ got = 0 /\ timeouts = 0 /\ result = "none"
          /\ inbox = <<>> /\ wire = <<>> /\ air = <<>> /\ Chunks \in Nat \ {0} /\ prn \in Nat
          /\ protocol \in {"bleota", "nordic"} /\ prn \in Prns
      BY TransferAssumption DEF Init
    <2>2. receipt = FALSE /\ verified = FALSE /\ alive = TRUE /\ link = TRUE /\ trouble = FALSE
      BY DEF Init
    <2>3. Types
      <3>1. <<>> \in Seq(Notes) /\ <<>> \in Seq(Commands)
        OBVIOUS
      <3>2. inbox \in Seq(Notes) /\ air \in Seq(Notes) /\ wire \in Seq(Commands)
        BY ONLY <2>1, <3>1, Zenon
      <3>3. /\ receipt \in BOOLEAN /\ verified \in BOOLEAN /\ alive \in BOOLEAN
            /\ link \in BOOLEAN /\ trouble \in BOOLEAN
        BY ONLY <2>2, Zenon
      <3>4. sent \in Nat /\ got \in Nat /\ got <= sent /\ sent <= Chunks /\ timeouts \in Nat
            /\ timeouts <= sent
        BY <2>1
      <3>5. result = "none" <=> pc # "done"
        BY <2>1
      <3>6. QED BY ONLY <2>1, <3>2, <3>3, <3>4, <3>5, Zenon DEF Types
    <2>4. SessionShape /\ OneUnderWay /\ AnswerComesLast /\ ReceiptsCount
      BY <2>1 DEF SessionShape, OneUnderWay, AnswerComesLast, ReceiptsCount, Streaming, Asking
    <2>5. InTransit /\ AnswersTell /\ OkMeansFlashed
      BY <2>1 DEF InTransit, AnswersTell, OkMeansFlashed
    <2>6. Pace
      BY <2>1 DEF Pace
    <2>7. QED BY <2>3, <2>4, <2>5, <2>6 DEF IInv
  <1>2. IInv /\ [Next]_vars => IInv'
    <2> SUFFICES ASSUME IInv, [Next]_vars PROVE IInv'
      OBVIOUS
    <2>1. CASE Subscribes \/ FirstCommand \/ ResponseTimeout
      BY <2>1, SubscribesPreserves, FirstCommandPreserves, TimeoutPreserves
    <2>2. CASE OtaSessionStep
      BY <2>2, VersionPreserves, ErasePreserves, AckPreserves DEF OtaSessionStep
    <2>3. CASE NordicSessionStep
      BY <2>3, StartPreserves, InitPreserves, PacketPreserves, ReceiptPreserves, ImagePreserves,
         ValidatePreserves DEF NordicSessionStep
    <2>4. CASE Served
      BY <2>4, CommandPreserves, SettingPreserves, ChunkPreserves DEF Served
    <2>5. CASE Notified \/ Erases \/ Refuses
      BY <2>5, NotifiedPreserves, ErasingPreserves, RefusalPreserves
    <2>6. CASE FallsSilent \/ Reboots \/ LinkLost
      BY <2>6, SilentPreserves
    <2>7. CASE UNCHANGED vars
      BY <2>7
      DEF vars, config, session, boot, IInv, Types, SessionShape, InTransit, OneUnderWay,
          AnswerComesLast, AnswersTell, Tells, Erasing, ReceiptsCount, Passed, Here, AtReceipt,
          Pace, OkMeansFlashed
    <2>8. QED BY <2>1, <2>2, <2>3, <2>4, <2>5, <2>6, <2>7 DEF Next, SessionStep, Bootloader
  <1>3. QED BY <1>1, <1>2, PTL DEF Spec

\* A session is never ahead of the bootloader by more than its window: one chunk
\* of the ESP32 update (ota_session.py:119-137), the packets of one receipt and of
\* each that was given up of the Nordic one (nordic_dfu_session.py:250-271).
THEOREM TransferCorrect == Spec => []TransferInv
  <1>1. IInv => TransferInv
    <2> SUFFICES ASSUME IInv PROVE TransferInv
      OBVIOUS
    <2>1. Types /\ prn \in Nat /\ Chunks \in Nat
      BY TransferAssumption DEF IInv, Types
    <2>2. sent \in 0..Chunks /\ got \in 0..sent /\ timeouts \in 0..Chunks
      BY <2>1 DEF Types
    <2>3. (result = "none") = (pc # "done")
      BY <2>1, Zenon DEF Types
    <2>4. TypeOK
      BY <2>1, <2>2, <2>3, Zenon DEF Types, TypeOK, Streaming
    <2>5. Paced
      <3>1. CASE protocol = "bleota"
        <4>1. Window = 1
          BY <3>1, Zenon DEF Window
        <4>2. QED BY <3>1, <4>1 DEF IInv, Pace, Paced
      <3>2. CASE protocol = "nordic" /\ prn > 0
        <4>1. Window = prn * (1 + timeouts)
          BY <3>2 DEF Window
        <4>2. QED BY <3>2, <4>1 DEF IInv, Pace, Paced
      <3>3. CASE protocol = "nordic" /\ ~(prn > 0)
        <4>1. Window = Chunks
          BY <3>3 DEF Window
        <4>2. QED BY <2>1, <2>2, <4>1 DEF Paced
      <3>4. QED BY <2>1, <3>1, <3>2, <3>3 DEF Types
    <2>6. QED BY <2>4, <2>5 DEF TransferInv
  <1>2. QED BY <1>1, InductiveInvariant, PTL

\* A session that returns "ok" has a bootloader that has the whole image and has
\* found it right (ota_session.py:127-147, nordic_dfu_session.py:150-157).
THEOREM OkIsFlashed == Spec => []OkMeansFlashed
  <1>1. IInv => OkMeansFlashed
    BY DEF IInv
  <1>2. QED BY <1>1, InductiveInvariant, PTL

=============================================================================
