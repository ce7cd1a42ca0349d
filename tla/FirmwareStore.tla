----------------------------- MODULE FirmwareStore -----------------------------
(***************************************************************************)
(* The firmware directory of one hardware model and the requests that use  *)
(* it (module/server.py): POST /ota/firmware/download with its background  *)
(* task, POST /ota/firmware/upload, DELETE /ota/firmware, POST /ota, and   *)
(* the update flow of a device that reads the file some turns later        *)
(* (core/ble_device.py).                                                   *)
(*                                                                         *)
(* A name leads to a file and a file outlives its name while a task writes *)
(* to it, as in POSIX.  Every download and upload brings an image of its   *)
(* own, in Last pieces; the last is short and stays in the buffer of the   *)
(* open file until it is closed.  A stop of the server, orderly or not,    *)
(* ends the tasks where they are and cleans nothing up.                    *)
(***************************************************************************)
EXTENDS Naturals, Sequences

CONSTANTS
    Names,      \* the names of firmware files
    Downloads,  \* the downloads made
    Uploads,    \* the uploads made
    Last,       \* (bound) the pieces of an image
    None        \* Python's None

ASSUME StoreAssumption ==
    /\ Last \in Nat \ {0}
    /\ Downloads \cap Uploads = {}
    /\ None \notin Names \cup Downloads \cup Uploads

VARIABLES
    dir,        \* the file each name leads to, or None; a file is known by its first writer
    data,       \* what is in each file
    dl,         \* where each download is
    used,       \* the uploads made so far
    pending,    \* _pending_ota of the device: the name POST /ota gave it, or None
    flashed,    \* what the device read for its last update, or None
    ready,      \* (history) the image last announced under a name, no request for the name since
    sure,       \* (history) that of the name pending, no request for it since
    doubt       \* (history) names written by two at once, or left by a write cut off

store == <<dir, data>>
history == <<ready, sure, doubt>>
vars == <<store, dl, used, pending, flashed, history>>

Files == Downloads \cup Uploads
Image(s) == [i \in 1..Last |-> <<s, i>>]

\* f.write() of piece i of s: at its place, whatever the file has become.
Written(file, s, i) ==
    [j \in 1..(IF i > Len(file) THEN i ELSE Len(file)) |->
        IF j = i THEN <<s, i>> ELSE IF j <= Len(file) THEN file[j] ELSE None]

\* A download with no task.
Idle(pc) == [pc |-> pc, name |-> None, file |-> None, done |-> 0, sized |-> FALSE]

Init ==
    /\ dir = [n \in Names |-> None]
    /\ data = [f \in Files |-> <<>>]
    /\ dl = [d \in Downloads |-> Idle("none")]
    /\ used = {} /\ pending = None /\ flashed = None
    /\ ready = [n \in Names |-> None]
    /\ sure = None
    /\ doubt = {}

Opened(n) == {d \in Downloads : dl[d].name = n /\ dl[d].pc \in {"streaming", "closed"}}
Active(n) == {d \in Downloads : dl[d].name = n /\ dl[d].pc \in {"asking", "streaming", "closed"}}

\* A request for n: what was announced of n no longer counts.
Named(n) ==
    /\ ready' = [ready EXCEPT ![n] = None]
    /\ sure' = IF pending = n THEN None ELSE sure

\* The file of n is replaced or removed while `others` have it open, or not.
Touched(n, others) == IF others # {} THEN doubt \cup {n} ELSE doubt \ {n}

\* The file that open(n, "wb") writes to for s: the one there, or a new one.
OpensFile(n, s) == IF dir[n] = None THEN s ELSE dir[n]

-----------------------------------------------------------------------------
(* POST /ota/firmware/download and its task.                               *)

\* The length of the body may or may not be announced.
Requested(d, n) ==
    /\ dl[d].pc = "none"
    /\ \E sized \in BOOLEAN :
         dl' = [dl EXCEPT ![d] = [Idle("asking") EXCEPT !.name = n, !.sized = sized]]
    /\ Named(n)
    /\ UNCHANGED <<store, used, pending, flashed, doubt>>

\* The answer has begun: open(dest, "wb") empties the file.
Opens(d) ==
    LET n == dl[d].name
        f == OpensFile(n, d)
    IN  /\ dl[d].pc = "asking"
        /\ dir' = [dir EXCEPT ![n] = f]
        /\ data' = [data EXCEPT ![f] = <<>>]
        /\ dl' = [dl EXCEPT ![d].pc = "streaming", ![d].file = f]
        /\ doubt' = Touched(n, Opened(n))
        /\ UNCHANGED <<used, pending, flashed, ready, sure>>

Chunk(d) ==
    LET i == dl[d].done + 1
    IN  /\ dl[d].pc = "streaming" /\ i <= Last
        /\ dl' = [dl EXCEPT ![d].done = i]
        /\ data' = IF i < Last
                   THEN [data EXCEPT ![dl[d].file] = Written(@, d, i)]
                   ELSE data
        /\ UNCHANGED <<dir, used, pending, flashed, history>>

\* (Mutant of Flushed) The end is announced with the file still open.
FlushedNot(d) == data

\* Closing the file writes the piece still in its buffer.
Flushed(d) ==
    IF dl[d].done = Last
    THEN [data EXCEPT ![dl[d].file] = Written(@, d, Last)]
    ELSE data

\* The body is over: all of it, or, its length unknown, what came of it before
\* the connection was closed.  httpx reports a body shorter than announced.
BodyEnds(d) ==
    /\ dl[d].pc = "streaming"
    /\ dl[d].sized => dl[d].done = Last
    /\ dl' = [dl EXCEPT ![d].pc = "closed"]
    /\ data' = Flushed(d)
    /\ doubt' = IF dl[d].done = Last THEN doubt ELSE doubt \cup {dl[d].name}
    /\ UNCHANGED <<dir, used, pending, flashed, ready, sure>>

\* The connection is closed too, and ota_download_complete is broadcast.
Completes(d) ==
    LET n == dl[d].name
    IN  /\ dl[d].pc = "closed"
        /\ dl' = [dl EXCEPT ![d] = Idle("complete")]
        /\ ready' = IF n \notin doubt /\ Active(n) = {d} THEN [ready EXCEPT ![n] = d] ELSE ready
        /\ UNCHANGED <<store, used, pending, flashed, sure, doubt>>

\* (Mutants of Cleaned) What was written stays; the error is not broadcast.
CleanedNot(d) == dir' = dir /\ dl' = [dl EXCEPT ![d] = Idle("failed")]
CleanedSilently(d) ==
    dir' = [dir EXCEPT ![dl[d].name] = None] /\ dl' = [dl EXCEPT ![d] = Idle("silent")]

\* Whatever has the name by now is removed, and ota_download_error broadcast.
Cleaned(d) ==
    dir' = [dir EXCEPT ![dl[d].name] = None] /\ dl' = [dl EXCEPT ![d] = Idle("failed")]

\* No connection, an error status, silence for 120 s, a body cut short, a full
\* disk: also before this task has opened the file.
Fails(d) ==
    LET n == dl[d].name
    IN  /\ dl[d].pc \in {"asking", "streaming"}
        /\ Cleaned(d)
        /\ Named(n)
        /\ doubt' = Touched(n, Opened(n) \ {d})
        /\ UNCHANGED <<data, used, pending, flashed>>

-----------------------------------------------------------------------------
(* The other requests.                                                     *)

\* POST /ota/firmware/upload: the body is there; dest.write_bytes() runs in one
\* turn.  A write that fails half way leaves what it wrote.
Upload(u, n) ==
    LET f == OpensFile(n, u)
    IN  /\ u \notin used /\ used' = used \cup {u}
        /\ dir' = [dir EXCEPT ![n] = f]
        /\ sure' = IF pending = n THEN None ELSE sure
        /\ \/ /\ data' = [data EXCEPT ![f] = Image(u)]
              /\ ready' = [ready EXCEPT ![n] = IF Active(n) = {} THEN u ELSE None]
              /\ doubt' = Touched(n, Opened(n))
           \/ \E k \in 0..(Last - 1) :
              /\ data' = [data EXCEPT ![f] = SubSeq(Image(u), 1, k)]
              /\ ready' = [ready EXCEPT ![n] = None]
              /\ doubt' = doubt \cup {n}
        /\ UNCHANGED <<dl, pending, flashed>>

\* DELETE /ota/firmware
Delete(n) ==
    /\ dir[n] # None
    /\ dir' = [dir EXCEPT ![n] = None]
    /\ Named(n)
    /\ doubt' = Touched(n, Opened(n))
    /\ UNCHANGED <<data, dl, used, pending, flashed>>

\* POST /ota: the name must lead to a file; the device, which is READY, is
\* given the name.
PostOta(n) ==
    /\ dir[n] # None
    /\ pending' = n
    /\ sure' = ready[n]
    /\ UNCHANGED <<store, dl, used, flashed, ready, doubt>>

\* The connection task of the device comes to its update flow and reads the
\* file whole; without a file the update is over (OTA_ERROR).
ReadsFirmware ==
    /\ pending # None
    /\ flashed' = IF dir[pending] = None
                  THEN None
                  ELSE [bytes |-> data[dir[pending]], sure |-> sure]
    /\ pending' = None
    /\ sure' = None
    /\ UNCHANGED <<store, dl, used, ready, doubt>>

\* The server stops, by a signal or a crash: CancelledError is no Exception,
\* so no task removes its file.  It is started again with nothing under way.
Stops ==
    LET gone == {d \in Downloads : dl[d].pc \in {"asking", "streaming", "closed"}}
    IN  /\ gone # {} \/ pending # None
        /\ dl' = [d \in Downloads |-> IF d \in gone THEN Idle("stopped") ELSE dl[d]]
        /\ doubt' = doubt \cup {dl[d].name : d \in {e \in gone : dl[e].pc = "streaming"}}
        /\ pending' = None
        /\ sure' = None
        /\ UNCHANGED <<store, used, flashed, ready>>

-----------------------------------------------------------------------------
DownloadStep(d) == Opens(d) \/ Chunk(d) \/ BodyEnds(d) \/ Completes(d) \/ Fails(d)

Next ==
    \/ \E d \in Downloads, n \in Names : Requested(d, n)
    \/ \E d \in Downloads : DownloadStep(d)
    \/ \E u \in Uploads, n \in Names : Upload(u, n)
    \/ \E n \in Names : Delete(n) \/ PostOta(n)
    \/ ReadsFirmware
    \/ Stops

\* A task is run, and httpx waits no longer than 120 s for anything.
Fairness == \A d \in Downloads : WF_vars(DownloadStep(d))

Spec == Init /\ [][Next]_vars /\ Fairness

-----------------------------------------------------------------------------
\* Every variable has its type; a file has at most the pieces of one image.
TypeOK ==
    /\ dir \in [Names -> Files \cup {None}]
    /\ \A f \in Files :
         /\ Len(data[f]) <= Last
         /\ \A i \in DOMAIN data[f] : data[f][i] \in {None} \cup (Files \X {i})
    /\ \A d \in Downloads :
         /\ dl[d].pc \in {"none", "asking", "streaming", "closed", "complete", "failed", "stopped"}
         /\ dl[d].name \in Names \cup {None} /\ dl[d].file \in Files \cup {None}
         /\ dl[d].done \in 0..Last /\ dl[d].sized \in BOOLEAN
    /\ used \subseteq Uploads
    /\ pending \in Names \cup {None}
    /\ ready \in [Names -> Files \cup {None}] /\ sure \in Files \cup {None}
    /\ doubt \subseteq Names

\* What the directory lists, and POST /ota would flash, is one whole image,
\* unless a download is writing it, two requests were at the name at once, or
\* a write was cut off by a stop, a full disk or a connection.
StoredWhole ==
    \A n \in Names :
        dir[n] # None => \/ \E s \in Files : data[dir[n]] = Image(s)
                         \/ Opened(n) # {}
                         \/ n \in doubt

\* Types, and what is stored.
StoreInv == TypeOK /\ StoredWhole

\* ota_download_complete means that the file of that name has the image
\* downloaded, all of it, under the same exceptions.
CompleteMeansWhole ==
    [][\A d \in Downloads :
         LET n == dl[d].name
         IN  dl[d].pc # "complete" /\ dl'[d].pc = "complete" /\ n \notin doubt
             => dir[n] # None /\ data[dir[n]] = Image(d)]_vars

\* An image announced before POST /ota, its name in no request since, is what
\* the device reads, whatever was under way or went wrong before it.
FlashedIsReady ==
    flashed # None /\ flashed.sure # None => flashed.bytes = Image(flashed.sure)

\* A download that was answered "started" is announced complete or failed,
\* unless the server stops.
DownloadEnds ==
    \A d \in Downloads :
        dl[d].pc = "asking" ~> dl[d].pc \in {"complete", "failed", "stopped"}

\* Every download is announced as what it came to.
DownloadsTell == CompleteMeansWhole /\ DownloadEnds
=============================================================================
