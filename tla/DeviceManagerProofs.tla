-------------------------- MODULE DeviceManagerProofs --------------------------
(***************************************************************************)
(* What the registry promises, for any number of requests and addresses.   *)
(* Whatever overlaps, a request stops what it was asked to.  As long as no *)
(* request begins while another is suspended, the one under way finds in   *)
(* _devices what it has left there, and what runs is registered.           *)
(***************************************************************************)
EXTENDS DeviceManager, FiniteSetTheorems, TLAPS

Objects == Requests \X Addrs

RequestType ==
    [pc : {"new"} \cup Suspended \cup Running \cup Ended,
     op : Ops \cup {None}, addr : Addrs \cup {None}, obj : Objects \cup {None},
     auto : BOOLEAN, wanted : [Addrs -> Kinds],
     removed : SUBSET Addrs, kept : SUBSET Addrs, added : SUBSET Addrs,
     list : SUBSET Objects]

RunType == [Requests -> [Addrs -> {"none", "offline", "live", "ended", "stopping"}]]

\* Created(q, a) says that there is an object of that name.
Created(q, a) == run[q][a] # "none"

Types ==
    /\ config \in [Addrs -> Kinds]
    /\ devices \in [Addrs -> Requests \cup {None}]
    /\ run \in RunType
    /\ req \in [Requests -> RequestType]
    /\ turn \in Requests \cup {None}
    /\ overlapped \in BOOLEAN

\* The event loop is held by the request that runs.
TurnIsHeld == \A r \in Requests : turn = r <=> req[r].pc \in Running

UnderWay == Suspended \cup Running

\* A request knows what it is about, holds only objects that exist, and removes
\* only what is not in the file it has read.
Knows(rec) ==
    /\ rec.pc \in Suspended => rec.obj \in Objects /\ Created(rec.obj[1], rec.obj[2])
    /\ \A o \in rec.list : Created(o[1], o[2])
    /\ rec.auto = TRUE => rec.addr \in Addrs
    /\ rec.pc \in {"reconcile", "awaitStart"} => rec.op \in {"reload", "add"}
    /\ rec.pc = "remove" => rec.op \in {"delete", "forget"}
    /\ rec.pc = "stopAll" => rec.op = "shutdown"
    /\ rec.pc = "awaitStop" => rec.op \in Ops \ {"connect"}
    /\ rec.pc \in UnderWay /\ rec.op \in {"delete", "forget"} => rec.addr \in Addrs
    /\ rec.removed \cap Configured(rec.wanted) = {}

\* What is registered exists.
RegisteredExist == \A a \in Addrs : devices[a] # None => Created(devices[a], a)

Basics == Types /\ TurnIsHeld /\ RegisteredExist /\ \A r \in Requests : Knows(req[r])

\* At most one request is under way.
Alone ==
    \A q, r \in Requests : req[q].pc \in UnderWay /\ req[r].pc \in UnderWay => q = r

\* What is connected is registered.
LiveIsRegistered ==
    \A q \in Requests, a \in Addrs : run[q][a] = "live" => devices[a] = q

\* What is being stopped is awaited, by a request that stands as rec says.
Awaits(rec, q, a) == rec.pc = "awaitStop" /\ rec.obj = <<q, a>>

StoppingIsAwaited ==
    \A q \in Requests, a \in Addrs :
        run[q][a] = "stopping" => \E r \in Requests : Awaits(req[r], q, a)

\* The object a request waits for is as the request has left it.
HeldIsAsLeft(rec) ==
    \A q \in Requests, a \in Addrs :
        /\ Awaits(rec, q, a) => run[q][a] = "stopping" /\ devices[a] \in {q, None}
        /\ rec.pc \in {"awaitStart", "awaitConnect"} /\ rec.obj = <<q, a>> => devices[a] = q

\* A reload is between the devices it found and those of the file.
ReloadIsExact(rec) ==
    \/ rec.pc \in {"reconcile", "awaitStart"}
    \/ rec.pc = "awaitStop" /\ rec.op \in {"reload", "add"}
    =>  /\ rec.removed \subseteq Registered
        /\ rec.kept \subseteq Registered
        /\ rec.kept \cap rec.removed = {}
        /\ rec.added \cap Registered = {}
        /\ (Registered \ rec.removed) \cup rec.added = Configured(rec.wanted)

\* A removal has stopped what it removes, or waits for that.
RemovalStopsFirst(rec) ==
    /\ rec.pc = "remove" => \A q \in Requests : run[q][rec.addr] # "live"
    /\ rec.pc = "awaitStop" /\ rec.op \in {"delete", "forget"} => rec.obj[2] = rec.addr

\* The shutdown has all that is connected on its list.
ShutdownListsAll(rec) ==
    rec.op = "shutdown" =>
        /\ \A o \in rec.list : devices[o[2]] = o[1]
        /\ \A q \in Requests, a \in Addrs : run[q][a] = "live" => <<q, a>> \in rec.list

\* A request under way finds what it has left.
AsLeft(rec) ==
    rec.pc \in UnderWay =>
        HeldIsAsLeft(rec) /\ ReloadIsExact(rec) /\ RemovalStopsFirst(rec) /\ ShutdownListsAll(rec)

Serial ==
    ~overlapped =>
        /\ Alone /\ LiveIsRegistered /\ StoppingIsAwaited /\ SerialReloadsFind
        /\ \A r \in Requests : AsLeft(req[r])

IInv == Basics /\ Serial

-----------------------------------------------------------------------------
(* What a step does to the request that takes it.                          *)

\* The request r goes on as new, and with it or without it the event loop.
Goes(r, new) ==
    /\ new \in RequestType
    /\ req' = [req EXCEPT ![r] = new]
    /\ turn' = IF new.pc \in Running THEN r ELSE None

\* What new is about is what rec is about.
SameTask(new, rec) ==
    /\ new.op = rec.op /\ new.addr = rec.addr /\ new.auto = rec.auto
    /\ new.wanted = rec.wanted /\ new.removed = rec.removed
    /\ new.kept = rec.kept /\ new.added = rec.added /\ new.list = rec.list

\* Of all objects, only <<q, a>> becomes v; the others are as in runs.
RunBecomes(runs, q, a, v) ==
    /\ run' \in RunType
    /\ \A p \in Requests, b \in Addrs :
         run'[p][b] = IF p = q /\ b = a THEN v ELSE runs[p][b]

LEMMA RunSet ==
    ASSUME NEW runs \in RunType, NEW q \in Requests, NEW a \in Addrs,
           NEW v \in {"none", "offline", "live", "ended", "stopping"}, run' = [runs EXCEPT ![q][a] = v]
    PROVE  RunBecomes(runs, q, a, v)
  BY DEF RunType, RunBecomes

LEMMA AnswerType ==
    ASSUME NEW how \in {"new"} \cup Ended
    PROVE  /\ Answer(how) \in RequestType
           /\ Answer(how).pc = how /\ Answer(how).op = None /\ Answer(how).obj = None
           /\ Answer(how).auto = FALSE /\ Answer(how).removed = {} /\ Answer(how).list = {}
  BY DEF Answer, NewRequest, RequestType, Kinds

LEMMA StopOutcomes ==
    ASSUME NEW r \in Requests, NEW rec \in RequestType, NEW q \in Requests, NEW a \in Addrs,
           NEW next \in Running, Types, Stop(r, rec, q, a, next)
    PROVE  \E new :
             /\ Goes(r, new) /\ SameTask(new, rec)
             /\ \/ /\ run[q][a] \in {"live", "stopping", "ended"}
                   /\ new.pc = "awaitStop" /\ new.obj = <<q, a>>
                   /\ RunBecomes(run, q, a, "stopping")
                \/ /\ run[q][a] \notin {"live", "stopping"}
                   /\ new.pc = next
                   /\ run' = run
  <1>1. CASE /\ run[q][a] \in {"live", "stopping", "ended"}
             /\ run' = [run EXCEPT ![q][a] = "stopping"]
             /\ req' = [req EXCEPT ![r] = [rec EXCEPT !.pc = "awaitStop", !.obj = <<q, a>>]]
             /\ turn' = None
    <2> DEFINE new == [rec EXCEPT !.pc = "awaitStop", !.obj = <<q, a>>]
    <2>1. new \in RequestType /\ new.pc = "awaitStop" /\ new.obj = <<q, a>> /\ SameTask(new, rec)
      BY DEF RequestType, Objects, Suspended, SameTask
    <2>2. req' = [req EXCEPT ![r] = new] /\ turn' = None /\ RunBecomes(run, q, a, "stopping")
      BY <1>1, RunSet DEF Types
    <2>3. Goes(r, new)
      BY <2>1, <2>2 DEF Goes, Running
    <2>4. QED BY <1>1, <2>1, <2>2, <2>3
  <1>2. CASE run[q][a] \notin {"live", "stopping"} /\ Continues(r, rec, next) /\ run' = run
    <2> DEFINE new == [rec EXCEPT !.pc = next]
    <2>1. new \in RequestType /\ new.pc = next /\ SameTask(new, rec)
      BY DEF RequestType, Running, SameTask
    <2>2. req' = [req EXCEPT ![r] = new] /\ turn' = r /\ run' = run
      BY <1>2 DEF Continues, Running, Ended
    <2>3. Goes(r, new)
      BY <2>1, <2>2 DEF Goes
    <2>4. QED BY <1>2, <2>1, <2>2, <2>3
  <1>3. QED BY <1>1, <1>2 DEF Stop

\* start() called by a reload, which goes on with it or without it.
LEMMA StartOutcomes ==
    ASSUME NEW r \in Requests, NEW rec \in RequestType, NEW q \in Requests, NEW a \in Addrs,
           NEW runs \in RunType,
           Start(r, rec, q, a, "awaitStart", "reconcile", runs)
    PROVE  \E new :
             /\ Goes(r, new) /\ SameTask(new, rec)
             /\ new.pc = "reconcile" \/ (new.pc = "awaitStart" /\ new.obj = <<q, a>>)
             /\ run' = runs \/ RunBecomes(runs, q, a, "live")
  <1>1. /\ run' = runs \/ run' = [runs EXCEPT ![q][a] = "live"]
        /\ run' = [runs EXCEPT ![q][a] = "live"] => RunBecomes(runs, q, a, "live")
    BY RunSet DEF Start
  <1>2. CASE Continues(r, rec, "reconcile")
    <2> DEFINE new == [rec EXCEPT !.pc = "reconcile"]
    <2>1. req' = [req EXCEPT ![r] = new] /\ turn' = r
      BY <1>2 DEF Continues, Ended
    <2>2. new \in RequestType /\ new.pc = "reconcile" /\ SameTask(new, rec)
      BY DEF RequestType, Running, SameTask
    <2>3. Goes(r, new)
      BY <2>1, <2>2 DEF Goes, Running
    <2>4. QED BY <1>1, <2>2, <2>3
  <1>3. CASE ~Continues(r, rec, "reconcile")
    <2> DEFINE new == [rec EXCEPT !.pc = "awaitStart", !.obj = <<q, a>>]
    <2>1. req' = [req EXCEPT ![r] = new] /\ turn' = None
      BY <1>3 DEF Start
    <2>2. new \in RequestType /\ new.pc = "awaitStart" /\ new.obj = <<q, a>> /\ SameTask(new, rec)
      BY DEF RequestType, Objects, Suspended, SameTask
    <2>3. Goes(r, new)
      BY <2>1, <2>2 DEF Goes, Running
    <2>4. QED BY <1>1, <2>2, <2>3
  <1>4. QED BY <1>2, <1>3

\* start() called as the last thing of a request.
LEMMA ConnectOutcomes ==
    ASSUME NEW r \in Requests, NEW rec \in RequestType, NEW q \in Requests, NEW a \in Addrs,
           run \in RunType,
           Start(r, rec, q, a, "awaitConnect", "done", run)
    PROVE  \E new :
             /\ Goes(r, new)
             /\ \/ new = Answer("done")
                \/ /\ new.pc = "awaitConnect" /\ new.obj = <<q, a>>
                   /\ SameTask(new, rec) /\ run' = run
             /\ run' = run \/ RunBecomes(run, q, a, "live")
  <1>1. /\ run' = run \/ run' = [run EXCEPT ![q][a] = "live"]
        /\ run' = [run EXCEPT ![q][a] = "live"] => RunBecomes(run, q, a, "live")
    BY RunSet DEF Start
  <1>2. CASE Continues(r, rec, "done")
    <2>1. req' = [req EXCEPT ![r] = Answer("done")] /\ turn' = None
      BY <1>2 DEF Continues, Ends, Ended
    <2>2. Goes(r, Answer("done"))
      BY <2>1, AnswerType DEF Goes, Ended, Running
    <2>3. QED BY <1>1, <2>2
  <1>3. CASE ~Continues(r, rec, "done")
    <2> DEFINE new == [rec EXCEPT !.pc = "awaitConnect", !.obj = <<q, a>>]
    <2>1. run' = run /\ req' = [req EXCEPT ![r] = new] /\ turn' = None
      BY <1>3 DEF Start
    <2>2. new \in RequestType /\ new.pc = "awaitConnect" /\ new.obj = <<q, a>> /\ SameTask(new, rec)
      BY DEF RequestType, Objects, Suspended, SameTask
    <2>3. Goes(r, new)
      BY <2>1, <2>2 DEF Goes, Running
    <2>4. QED BY <2>1, <2>2, <2>3
  <1>4. QED BY <1>2, <1>3

-----------------------------------------------------------------------------
(* Every step of a request preserves the invariant if it does so for that  *)
(* request: of the others none is under way, as long as nothing overlaps.  *)

\* Nothing is unmade, and the registry still has what exists.
Grows ==
    /\ config' \in [Addrs -> Kinds]
    /\ devices' \in [Addrs -> Requests \cup {None}]
    /\ run' \in RunType
    /\ overlapped' \in BOOLEAN
    /\ \A q \in Requests, a \in Addrs : Created(q, a) => run'[q][a] # "none"
    /\ RegisteredExist'

OthersIdle(r) == \A q \in Requests \ {r} : req[q].pc \notin UnderWay

LEMMA GoesPreserves ==
    ASSUME IInv, NEW r \in Requests, NEW new, Goes(r, new), turn \in {r, None}, Grows,
           Knows(req[r])',
           overlapped' = FALSE =>
               /\ overlapped = FALSE
               /\ OthersIdle(r)
               /\ LiveIsRegistered'
               /\ \A q \in Requests, a \in Addrs : run'[q][a] = "stopping" => Awaits(new, q, a)
               /\ new.pc # "keyError"
               /\ AsLeft(req[r])'
    PROVE  IInv'
  <1>1. /\ req'[r] = new /\ new \in RequestType
        /\ \A q \in Requests \ {r} : req'[q] = req[q]
        /\ Types'
    BY DEF IInv, Basics, Types, Goes, Grows
  <1>2. TurnIsHeld'
    BY <1>1, RequestsAssumption DEF IInv, Basics, TurnIsHeld, Goes, Types
  <1>3. ASSUME NEW q \in Requests \ {r} PROVE Knows(req[q])'
    <2>1. req'[q] = req[q] /\ req[q] \in RequestType /\ Knows(req[q])
      BY <1>1 DEF IInv, Basics, Types
    <2>2. \A o \in Objects : Created(o[1], o[2]) => Created(o[1], o[2])'
      BY DEF Grows, Created, Objects
    <2>3. QED BY <2>1, <2>2 DEF Knows, RequestType, Configured
  <1>4. Basics'
    BY <1>1, <1>2, <1>3 DEF Basics, Grows
  <1>5. ASSUME overlapped' = FALSE PROVE Serial'
    <2>1. Serial /\ ~overlapped
      BY <1>5 DEF IInv
    <2>2. Alone'
      BY <1>1, <1>5 DEF Alone, OthersIdle
    <2>3. StoppingIsAwaited'
      BY <1>1, <1>5 DEF StoppingIsAwaited, Awaits
    <2>4. SerialReloadsFind'
      BY <1>1, <1>5, <2>1 DEF Serial, SerialReloadsFind
    <2>5. ASSUME NEW q \in Requests \ {r} PROVE AsLeft(req[q])'
      BY <1>1, <1>5 DEF AsLeft, OthersIdle
    <2>6. QED BY <1>1, <1>5, <2>2, <2>3, <2>4, <2>5 DEF Serial
  <1>6. QED
    <2>1. overlapped' \in BOOLEAN
      BY DEF Grows
    <2>2. CASE overlapped' = FALSE
      BY <1>4, <1>5, <2>2 DEF IInv
    <2>3. CASE overlapped' = TRUE
      BY <1>4, <2>3 DEF IInv, Serial
    <2>4. QED BY <2>1, <2>2, <2>3

\* Who runs or is resumed, and who begins, is alone unless something overlaps.
LEMMA RunsAlone ==
    ASSUME IInv, NEW r \in Requests, req[r].pc \in UnderWay, ~overlapped
    PROVE  OthersIdle(r) /\ AsLeft(req[r]) /\ LiveIsRegistered
           /\ \A q \in Requests, a \in Addrs : run[q][a] = "stopping" => Awaits(req[r], q, a)
  <1>1. OthersIdle(r)
    BY DEF IInv, Serial, Alone, OthersIdle
  <1>2. \A q \in Requests, a \in Addrs : run[q][a] = "stopping" => Awaits(req[r], q, a)
    BY <1>1 DEF IInv, Serial, StoppingIsAwaited, Awaits, OthersIdle, UnderWay, Suspended
  <1>3. QED BY <1>1, <1>2 DEF IInv, Serial

LEMMA BeginsAlone ==
    ASSUME IInv, NEW r \in Requests, NEW op, Begins(r, op)
    PROVE  /\ overlapped' \in BOOLEAN
           /\ turn = None
           /\ req[r] \in RequestType /\ req[r].pc = "new" /\ Knows(req[r])
           /\ overlapped' = FALSE =>
                /\ overlapped = FALSE /\ LiveIsRegistered
                /\ \A q \in Requests : req[q].pc \notin UnderWay
                /\ \A q \in Requests, a \in Addrs : run[q][a] # "stopping"
  <1>1. turn = None /\ req[r].pc = "new" /\ req[r] \in RequestType /\ Knows(req[r])
    BY DEF Begins, IInv, Basics, Types
  <1>2. overlapped' \in BOOLEAN
    BY DEF Begins, IInv, Basics, Types
  <1>3. ASSUME overlapped' = FALSE
        PROVE  /\ overlapped = FALSE /\ LiveIsRegistered
               /\ \A q \in Requests : req[q].pc \notin UnderWay
               /\ \A q \in Requests, a \in Addrs : run[q][a] # "stopping"
    <2>1. overlapped = FALSE /\ \A q \in Requests : req[q].pc \notin Suspended
      BY <1>3 DEF Begins, IInv, Basics, Types
    <2>2. \A q \in Requests : req[q].pc \notin UnderWay
      BY <1>1, <2>1, RequestsAssumption DEF IInv, Basics, TurnIsHeld, UnderWay
    <2>3. \A q \in Requests, a \in Addrs : run[q][a] # "stopping"
      BY <2>1 DEF IInv, Serial, StoppingIsAwaited, Awaits, Suspended
    <2>4. QED BY <2>1, <2>2, <2>3 DEF IInv, Serial
  <1>4. QED BY <1>1, <1>2, <1>3

-----------------------------------------------------------------------------
(* The steps, one lemma for each part of a request.                        *)

LEMMA ReloadBegins ==
    ASSUME IInv, NEW r \in Requests, NEW op \in {"reload", "add"}, Begins(r, op),
           NEW a \in Addrs \cup {None}, NEW auto \in BOOLEAN, auto = TRUE => a \in Addrs,
           NEW f \in [Addrs -> Kinds], Reconcile(r, op, a, auto, f),
           config' \in [Addrs -> Kinds]
    PROVE  IInv'
  <1> DEFINE d   == Diff(f)
             new == [req[r] EXCEPT
                      !.pc = "reconcile", !.op = op, !.addr = a, !.auto = auto,
                      !.wanted = d.wanted, !.removed = d.removed,
                      !.kept = d.kept, !.added = d.added]
  <1>1. /\ overlapped' \in BOOLEAN /\ turn = None
        /\ req[r] \in RequestType /\ Knows(req[r])
        /\ overlapped' = FALSE =>
             /\ overlapped = FALSE /\ LiveIsRegistered
             /\ \A q \in Requests : req[q].pc \notin UnderWay
             /\ \A q \in Requests, b \in Addrs : run[q][b] # "stopping"
    BY BeginsAlone
  <1>2. /\ d.wanted = f /\ d.removed = Registered \ Configured(f)
        /\ d.kept = Registered \cap Configured(f) /\ d.added = Configured(f) \ Registered
    BY DEF Diff
  <1>3. d.removed \in SUBSET Addrs /\ d.kept \in SUBSET Addrs /\ d.added \in SUBSET Addrs
    BY <1>2 DEF Registered, Configured
  <1>4. /\ new \in RequestType /\ new.pc = "reconcile" /\ new.op = op /\ new.addr = a
        /\ new.auto = auto /\ new.wanted = f /\ new.removed = d.removed /\ new.kept = d.kept
        /\ new.added = d.added /\ new.list = req[r].list
    <2> HIDE DEF d
    <2>1. QED BY <1>1, <1>2, <1>3 DEF RequestType, Running, Ops
  <1>5. Goes(r, new)
    BY <1>4 DEF Reconcile, Goes, Running
  <1> HIDE DEF new, d
  <1>6. req'[r] = new
    BY <1>5 DEF Goes, IInv, Basics, Types
  <1>7. Grows
    BY <1>1 DEF Reconcile, Grows, IInv, Basics, Types, RegisteredExist, Created
  <1>8. Knows(req[r])'
    <2>1. \A o \in req'[r].list : Created(o[1], o[2])'
      BY <1>1, <1>4, <1>6 DEF Reconcile, Knows, Created
    <2>2. req'[r].removed \cap Configured(req'[r].wanted) = {}
      BY <1>2, <1>4, <1>6 DEF Configured
    <2>3. QED BY <1>4, <1>6, <2>1, <2>2 DEF Knows, Suspended, Configured
  <1>9. ASSUME overlapped' = FALSE
        PROVE  /\ LiveIsRegistered'
               /\ \A q \in Requests, b \in Addrs : run'[q][b] = "stopping" => Awaits(new, q, b)
               /\ AsLeft(req[r])'
    <2>1. LiveIsRegistered'
          /\ \A q \in Requests, b \in Addrs : run'[q][b] = "stopping" => Awaits(new, q, b)
      BY <1>1, <1>9 DEF Reconcile, LiveIsRegistered
    <2>2. HeldIsAsLeft(req[r])' /\ RemovalStopsFirst(req[r])' /\ ShutdownListsAll(req[r])'
      BY <1>4, <1>6 DEF HeldIsAsLeft, RemovalStopsFirst, ShutdownListsAll, Awaits
    <2>3. Registered' = Registered
      BY DEF Reconcile, Registered
    <2>4. ReloadIsExact(req[r])'
      BY <1>2, <1>4, <1>6, <2>3 DEF ReloadIsExact, Configured
    <2>5. QED BY <2>1, <2>2, <2>4 DEF AsLeft
  <1>10. QED BY <1>1, <1>4, <1>5, <1>7, <1>8, <1>9, GoesPreserves DEF OthersIdle

\* A device that left the file is popped and stopped.
LEMMA StopRemovedPreserves ==
    ASSUME IInv, NEW r \in Requests, StopRemoved(r)
    PROVE  IInv'
  <1>1. PICK a \in req[r].removed :
          /\ devices[a] # None
          /\ devices' = [devices EXCEPT ![a] = None]
          /\ Stop(r, [req[r] EXCEPT !.removed = @ \ {a}], devices[a], a, "reconcile")
    BY DEF StopRemoved
  <1> DEFINE rec == [req[r] EXCEPT !.removed = @ \ {a}]
  <1>2. /\ req[r] \in RequestType /\ Knows(req[r]) /\ req[r].pc = "reconcile" /\ turn = r
        /\ a \in Addrs /\ devices[a] \in Requests /\ Types
    BY <1>1 DEF StopRemoved, Runs, IInv, Basics, Types, RequestType
  <1>3. /\ rec \in RequestType /\ rec.op = req[r].op /\ rec.addr = req[r].addr
        /\ rec.auto = req[r].auto /\ rec.wanted = req[r].wanted
        /\ rec.removed = req[r].removed \ {a} /\ rec.kept = req[r].kept
        /\ rec.added = req[r].added /\ rec.list = req[r].list
    BY <1>2 DEF RequestType
  <1>4. Stop(r, rec, devices[a], a, "reconcile") /\ "reconcile" \in Running
    BY <1>1 DEF Running
  <1> HIDE DEF rec
  <1>5. PICK new :
          /\ Goes(r, new) /\ SameTask(new, rec)
          /\ \/ /\ run[devices[a]][a] \in {"live", "stopping", "ended"}
                /\ new.pc = "awaitStop" /\ new.obj = <<devices[a], a>>
                /\ RunBecomes(run, devices[a], a, "stopping")
             \/ /\ run[devices[a]][a] \notin {"live", "stopping"}
                /\ new.pc = "reconcile"
                /\ run' = run
    BY <1>2, <1>3, <1>4, StopOutcomes
  <1>6. req'[r] = new
    BY <1>5 DEF Goes, IInv, Basics, Types
  <1>7. Grows
    <2>1. run' \in RunType
      BY <1>2, <1>5 DEF Types, RunBecomes
    <2>2. \A q \in Requests, b \in Addrs : Created(q, b) => run'[q][b] # "none"
      BY <1>2, <1>5 DEF Types, Created, RunBecomes
    <2>3. QED
      BY <1>1, <1>2, <2>1, <2>2
      DEF StopRemoved, Grows, IInv, Basics, Types, RegisteredExist, Created
  <1>8. Knows(req[r])'
    <2>1. \A o \in req'[r].list : Created(o[1], o[2])'
      BY <1>2, <1>3, <1>5, <1>6, <1>7 DEF SameTask, Knows, Created, Grows, RequestType, Objects
    <2>2. new.pc \in Suspended =>
            new.obj \in Objects /\ Created(new.obj[1], new.obj[2])'
      <3>1. new.pc \in Suspended => new.obj = <<devices[a], a>> /\ RunBecomes(run, devices[a], a, "stopping")
        BY <1>5 DEF Suspended
      <3>2. RunBecomes(run, devices[a], a, "stopping") => run'[devices[a]][a] # "none"
        BY <1>2 DEF RunBecomes
      <3>3. QED BY <1>2, <3>1, <3>2 DEF Objects, Created
    <2>3. QED
      BY <1>2, <1>3, <1>5, <1>6, <2>1, <2>2 DEF SameTask, Knows, Configured, Ops
  <1>9. ASSUME overlapped' = FALSE
        PROVE  /\ overlapped = FALSE /\ OthersIdle(r)
               /\ LiveIsRegistered'
               /\ \A q \in Requests, b \in Addrs : run'[q][b] = "stopping" => Awaits(new, q, b)
               /\ AsLeft(req[r])'
    <2>1. ~overlapped
      BY <1>9 DEF StopRemoved
    <2>2. /\ OthersIdle(r) /\ AsLeft(req[r]) /\ LiveIsRegistered
          /\ \A q \in Requests, b \in Addrs : run[q][b] = "stopping" => Awaits(req[r], q, b)
      BY <1>2, <2>1, RunsAlone DEF UnderWay, Running
    <2>3. \A q \in Requests, b \in Addrs : run[q][b] # "stopping"
      BY <1>2, <2>2 DEF Awaits
    <2>4. LiveIsRegistered'
      BY <1>1, <1>2, <1>5, <2>2 DEF LiveIsRegistered, Types, RunBecomes
    <2>5. \A q \in Requests, b \in Addrs : run'[q][b] = "stopping" => Awaits(new, q, b)
      BY <1>2, <1>5, <2>3 DEF Awaits, RunBecomes
    <2>6. HeldIsAsLeft(req[r])'
      BY <1>1, <1>2, <1>5, <1>6 DEF HeldIsAsLeft, Awaits, Types, RunBecomes
    <2>7. RemovalStopsFirst(req[r])' /\ ShutdownListsAll(req[r])'
      BY <1>2, <1>3, <1>5, <1>6 DEF RemovalStopsFirst, ShutdownListsAll, SameTask, Knows
    <2>8. Registered' = Registered \ {a}
      BY <1>1, <1>2 DEF Registered, Types
    <2>9. ReloadIsExact(req[r])'
      <3>1. ReloadIsExact(req[r])
        BY <1>2, <2>2 DEF AsLeft, UnderWay, Running
      <3>2. QED BY <1>2, <1>3, <1>6, <1>5, <2>8, <3>1 DEF ReloadIsExact, SameTask, Configured
    <2>10. QED BY <2>1, <2>2, <2>4, <2>5, <2>6, <2>7, <2>9 DEF AsLeft
  <1>10. QED BY <1>2, <1>5, <1>7, <1>8, <1>9, GoesPreserves

\* DELETE /devices/{addr} or /ble/known/{addr} with a device to stop.
LEMMA RemovalBegins ==
    ASSUME IInv, NEW r \in Requests, NEW op \in {"delete", "forget"}, Begins(r, op),
           NEW a \in Addrs, devices[a] # None, UNCHANGED <<config, devices>>,
           NEW rec, rec = [req[r] EXCEPT !.op = op, !.addr = a],
           Stop(r, rec, devices[a], a, "remove")
    PROVE  IInv'
  <1>1. /\ overlapped' \in BOOLEAN /\ turn = None
        /\ req[r] \in RequestType /\ Knows(req[r])
        /\ overlapped' = FALSE =>
             /\ overlapped = FALSE /\ LiveIsRegistered
             /\ \A q \in Requests : req[q].pc \notin UnderWay
             /\ \A q \in Requests, b \in Addrs : run[q][b] # "stopping"
    BY BeginsAlone
  <1>2. devices[a] \in Requests /\ Types
    BY DEF IInv, Basics, Types
  <1>3. /\ rec \in RequestType /\ rec.op = op /\ rec.addr = a
        /\ rec.auto = req[r].auto /\ rec.wanted = req[r].wanted
        /\ rec.removed = req[r].removed /\ rec.kept = req[r].kept
        /\ rec.added = req[r].added /\ rec.list = req[r].list
    BY <1>1 DEF RequestType, Ops
  <1>4. Stop(r, rec, devices[a], a, "remove") /\ "remove" \in Running
    BY DEF Running
  <1>5. PICK new :
          /\ Goes(r, new) /\ SameTask(new, rec)
          /\ \/ /\ run[devices[a]][a] \in {"live", "stopping", "ended"}
                /\ new.pc = "awaitStop" /\ new.obj = <<devices[a], a>>
                /\ RunBecomes(run, devices[a], a, "stopping")
             \/ /\ run[devices[a]][a] \notin {"live", "stopping"}
                /\ new.pc = "remove"
                /\ run' = run
    <2>1. rec \in RequestType /\ devices[a] \in Requests /\ Types
      BY <1>2, <1>3
    <2>2. QED BY ONLY <1>4, <2>1, r \in Requests, a \in Addrs, StopOutcomes, Zenon
  <1>6. req'[r] = new
    BY <1>5, <1>2 DEF Goes, Types
  <1>7. Grows
    <2>1. run' \in RunType
      BY <1>2, <1>5 DEF Types, RunBecomes
    <2>2. \A q \in Requests, b \in Addrs : Created(q, b) => run'[q][b] # "none"
      BY <1>2, <1>5 DEF Types, Created, RunBecomes
    <2>3. QED
      BY <1>1, <1>2, <2>1, <2>2 DEF Grows, IInv, Basics, Types, RegisteredExist, Created
  <1>8. Knows(req[r])'
    <2>1. \A o \in req'[r].list : Created(o[1], o[2])'
      BY <1>1, <1>3, <1>5, <1>6, <1>7 DEF SameTask, Knows, Created, Grows, RequestType, Objects
    <2>2. new.pc \in Suspended =>
            new.obj \in Objects /\ Created(new.obj[1], new.obj[2])'
      <3>1. new.pc \in Suspended => new.obj = <<devices[a], a>> /\ RunBecomes(run, devices[a], a, "stopping")
        BY <1>5 DEF Suspended
      <3>2. RunBecomes(run, devices[a], a, "stopping") => run'[devices[a]][a] # "none"
        BY <1>2 DEF RunBecomes
      <3>3. QED BY <1>2, <3>1, <3>2 DEF Objects, Created
    <2>3. QED
      BY <1>1, <1>3, <1>5, <1>6, <2>1, <2>2 DEF SameTask, Knows, Configured, Ops
  <1>9. ASSUME overlapped' = FALSE
        PROVE  /\ LiveIsRegistered'
               /\ \A q \in Requests, b \in Addrs : run'[q][b] = "stopping" => Awaits(new, q, b)
               /\ AsLeft(req[r])'
    <2>1. LiveIsRegistered'
      BY <1>1, <1>2, <1>5, <1>9 DEF LiveIsRegistered, RunBecomes
    <2>2. \A q \in Requests, b \in Addrs : run'[q][b] = "stopping" => Awaits(new, q, b)
      BY <1>1, <1>2, <1>5, <1>9 DEF Awaits, RunBecomes
    <2>3. HeldIsAsLeft(req[r])'
      BY <1>2, <1>5, <1>6 DEF HeldIsAsLeft, Awaits, RunBecomes
    <2>4. RemovalStopsFirst(req[r])'
      <3>1. new.pc = "remove" => \A q \in Requests : run'[q][a] # "live"
        BY <1>1, <1>2, <1>5, <1>9 DEF LiveIsRegistered
      <3>2. QED BY <1>3, <1>5, <1>6, <3>1 DEF RemovalStopsFirst, SameTask
    <2>5. ReloadIsExact(req[r])' /\ ShutdownListsAll(req[r])'
      BY <1>3, <1>5, <1>6 DEF ReloadIsExact, ShutdownListsAll, SameTask
    <2>6. QED BY <2>1, <2>2, <2>3, <2>4, <2>5 DEF AsLeft
  <1>10. QED BY <1>1, <1>5, <1>7, <1>8, <1>9, GoesPreserves DEF OthersIdle

\* DELETE /ble/known/{addr} of an address that has no device.
LEMMA ForgetBegins ==
    ASSUME IInv, NEW r \in Requests, Begins(r, "forget"),
           NEW a \in Addrs, devices[a] = None, UNCHANGED <<config, devices, run>>,
           req' = [req EXCEPT ![r] =
                     [[req[r] EXCEPT !.op = "forget", !.addr = a] EXCEPT !.pc = "remove"]],
           turn' = r
    PROVE  IInv'
  <1> DEFINE new == [[req[r] EXCEPT !.op = "forget", !.addr = a] EXCEPT !.pc = "remove"]
  <1>1. /\ overlapped' \in BOOLEAN /\ turn = None
        /\ req[r] \in RequestType /\ Knows(req[r])
        /\ overlapped' = FALSE =>
             /\ overlapped = FALSE /\ LiveIsRegistered
             /\ \A q \in Requests : req[q].pc \notin UnderWay
             /\ \A q \in Requests, b \in Addrs : run[q][b] # "stopping"
    BY BeginsAlone
  <1>2. Types
    BY DEF IInv, Basics
  <1>3. /\ new \in RequestType /\ new.op = "forget" /\ new.addr = a /\ new.pc = "remove"
        /\ new.auto = req[r].auto /\ new.wanted = req[r].wanted
        /\ new.removed = req[r].removed /\ new.list = req[r].list
    BY <1>1 DEF RequestType, Ops, Running
  <1>4. Goes(r, new) /\ req'[r] = new
    BY <1>2, <1>3 DEF Goes, Running, Types
  <1> HIDE DEF new
  <1>5. Grows
    BY <1>1, <1>2 DEF Grows, IInv, Basics, Types, RegisteredExist, Created
  <1>6. Knows(req[r])'
    <2>1. \A o \in req'[r].list : Created(o[1], o[2])'
      BY <1>1, <1>3, <1>4 DEF Knows, Created
    <2>2. QED BY <1>1, <1>3, <1>4, <2>1 DEF Knows, Configured, Suspended
  <1>7. ASSUME overlapped' = FALSE PROVE LiveIsRegistered' /\ AsLeft(req[r])'
    <2>1. LiveIsRegistered'
      BY <1>1, <1>7 DEF LiveIsRegistered
    <2>2. \A q \in Requests : run'[q][a] # "live"
      BY <1>1, <1>7, RequestsAssumption DEF LiveIsRegistered
    <2>3. QED
      BY <1>3, <1>4, <2>1, <2>2
      DEF AsLeft, HeldIsAsLeft, Awaits, ReloadIsExact, RemovalStopsFirst, ShutdownListsAll
  <1>8. QED BY <1>1, <1>3, <1>4, <1>5, <1>6, <1>7, GoesPreserves DEF OthersIdle

\* A request that ends without touching any device.
LEMMA EndPreserves ==
    ASSUME IInv, NEW r \in Requests, NEW how \in Ended, Ends(r, how), turn \in {r, None}, Grows,
           overlapped' = FALSE =>
               /\ overlapped = FALSE
               /\ OthersIdle(r)
               /\ LiveIsRegistered'
               /\ \A q \in Requests, a \in Addrs : run'[q][a] # "stopping"
               /\ how # "keyError"
    PROVE  IInv'
  <1>1. /\ Answer(how) \in RequestType
        /\ Answer(how).pc = how /\ Answer(how).op = None /\ Answer(how).obj = None
        /\ Answer(how).auto = FALSE /\ Answer(how).removed = {} /\ Answer(how).list = {}
    BY AnswerType
  <1>2. Goes(r, Answer(how))
    BY <1>1 DEF Ends, Goes, Ended, Running
  <1>3. req'[r] = Answer(how)
    BY <1>2 DEF Goes, IInv, Basics, Types
  <1>4. Knows(req[r])'
    BY <1>1, <1>3 DEF Knows, Ended, UnderWay, Suspended, Running, Configured, RequestType
  <1>5. AsLeft(req[r])'
    BY <1>1, <1>3 DEF AsLeft, UnderWay, Ended, Suspended, Running
  <1>6. QED BY <1>1, <1>2, <1>4, <1>5, GoesPreserves

\* The shutdown stops the next device of its list.
LEMMA StopListedPreserves ==
    ASSUME IInv, NEW r \in Requests, StopListed(r)
    PROVE  IInv'
  <1>0. req[r].list \subseteq Objects
    BY DEF IInv, Basics, Types, RequestType
  <1>1. PICK p \in Requests, a \in Addrs :
          /\ <<p, a>> \in req[r].list
          /\ Stop(r, [req[r] EXCEPT !.list = @ \ {<<p, a>>}], p, a, "stopAll")
    <2>1. PICK o \in req[r].list :
            Stop(r, [req[r] EXCEPT !.list = @ \ {o}], o[1], o[2], "stopAll")
      BY DEF StopListed
    <2>2. PICK p \in Requests, a \in Addrs : o = <<p, a>>
      BY <1>0, <2>1 DEF Objects
    <2>3. QED BY <2>1, <2>2
  <1> DEFINE o   == <<p, a>>
             rec == [req[r] EXCEPT !.list = @ \ {o}]
  <1>2. /\ req[r] \in RequestType /\ Knows(req[r]) /\ req[r].pc = "stopAll" /\ turn = r /\ Types
    BY <1>1 DEF StopListed, Runs, IInv, Basics, Types, RequestType, Objects
  <1>3. /\ rec \in RequestType /\ rec.op = req[r].op /\ rec.addr = req[r].addr
        /\ rec.auto = req[r].auto /\ rec.wanted = req[r].wanted
        /\ rec.removed = req[r].removed /\ rec.kept = req[r].kept
        /\ rec.added = req[r].added /\ rec.list = req[r].list \ {o}
    BY <1>2 DEF RequestType
  <1>4. Stop(r, rec, p, a, "stopAll") /\ "stopAll" \in Running
    BY <1>1 DEF Running
  <1> HIDE DEF rec
  <1>5. PICK new :
          /\ Goes(r, new) /\ SameTask(new, rec)
          /\ \/ /\ run[p][a] \in {"live", "stopping", "ended"}
                /\ new.pc = "awaitStop" /\ new.obj = <<p, a>>
                /\ RunBecomes(run, p, a, "stopping")
             \/ /\ run[p][a] \notin {"live", "stopping"}
                /\ new.pc = "stopAll"
                /\ run' = run
    <2>1. rec \in RequestType /\ Types
      BY <1>2, <1>3
    <2>2. QED BY ONLY <1>4, <2>1, r \in Requests, p \in Requests, a \in Addrs, StopOutcomes, Zenon
  <1>6. req'[r] = new /\ UNCHANGED <<config, devices, overlapped>>
    BY <1>2, <1>5 DEF Goes, Types, StopListed
  <1>7. Grows
    <2>1. run' \in RunType
      BY <1>2, <1>5 DEF Types, RunBecomes
    <2>2. \A q \in Requests, b \in Addrs : Created(q, b) => run'[q][b] # "none"
      BY <1>2, <1>5 DEF Types, Created, RunBecomes
    <2>3. QED
      BY <1>6, <1>2, <2>1, <2>2 DEF Grows, IInv, Basics, Types, RegisteredExist, Created
  <1>8. Knows(req[r])'
    <2>1. \A b \in req'[r].list : Created(b[1], b[2])'
      BY <1>2, <1>3, <1>5, <1>6, <1>7 DEF SameTask, Knows, Created, Grows, RequestType, Objects
    <2>2. new.pc \in Suspended =>
            new.obj \in Objects /\ Created(new.obj[1], new.obj[2])'
      <3>1. new.pc \in Suspended => new.obj = <<p, a>> /\ RunBecomes(run, p, a, "stopping")
        BY <1>5 DEF Suspended
      <3>2. RunBecomes(run, p, a, "stopping") => run'[p][a] # "none"
        BY <1>2 DEF RunBecomes
      <3>3. QED BY <1>2, <3>1, <3>2 DEF Objects, Created
    <2>3. QED
      BY <1>2, <1>3, <1>5, <1>6, <2>1, <2>2 DEF SameTask, Knows, Configured, Ops
  <1>9. ASSUME overlapped' = FALSE
        PROVE  /\ overlapped = FALSE /\ OthersIdle(r)
               /\ LiveIsRegistered'
               /\ \A q \in Requests, b \in Addrs : run'[q][b] = "stopping" => Awaits(new, q, b)
               /\ AsLeft(req[r])'
    <2>1. overlapped = FALSE /\ ~overlapped
      BY <1>6, <1>9
    <2>2. /\ OthersIdle(r) /\ AsLeft(req[r]) /\ LiveIsRegistered
          /\ \A q \in Requests, b \in Addrs : run[q][b] = "stopping" => Awaits(req[r], q, b)
      BY <1>2, <2>1, RunsAlone DEF UnderWay, Running
    <2>3. \A q \in Requests, b \in Addrs : run[q][b] # "stopping"
      BY <1>2, <2>2 DEF Awaits
    <2>4. /\ \A b \in req[r].list : devices[b[2]] = b[1]
          /\ \A q \in Requests, b \in Addrs : run[q][b] = "live" => <<q, b>> \in req[r].list
          /\ req[r].op = "shutdown"
      BY <1>2, <2>2 DEF AsLeft, ShutdownListsAll, UnderWay, Running, Knows, RequestType, Objects
    <2>5. LiveIsRegistered'
      BY <1>2, <1>5, <1>6, <2>2 DEF LiveIsRegistered, RunBecomes
    <2>6. \A q \in Requests, b \in Addrs : run'[q][b] = "stopping" => Awaits(new, q, b)
      BY <1>2, <1>5, <2>3 DEF Awaits, RunBecomes
    <2>7. HeldIsAsLeft(req[r])'
      <3>1. devices[a] = p
        BY <1>1, <2>4
      <3>2. QED BY <1>2, <1>5, <1>6, <3>1 DEF HeldIsAsLeft, Awaits, RunBecomes
    <2>8. ReloadIsExact(req[r])' /\ RemovalStopsFirst(req[r])'
      BY <1>3, <1>5, <1>6, <2>4 DEF ReloadIsExact, RemovalStopsFirst, SameTask
    <2>9. ShutdownListsAll(req[r])'
      <3>1. \A q \in Requests, b \in Addrs :
              run'[q][b] = "live" => run[q][b] = "live" /\ <<q, b>> # o
        BY <1>2, <1>5, <2>4 DEF RunBecomes
      <3>2. QED BY <1>3, <1>5, <1>6, <2>4, <3>1 DEF ShutdownListsAll, SameTask
    <2>10. QED BY <2>1, <2>2, <2>5, <2>6, <2>7, <2>8, <2>9 DEF AsLeft
  <1>10. QED BY <1>2, <1>5, <1>7, <1>8, <1>9, GoesPreserves

\* stop() of a device returns.
LEMMA StopEndsPreserves ==
    ASSUME IInv, NEW r \in Requests, StopEnds(r)
    PROVE  IInv'
  <1> DEFINE q == req[r].obj[1]
             a == req[r].obj[2]
             now == IF run[q][a] = "stopping" THEN "offline" ELSE run[q][a]
             next == AfterStop(req[r].op)
             new == [[req[r] EXCEPT !.obj = None] EXCEPT !.pc = next]
  <1>1. /\ req[r] \in RequestType /\ Knows(req[r]) /\ req[r].pc = "awaitStop" /\ turn = None
        /\ Types /\ q \in Requests /\ a \in Addrs /\ req[r].obj = <<q, a>>
        /\ Created(q, a)
    BY DEF StopEnds, IInv, Basics, Types, Objects, Knows, Suspended
  <1>2. /\ next \in Running /\ next \notin Ended
        /\ next = "reconcile" <=> req[r].op \in {"reload", "add"}
        /\ next = "remove" <=> req[r].op \in {"delete", "forget"}
        /\ next = "stopAll" <=> req[r].op = "shutdown"
    <2>1. req[r].op \in {"reload", "add", "delete", "forget", "shutdown"}
      BY <1>1 DEF Knows, Ops
    <2>2. QED BY <2>1 DEF AfterStop, Running, Ended
  <1>3. RunBecomes(run, q, a, now)
    <2>1. now \in {"none", "offline", "live", "ended", "stopping"}
      BY <1>1 DEF Types, RunType
    <2>2. run' = [run EXCEPT ![q][a] = now]
      BY DEF StopEnds
    <2>3. QED BY <1>1, <2>1, <2>2, RunSet DEF Types
  <1>4. /\ new \in RequestType /\ new.pc = next /\ SameTask(new, req[r])
    BY <1>1, <1>2 DEF RequestType, SameTask, Running
  <1>5. Goes(r, new) /\ UNCHANGED <<config, devices, overlapped>>
    BY <1>2, <1>4 DEF StopEnds, Continues, Goes
  <1> HIDE DEF new, next
  <1>6. req'[r] = new
    BY <1>1, <1>5 DEF Goes, Types
  <1>7. Grows
    <2>1. \A p \in Requests, b \in Addrs : Created(p, b) => run'[p][b] # "none"
      BY <1>1, <1>3 DEF Created, RunBecomes
    <2>2. QED
      BY <1>1, <1>3, <1>5, <2>1 DEF Grows, IInv, Basics, Types, RegisteredExist, Created, RunBecomes
  <1>8. Knows(req[r])'
    <2>1. \A b \in req'[r].list : Created(b[1], b[2])'
      BY <1>1, <1>4, <1>6, <1>7 DEF SameTask, Knows, Created, Grows, RequestType, Objects
    <2>2. new.pc \notin Suspended /\ new.pc \in Running
      BY <1>2, <1>4 DEF Running, Suspended
    <2>3. QED
      BY <1>1, <1>2, <1>4, <1>6, <2>1, <2>2
      DEF SameTask, Knows, Configured, UnderWay, Suspended, Running
  <1>9. ASSUME overlapped' = FALSE
        PROVE  /\ overlapped = FALSE /\ OthersIdle(r)
               /\ LiveIsRegistered'
               /\ \A p \in Requests, b \in Addrs : run'[p][b] # "stopping"
               /\ AsLeft(req[r])'
    <2>1. overlapped = FALSE /\ ~overlapped
      BY <1>5, <1>9
    <2>2. /\ OthersIdle(r) /\ AsLeft(req[r]) /\ LiveIsRegistered
          /\ \A p \in Requests, b \in Addrs : run[p][b] = "stopping" => Awaits(req[r], p, b)
      BY <1>1, <2>1, RunsAlone DEF UnderWay, Suspended
    <2>3. /\ run[q][a] = "stopping" /\ devices[a] \in {q, None}
          /\ ReloadIsExact(req[r]) /\ RemovalStopsFirst(req[r]) /\ ShutdownListsAll(req[r])
      BY <1>1, <2>2 DEF AsLeft, UnderWay, Suspended, HeldIsAsLeft, Awaits
    <2>4. \A p \in Requests, b \in Addrs : run'[p][b] # "stopping"
      BY <1>1, <1>3, <2>2, <2>3 DEF Awaits, RunBecomes
    <2>5. \A p \in Requests, b \in Addrs : run'[p][b] = "live" => run[p][b] = "live"
      BY <1>1, <1>3, <2>3 DEF RunBecomes
    <2>6. LiveIsRegistered'
      BY <1>5, <2>2, <2>5 DEF LiveIsRegistered
    <2>7. HeldIsAsLeft(req[r])'
      BY <1>2, <1>4, <1>6 DEF HeldIsAsLeft, Awaits, Running
    <2>8. ReloadIsExact(req[r])'
      <3>1. Registered' = Registered
        BY <1>5 DEF Registered
      <3>2. QED BY <1>1, <1>2, <1>4, <1>6, <2>3, <3>1 DEF ReloadIsExact, SameTask, Configured, Running
    <2>9. RemovalStopsFirst(req[r])'
      <3>1. next = "remove" => req[r].addr = a /\ \A p \in Requests : run'[p][a] # "live"
        BY <1>1, <1>2, <1>3, <2>2, <2>3, RequestsAssumption
        DEF RemovalStopsFirst, LiveIsRegistered, RunBecomes
      <3>2. QED BY <1>2, <1>4, <1>6, <3>1 DEF RemovalStopsFirst, SameTask, Running
    <2>10. ShutdownListsAll(req[r])'
      BY <1>4, <1>5, <1>6, <2>3, <2>5 DEF ShutdownListsAll, SameTask
    <2>11. QED BY <2>1, <2>2, <2>4, <2>6, <2>7, <2>8, <2>9, <2>10 DEF AsLeft
  <1>10. new.pc # "keyError"
    BY <1>2, <1>4 DEF Running
  <1>11. QED BY <1>1, <1>5, <1>7, <1>8, <1>9, <1>10, GoesPreserves

\* start() of a registered device, after which there is nothing left to do.
LEMMA ConnectPreserves ==
    ASSUME IInv, NEW r \in Requests, turn \in {r, None}, UNCHANGED <<config, devices>>,
           NEW rec \in RequestType, NEW a \in Addrs, devices[a] # None,
           Start(r, rec, devices[a], a, "awaitConnect", "done", run),
           \A o \in rec.list : Created(o[1], o[2]),
           rec.auto = TRUE => rec.addr \in Addrs,
           rec.op \in {"reload", "add", "connect"},
           rec.removed \cap Configured(rec.wanted) = {},
           overlapped' \in BOOLEAN,
           overlapped' = FALSE =>
               /\ overlapped = FALSE
               /\ OthersIdle(r)
               /\ LiveIsRegistered
               /\ \A q \in Requests, b \in Addrs : run[q][b] # "stopping"
    PROVE  IInv'
  <1>1. Types /\ devices[a] \in Requests /\ Created(devices[a], a) /\ run \in RunType
    BY DEF IInv, Basics, Types, RegisteredExist
  <1>2. PICK new :
          /\ Goes(r, new)
          /\ \/ new = Answer("done")
             \/ /\ new.pc = "awaitConnect" /\ new.obj = <<devices[a], a>>
                /\ SameTask(new, rec) /\ run' = run
          /\ run' = run \/ RunBecomes(run, devices[a], a, "live")
    BY ONLY <1>1, r \in Requests, rec \in RequestType, a \in Addrs, ConnectOutcomes,
            Start(r, rec, devices[a], a, "awaitConnect", "done", run), Zenon
  <1>3. req'[r] = new
    BY <1>1, <1>2 DEF Goes, Types
  <1>4. Grows
    <2>1. run' \in RunType /\ \A q \in Requests, b \in Addrs : Created(q, b) => run'[q][b] # "none"
      BY <1>1, <1>2 DEF Types, Created, RunBecomes
    <2>2. QED BY <1>1, <2>1 DEF Grows, IInv, Basics, Types, RegisteredExist, Created
  <1>5. ASSUME overlapped' = FALSE
        PROVE  LiveIsRegistered' /\ \A q \in Requests, b \in Addrs : run'[q][b] # "stopping"
    BY <1>1, <1>2, <1>5 DEF LiveIsRegistered, RunBecomes
  <1>6. CASE new = Answer("done")
    <2>1. Ends(r, "done")
      BY <1>2, <1>6, AnswerType DEF Goes, Ends, Ended, Running
    <2>2. QED BY <1>4, <1>5, <2>1, EndPreserves DEF Ended
  <1>7. CASE /\ new.pc = "awaitConnect" /\ new.obj = <<devices[a], a>>
             /\ SameTask(new, rec) /\ run' = run
    <2>1. Knows(req[r])'
      <3>1. \A o \in req'[r].list : Created(o[1], o[2])'
        BY <1>3, <1>7 DEF SameTask, Created
      <3>2. new.obj \in Objects /\ Created(new.obj[1], new.obj[2])'
        BY <1>1, <1>7 DEF Created, Objects
      <3>3. QED
        BY <1>3, <1>7, <3>1, <3>2 DEF SameTask, Knows, Configured
    <2>2. AsLeft(req[r])'
      BY <1>3, <1>7
      DEF AsLeft, SameTask, HeldIsAsLeft, Awaits, ReloadIsExact, RemovalStopsFirst, ShutdownListsAll
    <2>3. QED BY <1>2, <1>4, <1>5, <1>7, <2>1, <2>2, GoesPreserves
  <1>8. QED BY <1>2, <1>6, <1>7

\* A device of the file is created, registered and, with auto_connect, started.
LEMMA AddNewPreserves ==
    ASSUME IInv, NEW r \in Requests, AddNew(r)
    PROVE  IInv'
  <1>1. PICK a \in req[r].added :
          LET rec  == [req[r] EXCEPT !.added = @ \ {a}]
              runs == [run EXCEPT ![r][a] = "offline"]
          IN  /\ devices' = [devices EXCEPT ![a] = r]
              /\ IF req[r].wanted[a] = "auto"
                 THEN Start(r, rec, r, a, "awaitStart", "reconcile", runs)
                 ELSE /\ run' = runs
                      /\ req' = [req EXCEPT ![r] = rec]
                      /\ turn' = r
    BY DEF AddNew
  <1> DEFINE rec  == [req[r] EXCEPT !.added = @ \ {a}]
             runs == [run EXCEPT ![r][a] = "offline"]
  <1>2. /\ req[r] \in RequestType /\ Knows(req[r]) /\ req[r].pc = "reconcile" /\ turn = r
        /\ req[r].removed = {} /\ req[r].kept = {}
        /\ a \in Addrs /\ Types /\ r # None /\ UNCHANGED <<config, overlapped>>
    BY <1>1, RequestsAssumption DEF AddNew, Runs, IInv, Basics, Types, RequestType
  <1>3. /\ rec \in RequestType /\ rec.op = req[r].op /\ rec.addr = req[r].addr
        /\ rec.auto = req[r].auto /\ rec.wanted = req[r].wanted
        /\ rec.removed = {} /\ rec.kept = {} /\ rec.pc = "reconcile"
        /\ rec.added = req[r].added \ {a} /\ rec.list = req[r].list
    BY <1>2 DEF RequestType
  <1>4. /\ runs \in RunType
        /\ \A p \in Requests, b \in Addrs :
             runs[p][b] = IF p = r /\ b = a THEN "offline" ELSE run[p][b]
    BY <1>2 DEF Types, RunType
  <1>5. devices' = [devices EXCEPT ![a] = r]
    BY <1>1
  <1>6. PICK new :
          /\ Goes(r, new) /\ SameTask(new, rec)
          /\ \/ new.pc = "reconcile"
             \/ new.pc = "awaitStart" /\ new.obj = <<r, a>>
          /\ run' \in RunType
          /\ run'[r][a] \in {"offline", "live"}
          /\ \A p \in Requests, b \in Addrs : ~(p = r /\ b = a) => run'[p][b] = run[p][b]
    <2>1. CASE req[r].wanted[a] = "auto"
      <3>1. Start(r, rec, r, a, "awaitStart", "reconcile", runs)
        BY <1>1, <2>1
      <3> HIDE DEF rec, runs
      <3>2. rec \in RequestType /\ runs \in RunType /\ a \in Addrs
        BY <1>2, <1>3, <1>4
      <3>3. PICK new :
               /\ Goes(r, new) /\ SameTask(new, rec)
               /\ new.pc = "reconcile" \/ (new.pc = "awaitStart" /\ new.obj = <<r, a>>)
               /\ run' = runs \/ RunBecomes(runs, r, a, "live")
        BY ONLY <3>1, <3>2, r \in Requests, StartOutcomes, Zenon
      <3>4. QED BY <1>2, <1>4, <3>3 DEF RunBecomes
    <2>2. CASE req[r].wanted[a] # "auto"
      <3>1. run' = runs /\ req' = [req EXCEPT ![r] = rec] /\ turn' = r
        BY <1>1, <2>2
      <3> HIDE DEF rec, runs
      <3>2. Goes(r, rec) /\ SameTask(rec, rec)
        BY <1>3, <3>1 DEF Goes, SameTask, Running
      <3>3. QED BY <1>2, <1>3, <1>4, <3>1, <3>2
    <2>3. QED BY <2>1, <2>2
  <1> HIDE DEF rec, runs
  <1>7. req'[r] = new
    BY <1>2, <1>6 DEF Goes, Types
  <1>8. Grows
    <2>1. \A q \in Requests, b \in Addrs : Created(q, b) => run'[q][b] # "none"
      BY <1>2, <1>6 DEF Created
    <2>2. QED BY <1>2, <1>5, <1>6, <2>1 DEF Grows, IInv, Basics, Types, RegisteredExist, Created
  <1>9. Knows(req[r])'
    <2>1. \A o \in req'[r].list : Created(o[1], o[2])'
      BY <1>2, <1>3, <1>6, <1>7, <1>8 DEF SameTask, Knows, Created, Grows, RequestType, Objects
    <2>2. new.pc \in Suspended => new.obj \in Objects /\ Created(new.obj[1], new.obj[2])'
      <3>1. new.pc \in Suspended => new.obj = <<r, a>>
        BY <1>6 DEF Suspended
      <3>2. run'[r][a] # "none"
        BY <1>6
      <3>3. QED BY <1>2, <3>1, <3>2 DEF Created, Objects
    <2>3. QED
      BY <1>2, <1>3, <1>6, <1>7, <2>1, <2>2 DEF SameTask, Knows, Configured
  <1>10. ASSUME overlapped' = FALSE
         PROVE  /\ overlapped = FALSE /\ OthersIdle(r)
                /\ LiveIsRegistered'
                /\ \A q \in Requests, b \in Addrs : run'[q][b] # "stopping"
                /\ AsLeft(req[r])'
    <2>1. overlapped = FALSE /\ ~overlapped
      BY <1>2, <1>10
    <2>2. /\ OthersIdle(r) /\ AsLeft(req[r]) /\ LiveIsRegistered
          /\ \A q \in Requests, b \in Addrs : run[q][b] = "stopping" => Awaits(req[r], q, b)
      BY <1>2, <2>1, RunsAlone DEF UnderWay, Running
    <2>3. \A q \in Requests, b \in Addrs : run[q][b] # "stopping"
      BY <1>2, <2>2 DEF Awaits
    <2>4. ReloadIsExact(req[r])
      BY <1>2, <2>2 DEF AsLeft, UnderWay, Running
    <2>5. devices[a] = None
      BY <1>2, <2>4 DEF ReloadIsExact, Registered
    <2>6. LiveIsRegistered'
      BY <1>2, <1>5, <1>6, <2>2, <2>5, RequestsAssumption DEF LiveIsRegistered, Types
    <2>7. \A q \in Requests, b \in Addrs : run'[q][b] # "stopping"
      BY <1>2, <1>6, <2>3
    <2>8. HeldIsAsLeft(req[r])'
      BY <1>2, <1>5, <1>6, <1>7 DEF HeldIsAsLeft, Awaits, Types
    <2>9. RemovalStopsFirst(req[r])' /\ ShutdownListsAll(req[r])'
      BY <1>2, <1>3, <1>6, <1>7 DEF RemovalStopsFirst, ShutdownListsAll, SameTask, Knows
    <2>10. ReloadIsExact(req[r])'
      <3>1. Registered' = Registered \cup {a}
        BY <1>2, <1>5 DEF Registered, Types
      <3>2. QED BY <1>2, <1>3, <1>6, <1>7, <2>4, <3>1 DEF ReloadIsExact, SameTask, Configured
    <2>11. QED BY <2>1, <2>2, <2>6, <2>7, <2>8, <2>9, <2>10 DEF AsLeft
  <1>11. QED BY <1>2, <1>6, <1>8, <1>9, <1>10, GoesPreserves

\* The reload is over; POST /devices goes on to start its device.
LEMMA ReconciledPreserves ==
    ASSUME IInv, NEW r \in Requests, Reconciled(r)
    PROVE  IInv'
  <1>1. /\ req[r] \in RequestType /\ Knows(req[r]) /\ req[r].pc = "reconcile" /\ turn = r
        /\ Types /\ UNCHANGED <<config, devices, overlapped>>
    BY DEF Reconciled, Runs, IInv, Basics, Types
  <1>2. ASSUME overlapped' = FALSE
        PROVE  /\ overlapped = FALSE /\ OthersIdle(r) /\ LiveIsRegistered
               /\ \A q \in Requests, b \in Addrs : run[q][b] # "stopping"
    <2>1. overlapped = FALSE /\ ~overlapped
      BY <1>1, <1>2
    <2>2. /\ OthersIdle(r) /\ LiveIsRegistered
          /\ \A q \in Requests, b \in Addrs : run[q][b] = "stopping" => Awaits(req[r], q, b)
      BY <1>1, <2>1, RunsAlone DEF UnderWay, Running
    <2>3. QED BY <1>1, <2>1, <2>2 DEF Awaits
  <1>3. CASE req[r].auto /\ devices[req[r].addr] # None
    <2>1. req[r].addr \in Addrs /\ req[r].auto = TRUE
      BY <1>1, <1>3 DEF Knows, RequestType
    <2>2. Start(r, req[r], devices[req[r].addr], req[r].addr, "awaitConnect", "done", run)
      BY <1>3 DEF Reconciled
    <2>3. /\ \A o \in req[r].list : Created(o[1], o[2])
          /\ req[r].op \in {"reload", "add", "connect"}
          /\ req[r].removed \cap Configured(req[r].wanted) = {}
          /\ overlapped' \in BOOLEAN
      BY <1>1 DEF Knows, Types
    <2>4. QED BY <1>1, <1>2, <1>3, <2>1, <2>2, <2>3, ConnectPreserves
  <1>4. CASE ~(req[r].auto /\ devices[req[r].addr] # None)
    <2>1. Ends(r, "done") /\ run' = run
      BY <1>4 DEF Reconciled
    <2>2. Grows
      BY <1>1, <2>1 DEF Grows, IInv, Basics, Types, RegisteredExist, Created
    <2>3. overlapped' = FALSE => LiveIsRegistered'
      BY <1>1, <1>2, <2>1 DEF LiveIsRegistered
    <2>4. QED BY <1>1, <1>2, <2>1, <2>2, <2>3, EndPreserves DEF Ended
  <1>5. QED BY <1>3, <1>4

\* POST /devices/{addr}/connect
LEMMA ConnectBegins ==
    ASSUME IInv, NEW r \in Requests, BeginConnect(r)
    PROVE  IInv'
  <1>1. /\ Begins(r, "connect") /\ UNCHANGED <<config, devices>>
    BY DEF BeginConnect
  <1>2. /\ overlapped' \in BOOLEAN /\ turn = None
        /\ req[r] \in RequestType /\ Knows(req[r])
        /\ overlapped' = FALSE =>
             /\ overlapped = FALSE /\ LiveIsRegistered
             /\ \A q \in Requests : req[q].pc \notin UnderWay
             /\ \A q \in Requests, b \in Addrs : run[q][b] # "stopping"
    BY <1>1, BeginsAlone
  <1>3. PICK a \in Registered :
          Start(r, [req[r] EXCEPT !.op = "connect", !.addr = a],
                devices[a], a, "awaitConnect", "done", run)
    BY DEF BeginConnect
  <1> DEFINE rec == [req[r] EXCEPT !.op = "connect", !.addr = a]
  <1>4. a \in Addrs /\ devices[a] # None
    BY <1>3 DEF Registered
  <1>5. /\ rec \in RequestType /\ rec.op = "connect" /\ rec.addr = a
        /\ rec.wanted = req[r].wanted /\ rec.removed = req[r].removed /\ rec.list = req[r].list
    BY <1>2, <1>4 DEF RequestType, Ops
  <1> HIDE DEF rec
  <1>6. /\ \A o \in rec.list : Created(o[1], o[2])
        /\ rec.removed \cap Configured(rec.wanted) = {}
    BY <1>2, <1>5 DEF Knows
  <1>7. Start(r, rec, devices[a], a, "awaitConnect", "done", run)
    BY <1>3 DEF rec
  <1>8. QED BY <1>1, <1>2, <1>4, <1>5, <1>6, <1>7, ConnectPreserves DEF OthersIdle

\* The port is bound, and the task created.
LEMMA StartEndsPreserves ==
    ASSUME IInv, NEW r \in Requests, StartEnds(r)
    PROVE  IInv'
  <1> DEFINE q == req[r].obj[1]
             a == req[r].obj[2]
             new == [[req[r] EXCEPT !.obj = None] EXCEPT !.pc = "reconcile"]
  <1>1. /\ req[r] \in RequestType /\ Knows(req[r]) /\ turn = None
        /\ req[r].pc \in {"awaitStart", "awaitConnect"}
        /\ Types /\ q \in Requests /\ a \in Addrs /\ req[r].obj = <<q, a>>
        /\ UNCHANGED <<config, devices, overlapped>>
    BY DEF StartEnds, IInv, Basics, Types, Objects, Knows, Suspended
  <1>2. RunBecomes(run, q, a, "live")
    BY <1>1, RunSet DEF StartEnds, Types
  <1>3. Grows
    <2>1. \A p \in Requests, b \in Addrs : Created(p, b) => run'[p][b] # "none"
      BY <1>1, <1>2 DEF Created, RunBecomes
    <2>2. QED
      BY <1>1, <1>2, <2>1 DEF Grows, IInv, Basics, Types, RegisteredExist, Created, RunBecomes
  <1>4. ASSUME overlapped' = FALSE
        PROVE  /\ overlapped = FALSE /\ OthersIdle(r) /\ LiveIsRegistered'
               /\ \A p \in Requests, b \in Addrs : run'[p][b] # "stopping"
               /\ req[r].pc = "awaitStart" => ReloadIsExact(req[r])
    <2>1. overlapped = FALSE /\ ~overlapped
      BY <1>1, <1>4
    <2>2. /\ OthersIdle(r) /\ AsLeft(req[r]) /\ LiveIsRegistered
          /\ \A p \in Requests, b \in Addrs : run[p][b] = "stopping" => Awaits(req[r], p, b)
      BY <1>1, <2>1, RunsAlone DEF UnderWay, Suspended
    <2>3. devices[a] = q /\ ReloadIsExact(req[r])
      BY <1>1, <2>2 DEF AsLeft, UnderWay, Suspended, HeldIsAsLeft
    <2>4. LiveIsRegistered'
      BY <1>1, <1>2, <2>2, <2>3 DEF LiveIsRegistered, RunBecomes
    <2>5. \A p \in Requests, b \in Addrs : run'[p][b] # "stopping"
      BY <1>1, <1>2, <2>2 DEF Awaits, RunBecomes
    <2>6. QED BY <2>1, <2>2, <2>3, <2>4, <2>5
  <1>5. CASE req[r].pc = "awaitConnect"
    <2>1. Ends(r, "done")
      BY <1>5 DEF StartEnds, Continues, Ended
    <2>2. QED BY <1>1, <1>3, <1>4, <2>1, EndPreserves DEF Ended
  <1>6. CASE req[r].pc = "awaitStart"
    <2>1. new \in RequestType /\ new.pc = "reconcile" /\ new.obj = None /\ SameTask(new, req[r])
      BY <1>1 DEF RequestType, SameTask, Running
    <2>2. Goes(r, new)
      BY <1>6, <2>1 DEF StartEnds, Continues, Goes, Ended, Running
    <2> HIDE DEF new
    <2>3. req'[r] = new
      BY <1>1, <2>2 DEF Goes, Types
    <2>4. Knows(req[r])'
      <3>1. \A o \in req'[r].list : Created(o[1], o[2])'
        BY <1>1, <1>3, <2>1, <2>3 DEF SameTask, Knows, Created, Grows, RequestType, Objects
      <3>2. QED
        BY <1>1, <1>6, <2>1, <2>3, <3>1 DEF SameTask, Knows, Configured, Suspended
    <2>5. ASSUME overlapped' = FALSE PROVE AsLeft(req[r])'
      <3>1. Registered' = Registered
        BY <1>1 DEF Registered
      <3>2. ReloadIsExact(req[r])'
        BY <1>4, <1>6, <2>1, <2>3, <2>5, <3>1 DEF ReloadIsExact, SameTask, Configured
      <3>3. QED
        BY <1>1, <1>6, <2>1, <2>3, <3>2
        DEF AsLeft, HeldIsAsLeft, Awaits, RemovalStopsFirst, ShutdownListsAll, SameTask, Knows
    <2>6. QED BY <1>1, <1>3, <1>4, <2>1, <2>2, <2>4, <2>5, GoesPreserves
  <1>7. QED BY <1>1, <1>5, <1>6

\* A reload that meets a device it did not expect to be gone: of requests that
\* do not overlap none does.
LEMMA MissingPreserves ==
    ASSUME IInv, NEW r \in Requests, RemovedMissing(r) \/ KeptMissing(r)
    PROVE  IInv'
  <1>1. /\ Ends(r, "keyError") /\ turn = r /\ req[r].pc = "reconcile" /\ Types
        /\ req[r] \in RequestType /\ UNCHANGED <<config, devices, run, overlapped>>
    BY DEF RemovedMissing, KeptMissing, Runs, IInv, Basics, Types
  <1>2. Grows
    BY <1>1 DEF Grows, IInv, Basics, Types, RegisteredExist, Created
  <1>3. ASSUME overlapped' = FALSE PROVE FALSE
    <2>1. ~overlapped
      BY <1>1, <1>3
    <2>2. ReloadIsExact(req[r])
      BY <1>1, <2>1, RunsAlone DEF AsLeft, UnderWay, Running
    <2>3. req[r].removed \subseteq Registered /\ req[r].kept \subseteq Registered
      BY <1>1, <2>2 DEF ReloadIsExact
    <2>4. QED BY <2>3 DEF RemovedMissing, KeptMissing, Registered
  <1>4. QED BY <1>1, <1>2, <1>3, EndPreserves DEF Ended

\* A start that failed ends its request.
LEMMA StartFailsPreserves ==
    ASSUME IInv, NEW r \in Requests, StartFails(r)
    PROVE  IInv'
  <1>1. /\ Ends(r, "failed") /\ turn = None /\ Types
        /\ req[r].pc \in {"awaitStart", "awaitConnect"}
        /\ UNCHANGED <<config, devices, run, overlapped>>
    BY DEF StartFails, IInv, Basics
  <1>2. Grows
    BY <1>1 DEF Grows, IInv, Basics, Types, RegisteredExist, Created
  <1>3. ASSUME overlapped' = FALSE
        PROVE  /\ overlapped = FALSE /\ OthersIdle(r) /\ LiveIsRegistered'
               /\ \A q \in Requests, b \in Addrs : run'[q][b] # "stopping"
    <2>1. overlapped = FALSE /\ ~overlapped
      BY <1>1, <1>3
    <2>2. /\ OthersIdle(r) /\ LiveIsRegistered
          /\ \A q \in Requests, b \in Addrs : run[q][b] = "stopping" => Awaits(req[r], q, b)
      BY <1>1, <2>1, RunsAlone DEF UnderWay, Suspended
    <2>3. QED BY <1>1, <2>1, <2>2 DEF Awaits, LiveIsRegistered
  <1>4. QED BY <1>1, <1>2, <1>3, EndPreserves DEF Ended

\* A shutdown that is cut leaves the device it was stopping at rest.
LEMMA ShutdownCutPreserves ==
    ASSUME IInv, NEW r \in Requests, ShutdownCut(r)
    PROVE  IInv'
  <1> DEFINE q == req[r].obj[1]
             a == req[r].obj[2]
             now == IF run[q][a] = "stopping" THEN "ended" ELSE run[q][a]
  <1>1. /\ Ends(r, "timedOut") /\ turn = None /\ Types /\ Knows(req[r])
        /\ req[r] \in RequestType /\ req[r].pc = "awaitStop"
        /\ q \in Requests /\ a \in Addrs /\ req[r].obj = <<q, a>>
        /\ UNCHANGED <<config, devices, overlapped>>
    BY DEF ShutdownCut, IInv, Basics, Types, Objects, Knows, Suspended
  <1>2. RunBecomes(run, q, a, now)
    <2>1. now \in {"none", "offline", "live", "ended", "stopping"}
      BY <1>1 DEF Types, RunType
    <2>2. run' = [run EXCEPT ![q][a] = now]
      BY DEF ShutdownCut
    <2>3. QED BY <1>1, <2>1, <2>2, RunSet DEF Types
  <1> HIDE DEF q, a
  <1>3. Grows
    <2>1. \A p \in Requests, b \in Addrs : Created(p, b) => run'[p][b] # "none"
      BY <1>2 DEF Created, RunBecomes
    <2>2. QED
      BY <1>1, <1>2, <2>1 DEF Grows, IInv, Basics, Types, RegisteredExist, Created, RunBecomes
  <1>4. ASSUME overlapped' = FALSE
        PROVE  /\ overlapped = FALSE /\ OthersIdle(r) /\ LiveIsRegistered'
               /\ \A p \in Requests, b \in Addrs : run'[p][b] # "stopping"
    <2>1. overlapped = FALSE /\ ~overlapped
      BY <1>1, <1>4
    <2>2. /\ OthersIdle(r) /\ LiveIsRegistered
          /\ \A p \in Requests, b \in Addrs : run[p][b] = "stopping" => Awaits(req[r], p, b)
      BY <1>1, <2>1, RunsAlone DEF UnderWay, Suspended
    <2>3. \A p \in Requests, b \in Addrs : run'[p][b] # "stopping"
      BY <1>1, <1>2, <2>2 DEF Awaits, RunBecomes
    <2>4. \A p \in Requests, b \in Addrs : run'[p][b] = "live" => run[p][b] = "live"
      BY <1>2 DEF RunBecomes
    <2>5. LiveIsRegistered'
      BY <1>1, <2>2, <2>4 DEF LiveIsRegistered
    <2>6. QED BY <2>1, <2>2, <2>3, <2>5
  <1>5. QED BY <1>1, <1>3, <1>4, EndPreserves DEF Ended

LEMMA NotFoundPreserves ==
    ASSUME IInv, NEW r \in Requests, NotFound(r)
    PROVE  IInv'
  <1>1. PICK op \in {"connect", "delete"} : Begins(r, op)
    BY DEF NotFound
  <1>2. /\ overlapped' \in BOOLEAN /\ turn = None
        /\ overlapped' = FALSE =>
             /\ overlapped = FALSE /\ LiveIsRegistered
             /\ \A q \in Requests : req[q].pc \notin UnderWay
             /\ \A q \in Requests, b \in Addrs : run[q][b] # "stopping"
    BY <1>1, BeginsAlone
  <1>3. Ends(r, "notFound") /\ UNCHANGED <<config, devices, run>>
    BY DEF NotFound
  <1>4. Grows
    BY <1>2, <1>3 DEF Grows, IInv, Basics, Types, RegisteredExist, Created
  <1>5. overlapped' = FALSE => LiveIsRegistered'
    BY <1>2, <1>3 DEF LiveIsRegistered
  <1>6. QED BY <1>2, <1>3, <1>4, <1>5, EndPreserves DEF Ended, OthersIdle

\* What is removed is stopped by then; and so is all that the shutdown clears.
LEMMA RemovalPreserves ==
    ASSUME IInv, NEW r \in Requests, Removed(r) \/ Cleared(r)
    PROVE  IInv'
  <1>1. /\ Ends(r, "done") /\ turn = r /\ Types /\ UNCHANGED <<run, overlapped>>
        /\ req[r] \in RequestType /\ Knows(req[r]) /\ req[r].pc \in {"remove", "stopAll"}
    BY DEF Removed, Cleared, Runs, IInv, Basics, Types
  <1>2. /\ config' \in [Addrs -> Kinds] /\ devices' \in [Addrs -> Requests \cup {None}]
        /\ \A b \in Addrs : devices'[b] \in {devices[b], None}
    <2>1. CASE Removed(r)
      <3>1. req[r].addr \in Addrs
        BY <1>1, <2>1 DEF Removed, Runs, Knows, UnderWay, Running
      <3>2. QED BY <1>1, <2>1, <3>1 DEF Removed, Types, Kinds
    <2>2. CASE Cleared(r)
      BY <1>1, <2>2 DEF Cleared, Types
    <2>3. QED BY <2>1, <2>2
  <1>3. Grows
    BY <1>1, <1>2 DEF Grows, IInv, Basics, Types, RegisteredExist, Created
  <1>4. ASSUME overlapped' = FALSE
        PROVE  /\ overlapped = FALSE /\ OthersIdle(r) /\ LiveIsRegistered'
               /\ \A q \in Requests, b \in Addrs : run'[q][b] # "stopping"
    <2>1. overlapped = FALSE /\ ~overlapped
      BY <1>1, <1>4
    <2>2. /\ OthersIdle(r) /\ LiveIsRegistered /\ AsLeft(req[r])
          /\ \A q \in Requests, b \in Addrs : run[q][b] = "stopping" => Awaits(req[r], q, b)
      BY <1>1, <2>1, RunsAlone DEF UnderWay, Running
    <2>3. \A q \in Requests, b \in Addrs : run'[q][b] # "stopping"
      BY <1>1, <2>2 DEF Awaits
    <2>4. LiveIsRegistered'
      <3>1. CASE Removed(r)
        <4>1. \A q \in Requests : run[q][req[r].addr] # "live"
          BY <2>2, <3>1 DEF Removed, Runs, AsLeft, RemovalStopsFirst, UnderWay, Running
        <4>2. QED BY <1>1, <2>2, <3>1, <4>1 DEF Removed, LiveIsRegistered, Types
      <3>2. CASE Cleared(r)
        <4>1. ShutdownListsAll(req[r]) /\ req[r].op = "shutdown" /\ req[r].list = {}
          BY <1>1, <2>2, <3>2 DEF Cleared, Runs, AsLeft, Knows, UnderWay, Running
        <4>2. QED BY <1>1, <4>1 DEF LiveIsRegistered, ShutdownListsAll
      <3>3. QED BY <3>1, <3>2
    <2>5. QED BY <2>1, <2>2, <2>3, <2>4
  <1>5. QED BY <1>1, <1>3, <1>4, EndPreserves DEF Ended

LEMMA UpdateKeptPreserves ==
    ASSUME IInv, NEW r \in Requests, UpdateKept(r)
    PROVE  IInv'
  <1> DEFINE new == [req[r] EXCEPT !.kept = {}]
  <1>1. /\ req[r] \in RequestType /\ Knows(req[r]) /\ req[r].pc = "reconcile" /\ turn = r /\ Types
        /\ UNCHANGED <<config, devices, run, turn, overlapped>>
    BY DEF UpdateKept, Runs, IInv, Basics, Types
  <1>2. /\ new \in RequestType /\ new.pc = "reconcile" /\ new.kept = {}
        /\ new.op = req[r].op /\ new.addr = req[r].addr /\ new.auto = req[r].auto
        /\ new.wanted = req[r].wanted /\ new.removed = req[r].removed
        /\ new.added = req[r].added /\ new.list = req[r].list
    BY <1>1 DEF RequestType
  <1>3. Goes(r, new)
    BY <1>1, <1>2 DEF UpdateKept, Goes, Running, Types
  <1> HIDE DEF new
  <1>4. req'[r] = new
    BY <1>1, <1>3 DEF Goes, Types
  <1>5. Grows
    BY <1>1 DEF Grows, IInv, Basics, Types, RegisteredExist, Created
  <1>6. Knows(req[r])'
    <2>1. \A o \in req'[r].list : Created(o[1], o[2])'
      BY <1>1, <1>2, <1>4 DEF Knows, Created
    <2>2. QED BY <1>1, <1>2, <1>4, <2>1 DEF Knows, Configured, Suspended
  <1>7. ASSUME overlapped' = FALSE
        PROVE  /\ overlapped = FALSE /\ OthersIdle(r) /\ LiveIsRegistered'
               /\ \A q \in Requests, b \in Addrs : run'[q][b] # "stopping"
               /\ AsLeft(req[r])'
    <2>1. overlapped = FALSE /\ ~overlapped
      BY <1>1, <1>7
    <2>2. /\ OthersIdle(r) /\ LiveIsRegistered /\ AsLeft(req[r])
          /\ \A q \in Requests, b \in Addrs : run[q][b] = "stopping" => Awaits(req[r], q, b)
      BY <1>1, <2>1, RunsAlone DEF UnderWay, Running
    <2>3. ReloadIsExact(req[r])'
      <3>1. Registered' = Registered /\ ReloadIsExact(req[r])
        BY <1>1, <2>2 DEF Registered, AsLeft, UnderWay, Running
      <3>2. QED BY <1>1, <1>2, <1>4, <3>1 DEF ReloadIsExact, Configured
    <2>4. AsLeft(req[r])'
      BY <1>1, <1>2, <1>4, <2>3
      DEF AsLeft, HeldIsAsLeft, Awaits, RemovalStopsFirst, ShutdownListsAll, Knows
    <2>5. QED BY <1>1, <2>1, <2>2, <2>4 DEF LiveIsRegistered, Awaits
  <1>8. QED BY <1>1, <1>2, <1>3, <1>5, <1>6, <1>7, GoesPreserves

LEMMA ShutdownBegins ==
    ASSUME IInv, NEW r \in Requests, BeginShutdown(r)
    PROVE  IInv'
  <1> DEFINE objs == {<<devices[a], a>> : a \in Registered}
             new  == [req[r] EXCEPT !.pc = "stopAll", !.op = "shutdown", !.list = objs]
  <1>1. /\ overlapped' \in BOOLEAN /\ turn = None
        /\ req[r] \in RequestType /\ Knows(req[r])
        /\ overlapped' = FALSE =>
             /\ overlapped = FALSE /\ LiveIsRegistered
             /\ \A q \in Requests : req[q].pc \notin UnderWay
             /\ \A q \in Requests, b \in Addrs : run[q][b] # "stopping"
    BY BeginsAlone DEF BeginShutdown
  <1>2. Types /\ UNCHANGED <<config, devices, run>>
    BY DEF BeginShutdown, IInv, Basics
  <1>3. objs \in SUBSET Objects
    BY <1>2 DEF Types, Registered, Objects
  <1>4. /\ new \in RequestType /\ new.pc = "stopAll" /\ new.op = "shutdown" /\ new.list = objs
        /\ new.auto = req[r].auto /\ new.addr = req[r].addr
        /\ new.wanted = req[r].wanted /\ new.removed = req[r].removed
    <2> HIDE DEF objs
    <2>1. QED BY <1>1, <1>3 DEF RequestType, Running, Ops
  <1>5. Goes(r, new)
    BY <1>4 DEF BeginShutdown, Goes, Running
  <1> HIDE DEF new
  <1>6. req'[r] = new
    BY <1>2, <1>5 DEF Goes, Types
  <1>7. Grows
    BY <1>1, <1>2 DEF Grows, IInv, Basics, Types, RegisteredExist, Created
  <1>8. Knows(req[r])'
    <2>1. \A o \in req'[r].list : Created(o[1], o[2])'
      BY <1>2, <1>4, <1>6 DEF IInv, Basics, RegisteredExist, Created, Registered
    <2>2. QED BY <1>1, <1>4, <1>6, <2>1 DEF Knows, Configured, Suspended
  <1>9. ASSUME overlapped' = FALSE PROVE LiveIsRegistered' /\ AsLeft(req[r])'
    <2>1. ShutdownListsAll(req[r])'
      <3>1. \A q \in Requests, a \in Addrs : run[q][a] = "live" => <<q, a>> \in objs
        BY <1>1, <1>9, RequestsAssumption DEF LiveIsRegistered, Registered
      <3>2. \A o \in objs : devices[o[2]] = o[1]
        OBVIOUS
      <3> HIDE DEF objs
      <3>3. QED BY <1>2, <1>4, <1>6, <3>1, <3>2 DEF ShutdownListsAll
    <2>2. QED
      BY <1>1, <1>2, <1>4, <1>6, <1>9, <2>1
      DEF AsLeft, HeldIsAsLeft, Awaits, ReloadIsExact, RemovalStopsFirst, LiveIsRegistered
  <1>10. QED BY <1>1, <1>2, <1>4, <1>5, <1>7, <1>8, <1>9, GoesPreserves DEF OthersIdle

\* The file is edited, or a task ends: no request is touched.
LEMMA WorldPreserves ==
    ASSUME IInv, \/ \E a \in Addrs : EditConfig(a)
                 \/ \E r \in Requests, a \in Addrs : TaskEnds(r, a)
    PROVE  IInv'
  <1>1. CASE \E a \in Addrs : EditConfig(a)
    <2>1. /\ config' \in [Addrs -> Kinds]
          /\ UNCHANGED <<devices, run, req, turn, overlapped>>
      BY <1>1 DEF EditConfig, IInv, Basics, Types
    <2>2. Basics'
      BY <2>1 DEF IInv, Basics, Types, TurnIsHeld, RegisteredExist, Knows, Created, Configured
    <2>3. /\ Alone' = Alone /\ LiveIsRegistered' = LiveIsRegistered
          /\ StoppingIsAwaited' = StoppingIsAwaited /\ SerialReloadsFind' = SerialReloadsFind
      BY <2>1 DEF Alone, LiveIsRegistered, StoppingIsAwaited, Awaits, SerialReloadsFind
    <2>4. ASSUME NEW q \in Requests, AsLeft(req[q]) PROVE AsLeft(req[q])'
      BY <2>1, <2>4
      DEF AsLeft, HeldIsAsLeft, Awaits, ReloadIsExact, Registered, RemovalStopsFirst,
          ShutdownListsAll, Configured
    <2>5. QED BY <2>1, <2>2, <2>3, <2>4 DEF IInv, Serial
  <1>2. ASSUME NEW r \in Requests, NEW a \in Addrs, TaskEnds(r, a) PROVE IInv'
    <2> PICK left \in {"ended", "offline"} : run' = [run EXCEPT ![r][a] = left]
      BY <1>2 DEF TaskEnds
    <2>a. run \in RunType /\ run[r][a] = "live" /\ UNCHANGED <<config, devices, req, turn, overlapped>>
      BY <1>2 DEF TaskEnds, IInv, Basics, Types
    <2>b. RunBecomes(run, r, a, left)
      BY <2>a, RunSet
    <2>1. /\ UNCHANGED <<config, devices, req, turn, overlapped>> /\ Types
          /\ run[r][a] = "live" /\ RunBecomes(run, r, a, left)
      BY <2>a, <2>b DEF IInv, Basics
    <2>2. \A q \in Requests, b \in Addrs :
             run'[q][b] = run[q][b] \/ (run[q][b] = "live" /\ run'[q][b] \in {"ended", "offline"})
      BY <2>1 DEF RunBecomes
    <2>3. \A o \in Objects : Created(o[1], o[2]) => Created(o[1], o[2])'
      BY <2>2 DEF Created, Objects
    <2>4. \A q \in Requests : Knows(req[q])'
      BY <2>1, <2>3 DEF IInv, Basics, Types, Knows, RequestType, Configured
    <2>5. Basics'
      BY <2>1, <2>2, <2>4 DEF IInv, Basics, Types, TurnIsHeld, RegisteredExist, Created, RunBecomes
    <2>6. Serial'
      <3> SUFFICES ASSUME ~overlapped PROVE Serial'
        BY <2>1 DEF Serial
      <3>1. Alone' /\ LiveIsRegistered' /\ StoppingIsAwaited' /\ SerialReloadsFind'
        <4>1. Alone /\ LiveIsRegistered /\ StoppingIsAwaited /\ SerialReloadsFind
          BY DEF IInv, Serial
        <4>2. Alone' /\ SerialReloadsFind'
          BY <2>1, <4>1 DEF Alone, SerialReloadsFind
        <4>3. LiveIsRegistered'
          BY <2>1, <2>2, <4>1 DEF LiveIsRegistered
        <4>4. StoppingIsAwaited'
          <5> SUFFICES ASSUME NEW q \in Requests, NEW b \in Addrs, run'[q][b] = "stopping"
                       PROVE  \E x \in Requests : Awaits(req[x], q, b)'
            BY DEF StoppingIsAwaited
          <5>1. run[q][b] = "stopping"
            BY <2>2
          <5>2. PICK x \in Requests : Awaits(req[x], q, b)
            BY <4>1, <5>1 DEF StoppingIsAwaited
          <5>3. QED BY <2>1, <5>2 DEF Awaits
        <4>5. QED BY <4>2, <4>3, <4>4
      <3>2. ASSUME NEW q \in Requests PROVE AsLeft(req[q])'
        <4>1. req[q] \in RequestType /\ Knows(req[q]) /\ AsLeft(req[q])
          BY <2>1 DEF IInv, Basics, Serial, Types
        <4>2. req[q].pc = "remove" => req[q].addr \in Addrs
          BY <4>1 DEF Knows, UnderWay, Running
        <4>3. QED
          BY <2>1, <2>2, <4>1, <4>2
          DEF AsLeft, HeldIsAsLeft, Awaits, ReloadIsExact, Registered, RemovalStopsFirst,
              ShutdownListsAll, Configured
      <3>3. QED BY <3>1, <3>2 DEF Serial
    <2>7. QED BY <2>5, <2>6 DEF IInv
  <1>3. QED BY <1>1, <1>2

-----------------------------------------------------------------------------
(* The theorems.                                                           *)

LEMMA ReconcilesBegin ==
    ASSUME IInv, NEW r \in Requests, BeginReload(r) \/ BeginAdd(r)
    PROVE  IInv'
  <1>1. CASE BeginReload(r)
    <2>1. config \in [Addrs -> Kinds] /\ config' = config
      BY <1>1 DEF BeginReload, IInv, Basics, Types
    <2>2. Begins(r, "reload") /\ Reconcile(r, "reload", None, FALSE, config)
      BY <1>1 DEF BeginReload
    <2>3. QED BY <2>1, <2>2, ReloadBegins
  <1>2. CASE BeginAdd(r)
    <2>1. PICK a \in Addrs, auto \in BOOLEAN, persist \in BOOLEAN :
            /\ config' = IF persist /\ config[a] = "absent"
                         THEN [config EXCEPT ![a] = IF auto THEN "auto" ELSE "manual"]
                         ELSE config
            /\ Reconcile(r, "add", a, auto, config')
      BY <1>2 DEF BeginAdd
    <2>2. config' \in [Addrs -> Kinds]
      BY <2>1 DEF IInv, Basics, Types, Kinds
    <2>3. PICK f : f = config'
      OBVIOUS
    <2>4. Begins(r, "add") /\ Reconcile(r, "add", a, auto, f)
      BY <1>2, <2>1, <2>3 DEF BeginAdd
    <2>5. QED BY <2>2, <2>3, <2>4, ReloadBegins
  <1>3. QED BY <1>1, <1>2

LEMMA RemovalsBegin ==
    ASSUME IInv, NEW r \in Requests, BeginDelete(r) \/ BeginForget(r)
    PROVE  IInv'
  <1>1. CASE BeginDelete(r)
    <2>1. PICK a \in Registered :
            Stop(r, [req[r] EXCEPT !.op = "delete", !.addr = a], devices[a], a, "remove")
      BY <1>1 DEF BeginDelete
    <2>2. /\ a \in Addrs /\ devices[a] # None
          /\ Begins(r, "delete") /\ UNCHANGED <<config, devices>>
      BY <1>1, <2>1 DEF BeginDelete, Registered
    <2>3. QED BY <2>1, <2>2, RemovalBegins
  <1>2. CASE BeginForget(r)
    <2>1. PICK a \in Addrs :
            LET rec == [req[r] EXCEPT !.op = "forget", !.addr = a]
            IN  IF devices[a] # None
                THEN Stop(r, rec, devices[a], a, "remove")
                ELSE /\ req' = [req EXCEPT ![r] = [rec EXCEPT !.pc = "remove"]]
                     /\ turn' = r
                     /\ UNCHANGED run
      BY <1>2 DEF BeginForget
    <2>2. Begins(r, "forget") /\ UNCHANGED <<config, devices>>
      BY <1>2 DEF BeginForget
    <2>3. CASE devices[a] # None
      BY <2>1, <2>2, <2>3, RemovalBegins
    <2>4. CASE devices[a] = None
      BY <2>1, <2>2, <2>4, ForgetBegins
    <2>5. QED BY <2>3, <2>4
  <1>3. QED BY <1>1, <1>2

\* Whatever the requests do and in whatever order, what is registered exists and
\* a reload removes only what its file lacks; and a request that no other
\* overlaps finds in _devices what it has left there, all that runs being
\* registered (device_manager.py:83-124).
THEOREM InductiveInvariant == Spec => []IInv
  <1>1. Init => IInv
    <2> SUFFICES ASSUME Init PROVE IInv
      OBVIOUS
    <2>1. /\ NewRequest \in RequestType /\ NewRequest.pc = "new" /\ NewRequest.auto = FALSE
          /\ NewRequest.list = {} /\ NewRequest.removed = {}
      BY DEF NewRequest, RequestType, Kinds
    <2>2. \A r \in Requests : req[r] = NewRequest /\ r # None
      BY RequestsAssumption DEF Init
    <2>3. Types
      BY <2>1 DEF Init, Types, RunType
    <2>4. Basics
      BY <2>1, <2>2, <2>3
      DEF Init, Basics, TurnIsHeld, RegisteredExist, Knows, UnderWay, Suspended, Running
    <2>5. Serial
      BY <2>1, <2>2
      DEF Init, Serial, Alone, LiveIsRegistered, StoppingIsAwaited, SerialReloadsFind, AsLeft,
          UnderWay, Suspended, Running
    <2>6. QED BY <2>4, <2>5 DEF IInv
  <1>2. IInv /\ [Next]_vars => IInv'
    <2> SUFFICES ASSUME IInv, [Next]_vars PROVE IInv'
      OBVIOUS
    <2>1. CASE UNCHANGED vars
      <3>1. UNCHANGED <<config, devices, run, req, turn, overlapped>>
        BY <2>1 DEF vars
      <3>2. Basics'
        BY <3>1 DEF IInv, Basics, Types, TurnIsHeld, RegisteredExist, Knows, Created, Configured
      <3>3. /\ Alone' = Alone /\ LiveIsRegistered' = LiveIsRegistered
            /\ StoppingIsAwaited' = StoppingIsAwaited /\ SerialReloadsFind' = SerialReloadsFind
        BY <3>1 DEF Alone, LiveIsRegistered, StoppingIsAwaited, Awaits, SerialReloadsFind
      <3>4. ASSUME NEW q \in Requests, AsLeft(req[q]) PROVE AsLeft(req[q])'
        BY <3>1, <3>4
        DEF AsLeft, HeldIsAsLeft, Awaits, ReloadIsExact, Registered, RemovalStopsFirst,
            ShutdownListsAll, Configured
      <3>5. QED BY <3>1, <3>2, <3>3, <3>4 DEF IInv, Serial
    <2>2. ASSUME NEW r \in Requests, RequestStep(r) PROVE IInv'
      BY <2>2, StopRemovedPreserves, MissingPreserves, UpdateKeptPreserves, AddNewPreserves,
         ReconciledPreserves, RemovalPreserves, StopListedPreserves, StopEndsPreserves,
         ShutdownCutPreserves, StartEndsPreserves, StartFailsPreserves
      DEF RequestStep
    <2>3. QED
      BY <2>1, <2>2, ReconcilesBegin, RemovalsBegin, NotFoundPreserves, ConnectBegins,
         ShutdownBegins, WorldPreserves
      DEF Next
  <1>3. QED BY <1>1, <1>2, PTL DEF Spec

\* As long as no request begins while another is suspended, a radio has one
\* device that is connected, and that one is registered; and no reload is cut
\* short by a KeyError (device_manager.py:1, 5-6, 102-105, 116-119).
THEOREM ManagerCorrect == Spec => []ManagerInv
  <1>1. ASSUME IInv PROVE ManagerInv
    <2>1. TypeOK
      BY <1>1 DEF IInv, Basics, Types, TurnIsHeld, RegisteredExist, Knows, Created, RequestType,
                  RunType, Objects, TypeOK
    <2>2. ASSUME ~overlapped, NEW a \in Addrs
          PROVE  Cardinality({r \in Requests : run[r][a] \in {"live", "stopping"}}) <= 1
      <3> DEFINE R == {r \in Requests : run[r][a] \in {"live", "stopping"}}
      <3>1. \A p, q \in R : p = q
        <4> SUFFICES ASSUME NEW p \in R, NEW q \in R PROVE p = q
          OBVIOUS
        <4>1. /\ Alone /\ LiveIsRegistered /\ StoppingIsAwaited
              /\ \A r \in Requests : HeldIsAsLeft(req[r]) \/ req[r].pc \notin UnderWay
          BY <1>1, <2>2 DEF IInv, Serial, AsLeft
        <4>2. ASSUME NEW s \in Requests, run[s][a] = "stopping"
              PROVE  \E r \in Requests : /\ req[r].pc = "awaitStop" /\ req[r].obj = <<s, a>>
                                         /\ devices[a] \in {s, None}
          <5>1. PICK r \in Requests : Awaits(req[r], s, a)
            BY <4>1, <4>2 DEF StoppingIsAwaited
          <5>2. HeldIsAsLeft(req[r])
            BY <4>1, <5>1 DEF Awaits, UnderWay, Suspended
          <5>3. QED BY <5>1, <5>2 DEF Awaits, HeldIsAsLeft
        <4>3. CASE run[p][a] = "stopping" /\ run[q][a] = "stopping"
          <5>1. PICK r \in Requests : req[r].pc = "awaitStop" /\ req[r].obj = <<p, a>>
            BY <4>2, <4>3
          <5>2. PICK t \in Requests : req[t].pc = "awaitStop" /\ req[t].obj = <<q, a>>
            BY <4>2, <4>3
          <5>3. r = t
            BY <4>1, <5>1, <5>2 DEF Alone, UnderWay, Suspended
          <5>4. QED BY <5>1, <5>2, <5>3
        <4>4. QED
          BY <4>1, <4>2, <4>3, RequestsAssumption DEF LiveIsRegistered
      <3>2. Cardinality(R) <= 1
        <4> HIDE DEF R
        <4>1. CASE R = {}
          BY <4>1, FS_EmptySet
        <4>2. CASE R # {}
          <5>1. PICK r : R = {r}
            BY <3>1, <4>2
          <5>2. QED BY <5>1, FS_Singleton
        <4>3. QED BY <4>1, <4>2
      <3>3. QED BY <3>2
    <2>3. SerialDevicesInReach
      BY <1>1, <2>2 DEF IInv, Serial, LiveIsRegistered, SerialDevicesInReach, OneDevicePerRadio
    <2>4. SerialReloadsFind
      BY <1>1 DEF IInv, Serial, SerialReloadsFind
    <2>5. QED BY <2>1, <2>3, <2>4 DEF ManagerInv
  <1>2. QED BY <1>1, InductiveInvariant, PTL

\* While a request runs, nothing else does.
LEMMA RunnerSteps ==
    ASSUME IInv, Next, NEW r \in Requests, req[r].pc \in Running
    PROVE  /\ turn = r
           /\ \/ StopRemoved(r) \/ RemovedMissing(r) \/ UpdateKept(r) \/ KeptMissing(r)
              \/ AddNew(r) \/ Reconciled(r) \/ Removed(r) \/ StopListed(r) \/ Cleared(r)
  <1>1. turn = r /\ turn # None
    BY RequestsAssumption DEF IInv, Basics, TurnIsHeld
  <1>2. PICK q \in Requests : RequestStep(q)
    BY <1>1 DEF Next, BeginReload, BeginAdd, NotFound, BeginConnect, BeginDelete, BeginForget,
                BeginShutdown, Begins, EditConfig, TaskEnds
  <1>3. q = r
    BY <1>1, <1>2
    DEF RequestStep, StopRemoved, RemovedMissing, UpdateKept, KeptMissing, AddNew, Reconciled,
        Removed, StopListed, Cleared, Runs, StopEnds, ShutdownCut, StartEnds, StartFails
  <1>4. QED
    BY <1>1, <1>2, <1>3 DEF RequestStep, StopEnds, ShutdownCut, StartEnds, StartFails

\* What a call of stop() leaves of the request and of the objects.
LEMMA StopTells ==
    ASSUME NEW r \in Requests, NEW rec \in RequestType, NEW q \in Requests, NEW a \in Addrs,
           NEW next \in Running, Types, Stop(r, rec, q, a, next)
    PROVE  /\ req'[r].pc \in {"awaitStop", next} /\ SameTask(req'[r], rec)
           /\ run' = run \/ (req'[r].pc = "awaitStop" /\ RunBecomes(run, q, a, "stopping"))
  <1>1. PICK new :
          /\ Goes(r, new) /\ SameTask(new, rec)
          /\ \/ /\ run[q][a] \in {"live", "stopping", "ended"}
                /\ new.pc = "awaitStop" /\ new.obj = <<q, a>>
                /\ RunBecomes(run, q, a, "stopping")
             \/ /\ run[q][a] \notin {"live", "stopping"}
                /\ new.pc = next
                /\ run' = run
    BY StopOutcomes
  <1>2. req'[r] = new
    BY <1>1 DEF Goes, Types
  <1>3. QED BY <1>1, <1>2

LEMMA StopRemovedTells ==
    ASSUME IInv, NEW r \in Requests, StopRemoved(r)
    PROVE  /\ req'[r].pc \in {"awaitStop", "reconcile"}
           /\ req'[r].op = req[r].op /\ req'[r].wanted = req[r].wanted
           /\ \/ run' = run
              \/ /\ req'[r].pc = "awaitStop"
                 /\ \E a \in req[r].removed : RunBecomes(run, devices[a], a, "stopping")
  <1>1. PICK a \in req[r].removed :
          /\ devices[a] # None
          /\ Stop(r, [req[r] EXCEPT !.removed = @ \ {a}], devices[a], a, "reconcile")
    BY DEF StopRemoved
  <1> DEFINE rec == [req[r] EXCEPT !.removed = @ \ {a}]
  <1>2. req[r] \in RequestType /\ a \in Addrs /\ devices[a] \in Requests /\ Types
    BY <1>1 DEF IInv, Basics, Types, RequestType
  <1>3. rec \in RequestType /\ rec.op = req[r].op /\ rec.wanted = req[r].wanted
    BY <1>2 DEF RequestType
  <1>4. Stop(r, rec, devices[a], a, "reconcile") /\ "reconcile" \in Running
    BY <1>1 DEF Running
  <1> HIDE DEF rec
  <1>5. /\ req'[r].pc \in {"awaitStop", "reconcile"} /\ SameTask(req'[r], rec)
        /\ run' = run \/ (req'[r].pc = "awaitStop" /\ RunBecomes(run, devices[a], a, "stopping"))
    BY ONLY <1>2, <1>3, <1>4, r \in Requests, StopTells, Zenon
  <1>6. QED BY <1>1, <1>3, <1>5 DEF SameTask

LEMMA StopListedTells ==
    ASSUME IInv, NEW r \in Requests, StopListed(r)
    PROVE  /\ req'[r].pc \in {"awaitStop", "stopAll"} /\ req'[r].op = req[r].op
           /\ run' = run \/ req'[r].pc = "awaitStop"
  <1>1. PICK o \in req[r].list :
          Stop(r, [req[r] EXCEPT !.list = @ \ {o}], o[1], o[2], "stopAll")
    BY DEF StopListed
  <1> DEFINE rec == [req[r] EXCEPT !.list = @ \ {o}]
  <1>2. req[r] \in RequestType /\ o[1] \in Requests /\ o[2] \in Addrs /\ Types
    BY <1>1 DEF IInv, Basics, Types, RequestType, Objects
  <1>3. rec \in RequestType /\ rec.op = req[r].op
    BY <1>2 DEF RequestType
  <1>4. Stop(r, rec, o[1], o[2], "stopAll") /\ "stopAll" \in Running
    BY <1>1 DEF Running
  <1> HIDE DEF rec
  <1>5. /\ req'[r].pc \in {"awaitStop", "stopAll"} /\ SameTask(req'[r], rec)
        /\ run' = run \/ (req'[r].pc = "awaitStop" /\ RunBecomes(run, o[1], o[2], "stopping"))
    BY ONLY <1>2, <1>3, <1>4, r \in Requests, StopTells, Zenon
  <1>6. QED BY <1>3, <1>5 DEF SameTask

LEMMA RemovalTells ==
    ASSUME IInv, NEW r \in Requests, NEW op \in {"delete", "forget"}, NEW a \in Addrs,
           devices[a] # None,
           Stop(r, [req[r] EXCEPT !.op = op, !.addr = a], devices[a], a, "remove")
    PROVE  /\ req'[r].pc \in {"awaitStop", "remove"} /\ req'[r].op = op /\ req'[r].addr = a
           /\ run' = run \/ RunBecomes(run, devices[a], a, "stopping")
  <1> DEFINE rec == [req[r] EXCEPT !.op = op, !.addr = a]
  <1>1. req[r] \in RequestType /\ devices[a] \in Requests /\ Types
    BY DEF IInv, Basics, Types
  <1>2. rec \in RequestType /\ rec.op = op /\ rec.addr = a
    BY <1>1 DEF RequestType, Ops
  <1>3. Stop(r, rec, devices[a], a, "remove") /\ "remove" \in Running
    BY DEF Running
  <1> HIDE DEF rec
  <1>4. /\ req'[r].pc \in {"awaitStop", "remove"} /\ SameTask(req'[r], rec)
        /\ run' = run \/ (req'[r].pc = "awaitStop" /\ RunBecomes(run, devices[a], a, "stopping"))
    BY ONLY <1>1, <1>2, <1>3, r \in Requests, a \in Addrs, StopTells, Zenon
  <1>5. QED BY <1>2, <1>4 DEF SameTask

LEMMA AddNewTells ==
    ASSUME IInv, NEW r \in Requests, AddNew(r)
    PROVE  req'[r].pc \in {"awaitStart", "reconcile"}
  <1>1. PICK a \in req[r].added :
          LET rec  == [req[r] EXCEPT !.added = @ \ {a}]
              runs == [run EXCEPT ![r][a] = "offline"]
          IN  IF req[r].wanted[a] = "auto"
              THEN Start(r, rec, r, a, "awaitStart", "reconcile", runs)
              ELSE req' = [req EXCEPT ![r] = rec]
    BY DEF AddNew
  <1> DEFINE rec  == [req[r] EXCEPT !.added = @ \ {a}]
             runs == [run EXCEPT ![r][a] = "offline"]
  <1>2. req[r] \in RequestType /\ req[r].pc = "reconcile" /\ a \in Addrs /\ Types
    BY <1>1 DEF AddNew, Runs, IInv, Basics, Types, RequestType
  <1>3. rec \in RequestType /\ rec.pc = "reconcile" /\ runs \in RunType
    BY <1>2 DEF RequestType, Types, RunType
  <1>4. IF req[r].wanted[a] = "auto"
        THEN Start(r, rec, r, a, "awaitStart", "reconcile", runs)
        ELSE req' = [req EXCEPT ![r] = rec]
    BY <1>1
  <1> HIDE DEF rec, runs
  <1>5. CASE req[r].wanted[a] = "auto"
    <2>1. Start(r, rec, r, a, "awaitStart", "reconcile", runs)
      BY <1>4, <1>5
    <2>2. PICK new :
            /\ Goes(r, new) /\ SameTask(new, rec)
            /\ new.pc = "reconcile" \/ (new.pc = "awaitStart" /\ new.obj = <<r, a>>)
            /\ run' = runs \/ RunBecomes(runs, r, a, "live")
      BY ONLY <1>2, <1>3, <2>1, r \in Requests, StartOutcomes, Zenon
    <2>3. req'[r] = new
      BY <1>2, <2>2 DEF Goes, Types
    <2>4. QED BY <2>2, <2>3
  <1>6. CASE req[r].wanted[a] # "auto"
    BY <1>2, <1>3, <1>4, <1>6 DEF Types
  <1>7. QED BY <1>5, <1>6

\* Of the steps of a reload only the last comes to its end.
LEMMA ReloadEnds ==
    ASSUME IInv, Next, NEW r \in Requests, req[r].pc = "reconcile",
           req'[r].pc \in {"done", "awaitConnect"}
    PROVE  Reconciled(r)
  <1>1. /\ turn = r /\ req[r] \in RequestType /\ Types
        /\ \/ StopRemoved(r) \/ RemovedMissing(r) \/ UpdateKept(r) \/ KeptMissing(r)
           \/ AddNew(r) \/ Reconciled(r)
    BY RunnerSteps DEF IInv, Basics, Types, Running, Removed, StopListed, Cleared, Runs
  <1>2. CASE StopRemoved(r)
    BY <1>2, StopRemovedTells
  <1>3. CASE RemovedMissing(r) \/ KeptMissing(r)
    BY <1>1, <1>3, AnswerType DEF RemovedMissing, KeptMissing, Ends, Ended, Types
  <1>4. CASE UpdateKept(r)
    BY <1>1, <1>4 DEF UpdateKept, Types, RequestType
  <1>5. CASE AddNew(r)
    BY <1>5, AddNewTells
  <1>6. QED BY <1>1, <1>2, <1>3, <1>4, <1>5

\* A reload that returns leaves the devices of the file it read
\* (device_manager.py:91).
LEMMA FollowsFile ==
    ASSUME IInv, Next, NEW r \in Requests, ~overlapped,
           req[r].pc = "reconcile", req'[r].pc \in {"done", "awaitConnect"}
    PROVE  Registered' = Configured(req[r].wanted)
  <1>1. Reconciled(r)
    BY ReloadEnds
  <1>2. ReloadIsExact(req[r])
    BY RunsAlone DEF AsLeft, UnderWay, Running
  <1>3. Registered' = Registered
    BY <1>1 DEF Reconciled, Registered
  <1>4. QED BY <1>1, <1>2, <1>3 DEF Reconciled, ReloadIsExact

\* The step of q stops a of r for a reason.
Reason(q, a) ==
    /\ req'[q] # req[q]
    /\ \/ req'[q].op \in {"delete", "forget"} /\ req'[q].addr = a
       \/ req'[q].op = "shutdown"
       \/ req'[q].op \in {"reload", "add"} /\ req'[q].wanted[a] = "absent"

\* A step that stops a device is that of a request that has a reason to.
LEMMA StoppedForReason ==
    ASSUME IInv, NEW q \in Requests, NEW r \in Requests, NEW a \in Addrs,
           StopRemoved(q) \/ StopListed(q) \/ BeginDelete(q) \/ BeginForget(q),
           run[r][a] = "live", run'[r][a] = "stopping"
    PROVE  Reason(q, a)
  <1>1. Types /\ req[q] \in RequestType /\ Knows(req[q])
    BY DEF IInv, Basics, Types
  <1>2. CASE StopRemoved(q)
    <2>1. /\ req[q].pc = "reconcile" /\ req'[q].pc = "awaitStop"
          /\ req'[q].op = req[q].op /\ req'[q].wanted = req[q].wanted
          /\ \E b \in req[q].removed : RunBecomes(run, devices[b], b, "stopping")
      BY <1>2, StopRemovedTells DEF StopRemoved, Runs
    <2>2. a \in req[q].removed
      BY <1>1, <2>1 DEF RequestType, RunBecomes
    <2>3. req[q].wanted[a] = "absent" /\ req[q].op \in {"reload", "add"}
      BY <1>1, <2>1, <2>2 DEF Knows, Configured
    <2>4. QED BY <2>1, <2>3 DEF Reason
  <1>3. CASE StopListed(q)
    <2>1. req'[q].pc = "awaitStop" /\ req[q].pc = "stopAll" /\ req'[q].op = req[q].op
      BY <1>3, StopListedTells DEF StopListed, Runs
    <2>2. QED BY <1>1, <2>1 DEF Reason, Knows
  <1>4. ASSUME NEW op \in {"delete", "forget"}, NEW b \in Addrs, Begins(q, op), devices[b] # None,
               Stop(q, [req[q] EXCEPT !.op = op, !.addr = b], devices[b], b, "remove")
        PROVE  Reason(q, a)
    <2>1. /\ req'[q].pc \in {"awaitStop", "remove"} /\ req[q].pc = "new"
          /\ req'[q].op = op /\ req'[q].addr = b
          /\ RunBecomes(run, devices[b], b, "stopping")
      BY <1>4, RemovalTells DEF Begins
    <2>2. a = b
      BY <2>1 DEF RunBecomes
    <2>3. QED BY <2>1, <2>2 DEF Reason
  <1>5. CASE BeginDelete(q)
    BY <1>4, <1>5 DEF BeginDelete, Registered
  <1>6. CASE BeginForget(q)
    <2>1. PICK b \in Addrs :
            Stop(q, [req[q] EXCEPT !.op = "forget", !.addr = b], devices[b], b, "remove")
      BY <1>6 DEF BeginForget
    <2>2. QED BY <1>4, <1>6, <2>1 DEF BeginForget
  <1>7. QED BY <1>2, <1>3, <1>5, <1>6

\* No other step stops one.
LEMMA StopsNothingElse ==
    ASSUME IInv, Next, NEW r \in Requests, NEW a \in Addrs,
           run[r][a] = "live", run'[r][a] = "stopping"
    PROVE  \E q \in Requests :
             StopRemoved(q) \/ StopListed(q) \/ BeginDelete(q) \/ BeginForget(q)
  <1>1. Types /\ \A q \in Requests : req[q] \in RequestType /\ Knows(req[q])
    BY DEF IInv, Basics, Types
  <1>2. ASSUME NEW q \in Requests, NEW rec, NEW b \in Addrs, NEW c \in Requests,
               NEW wait, NEW next, NEW runs \in RunType,
               runs[r][a] \in {run[r][a], "offline"},
               Start(q, rec, c, b, wait, next, runs)
        PROVE  FALSE
    BY <1>1, <1>2 DEF Start, Types, RunType
  <1>3. ASSUME NEW q \in Requests, AddNew(q) PROVE FALSE
    <2>1. PICK b \in req[q].added :
            LET rec  == [req[q] EXCEPT !.added = @ \ {b}]
                runs == [run EXCEPT ![q][b] = "offline"]
            IN  IF req[q].wanted[b] = "auto"
                THEN Start(q, rec, q, b, "awaitStart", "reconcile", runs)
                ELSE run' = runs
      BY <1>3 DEF AddNew
    <2> DEFINE runs == [run EXCEPT ![q][b] = "offline"]
    <2>2. b \in Addrs /\ runs \in RunType /\ runs[r][a] \in {run[r][a], "offline"}
      BY <1>1, <2>1 DEF Types, RunType, RequestType
    <2>3. CASE req[q].wanted[b] = "auto"
      <3>1. Start(q, [req[q] EXCEPT !.added = @ \ {b}], q, b, "awaitStart", "reconcile", runs)
        BY <2>1, <2>3
      <3> HIDE DEF runs
      <3>2. QED BY <1>2, <2>2, <3>1
    <2>4. CASE req[q].wanted[b] # "auto"
      BY <2>1, <2>2, <2>4
    <2>5. QED BY <2>3, <2>4
  <1>4. ASSUME NEW q \in Requests, Reconciled(q) PROVE FALSE
    <2>1. CASE run' = run
      BY <2>1
    <2>2. CASE run' # run
      <3>1. Start(q, req[q], devices[req[q].addr], req[q].addr, "awaitConnect", "done", run)
            /\ req[q].auto /\ devices[req[q].addr] # None
        BY <1>4, <2>2 DEF Reconciled
      <3>2. req[q].addr \in Addrs /\ devices[req[q].addr] \in Requests /\ run \in RunType
        BY <1>1, <3>1 DEF Types, Knows, RequestType
      <3>3. QED BY <1>2, <3>1, <3>2
    <2>3. QED BY <2>1, <2>2
  <1>5. ASSUME NEW q \in Requests, BeginConnect(q) PROVE FALSE
    <2>1. PICK b \in Registered :
            Start(q, [req[q] EXCEPT !.op = "connect", !.addr = b],
                  devices[b], b, "awaitConnect", "done", run)
      BY <1>5 DEF BeginConnect
    <2>2. b \in Addrs /\ devices[b] \in Requests /\ run \in RunType
      BY <1>1, <2>1 DEF Registered, Types
    <2>3. QED BY <1>2, <2>1, <2>2
  <1>6. ASSUME NEW q \in Requests, StopEnds(q) \/ ShutdownCut(q) \/ StartEnds(q)
        PROVE  FALSE
    <2>1. req[q].obj \in Objects
      BY <1>1, <1>6 DEF StopEnds, ShutdownCut, StartEnds, Knows, Suspended
    <2>2. PICK c \in Requests, b \in Addrs : req[q].obj = <<c, b>>
      BY <2>1 DEF Objects
    <2>3. \E v \in {"offline", "ended", "live", run[c][b]} : run' = [run EXCEPT ![c][b] = v]
      BY <1>6, <2>2 DEF StopEnds, ShutdownCut, StartEnds
    <2>4. QED BY <1>1, <2>3 DEF Types, RunType
  <1>7. ASSUME NEW q \in Requests, NEW b \in Addrs, TaskEnds(q, b) PROVE FALSE
    BY <1>1, <1>7 DEF TaskEnds, Types, RunType
  <1>8. run' # run
    OBVIOUS
  <1>9. QED
    BY <1>3, <1>4, <1>5, <1>6, <1>7, <1>8
    DEF Next, RequestStep, RemovedMissing, UpdateKept, KeptMissing, Removed, Cleared, StartFails,
        BeginReload, BeginAdd, Reconcile, NotFound, BeginShutdown, EditConfig

\* A reload brings the devices of the file, and whatever overlaps it, a
\* connection is stopped only by a request to remove that device, the shutdown,
\* or a reload of a file that lacks it (device_manager.py:91, README.md:242).
THEOREM ReloadsExact == Spec => ReloadsAreExact
  <1> DEFINE Follows ==
        \A r \in Requests :
          /\ ~overlapped
          /\ req[r].pc = "reconcile" /\ req'[r].pc \in {"done", "awaitConnect"}
          => Registered' = Configured(req[r].wanted)
             Preserves ==
        \A r \in Requests, a \in Addrs :
          run[r][a] = "live" /\ run'[r][a] = "stopping"
          => \E q \in Requests :
               /\ req'[q] # req[q]
               /\ \/ req'[q].op \in {"delete", "forget"} /\ req'[q].addr = a
                  \/ req'[q].op = "shutdown"
                  \/ req'[q].op \in {"reload", "add"} /\ req'[q].wanted[a] = "absent"
  <1>1. IInv /\ [Next]_vars => [Follows]_vars
    <2> SUFFICES ASSUME IInv, Next PROVE Follows
      OBVIOUS
    <2>1. QED BY FollowsFile
  <1>2. IInv /\ [Next]_vars => [Preserves]_vars
    <2> SUFFICES ASSUME IInv, Next, NEW r \in Requests, NEW a \in Addrs,
                        run[r][a] = "live", run'[r][a] = "stopping"
                 PROVE  \E q \in Requests : Reason(q, a)
      BY DEF Reason
    <2>1. QED BY StopsNothingElse, StoppedForReason
  <1>3. QED
    BY <1>1, <1>2, InductiveInvariant, PTL
    DEF Spec, ReloadsAreExact, ReloadFollowsFile, ReloadPreserves

\* A request that waits is changed by its own steps only.
LEMMA CallsChangeOne ==
    ASSUME NEW r \in Requests, NEW q \in Requests \ {r}, req \in [Requests -> RequestType]
    PROVE  /\ \A rec, how : Ends(q, how) \/ Continues(q, rec, how) => req'[r] = req[r]
           /\ \A rec, p, a, next : Stop(q, rec, p, a, next) => req'[r] = req[r]
           /\ \A rec, p, a, wait, next, runs :
                Start(q, rec, p, a, wait, next, runs) => req'[r] = req[r]
  <1>1. ASSUME NEW new, req' = [req EXCEPT ![q] = new] PROVE req'[r] = req[r]
    BY <1>1
  <1>2. ASSUME NEW rec, NEW how, Ends(q, how) \/ Continues(q, rec, how)
        PROVE  req'[r] = req[r]
    BY <1>1, <1>2 DEF Ends, Continues
  <1>3. ASSUME NEW rec, NEW p, NEW a, NEW next, Stop(q, rec, p, a, next)
        PROVE  req'[r] = req[r]
    BY <1>1, <1>2, <1>3 DEF Stop
  <1>4. ASSUME NEW rec, NEW p, NEW a, NEW wait, NEW next, NEW runs,
               Start(q, rec, p, a, wait, next, runs)
        PROVE  req'[r] = req[r]
    BY <1>1, <1>2, <1>4 DEF Start
  <1>5. QED BY <1>2, <1>3, <1>4

LEMMA OwnSteps ==
    ASSUME IInv, Next, NEW r \in Requests, req[r].pc = "awaitStop", req'[r] # req[r]
    PROVE  StopEnds(r) \/ ShutdownCut(r)
  <1>1. req \in [Requests -> RequestType]
    BY DEF IInv, Basics, Types
  <1>2. ASSUME NEW q \in Requests, q # r, RequestStep(q) PROVE req'[r] = req[r]
    BY <1>1, <1>2, CallsChangeOne
    DEF RequestStep, StopRemoved, RemovedMissing, UpdateKept, KeptMissing, AddNew, Reconciled,
        Removed, StopListed, Cleared, StopEnds, ShutdownCut, StartEnds, StartFails
  <1>3. ASSUME NEW q \in Requests, q # r,
               BeginReload(q) \/ BeginAdd(q) \/ NotFound(q) \/ BeginConnect(q)
               \/ BeginDelete(q) \/ BeginForget(q) \/ BeginShutdown(q)
        PROVE  req'[r] = req[r]
    BY <1>1, <1>3, CallsChangeOne
    DEF BeginReload, BeginAdd, Reconcile, NotFound, BeginConnect, BeginDelete, BeginForget,
        BeginShutdown
  <1>4. RequestStep(r)
    BY <1>2, <1>3
    DEF Next, TaskEnds, EditConfig, BeginReload, BeginAdd, NotFound, BeginConnect, BeginDelete,
        BeginForget, BeginShutdown, Begins
  <1>5. QED
    BY <1>4
    DEF RequestStep, StopRemoved, RemovedMissing, UpdateKept, KeptMissing, AddNew, Reconciled,
        Removed, StopListed, Cleared, StartEnds, StartFails, Runs

\* The shutdown ends when its list is empty, or is cut.
LEMMA ShutdownEnds ==
    ASSUME IInv, Next, NEW r \in Requests, req[r].op = "shutdown",
           req[r].pc \in {"stopAll", "awaitStop"}, req'[r].pc \in {"done", "timedOut"}
    PROVE  \/ req[r].pc = "stopAll" /\ Cleared(r)
           \/ req[r].pc = "awaitStop" /\ ShutdownCut(r)
  <1>1. req[r] \in RequestType /\ Types
    BY DEF IInv, Basics, Types
  <1>2. CASE req[r].pc = "stopAll"
    <2>1. StopListed(r) \/ Cleared(r)
      BY <1>2, RunnerSteps
      DEF Running, StopRemoved, RemovedMissing, UpdateKept, KeptMissing, AddNew, Reconciled,
          Removed, Runs
    <2>2. StopListed(r) => req'[r].pc \in {"awaitStop", "stopAll"}
      BY StopListedTells
    <2>3. QED BY <1>2, <2>1, <2>2
  <1>3. CASE req[r].pc = "awaitStop"
    <2>1. StopEnds(r) \/ ShutdownCut(r)
      BY <1>3, OwnSteps
    <2>2. ASSUME StopEnds(r) PROVE FALSE
      <3>1. req' = [req EXCEPT ![r] = [[req[r] EXCEPT !.obj = None] EXCEPT !.pc = "stopAll"]]
        BY <2>2 DEF StopEnds, Continues, AfterStop, Ended
      <3>2. QED BY <1>1, <3>1 DEF RequestType, Types
    <2>3. QED BY <1>3, <2>1, <2>2
  <1>4. QED BY <1>2, <1>3

\* The shutdown leaves no device connected but those it had not come to when it
\* was cut, unless a reload asked for by SIGHUP overlaps it
\* (device_manager.py:121-124, server.py:82-85).
THEOREM ShutdownComplete == Spec => ShutdownStopsAll
  <1> DEFINE StopsAll ==
        \A r \in Requests :
          /\ ~overlapped
          /\ req[r].op = "shutdown" /\ req[r].pc \in {"stopAll", "awaitStop"}
          /\ req'[r].pc \in {"done", "timedOut"}
          => \A q \in Requests, a \in Addrs :
               run'[q][a] \in {"live", "stopping"}
               => req'[r].pc = "timedOut" /\ <<q, a>> \in req[r].list
  <1>1. IInv /\ [Next]_vars => [StopsAll]_vars
    <2> SUFFICES ASSUME IInv, Next, NEW r \in Requests, ~overlapped, req[r].op = "shutdown",
                        req[r].pc \in {"stopAll", "awaitStop"},
                        req'[r].pc \in {"done", "timedOut"},
                        NEW q \in Requests, NEW a \in Addrs, run'[q][a] \in {"live", "stopping"}
                 PROVE  req'[r].pc = "timedOut" /\ <<q, a>> \in req[r].list
      OBVIOUS
    <2>1. /\ AsLeft(req[r]) /\ ShutdownListsAll(req[r]) /\ Types
          /\ \A p \in Requests, b \in Addrs : run[p][b] = "stopping" => Awaits(req[r], p, b)
      BY RunsAlone DEF AsLeft, UnderWay, Running, Suspended, IInv, Basics
    <2>2. CASE req[r].pc = "stopAll" /\ Cleared(r)
      <3>1. req[r].list = {} /\ run' = run
        BY <2>2 DEF Cleared
      <3>2. QED BY <2>1, <2>2, <3>1 DEF ShutdownListsAll, Awaits
    <2>3. CASE req[r].pc = "awaitStop" /\ ShutdownCut(r)
      <3>1. req'[r].pc = "timedOut"
        BY <2>1, <2>3, AnswerType DEF ShutdownCut, Ends, Ended, Types
      <3>2. PICK p \in Requests, b \in Addrs : req[r].obj = <<p, b>>
        BY <2>3 DEF IInv, Basics, Knows, Suspended, Objects
      <3>3. run[p][b] = "stopping" /\ run' = [run EXCEPT ![p][b] = "ended"]
        <4>1. Awaits(req[r], p, b) /\ HeldIsAsLeft(req[r])
          BY <2>1, <2>3, <3>2 DEF AsLeft, UnderWay, Suspended, Awaits
        <4>2. run[p][b] = "stopping"
          BY <4>1 DEF HeldIsAsLeft
        <4>3. run' = [run EXCEPT ![p][b] = IF @ = "stopping" THEN "ended" ELSE @]
          BY <2>3, <3>2 DEF ShutdownCut
        <4>4. QED BY <2>1, <4>2, <4>3 DEF Types, RunType
      <3>4. ~(q = p /\ a = b) /\ run[q][a] = run'[q][a]
        BY <2>1, <3>3 DEF Types, RunType
      <3>5. run[q][a] = "live"
        BY <2>1, <3>2, <3>4 DEF Awaits
      <3>6. QED BY <2>1, <3>1, <3>5 DEF ShutdownListsAll
    <2>4. QED BY <2>2, <2>3, ShutdownEnds
  <1>2. QED BY <1>1, InductiveInvariant, PTL DEF Spec, ShutdownStopsAll

=============================================================================
