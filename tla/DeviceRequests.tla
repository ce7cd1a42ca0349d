---------------------------- MODULE DeviceRequests ----------------------------
(***************************************************************************)
(* The requests that write to one radio (core/methods.py, reached through  *)
(* _call of module/server.py), and the data of the radio that BleDevice    *)
(* keeps: what they do to each other, to the radio and to the copy.        *)
(*                                                                         *)
(* One configuration section without reboot is modelled, with a few        *)
(* fields, and the owner's name.  The radio (external) stores both; the    *)
(* device keeps a copy, filled by the packets of a sync and changed by     *)
(* the requests once their write is acknowledged.  A request reads the     *)
(* copy, suspends in the write, and goes on with what it has read.  The    *)
(* link may break at any point, stop() may tear the session down, and the  *)
(* radio may be changed by others.  BleDevice models the states behind     *)
(* READY, SYNCING and AWAY.                                                *)
(***************************************************************************)
EXTENDS Naturals, Sequences

CONSTANTS
    Modes,      \* values of sync_mode
    Requests,   \* (bound) the requests that may be under way at a time
    Fields,     \* fields of the section
    Masked,     \* those of _PASSWORD_FIELDS, never required
    Values,     \* what a field may hold; 0 is the default of the protocol
    Names,      \* names of the owner
    Null,       \* null in a body; None
    Bodies      \* (bound) what the clients submit: some fields, some null

ASSUME RequestsAssumption ==
    /\ Modes \subseteq {"full", "config_only", "nodes_only"}
    /\ Masked \subseteq Fields
    /\ Values \subseteq Nat /\ 0 \in Values
    /\ Null \notin Values \cup Names
    /\ Bodies \subseteq UNION {[D -> Values \cup {Null}] : D \in SUBSET Fields}

VARIABLES
    mode,       \* sync_mode
    writes,     \* (bound) what is written in this behaviour, section or name
    state,      \* _state: "READY", "SYNCING", or "AWAY" for all others
    client,     \* _client is that of a session: its link is up
    own,        \* _own_node_num is known
    todo,       \* what the radio has yet to send in this sync
    config,     \* _config[section] or _module_config[section]
    name,       \* _data.short_name, long_name
    section,    \* the section in the radio
    owner,      \* the name in the radio
    req,        \* the requests
    doubts      \* (history) what the copy may be wrong about

copy == <<config, name>>
radio == <<section, owner>>
vars == <<mode, writes, state, client, own, todo, copy, radio, req, doubts>>

Topics == {"config", "owner"}
Kinds == Topics \cup {"blind", "query", "purge"}

\* A section as the protocol buffers print it: the fields that are set.
Sections == UNION {[D -> Values] : D \in SUBSET Fields}
Empty == [f \in {} |-> 0]

\* What the radio makes of a section it is sent: all the rest is default.
Filled(s) == [f \in Fields |-> IF f \in DOMAIN s THEN s[f] ELSE 0]
\* What it prints of a section: defaults are left out.
Printed(s) == [f \in {g \in Fields : s[g] # 0} |-> s[f]]

\* A request: where it is, what it writes, what has become of that, and the
\* last answer: a result, or a status above 399.  The rest is history: the
\* fields it was given, and what has happened since a purge was written.
Idle == [pc |-> "idle", kind |-> "none", values |-> Empty, called |-> Null, role |-> FALSE,
         air |-> "none", overdue |-> FALSE, ok |-> FALSE,
         given |-> {}, seen |-> "nothing"]

Job(kind, values, called, given) ==
    [Idle EXCEPT !.pc = "sending", !.kind = kind, !.values = values,
                 !.called = called, !.given = given]

\* _validate_config_keys(): no field of the copy may be missing.
Complete(body) == DOMAIN config \ Masked \subseteq DOMAIN body

\* The fields a body gives a value: null means to keep the old one.
Given(body) == {f \in DOMAIN body : body[f] # Null}

\* (mutant of Merge) the copy is left out.
MergeForgets(cached, body) == [f \in Given(body) |-> body[f]]

\* _merge_config(), and the passwords that are empty.
Merge(cached, body) ==
    LET merged == [f \in DOMAIN cached \cup Given(body) |->
                     IF f \in Given(body) THEN body[f] ELSE cached[f]]
    IN  [f \in {g \in DOMAIN merged : g \in Masked => merged[g] # 0} |-> merged[f]]

\* The messages of a sync, in order: the radio's own number, its own node,
\* its configuration.  The modes leave out the one half or the other.
Dumps(m) ==
    CASE m = "full"        -> {<<"my_info", "node_info", "config">>}
      [] m = "config_only" -> {<<"my_info", "config">>, <<"my_info", "node_info", "config">>}
      [] m = "nodes_only"  -> {<<"node_info">>, <<"my_info", "node_info">>}

Init ==
    /\ mode \in Modes /\ writes \in Topics
    /\ state = "AWAY" /\ client = FALSE /\ own = FALSE /\ todo = <<>>
    /\ config = Empty /\ name = Null
    /\ section \in [Fields -> Values] /\ owner \in Names
    /\ req = [r \in Requests |-> Idle]
    /\ doubts = Topics

-----------------------------------------------------------------------------
(* A request from its first check to its write.                            *)

Elsewhere == UNCHANGED <<mode, writes, state, client, own, todo, radio>>

\* The request is answered.  A write that has not arrived may arrive later.
Ends(r, ok) ==
    req' = [req EXCEPT ![r] =
              IF @.air = "sent" /\ @.kind \in Topics
              THEN [@ EXCEPT !.pc = "abandoned", !.given = {}]
              ELSE [Idle EXCEPT !.ok = ok]]

\* Another request of the kind is under way.
Overlaps(r, kind) ==
    \E q \in Requests \ {r} : req[q].pc \in {"sending", "writing"} /\ req[q].kind = kind

\* (mutant of Begins) the copy is changed before the write.
BeginsWithCopy(r, job) ==
    /\ IF state = "READY"
       THEN /\ req' = [req EXCEPT ![r] = job]
            /\ doubts' = doubts \cup {t \in Topics : t = job.kind /\ Overlaps(r, t)}
       ELSE Ends(r, FALSE) /\ UNCHANGED doubts
    /\ config' = IF job.kind = "config" THEN job.values ELSE config
    /\ UNCHANGED name

\* _write_direct(), and purge_nodedb(): the state is tested, then the write
\* is made a task of its own (wait_for).
Begins(r, job) ==
    /\ IF state = "READY"
       THEN /\ req' = [req EXCEPT ![r] = job]
            /\ doubts' = doubts \cup {t \in Topics : t = job.kind /\ Overlaps(r, t)}
       ELSE Ends(r, FALSE) /\ UNCHANGED doubts
    /\ UNCHANGED copy

\* set_config() of a section that takes effect at once.
SetConfig(r, body) ==
    IF Complete(body)
    THEN Begins(r, Job("config", Merge(config, body), Null, Given(body)))
    ELSE Ends(r, FALSE) /\ UNCHANGED <<copy, doubts>>

\* set_config() of a section that needs a reboot: the device has no
\* write_and_reboot(), so nothing is written, whatever the state.
SetRebootSection(r) == Ends(r, FALSE) /\ UNCHANGED <<copy, doubts>>

\* set_owner(): the names are written first.  The role is part of a section
\* that needs a reboot, and fails as that does.
SetOwner(r, called, role) ==
    IF called # Null
    THEN Begins(r, [Job("owner", Empty, called, {}) EXCEPT !.role = role])
    ELSE Ends(r, ~role) /\ UNCHANGED <<copy, doubts>>

\* What this copy has no part of; set_fixed_position() and
\* remove_fixed_position().
SetChannel(r) == Begins(r, Job("blind", Empty, Null, {}))
SetPosition(r) == Begins(r, Job("blind", Empty, Null, {}))

\* get_channel_live() asks, but send_admin() returns no answer.
GetChannelLive(r) == Begins(r, Job("query", Empty, Null, {}))

Purge(r) == Begins(r, Job("purge", Empty, Null, {}))

RequestBegins(r) ==
    /\ req[r].pc = "idle"
    /\ \/ writes = "config" /\ \E body \in Bodies : SetConfig(r, body)
       \/ SetRebootSection(r)
       \/ writes = "owner" /\ \E called \in Names \cup {Null}, role \in BOOLEAN :
                                SetOwner(r, called, role)
       \/ SetChannel(r) \/ SetPosition(r) \/ GetChannelLive(r)
       \/ Purge(r)
    /\ Elsewhere

\* What a request does once its write has returned: the copy follows.
Written(r) ==
    /\ IF req[r].kind = "purge"
       THEN req' = [req EXCEPT ![r].pc = "leaving"]
       ELSE Ends(r, req[r].kind # "query" /\ ~req[r].role)
    /\ config' = IF req[r].kind = "config" THEN req[r].values ELSE config
    /\ name' = IF req[r].kind = "owner" THEN req[r].called ELSE name

\* send_toradio(): dropped without a word when the device is not READY or
\* has no client, as between the end of a session by stop() and that of
\* stop() itself.
SendToRadio(r) ==
    IF state = "READY" /\ client
    THEN /\ req' = [req EXCEPT ![r].pc = "writing", ![r].air = "sent"]
         /\ UNCHANGED doubts
    ELSE /\ req' = [req EXCEPT ![r].pc = "writing", ![r].air = "dropped"]
         /\ doubts' = doubts \cup (Topics \cap {req[r].kind})

\* (mutant of SendAdmin) it leaves the test to send_toradio().
SendAdminUntested(r) ==
    /\ req[r].pc = "sending"
    /\ SendToRadio(r)
    /\ UNCHANGED copy
    /\ Elsewhere

\* send_admin(): tests for itself, and goes on without an await.
SendAdmin(r) ==
    /\ req[r].pc = "sending"
    /\ IF own /\ state = "READY"
       THEN SendToRadio(r)
       ELSE Ends(r, FALSE) /\ UNCHANGED doubts
    /\ UNCHANGED copy
    /\ Elsewhere

\* The write returns: the radio has taken it, or it was dropped.
Acknowledged(r) ==
    /\ req[r].pc = "writing" /\ req[r].air \in {"taken", "dropped"}
    /\ Written(r)
    /\ UNCHANGED doubts
    /\ Elsewhere

\* wait_for() gives the write up after 5 seconds; the radio may have taken
\* it, or take it later.  purge_nodedb() sets no limit.
WriteTimeout(r) ==
    /\ req[r].pc = "writing" /\ req[r].air # "dropped" /\ req[r].kind # "purge"
    /\ Ends(r, FALSE)
    /\ doubts' = doubts \cup (Topics \cap {req[r].kind})
    /\ UNCHANGED copy
    /\ Elsewhere

\* The write fails with the link.
WriteFails(r) ==
    /\ req[r].pc = "broken"
    /\ Ends(r, FALSE)
    /\ UNCHANGED <<copy, doubts>>
    /\ Elsewhere

\* (mutants of PurgePolls) it does not wait for READY to end; it waits for
\* READY without a limit.
PurgePollsOnce(r) ==
    /\ req[r].pc = "leaving"
    /\ state = "READY" \/ req[r].overdue
    /\ Ends(r, state = "READY")
    /\ UNCHANGED <<copy, doubts>>
    /\ Elsewhere

PurgePollsForever(r) ==
    /\ \/ /\ req[r].pc = "leaving" /\ state # "READY"
          /\ req' = [req EXCEPT ![r].pc = "returning", ![r].overdue = FALSE]
       \/ /\ req[r].pc = "returning" /\ state = "READY"
          /\ Ends(r, TRUE)
       \/ /\ req[r].pc = "leaving" /\ state = "READY"
          /\ req[r].overdue
          /\ Ends(r, FALSE)
    /\ UNCHANGED <<copy, doubts>>
    /\ Elsewhere

\* purge_nodedb() looks at the state every half second until it has left
\* READY, then every second until it is back.
PurgePolls(r) ==
    /\ \/ /\ req[r].pc = "leaving" /\ state # "READY"
          /\ req' = [req EXCEPT ![r].pc = "returning", ![r].overdue = FALSE]
       \/ /\ req[r].pc = "returning" /\ state = "READY"
          /\ Ends(r, TRUE)
       \/ /\ req[r].pc = IF state = "READY" THEN "leaving" ELSE "returning"
          /\ req[r].overdue
          /\ Ends(r, FALSE)
    /\ UNCHANGED <<copy, doubts>>
    /\ Elsewhere

DeadlinePasses(r) ==
    /\ req[r].pc \in {"leaving", "returning"} /\ ~req[r].overdue
    /\ req' = [req EXCEPT ![r].overdue = TRUE]
    /\ UNCHANGED <<copy, doubts>>
    /\ Elsewhere

-----------------------------------------------------------------------------
(* The radio and the connection.                                           *)

\* The radio takes a write, also one the gateway has given up.
RadioTakes(r) ==
    /\ req[r].air = "sent"
    /\ req' = [req EXCEPT ![r] =
                 IF @.pc = "abandoned"
                 THEN Idle
                 ELSE [@ EXCEPT !.air = "taken",
                                !.seen = IF req[r].kind = "purge" THEN "reset" ELSE "nothing"]]
    /\ section' = IF req[r].kind = "config" THEN Filled(req[r].values) ELSE section
    /\ owner' = IF req[r].kind = "owner" THEN req[r].called ELSE owner
    /\ UNCHANGED <<mode, writes, state, client, own, todo, copy, doubts>>

\* Somebody else changes the radio: its buttons, an admin in the mesh, or a
\* client of the TCP gateway.  (bound) In a session: what changes between two
\* of them might as well have changed at the end of the first.
OthersWrite ==
    /\ client
    /\ \/ writes = "config" /\ section' \in [Fields -> Values] \ {section} /\ UNCHANGED owner
       \/ writes = "owner" /\ owner' \in Names \ {owner} /\ UNCHANGED section
    /\ doubts' = doubts \cup {writes}
    /\ UNCHANGED <<mode, writes, state, client, own, todo, copy, req>>

\* What becomes of a request when the link breaks: the write under way
\* fails, and what the radio has not taken is lost.
Cut(q) ==
    CASE q.pc = "writing" /\ q.air # "dropped" -> [Idle EXCEPT !.pc = "broken"]
      [] q.pc = "abandoned"                    -> Idle
      [] OTHER                                 -> q

\* The link is gone, and the client with it.
LinkGone ==
    /\ client
    /\ client' = FALSE /\ todo' = <<>>
    /\ req' = [r \in Requests |-> Cut(req[r])]
    /\ doubts' = doubts \cup {t \in Topics : \E r \in Requests :
                                req[r].pc = "writing" /\ req[r].air = "taken" /\ req[r].kind = t}
    /\ UNCHANGED <<mode, writes, own, copy, radio>>

\* The session ends, because the link breaks or the radio reboots.
SessionEnds == LinkGone /\ state' = "AWAY"

\* stop() cancels the connection's task, whose end takes the client: READY
\* stays while stop() awaits the gateway.  (Any other state is as AWAY then.)
StopTearsDown == LinkGone /\ state = "READY" /\ UNCHANGED state

\* stop(): DeviceData is made anew, the configuration stays.
DeviceStops ==
    /\ ~client
    /\ state = "AWAY" => own
    /\ state' = "AWAY" /\ own' = FALSE /\ name' = Null
    /\ doubts' = doubts \cup {"owner"}
    /\ UNCHANGED <<mode, writes, client, todo, config, radio, req>>

\* A new session asks for a sync.  A request that has tested the state, or
\* whose write was dropped, goes on at once and does not wait for that.
SyncBegins ==
    /\ state = "AWAY"
    /\ \A r \in Requests : req[r].pc \notin {"sending", "writing"}
    /\ state' = "SYNCING" /\ client' = TRUE
    /\ todo' \in Dumps(mode)
    /\ UNCHANGED <<mode, writes, own, copy, radio, req, doubts>>

\* _decode_fromradio(): a packet of the sync; the radio's own node is known
\* as such by its number.
Decode ==
    /\ state = "SYNCING" /\ client /\ todo # <<>>
    /\ todo' = Tail(todo)
    /\ \/ /\ Head(todo) = "my_info"
          /\ own' = TRUE
          /\ UNCHANGED <<copy, doubts>>
       \/ /\ Head(todo) = "node_info"
          /\ IF own THEN name' = owner /\ doubts' = doubts \ {"owner"}
                    ELSE UNCHANGED <<name, doubts>>
          /\ UNCHANGED <<own, config>>
       \/ /\ Head(todo) = "config"
          /\ config' = Printed(section) /\ doubts' = doubts \ {"config"}
          /\ UNCHANGED <<own, name>>
    /\ UNCHANGED <<mode, writes, state, client, radio, req>>

\* config_complete_id: the device is READY.
SyncComplete ==
    /\ state = "SYNCING" /\ client /\ todo = <<>>
    /\ state' = "READY"
    /\ req' = [r \in Requests |->
                 IF req[r].seen = "reset" THEN [req[r] EXCEPT !.seen = "synced"] ELSE req[r]]
    /\ UNCHANGED <<mode, writes, client, own, todo, copy, radio, doubts>>

-----------------------------------------------------------------------------
RequestStep(r) ==
    \/ SendAdmin(r) \/ Acknowledged(r) \/ WriteTimeout(r) \/ WriteFails(r)
    \/ PurgePolls(r) \/ DeadlinePasses(r)

Next ==
    \/ \E r \in Requests : RequestBegins(r) \/ RequestStep(r) \/ RadioTakes(r)
    \/ OthersWrite \/ SessionEnds \/ StopTearsDown \/ DeviceStops
    \/ SyncBegins \/ Decode \/ SyncComplete

\* A request's task is run by the loop, its deadlines pass, and the radio
\* takes what it is sent as long as the link holds.
Fairness ==
    \A r \in Requests : WF_vars(RequestStep(r)) /\ WF_vars(RadioTakes(r))

Spec == Init /\ [][Next]_vars /\ Fairness

-----------------------------------------------------------------------------
\* Every variable has its type.
TypeOK ==
    /\ mode \in Modes /\ writes \in Topics
    /\ state \in {"READY", "SYNCING", "AWAY"}
    /\ client \in BOOLEAN /\ own \in BOOLEAN
    /\ todo \in Seq({"my_info", "node_info", "config"})
    /\ config \in Sections /\ name \in Names \cup {Null}
    /\ section \in [Fields -> Values] /\ owner \in Names
    /\ req \in [Requests ->
         [pc : {"idle", "sending", "writing", "broken", "leaving", "returning", "abandoned"},
          kind : Kinds \cup {"none"}, values : Sections, called : Names \cup {Null},
          role : BOOLEAN, air : {"none", "sent", "taken", "dropped"}, overdue : BOOLEAN,
          ok : BOOLEAN, given : SUBSET Fields,
          seen : {"nothing", "reset", "synced"}]]
    /\ doubts \subseteq Topics

\* No request of the kind is between the radio and the copy.
Settled(topic) ==
    \A r \in Requests : req[r].kind = topic => req[r].pc \notin {"writing", "abandoned"}

\* "cached state is accurate immediately after set_config" (methods.py:142):
\* in READY the copy of the section is what the radio has, unless since the
\* last sync two writes overlapped, one was given up or dropped, or others
\* wrote.
ConfigAccurate ==
    state = "READY" /\ "config" \notin doubts /\ Settled("config")
        => Filled(config) = section

\* The same of the owner's name, which get_owner_live() shows.
OwnerAccurate ==
    state = "READY" /\ "owner" \notin doubts /\ Settled("owner")
        => name = owner

\* Types, and that the two copies that requests work on are those of the radio.
RequestsInv == TypeOK /\ ConfigAccurate /\ OwnerAccurate

\* In a step that answers ok to a request of this kind.
Answers(r, kind) ==
    req[r].kind = kind /\ req'[r].kind # kind /\ req'[r].ok

\* set_config() writes a whole section, "so a partial submission silently
\* wipes every missing field" (methods.py:208): when the radio takes it, no
\* field changes but those of the body, although it was made from the copy.
OthersKept ==
    [][\A r \in Requests :
          req[r].kind = "config" /\ req[r].air = "sent" /\ req'[r].air = "taken" /\ "config" \notin doubts
              => \A f \in Fields \ req[r].given : section'[f] = section[f]]_vars

\* send_toradio() drops in silence, and the caller answers "verified" all the
\* same (methods.py:245).  Only stop() lets that happen, in READY and with the
\* client gone: every other answer of ok is of a write the radio has taken.
OnlyStopDrops ==
    [][\A r \in Requests :
          /\ \A kind \in Kinds : Answers(r, kind) => req[r].air \in {"taken", "dropped"}
          /\ req[r].air # "dropped" /\ req'[r].air = "dropped" => state = "READY" /\ ~client]_vars

\* purge_nodedb() answers ok only when the radio has taken the reset and a
\* sync after it is complete, never by a READY from before, unless stop()
\* dropped the reset.  Of node_count, which it returns, this says nothing.
PurgeAfterReset ==
    [][\A r \in Requests :
          Answers(r, "purge") => req[r].seen = "synced" \/ req[r].air = "dropped"]_vars

\* Every request is answered, whatever the radio and the link do.
RequestsEnd ==
    \A r \in Requests :
        req[r].pc \notin {"idle", "abandoned"} ~> req[r].pc \in {"idle", "abandoned"}
=============================================================================
