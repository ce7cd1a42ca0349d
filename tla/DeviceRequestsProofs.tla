-------------------------- MODULE DeviceRequestsProofs --------------------------
(***************************************************************************)
(* That the copies requests work on are those of the radio, and what an    *)
(* answer of ok means, for any number of requests, fields and values.  As  *)
(* long as no write overlapped another or was given up, one request at     *)
(* most is between the radio and the copy: what it wrote was made of what  *)
(* the radio had, and it is what the copy will be.                         *)
(***************************************************************************)
EXTENDS DeviceRequests, TLAPS

\* What a request is at each point: with a kind from its first check to its
\* end, sent or dropped once it is written, and a purge no longer in the air
\* when it waits.
Shape(q) ==
    /\ q.pc \in {"idle", "broken"} => q.kind = "none" /\ q.air = "none"
    /\ q.pc = "sending" => q.kind \in Kinds /\ q.air = "none"
    /\ q.pc = "writing" => q.kind \in Kinds /\ q.air \in {"sent", "taken", "dropped"}
    /\ q.pc = "abandoned" => q.kind \in Topics /\ q.air = "sent"
    /\ q.pc \in {"leaving", "returning"} => q.kind = "purge" /\ q.air \in {"taken", "dropped"}
    /\ q.kind = "purge" /\ q.air = "taken" => q.seen \in {"reset", "synced"}
    /\ q.kind = "owner" => q.called \in Names

\* What the states of the device leave of a request: a write is in the air
\* only in READY and with a client, and no sync finds one under way.
Fits(q) ==
    /\ q.pc = "abandoned" => state = "READY" /\ client
    /\ q.pc = "writing" /\ q.air # "dropped" => state = "READY" /\ client
    /\ q.pc \in {"sending", "writing"} => state # "SYNCING"
    /\ q.pc = "returning" /\ state = "READY" => q.seen = "synced" \/ q.air = "dropped"

\* A write that was dropped leaves its topic in doubt until the next sync.
Doubted(q) == q.pc = "writing" /\ q.air = "dropped" /\ q.kind \in Topics => q.kind \in doubts

UnderWay(q, topic) == q.kind = topic /\ q.pc \in {"sending", "writing"}
Taken(q, topic) == q.kind = topic /\ q.pc = "writing" /\ q.air = "taken"

\* A topic in no doubt has no write that was given up, and at most one under way.
OneWriter ==
    \A topic \in Topics \ doubts :
        /\ \A r \in Requests : req[r].pc = "abandoned" => req[r].kind # topic
        /\ \A r, s \in Requests :
             UnderWay(req[r], topic) /\ UnderWay(req[s], topic) => r = s

\* Without doubt, the radio has what the one write it has taken said, until the
\* copy has that too.
ConfigFollows ==
    "config" \notin doubts =>
        /\ \A r \in Requests : Taken(req[r], "config") => Filled(req[r].values) = section
        /\ (\A r \in Requests : ~Taken(req[r], "config")) => Filled(config) = section

OwnerFollows ==
    "owner" \notin doubts =>
        /\ \A r \in Requests : Taken(req[r], "owner") => req[r].called = owner
        /\ (\A r \in Requests : ~Taken(req[r], "owner")) => name = owner

\* A write that the radio has yet to take was made of what the radio has.
MadeOfSection ==
    "config" \notin doubts =>
        \A r \in Requests :
            UnderWay(req[r], "config") /\ req[r].air # "taken" =>
                \A f \in Fields \ req[r].given : Filled(req[r].values)[f] = section[f]

IInv ==
    /\ TypeOK
    /\ \A r \in Requests : Shape(req[r]) /\ Fits(req[r]) /\ Doubted(req[r])
    /\ OneWriter /\ ConfigFollows /\ OwnerFollows /\ MadeOfSection

Reqs ==
    [pc : {"idle", "sending", "writing", "broken", "leaving", "returning", "abandoned"},
     kind : Kinds \cup {"none"}, values : Sections, called : Names \cup {Null},
     role : BOOLEAN, air : {"none", "sent", "taken", "dropped"}, overdue : BOOLEAN,
     ok : BOOLEAN, given : SUBSET Fields,
     seen : {"nothing", "reset", "synced"}]

-----------------------------------------------------------------------------
(* Sections.                                                               *)

LEMMA SectionFacts ==
    ASSUME NEW s
    PROVE  s \in Sections <=> DOMAIN s \subseteq Fields /\ s \in [DOMAIN s -> Values]
  BY DEF Sections

LEMMA FilledType == ASSUME NEW s \in Sections PROVE Filled(s) \in [Fields -> Values]
  BY SectionFacts, RequestsAssumption DEF Filled

\* What the radio prints of a section says all that is in it.
LEMMA PrintedFacts ==
    ASSUME NEW s \in [Fields -> Values]
    PROVE  Printed(s) \in Sections /\ Filled(Printed(s)) = s
  <1> DEFINE p == Printed(s)
  <1>1. p = [f \in {g \in Fields : s[g] # 0} |-> s[f]]
    BY DEF Printed
  <1>2. DOMAIN p = {g \in Fields : s[g] # 0} /\ \A f \in DOMAIN p : p[f] = s[f]
    BY <1>1
  <1>3. p \in [DOMAIN p -> Values]
    BY <1>1
  <1> HIDE DEF p
  <1>4. p \in Sections
    BY <1>2, <1>3, SectionFacts
  <1>5. \A f \in Fields : Filled(p)[f] = s[f]
    BY <1>2 DEF Filled
  <1>6. Filled(p) = s
    BY <1>4, <1>5, FilledType
  <1>7. QED BY <1>4, <1>6 DEF p

\* A merge leaves every field as it was but those the body gives.
LEMMA MergeFacts ==
    ASSUME NEW cached \in Sections, NEW body \in Bodies
    PROVE  /\ Merge(cached, body) \in Sections
           /\ Given(body) \subseteq Fields
           /\ \A f \in Fields \ Given(body) : Filled(Merge(cached, body))[f] = Filled(cached)[f]
  <1>1. DOMAIN body \subseteq Fields /\ body \in [DOMAIN body -> Values \cup {Null}]
    BY RequestsAssumption
  <1>2. Given(body) \subseteq DOMAIN body /\ \A f \in Given(body) : body[f] \in Values
    BY <1>1 DEF Given
  <1> DEFINE D == DOMAIN cached \cup Given(body)
             merged == [f \in D |-> IF f \in Given(body) THEN body[f] ELSE cached[f]]
             m == Merge(cached, body)
  <1>3. m = [f \in {g \in D : g \in Masked => merged[g] # 0} |-> merged[f]]
    BY DEF Merge
  <1>4. DOMAIN cached \subseteq Fields /\ cached \in [DOMAIN cached -> Values]
    BY SectionFacts
  <1>5. D \subseteq Fields /\ \A f \in D : merged[f] \in Values
    BY <1>1, <1>2, <1>4
  <1>6. \A f \in D \ Given(body) : merged[f] = cached[f]
    OBVIOUS
  <1> HIDE DEF merged
  <1>7. DOMAIN m = {g \in D : g \in Masked => merged[g] # 0} /\ \A f \in DOMAIN m : m[f] = merged[f]
    BY <1>3
  <1>8. m \in [DOMAIN m -> Values]
    BY <1>3, <1>5
  <1> HIDE DEF m
  <1>9. m \in Sections
    BY <1>5, <1>7, <1>8, SectionFacts
  <1>10. ASSUME NEW f \in Fields \ Given(body) PROVE Filled(m)[f] = Filled(cached)[f]
    <2>1. CASE f \in DOMAIN m
      BY <1>6, <1>7, <2>1 DEF Filled
    <2>2. CASE f \notin DOMAIN m /\ f \in D
      BY <1>6, <1>7, <2>2 DEF Filled
    <2>3. CASE f \notin DOMAIN m /\ f \notin D
      BY <2>3 DEF Filled
    <2>4. QED BY <2>1, <2>2, <2>3
  <1>11. QED BY <1>1, <1>2, <1>9, <1>10 DEF m

-----------------------------------------------------------------------------
(* A request moves: the radio stays as it is.                              *)

\* Request r becomes n.  The copy follows a write that was taken, or is in
\* doubt; a write is begun only where no other is under way, or in doubt.
Moves(r, n) ==
    /\ req' = [req EXCEPT ![r] = n]
    /\ Elsewhere
    /\ config' \in Sections /\ name' \in Names \cup {Null}
    /\ doubts \subseteq doubts' /\ doubts' \subseteq Topics
    /\ Shape(n) /\ Fits(n)
    /\ n.pc = "writing" /\ n.air = "dropped" => n.kind \in doubts' \/ n.kind \notin Topics
    /\ \A topic \in Topics : ~Taken(n, topic)
    /\ \A topic \in Topics \ doubts' :
         /\ n.pc = "abandoned" => n.kind # topic
         /\ UnderWay(n, topic) =>
              UnderWay(req[r], topic) \/ \A s \in Requests \ {r} : ~UnderWay(req[s], topic)
    /\ "config" \notin doubts' =>
         /\ config' = IF Taken(req[r], "config") THEN req[r].values ELSE config
         /\ UnderWay(n, "config") => \A f \in Fields \ n.given : Filled(n.values)[f] = section[f]
    /\ "owner" \notin doubts' =>
         name' = IF Taken(req[r], "owner") THEN req[r].called ELSE name

LEMMA RequestMoves ==
    ASSUME IInv, NEW r \in Requests, NEW n \in Reqs, Moves(r, n)
    PROVE  IInv'
  <1>1. TypeOK
    BY DEF IInv
  <1>2. req \in [Requests -> Reqs]
    BY <1>1 DEF TypeOK, Reqs
  <1>3. req' = [req EXCEPT ![r] = n]
    BY DEF Moves
  <1>4. req' \in [Requests -> Reqs] /\ req'[r] = n
    BY <1>2, <1>3
  <1>5. \A s \in Requests \ {r} : req'[s] = req[s]
    BY <1>2, <1>3
  <1>6. state' = state /\ (client' <=> client) /\ section' = section /\ owner' = owner
    BY DEF Moves, Elsewhere, radio
  <1>7. \A topic \in Topics \ doubts' : topic \in Topics \ doubts
    BY DEF Moves
  <1>8. TypeOK'
    BY <1>1, <1>4 DEF TypeOK, Moves, Elsewhere, radio, Reqs
  <1>9. (\A s \in Requests : Shape(req[s]) /\ Fits(req[s]) /\ Doubted(req[s]))'
    <2>1. SUFFICES ASSUME NEW s \in Requests PROVE (Shape(req[s]) /\ Fits(req[s]) /\ Doubted(req[s]))'
      OBVIOUS
    <2>2. Shape(req[s]) /\ Fits(req[s]) /\ Doubted(req[s])
      BY DEF IInv
    <2>3. CASE s = r
      BY <1>4, <1>6, <2>3 DEF Moves, Shape, Fits, Doubted
    <2>4. CASE s # r
      BY <1>5, <1>6, <2>2, <2>4 DEF Shape, Fits, Doubted, Moves
    <2>5. QED BY <2>3, <2>4
  <1>10. OneWriter'
    <2>1. SUFFICES ASSUME NEW topic \in Topics \ doubts'
                   PROVE  /\ \A s \in Requests : req'[s].pc = "abandoned" => req'[s].kind # topic
                          /\ \A q, s \in Requests :
                               UnderWay(req[q], topic)' /\ UnderWay(req[s], topic)' => q = s
      BY DEF OneWriter
    <2>2. /\ \A s \in Requests : req[s].pc = "abandoned" => req[s].kind # topic
          /\ \A q, s \in Requests : UnderWay(req[q], topic) /\ UnderWay(req[s], topic) => q = s
      BY <1>7 DEF IInv, OneWriter
    <2>3. /\ n.pc = "abandoned" => n.kind # topic
          /\ UnderWay(n, topic) =>
               UnderWay(req[r], topic) \/ \A s \in Requests \ {r} : ~UnderWay(req[s], topic)
      BY DEF Moves
    <2>4. \A s \in Requests : req'[s].pc = "abandoned" => req'[s].kind # topic
      BY <1>4, <1>5, <2>2, <2>3
    <2>5. \A q, s \in Requests : UnderWay(req[q], topic)' /\ UnderWay(req[s], topic)' => q = s
      BY <1>4, <1>5, <2>2, <2>3 DEF UnderWay
    <2>6. QED BY <2>4, <2>5
  <1>11. ConfigFollows'
    <2>1. SUFFICES ASSUME "config" \notin doubts'
                   PROVE  /\ \A s \in Requests : Taken(req[s], "config")' => Filled(req'[s].values) = section
                          /\ (\A s \in Requests : ~Taken(req[s], "config")') => Filled(config') = section
      BY <1>6 DEF ConfigFollows
    <2>2. /\ \A s \in Requests : Taken(req[s], "config") => Filled(req[s].values) = section
          /\ (\A s \in Requests : ~Taken(req[s], "config")) => Filled(config) = section
      BY <2>1 DEF IInv, ConfigFollows, Moves
    <2>3. ~Taken(n, "config")
      BY DEF Moves, Topics
    <2>4. ~Taken(req[r], "config")'
      BY <1>4, <2>3 DEF Taken
    <2>5. \A s \in Requests \ {r} : Taken(req[s], "config")' <=> Taken(req[s], "config")
      BY <1>5 DEF Taken
    <2>6. \A s \in Requests : Taken(req[s], "config")' => Filled(req'[s].values) = section
      BY <1>5, <2>2, <2>4, <2>5
    <2>7. ASSUME \A s \in Requests : ~Taken(req[s], "config")' PROVE Filled(config') = section
      <3>1. config' = IF Taken(req[r], "config") THEN req[r].values ELSE config
        BY <2>1 DEF Moves
      <3>2. CASE Taken(req[r], "config")
        BY <2>2, <3>1, <3>2
      <3>3. CASE ~Taken(req[r], "config")
        BY <2>2, <2>5, <2>7, <3>1, <3>3
      <3>4. QED BY <3>2, <3>3
    <2>8. QED BY <2>6, <2>7
  <1>12. OwnerFollows'
    <2>1. SUFFICES ASSUME "owner" \notin doubts'
                   PROVE  /\ \A s \in Requests : Taken(req[s], "owner")' => req'[s].called = owner
                          /\ (\A s \in Requests : ~Taken(req[s], "owner")') => name' = owner
      BY <1>6 DEF OwnerFollows
    <2>2. /\ \A s \in Requests : Taken(req[s], "owner") => req[s].called = owner
          /\ (\A s \in Requests : ~Taken(req[s], "owner")) => name = owner
      BY <2>1 DEF IInv, OwnerFollows, Moves
    <2>3. ~Taken(n, "owner")
      BY DEF Moves, Topics
    <2>4. ~Taken(req[r], "owner")'
      BY <1>4, <2>3 DEF Taken
    <2>5. \A s \in Requests \ {r} : Taken(req[s], "owner")' <=> Taken(req[s], "owner")
      BY <1>5 DEF Taken
    <2>6. \A s \in Requests : Taken(req[s], "owner")' => req'[s].called = owner
      BY <1>5, <2>2, <2>4, <2>5
    <2>7. ASSUME \A s \in Requests : ~Taken(req[s], "owner")' PROVE name' = owner
      <3>1. name' = IF Taken(req[r], "owner") THEN req[r].called ELSE name
        BY <2>1 DEF Moves
      <3>2. CASE Taken(req[r], "owner")
        BY <2>2, <3>1, <3>2
      <3>3. CASE ~Taken(req[r], "owner")
        BY <2>2, <2>5, <2>7, <3>1, <3>3
      <3>4. QED BY <3>2, <3>3
    <2>8. QED BY <2>6, <2>7
  <1>13. MadeOfSection'
    <2>1. SUFFICES ASSUME "config" \notin doubts', NEW s \in Requests,
                          UnderWay(req[s], "config")', req'[s].air # "taken",
                          NEW f \in Fields \ req'[s].given
                   PROVE  Filled(req'[s].values)[f] = section[f]
      BY <1>6 DEF MadeOfSection
    <2>2. CASE s = r
      <3>1. UnderWay(n, "config")
        BY <1>4, <2>1, <2>2 DEF UnderWay
      <3>2. \A g \in Fields \ n.given : Filled(n.values)[g] = section[g]
        BY <2>1, <3>1 DEF Moves
      <3>3. QED BY <1>4, <2>1, <2>2, <3>2
    <2>3. CASE s # r
      <3>1. req'[s] = req[s]
        BY <1>5, <2>3
      <3>2. UnderWay(req[s], "config") /\ req[s].air # "taken" /\ f \in Fields \ req[s].given
        BY <2>1, <3>1 DEF UnderWay
      <3>3. "config" \notin doubts
        BY <2>1 DEF Moves
      <3>4. Filled(req[s].values)[f] = section[f]
        BY <3>2, <3>3 DEF IInv, MadeOfSection
      <3>5. QED BY <3>1, <3>4
    <2>4. QED BY <2>2, <2>3
  <1>14. QED BY <1>8, <1>9, <1>10, <1>11, <1>12, <1>13 DEF IInv

\* A request that is answered is idle, or has a write of its topic in the air.
LEMMA EndsFacts ==
    ASSUME IInv, NEW r \in Requests, NEW ok \in BOOLEAN, Ends(r, ok)
    PROVE  \E n \in Reqs :
             /\ req' = [req EXCEPT ![r] = n]
             /\ Shape(n) /\ (state = "READY" /\ client => Fits(n))
             /\ \A topic \in Topics : ~Taken(n, topic) /\ ~UnderWay(n, topic)
             /\ n.pc = "abandoned" =>
                  n.kind = req[r].kind /\ req[r].air = "sent" /\ req[r].kind \in Topics
             /\ n.pc # "abandoned" => Fits(n)
             /\ n.pc # "abandoned" => n.ok = ok
             /\ n.pc \in {"idle", "abandoned"}
  <1>1. req \in [Requests -> Reqs] /\ req[r] \in Reqs
    BY DEF IInv, TypeOK, Reqs
  <1>2. Shape(req[r])
    BY DEF IInv
  <1>3. Empty \in Sections
    BY SectionFacts, RequestsAssumption DEF Empty
  <1>4. CASE req[r].air = "sent" /\ req[r].kind \in Topics
    <2>1. PICK n : n = [req[r] EXCEPT !.pc = "abandoned", !.given = {}]
      OBVIOUS
    <2>2. req' = [req EXCEPT ![r] = n]
      BY <1>1, <1>4, <2>1 DEF Ends
    <2>3. n \in Reqs /\ n.pc = "abandoned" /\ n.kind = req[r].kind /\ n.air = req[r].air
          /\ n.called = req[r].called /\ n.seen = req[r].seen
      BY <1>1, <2>1 DEF Reqs
    <2>4. Shape(n) /\ (state = "READY" /\ client => Fits(n))
      BY <1>2, <1>4, <2>3 DEF Shape, Fits, Topics
    <2>5. QED BY <1>4, <2>2, <2>3, <2>4 DEF Taken, UnderWay
  <1>5. CASE ~(req[r].air = "sent" /\ req[r].kind \in Topics)
    <2>1. PICK n : n = [Idle EXCEPT !.ok = ok]
      OBVIOUS
    <2>2. req' = [req EXCEPT ![r] = n]
      BY <1>1, <1>5, <2>1 DEF Ends
    <2>3. n \in Reqs /\ n.pc = "idle" /\ n.kind = "none" /\ n.air = "none" /\ n.ok = ok
      BY <1>3, <2>1 DEF Reqs, Idle, Kinds, Topics
    <2>4. Shape(n) /\ Fits(n)
      BY <2>3 DEF Shape, Fits
    <2>5. QED BY <2>2, <2>3, <2>4 DEF Taken, UnderWay
  <1>6. QED BY <1>4, <1>5

LEMMA RequestEnds ==
    ASSUME IInv, NEW r \in Requests, NEW ok \in BOOLEAN, Ends(r, ok), Elsewhere,
           config' \in Sections, name' \in Names \cup {Null},
           doubts \subseteq doubts', doubts' \subseteq Topics,
           req[r].air = "sent" /\ req[r].kind \in Topics => req[r].pc = "writing" /\ req[r].kind \in doubts',
           "config" \notin doubts' =>
             config' = IF Taken(req[r], "config") THEN req[r].values ELSE config,
           "owner" \notin doubts' =>
             name' = IF Taken(req[r], "owner") THEN req[r].called ELSE name
    PROVE  IInv'
  <1>1. PICK n \in Reqs :
             /\ req' = [req EXCEPT ![r] = n]
             /\ Shape(n) /\ (state = "READY" /\ client => Fits(n))
             /\ \A topic \in Topics : ~Taken(n, topic) /\ ~UnderWay(n, topic)
             /\ n.pc = "abandoned" =>
                  n.kind = req[r].kind /\ req[r].air = "sent" /\ req[r].kind \in Topics
             /\ n.pc # "abandoned" => Fits(n)
             /\ n.pc \in {"idle", "abandoned"}
    BY EndsFacts
  <1>2. Fits(req[r])
    BY DEF IInv
  <1>3. Fits(n)
    BY <1>1, <1>2 DEF Fits
  <1>4. \A topic \in Topics \ doubts' : n.pc = "abandoned" => n.kind # topic
    BY <1>1
  <1>5. ~UnderWay(n, "config")
    BY <1>1 DEF Topics
  <1>6. Moves(r, n)
    BY <1>1, <1>3, <1>4, <1>5 DEF Moves
  <1>7. QED BY <1>6, RequestMoves

-----------------------------------------------------------------------------
(* A request, action by action.                                            *)

LEMMA BeginsPreserves ==
    ASSUME IInv, NEW r \in Requests, NEW n \in Reqs, Begins(r, n), Elsewhere,
           req[r].pc = "idle", n.pc = "sending", n.kind \in Kinds, n.air = "none",
           n.kind = "owner" => n.called \in Names,
           n.kind = "config" /\ "config" \notin doubts /\ ~Overlaps(r, "config") =>
             \A f \in Fields \ n.given : Filled(n.values)[f] = section[f]
    PROVE  IInv'
  <1>1. /\ TypeOK /\ Shape(req[r])
        /\ ~Taken(req[r], "config") /\ ~Taken(req[r], "owner")
        /\ config' = config /\ name' = name
    BY DEF IInv, Shape, Taken, Begins, copy
  <1>2. CASE state = "READY"
    <2>1. /\ req' = [req EXCEPT ![r] = n]
          /\ doubts' = doubts \cup {t \in Topics : t = n.kind /\ Overlaps(r, t)}
      BY <1>2 DEF Begins
    <2>2. Shape(n) /\ Fits(n)
      BY <1>2 DEF Shape, Fits
    <2>3. ASSUME NEW topic \in Topics \ doubts', UnderWay(n, topic)
          PROVE  \A s \in Requests \ {r} : ~UnderWay(req[s], topic)
      BY <2>1, <2>3 DEF UnderWay, Overlaps
    <2>4. ASSUME "config" \notin doubts', UnderWay(n, "config")
          PROVE  \A f \in Fields \ n.given : Filled(n.values)[f] = section[f]
      <3>1. n.kind = "config" /\ "config" \notin doubts /\ ~Overlaps(r, "config")
        BY <2>1, <2>4 DEF UnderWay, Topics
      <3>2. QED BY <3>1
    <2>5. Moves(r, n)
      BY <1>1, <2>1, <2>2, <2>3, <2>4 DEF Moves, Taken, TypeOK
    <2>6. QED BY <2>5, RequestMoves
  <1>3. CASE state # "READY"
    <2>1. Ends(r, FALSE) /\ doubts' = doubts
      BY <1>3 DEF Begins
    <2>2. req[r].air # "sent"
      BY <1>1 DEF Shape
    <2>3. QED BY <1>1, <2>1, <2>2, RequestEnds DEF TypeOK
  <1>4. QED BY <1>2, <1>3

\* What a request of one of the methods is.
LEMMA JobFacts ==
    ASSUME NEW kind \in Kinds, NEW values \in Sections,
           NEW called \in Names \cup {Null}, NEW given \in SUBSET Fields
    PROVE  /\ Job(kind, values, called, given) \in Reqs
           /\ Job(kind, values, called, given).pc = "sending"
           /\ Job(kind, values, called, given).kind = kind
           /\ Job(kind, values, called, given).values = values
           /\ Job(kind, values, called, given).called = called
           /\ Job(kind, values, called, given).air = "none"
           /\ Job(kind, values, called, given).given = given
  <1>1. Empty \in Sections
    BY SectionFacts, RequestsAssumption DEF Empty
  <1>2. QED BY <1>1 DEF Job, Idle, Reqs

LEMMA SetConfigPreserves ==
    ASSUME IInv, NEW r \in Requests, NEW body \in Bodies, SetConfig(r, body), Elsewhere,
           req[r].pc = "idle"
    PROVE  IInv'
  <1>1. /\ TypeOK /\ Shape(req[r])
        /\ ~Taken(req[r], "config") /\ ~Taken(req[r], "owner")
    BY DEF IInv, Shape, Taken
  <1>2. CASE Complete(body)
    <2> DEFINE m == Merge(config, body)
    <2>1. /\ m \in Sections /\ Given(body) \in SUBSET Fields
          /\ \A f \in Fields \ Given(body) : Filled(m)[f] = Filled(config)[f]
      BY <1>1, MergeFacts DEF TypeOK
    <2> HIDE DEF m
    <2>2. "config" \in Kinds /\ Null \in Names \cup {Null}
      BY DEF Kinds, Topics
    <2>3. PICK n : n = Job("config", m, Null, Given(body))
      OBVIOUS
    <2>4. /\ n \in Reqs /\ n.pc = "sending" /\ n.kind = "config" /\ n.air = "none"
          /\ n.values = m /\ n.given = Given(body)
      BY <2>1, <2>2, <2>3, JobFacts
    <2>5. Begins(r, n)
      BY <1>2, <2>3 DEF SetConfig, m
    <2>6. ASSUME "config" \notin doubts, ~Overlaps(r, "config")
          PROVE  \A f \in Fields \ n.given : Filled(n.values)[f] = section[f]
      <3>1. \A s \in Requests : ~Taken(req[s], "config")
        BY <1>1, <2>6 DEF Taken, Overlaps
      <3>2. Filled(config) = section
        BY <2>6, <3>1 DEF IInv, ConfigFollows
      <3>3. QED BY <2>1, <2>4, <3>2
    <2>7. QED BY <2>2, <2>4, <2>5, <2>6, BeginsPreserves
  <1>3. CASE ~Complete(body)
    <2>1. Ends(r, FALSE) /\ doubts' = doubts /\ config' = config /\ name' = name
      BY <1>3 DEF SetConfig, copy
    <2>2. req[r].air # "sent"
      BY <1>1 DEF Shape
    <2>3. QED BY <1>1, <2>1, <2>2, RequestEnds DEF TypeOK
  <1>4. QED BY <1>2, <1>3

LEMMA RefusalPreserves ==
    ASSUME IInv, NEW r \in Requests, NEW ok \in BOOLEAN, Ends(r, ok), UNCHANGED <<copy, doubts>>,
           Elsewhere, req[r].pc \in {"idle", "sending", "broken", "leaving", "returning"}
    PROVE  IInv'
  <1>1. /\ TypeOK /\ Shape(req[r]) /\ req[r].air # "sent"
        /\ ~Taken(req[r], "config") /\ ~Taken(req[r], "owner")
    BY DEF IInv, Shape, Taken
  <1>2. QED BY <1>1, RequestEnds DEF TypeOK, copy

\* The methods that write nothing of the copy.
LEMMA BlindPreserves ==
    ASSUME IInv, NEW r \in Requests, NEW kind \in {"blind", "query", "purge"},
           Begins(r, Job(kind, Empty, Null, {})), Elsewhere, req[r].pc = "idle"
    PROVE  IInv'
  <1>1. Empty \in Sections /\ kind \in Kinds /\ kind \notin Topics
        /\ Null \in Names \cup {Null} /\ {} \in SUBSET Fields
    BY SectionFacts, RequestsAssumption DEF Empty, Kinds, Topics
  <1>2. PICK n : n = Job(kind, Empty, Null, {})
    OBVIOUS
  <1>3. n \in Reqs /\ n.pc = "sending" /\ n.kind = kind /\ n.air = "none"
    BY <1>1, <1>2, JobFacts
  <1>4. QED BY <1>1, <1>2, <1>3, BeginsPreserves DEF Topics

LEMMA SetOwnerPreserves ==
    ASSUME IInv, NEW r \in Requests, NEW called \in Names \cup {Null}, NEW role \in BOOLEAN,
           SetOwner(r, called, role), Elsewhere, req[r].pc = "idle"
    PROVE  IInv'
  <1>1. CASE called # Null
    <2>1. Empty \in Sections /\ "owner" \in Kinds /\ {} \in SUBSET Fields
      BY SectionFacts, RequestsAssumption DEF Empty, Kinds, Topics
    <2>2. PICK j : j = Job("owner", Empty, called, {})
      OBVIOUS
    <2>3. j \in Reqs /\ j.pc = "sending" /\ j.kind = "owner" /\ j.air = "none" /\ j.called = called
      BY <2>1, <2>2, JobFacts
    <2>4. PICK n : n = [j EXCEPT !.role = role]
      OBVIOUS
    <2>5. n \in Reqs /\ n.pc = "sending" /\ n.kind = "owner" /\ n.air = "none" /\ n.called = called
      BY <2>3, <2>4 DEF Reqs
    <2>6. Begins(r, n)
      BY <1>1, <2>2, <2>4 DEF SetOwner
    <2>7. QED BY <1>1, <2>1, <2>5, <2>6, BeginsPreserves
  <1>2. CASE called = Null
    <2>1. Ends(r, ~role) /\ UNCHANGED <<copy, doubts>>
      BY <1>2 DEF SetOwner
    <2>2. PICK ok \in BOOLEAN : ok = ~role
      OBVIOUS
    <2>3. Ends(r, ok)
      BY <2>1, <2>2
    <2>4. QED BY <2>1, <2>3, RefusalPreserves
  <1>3. QED BY <1>1, <1>2

LEMMA RequestBeginsPreserves ==
    ASSUME IInv, NEW r \in Requests, RequestBegins(r)
    PROVE  IInv'
  <1>1. req[r].pc = "idle" /\ Elsewhere
    BY DEF RequestBegins
  <1>2. CASE \E body \in Bodies : SetConfig(r, body)
    BY <1>1, <1>2, SetConfigPreserves
  <1>3. CASE SetRebootSection(r)
    BY <1>1, <1>3, RefusalPreserves DEF SetRebootSection
  <1>4. CASE \E called \in Names \cup {Null}, role \in BOOLEAN : SetOwner(r, called, role)
    BY <1>1, <1>4, SetOwnerPreserves
  <1>5. CASE SetChannel(r) \/ SetPosition(r) \/ GetChannelLive(r) \/ Purge(r)
    BY <1>1, <1>5, BlindPreserves DEF SetChannel, SetPosition, GetChannelLive, Purge
  <1>6. QED BY <1>2, <1>3, <1>4, <1>5 DEF RequestBegins

LEMMA SendAdminPreserves ==
    ASSUME IInv, NEW r \in Requests, SendAdmin(r)
    PROVE  IInv'
  <1>1. /\ TypeOK /\ Shape(req[r]) /\ Fits(req[r]) /\ req[r] \in Reqs /\ req[r].pc = "sending"
        /\ Elsewhere /\ UNCHANGED copy
    BY DEF IInv, TypeOK, SendAdmin, Reqs
  <1>2. CASE SendToRadio(r)
    <2>1. PICK air \in {"sent", "dropped"} :
             /\ req' = [req EXCEPT ![r].pc = "writing", ![r].air = air]
             /\ air = "sent" => state = "READY" /\ client /\ doubts' = doubts
             /\ air = "dropped" => doubts' = doubts \cup (Topics \cap {req[r].kind})
      BY <1>2 DEF SendToRadio
    <2>2. PICK n : n = [req[r] EXCEPT !.pc = "writing", !.air = air]
      OBVIOUS
    <2>3. req' = [req EXCEPT ![r] = n]
      BY <1>1, <2>1, <2>2 DEF TypeOK
    <2>4. /\ n \in Reqs /\ n.pc = "writing" /\ n.air = air /\ n.kind = req[r].kind
          /\ n.values = req[r].values /\ n.called = req[r].called /\ n.given = req[r].given
      BY <1>1, <2>1, <2>2 DEF Reqs
    <2>5. Shape(n) /\ Fits(n)
      BY <1>1, <2>1, <2>4 DEF Shape, Fits
    <2>6. \A topic : UnderWay(n, topic) => UnderWay(req[r], topic)
      BY <1>1, <2>4 DEF UnderWay
    <2>7. doubts \subseteq doubts' /\ doubts' \subseteq Topics
      BY <1>1, <2>1 DEF TypeOK
    <2>8. ASSUME "config" \notin doubts', UnderWay(n, "config")
          PROVE  \A f \in Fields \ n.given : Filled(n.values)[f] = section[f]
      <3>1. "config" \notin doubts /\ UnderWay(req[r], "config") /\ req[r].air # "taken"
        BY <1>1, <2>6, <2>7, <2>8 DEF Shape
      <3>2. QED BY <2>4, <3>1 DEF IInv, MadeOfSection
    <2>9. n.air = "dropped" => n.kind \in doubts' \/ n.kind \notin Topics
      BY <2>1, <2>4
    <2>10. ~Taken(req[r], "config") /\ ~Taken(req[r], "owner") /\ \A topic \in Topics : ~Taken(n, topic)
      BY <1>1, <2>1, <2>4 DEF Taken
    <2>11. Moves(r, n)
      BY <1>1, <2>3, <2>4, <2>5, <2>6, <2>7, <2>8, <2>9, <2>10 DEF Moves, TypeOK, copy
    <2>12. QED BY <2>4, <2>11, RequestMoves
  <1>3. CASE Ends(r, FALSE) /\ UNCHANGED doubts
    BY <1>1, <1>3, RefusalPreserves
  <1>4. QED BY <1>2, <1>3 DEF SendAdmin

\* A purge that waits changes nothing but what it waits for.
LEMMA PurgeMoves ==
    ASSUME IInv, NEW r \in Requests, NEW n \in Reqs, req' = [req EXCEPT ![r] = n], Elsewhere,
           UNCHANGED <<copy, doubts>>, req[r].kind = "purge", n.kind = "purge",
           req[r].air \in {"taken", "dropped"}, n.air = req[r].air, n.seen = req[r].seen, Fits(n), n.pc \in {"leaving", "returning"}
    PROVE  IInv'
  <1>1. TypeOK /\ Shape(req[r]) /\ "purge" \notin Topics
    BY DEF IInv, Topics
  <1>2. Shape(n)
    BY <1>1 DEF Shape
  <1>3. Moves(r, n)
    BY <1>1, <1>2 DEF Moves, Taken, UnderWay, Topics, TypeOK, copy
  <1>4. QED BY <1>3, RequestMoves

LEMMA AcknowledgedPreserves ==
    ASSUME IInv, NEW r \in Requests, Acknowledged(r)
    PROVE  IInv'
  <1>1. /\ TypeOK /\ Shape(req[r]) /\ Fits(req[r]) /\ Doubted(req[r]) /\ req[r] \in Reqs
        /\ req[r].pc = "writing" /\ req[r].air \in {"taken", "dropped"}
        /\ Elsewhere /\ doubts' = doubts /\ Written(r)
    BY DEF IInv, TypeOK, Acknowledged, Reqs
  <1>2. /\ config' = IF req[r].kind = "config" THEN req[r].values ELSE config
        /\ name' = IF req[r].kind = "owner" THEN req[r].called ELSE name
        /\ "config" \notin doubts' => config' = IF Taken(req[r], "config") THEN req[r].values ELSE config
        /\ "owner" \notin doubts' => name' = IF Taken(req[r], "owner") THEN req[r].called ELSE name
    BY <1>1 DEF Written, Taken, Doubted, Topics
  <1>3. CASE req[r].kind = "purge"
    <2>1. PICK n : n = [req[r] EXCEPT !.pc = "leaving"]
      OBVIOUS
    <2>2. req' = [req EXCEPT ![r] = n]
      BY <1>1, <1>3, <2>1 DEF TypeOK, Written
    <2>3. /\ n \in Reqs /\ n.pc = "leaving" /\ n.air = req[r].air /\ n.kind = "purge"
          /\ n.seen = req[r].seen
      BY <1>1, <1>3, <2>1 DEF Reqs
    <2>4. Fits(n) /\ UNCHANGED <<copy, doubts>>
      BY <1>1, <1>2, <1>3, <2>3 DEF Fits, copy
    <2>5. QED BY <1>1, <1>3, <2>2, <2>3, <2>4, PurgeMoves
  <1>4. CASE req[r].kind # "purge"
    <2>1. PICK ok \in BOOLEAN : ok = (req[r].kind # "query" /\ ~req[r].role)
      OBVIOUS
    <2>2. Ends(r, ok)
      BY <1>1, <1>4, <2>1 DEF Written
    <2>3. config' \in Sections /\ name' \in Names \cup {Null}
      BY <1>1, <1>2 DEF TypeOK, Reqs
    <2>4. doubts \subseteq doubts' /\ doubts' \subseteq Topics /\ req[r].air # "sent"
      BY <1>1 DEF TypeOK
    <2>5. QED BY <1>1, <1>2, <2>2, <2>3, <2>4, RequestEnds
  <1>5. QED BY <1>3, <1>4

LEMMA WriteTimeoutPreserves ==
    ASSUME IInv, NEW r \in Requests, WriteTimeout(r)
    PROVE  IInv'
  <1>1. /\ TypeOK /\ req[r].pc = "writing" /\ Ends(r, FALSE) /\ Elsewhere
        /\ doubts' = doubts \cup (Topics \cap {req[r].kind})
        /\ config' = config /\ name' = name
    BY DEF IInv, WriteTimeout, copy
  <1>2. /\ "config" \notin doubts' => ~Taken(req[r], "config")
        /\ "owner" \notin doubts' => ~Taken(req[r], "owner")
    BY <1>1 DEF Taken, Topics
  <1>3. config' \in Sections /\ name' \in Names \cup {Null}
        /\ doubts \subseteq doubts' /\ doubts' \subseteq Topics
    BY <1>1 DEF TypeOK
  <1>4. req[r].air = "sent" /\ req[r].kind \in Topics => req[r].pc = "writing" /\ req[r].kind \in doubts'
    BY <1>1
  <1>5. QED BY <1>1, <1>2, <1>3, <1>4, RequestEnds

LEMMA PurgePollsPreserves ==
    ASSUME IInv, NEW r \in Requests, PurgePolls(r)
    PROVE  IInv'
  <1>1. /\ TypeOK /\ Shape(req[r]) /\ req[r] \in Reqs /\ req[r].pc \in {"leaving", "returning"}
        /\ Elsewhere /\ UNCHANGED <<copy, doubts>>
    BY DEF IInv, TypeOK, PurgePolls, Reqs
  <1>2. CASE \E ok \in BOOLEAN : Ends(r, ok)
    BY <1>1, <1>2, RefusalPreserves
  <1>3. CASE state # "READY" /\ req' = [req EXCEPT ![r].pc = "returning", ![r].overdue = FALSE]
    <2>1. PICK n : n = [req[r] EXCEPT !.pc = "returning", !.overdue = FALSE]
      OBVIOUS
    <2>2. req' = [req EXCEPT ![r] = n]
      BY <1>1, <1>3, <2>1 DEF TypeOK
    <2>3. /\ n \in Reqs /\ n.pc = "returning" /\ n.air = req[r].air /\ n.kind = req[r].kind
          /\ n.seen = req[r].seen
      BY <1>1, <2>1 DEF Reqs
    <2>4. Fits(n) /\ req[r].kind = "purge" /\ req[r].air \in {"taken", "dropped"}
      BY <1>1, <1>3, <2>3 DEF Fits, Shape
    <2>5. QED BY <1>1, <2>2, <2>3, <2>4, PurgeMoves
  <1>4. QED BY <1>2, <1>3 DEF PurgePolls

LEMMA DeadlinePassesPreserves ==
    ASSUME IInv, NEW r \in Requests, DeadlinePasses(r)
    PROVE  IInv'
  <1>1. /\ TypeOK /\ Shape(req[r]) /\ Fits(req[r]) /\ req[r] \in Reqs
        /\ req[r].pc \in {"leaving", "returning"} /\ Elsewhere /\ UNCHANGED <<copy, doubts>>
    BY DEF IInv, TypeOK, DeadlinePasses, Reqs
  <1>2. PICK n : n = [req[r] EXCEPT !.overdue = TRUE]
    OBVIOUS
  <1>3. req' = [req EXCEPT ![r] = n]
    BY <1>1, <1>2 DEF TypeOK, DeadlinePasses
  <1>4. /\ n \in Reqs /\ n.pc = req[r].pc /\ n.air = req[r].air /\ n.kind = req[r].kind
        /\ n.seen = req[r].seen
    BY <1>1, <1>2 DEF Reqs
  <1>5. Fits(n) /\ req[r].kind = "purge" /\ req[r].air \in {"taken", "dropped"}
    BY <1>1, <1>4 DEF Fits, Shape
  <1>6. QED BY <1>1, <1>3, <1>4, <1>5, PurgeMoves

LEMMA RequestStepPreserves ==
    ASSUME IInv, NEW r \in Requests, RequestStep(r)
    PROVE  IInv'
  <1>1. CASE WriteFails(r)
    BY <1>1, RefusalPreserves DEF WriteFails
  <1>2. QED BY <1>1, SendAdminPreserves, AcknowledgedPreserves, WriteTimeoutPreserves,
               PurgePollsPreserves, DeadlinePassesPreserves DEF RequestStep

-----------------------------------------------------------------------------
(* The radio and the connection.                                           *)

LEMMA RadioTakesPreserves ==
    ASSUME IInv, NEW r \in Requests, RadioTakes(r)
    PROVE  IInv'
  <1>1. /\ TypeOK /\ Shape(req[r]) /\ Fits(req[r])
        /\ req \in [Requests -> Reqs] /\ req[r] \in Reqs /\ req[r].air = "sent"
        /\ state' = state /\ (client' <=> client)
        /\ config' = config /\ name' = name /\ doubts' = doubts
    BY DEF IInv, TypeOK, RadioTakes, Reqs, copy
  <1>2. req[r].pc \in {"writing", "abandoned"}
    BY <1>1 DEF Shape, Reqs
  <1>3. PICK n : n = IF req[r].pc = "abandoned" THEN Idle
                     ELSE [req[r] EXCEPT !.air = "taken",
                             !.seen = IF req[r].kind = "purge" THEN "reset" ELSE "nothing"]
    OBVIOUS
  <1>4. req' = [req EXCEPT ![r] = n]
    BY <1>1, <1>3 DEF RadioTakes
  <1>5. /\ n \in Reqs
        /\ \/ n.pc = "idle" /\ n.kind = "none" /\ n.air = "none" /\ req[r].pc = "abandoned"
           \/ /\ n.pc = "writing" /\ req[r].pc = "writing" /\ n.air = "taken" /\ n.kind = req[r].kind
              /\ n.values = req[r].values /\ n.called = req[r].called
              /\ n.kind = "purge" => n.seen = "reset"
    <2>1. CASE req[r].pc = "abandoned"
      <3>1. Empty \in Sections
        BY SectionFacts, RequestsAssumption DEF Empty
      <3>2. QED BY <1>3, <2>1, <3>1 DEF Idle, Reqs
    <2>2. CASE req[r].pc = "writing"
      BY <1>1, <1>3, <2>2 DEF Reqs
    <2>3. QED BY <1>2, <2>1, <2>2
  <1>6. req' \in [Requests -> Reqs] /\ req'[r] = n /\ \A s \in Requests \ {r} : req'[s] = req[s]
    BY <1>1, <1>4, <1>5
  <1>7. /\ section' = IF req[r].kind = "config" THEN Filled(req[r].values) ELSE section
        /\ owner' = IF req[r].kind = "owner" THEN req[r].called ELSE owner
        /\ section' \in [Fields -> Values] /\ owner' \in Names
    <2>1. /\ section' = IF req[r].kind = "config" THEN Filled(req[r].values) ELSE section
          /\ owner' = IF req[r].kind = "owner" THEN req[r].called ELSE owner
      BY DEF RadioTakes
    <2>2. Filled(req[r].values) \in [Fields -> Values]
      BY <1>1, FilledType DEF Reqs
    <2>3. req[r].kind = "owner" => req[r].called \in Names
      BY <1>1 DEF Shape
    <2>4. QED BY <1>1, <2>1, <2>2, <2>3 DEF TypeOK
  <1>8. TypeOK'
    BY <1>1, <1>6, <1>7 DEF TypeOK, RadioTakes, Reqs
  <1>9. (\A s \in Requests : Shape(req[s]) /\ Fits(req[s]) /\ Doubted(req[s]))'
    <2>1. SUFFICES ASSUME NEW s \in Requests PROVE (Shape(req[s]) /\ Fits(req[s]) /\ Doubted(req[s]))'
      OBVIOUS
    <2>2. Shape(req[s]) /\ Fits(req[s]) /\ Doubted(req[s])
      BY DEF IInv
    <2>3. CASE s = r
      <3>1. Shape(n) /\ Fits(n)
        BY <1>1, <1>5 DEF Shape, Fits
      <3>2. n.air # "dropped"
        BY <1>5
      <3>3. QED BY <1>1, <1>6, <2>3, <3>1, <3>2 DEF Shape, Fits, Doubted
    <2>4. CASE s # r
      BY <1>1, <1>6, <2>2, <2>4 DEF Shape, Fits, Doubted
    <2>5. QED BY <2>3, <2>4
  \* Of the topic it writes, in no doubt, no other write is under way.
  <1>10. ASSUME NEW topic \in Topics \ doubts
         PROVE  /\ \A s \in Requests : req[s].pc = "abandoned" => req[s].kind # topic
                /\ \A q, s \in Requests : UnderWay(req[q], topic) /\ UnderWay(req[s], topic) => q = s
    BY DEF IInv, OneWriter
  <1>11. ASSUME NEW topic \in Topics \ doubts, req[r].kind = topic
         PROVE  /\ Taken(n, topic) /\ n.values = req[r].values /\ n.called = req[r].called
                /\ \A s \in Requests \ {r} : ~UnderWay(req[s], topic)
    <2>1. req[r].pc = "writing"
      BY <1>2, <1>10, <1>11
    <2>2. UnderWay(req[r], topic)
      BY <1>11, <2>1 DEF UnderWay
    <2>3. QED BY <1>5, <1>10, <1>11, <2>1, <2>2 DEF Taken
  <1>12. ASSUME NEW topic \in Topics, req[r].kind # topic
         PROVE  ~UnderWay(n, topic) /\ ~UnderWay(req[r], topic)
    BY <1>5, <1>12 DEF UnderWay, Topics
  <1>13. \A q, topic : Taken(q, topic) => UnderWay(q, topic)
    BY DEF Taken, UnderWay
  <1>14. OneWriter'
    <2>1. SUFFICES ASSUME NEW topic \in Topics \ doubts
                   PROVE  /\ \A s \in Requests : req'[s].pc = "abandoned" => req'[s].kind # topic
                          /\ \A q, s \in Requests :
                               UnderWay(req[q], topic)' /\ UnderWay(req[s], topic)' => q = s
      BY <1>1 DEF OneWriter
    <2>2. \A s \in Requests : req'[s].pc = "abandoned" => req'[s].kind # topic
      BY <1>5, <1>6, <1>10
    <2>3. \A s \in Requests : UnderWay(req[s], topic)' => UnderWay(req[s], topic)
      BY <1>5, <1>6 DEF UnderWay, Topics
    <2>4. QED BY <1>10, <2>2, <2>3
  <1>15. ConfigFollows'
    <2>1. SUFFICES ASSUME "config" \in Topics \ doubts
                   PROVE  /\ \A s \in Requests : Taken(req[s], "config")' => Filled(req'[s].values) = section'
                          /\ (\A s \in Requests : ~Taken(req[s], "config")') => Filled(config) = section'
      BY <1>1 DEF ConfigFollows, Topics
    <2>2. /\ \A s \in Requests : Taken(req[s], "config") => Filled(req[s].values) = section
          /\ (\A s \in Requests : ~Taken(req[s], "config")) => Filled(config) = section
      BY <2>1 DEF IInv, ConfigFollows
    <2>3. /\ Taken(req[r], "config")' <=> Taken(n, "config")
          /\ \A s \in Requests \ {r} : Taken(req[s], "config")' <=> Taken(req[s], "config")
      BY <1>6 DEF Taken
    <2>4. CASE req[r].kind = "config"
      BY <1>6, <1>7, <1>11, <1>13, <2>1, <2>3, <2>4
    <2>5. CASE req[r].kind # "config"
      <3>1. ~Taken(n, "config") /\ ~Taken(req[r], "config") /\ section' = section
        BY <1>7, <1>12, <1>13, <2>1, <2>5
      <3>2. QED BY <1>6, <2>2, <2>3, <3>1
    <2>6. QED BY <2>4, <2>5
  <1>16. OwnerFollows'
    <2>1. SUFFICES ASSUME "owner" \in Topics \ doubts
                   PROVE  /\ \A s \in Requests : Taken(req[s], "owner")' => req'[s].called = owner'
                          /\ (\A s \in Requests : ~Taken(req[s], "owner")') => name = owner'
      BY <1>1 DEF OwnerFollows, Topics
    <2>2. /\ \A s \in Requests : Taken(req[s], "owner") => req[s].called = owner
          /\ (\A s \in Requests : ~Taken(req[s], "owner")) => name = owner
      BY <2>1 DEF IInv, OwnerFollows
    <2>3. /\ Taken(req[r], "owner")' <=> Taken(n, "owner")
          /\ \A s \in Requests \ {r} : Taken(req[s], "owner")' <=> Taken(req[s], "owner")
      BY <1>6 DEF Taken
    <2>4. CASE req[r].kind = "owner"
      BY <1>6, <1>7, <1>11, <1>13, <2>1, <2>3, <2>4
    <2>5. CASE req[r].kind # "owner"
      <3>1. ~Taken(n, "owner") /\ ~Taken(req[r], "owner") /\ owner' = owner
        BY <1>7, <1>12, <1>13, <2>1, <2>5
      <3>2. QED BY <1>6, <2>2, <2>3, <3>1
    <2>6. QED BY <2>4, <2>5
  <1>17. MadeOfSection'
    <2>1. SUFFICES ASSUME "config" \in Topics \ doubts, NEW s \in Requests,
                          UnderWay(req[s], "config")', req'[s].air # "taken",
                          NEW f \in Fields \ req'[s].given
                   PROVE  Filled(req'[s].values)[f] = section'[f]
      BY <1>1 DEF MadeOfSection, Topics
    <2>2. s # r
      <3>1. UnderWay(req[r], "config")' => UnderWay(n, "config")
        BY <1>6 DEF UnderWay
      <3>2. UnderWay(n, "config") => n.air = "taken"
        BY <1>5 DEF UnderWay
      <3>3. QED BY <1>6, <2>1, <3>1, <3>2
    <2>3. req'[s] = req[s]
      BY <1>6, <2>2
    <2>4. UnderWay(req[s], "config")
      BY <2>1, <2>3 DEF UnderWay
    <2>5. section' = section
      BY <1>7, <1>11, <2>1, <2>2, <2>4
    <2>6. Filled(req[s].values)[f] = section[f]
      BY <2>1, <2>3, <2>4 DEF IInv, MadeOfSection
    <2>7. QED BY <2>3, <2>5, <2>6
  <1>18. QED BY <1>8, <1>9, <1>14, <1>15, <1>16, <1>17 DEF IInv

\* What may change while the requests stay as they are.
LEMMA RequestsStay ==
    ASSUME IInv, TypeOK', req' = req, \A r \in Requests : Fits(req[r])' /\ Doubted(req[r])',
           \A topic \in Topics \ doubts' : topic \in Topics \ doubts
              \/ \A r \in Requests : req[r].pc # "abandoned" /\ ~UnderWay(req[r], topic),
           "config" \notin doubts' =>
              \/ "config" \notin doubts /\ config' = config /\ section' = section
              \/ (\A r \in Requests : ~UnderWay(req[r], "config")) /\ Filled(config') = section',
           "owner" \notin doubts' =>
              \/ "owner" \notin doubts /\ name' = name /\ owner' = owner
              \/ (\A r \in Requests : ~UnderWay(req[r], "owner")) /\ name' = owner'
    PROVE  IInv'
  <1>1. \A q, topic : Taken(q, topic) => UnderWay(q, topic)
    BY DEF Taken, UnderWay
  <1>2. (\A r \in Requests : Shape(req[r]) /\ Fits(req[r]) /\ Doubted(req[r]))'
    BY DEF IInv, Shape
  <1>3. OneWriter'
    BY DEF IInv, OneWriter, UnderWay
  <1>4. ConfigFollows'
    <2>1. SUFFICES ASSUME "config" \notin doubts'
                   PROVE  /\ \A r \in Requests : Taken(req[r], "config") => Filled(req[r].values) = section'
                          /\ (\A r \in Requests : ~Taken(req[r], "config")) => Filled(config') = section'
      BY DEF ConfigFollows, Taken
    <2>2. CASE "config" \notin doubts /\ config' = config /\ section' = section
      BY <2>2 DEF IInv, ConfigFollows
    <2>3. CASE (\A r \in Requests : ~UnderWay(req[r], "config")) /\ Filled(config') = section'
      BY <1>1, <2>3
    <2>4. QED BY <2>1, <2>2, <2>3
  <1>5. OwnerFollows'
    <2>1. SUFFICES ASSUME "owner" \notin doubts'
                   PROVE  /\ \A r \in Requests : Taken(req[r], "owner") => req[r].called = owner'
                          /\ (\A r \in Requests : ~Taken(req[r], "owner")) => name' = owner'
      BY DEF OwnerFollows, Taken
    <2>2. CASE "owner" \notin doubts /\ name' = name /\ owner' = owner
      BY <2>2 DEF IInv, OwnerFollows
    <2>3. CASE (\A r \in Requests : ~UnderWay(req[r], "owner")) /\ name' = owner'
      BY <1>1, <2>3
    <2>4. QED BY <2>1, <2>2, <2>3
  <1>6. MadeOfSection'
    <2>1. SUFFICES ASSUME "config" \notin doubts', NEW r \in Requests,
                          UnderWay(req[r], "config"), req[r].air # "taken",
                          NEW f \in Fields \ req[r].given
                   PROVE  Filled(req[r].values)[f] = section'[f]
      BY DEF MadeOfSection, UnderWay
    <2>2. "config" \notin doubts /\ section' = section
      BY <2>1
    <2>3. QED BY <2>1, <2>2 DEF IInv, MadeOfSection
  <1>7. QED BY <1>2, <1>3, <1>4, <1>5, <1>6 DEF IInv

LEMMA OthersWritePreserves ==
    ASSUME IInv, OthersWrite
    PROVE  IInv'
  <1>1. /\ TypeOK /\ req' = req /\ state' = state /\ (client' <=> client)
        /\ config' = config /\ name' = name
        /\ doubts' = doubts \cup {writes} /\ writes \in Topics
    BY DEF IInv, TypeOK, OthersWrite, copy
  <1>2. \/ writes = "config" /\ owner' = owner /\ section' \in [Fields -> Values]
        \/ writes = "owner" /\ section' = section /\ owner' \in Names
    BY DEF OthersWrite
  <1>3. TypeOK'
    BY <1>1, <1>2 DEF TypeOK, OthersWrite
  <1>4. \A r \in Requests : Fits(req[r])' /\ Doubted(req[r])'
    BY <1>1 DEF IInv, Fits, Doubted
  <1>5. /\ "config" \notin doubts' => "config" \notin doubts /\ section' = section
        /\ "owner" \notin doubts' => "owner" \notin doubts /\ owner' = owner
    BY <1>1, <1>2
  <1>6. \A topic \in Topics \ doubts' : topic \in Topics \ doubts
    BY <1>1
  <1>7. QED BY <1>1, <1>3, <1>4, <1>5, <1>6, RequestsStay

LEMMA DeviceStopsPreserves ==
    ASSUME IInv, DeviceStops
    PROVE  IInv'
  <1>1. /\ TypeOK /\ req' = req /\ state' = "AWAY" /\ ~client /\ config' = config /\ section' = section
        /\ name' = Null /\ doubts' = doubts \cup {"owner"} /\ own' = FALSE
    BY DEF IInv, DeviceStops, radio
  <1>2. TypeOK'
    BY <1>1 DEF TypeOK, DeviceStops, radio, Topics
  <1>3. \A r \in Requests : Fits(req[r])' /\ Doubted(req[r])'
    BY <1>1 DEF IInv, Fits, Doubted
  <1>4. \A topic \in Topics \ doubts' : topic \in Topics \ doubts
    BY <1>1
  <1>5. QED BY <1>1, <1>2, <1>3, <1>4, RequestsStay

LEMMA SyncBeginsPreserves ==
    ASSUME IInv, SyncBegins
    PROVE  IInv'
  <1>1. /\ TypeOK /\ state = "AWAY" /\ state' = "SYNCING" /\ req' = req /\ doubts' = doubts
        /\ config' = config /\ name' = name /\ section' = section /\ owner' = owner
        /\ \A r \in Requests : req[r].pc \notin {"sending", "writing"}
    BY DEF IInv, SyncBegins, copy, radio
  <1>2. todo' \in Seq({"my_info", "node_info", "config"})
    <2>1. mode \in {"full", "config_only", "nodes_only"} /\ todo' \in Dumps(mode)
      BY <1>1, RequestsAssumption DEF TypeOK, SyncBegins
    <2>2. \A seq \in Dumps(mode) :
            seq \in {<<"my_info", "node_info", "config">>, <<"my_info", "config">>,
                     <<"node_info">>, <<"my_info", "node_info">>}
      <3>1. CASE mode = "full"
        BY <3>1, Zenon DEF Dumps
      <3>2. CASE mode = "config_only"
        BY <3>2, Zenon DEF Dumps
      <3>3. CASE mode = "nodes_only"
        BY <3>3, Zenon DEF Dumps
      <3>4. QED BY <2>1, <3>1, <3>2, <3>3
    <2>3. <<"my_info", "node_info", "config">> \in Seq({"my_info", "node_info", "config"})
      OBVIOUS
    <2>4. <<"my_info", "config">> \in Seq({"my_info", "node_info", "config"})
      OBVIOUS
    <2>5. <<"my_info", "node_info">> \in Seq({"my_info", "node_info", "config"})
      OBVIOUS
    <2>6. <<"node_info">> \in Seq({"my_info", "node_info", "config"})
      OBVIOUS
    <2>7. QED BY <2>1, <2>2, <2>3, <2>4, <2>5, <2>6
  <1>3. TypeOK'
    BY <1>1, <1>2 DEF TypeOK, SyncBegins
  <1>4. \A r \in Requests : Fits(req[r])' /\ Doubted(req[r])'
    BY <1>1 DEF IInv, Fits, Doubted
  <1>5. QED BY <1>1, <1>3, <1>4, RequestsStay

\* In a sync no request has a write under way.
LEMMA SyncingFacts ==
    ASSUME IInv, state = "SYNCING"
    PROVE  \A r \in Requests : req[r].pc \notin {"sending", "writing", "abandoned"}
  BY DEF IInv, Fits

LEMMA DecodePreserves ==
    ASSUME IInv, Decode
    PROVE  IInv'
  <1>1. /\ TypeOK /\ state = "SYNCING" /\ state' = state /\ req' = req /\ client' = client
        /\ section' = section /\ owner' = owner /\ mode' = mode /\ writes' = writes
        /\ todo' = Tail(todo) /\ todo # <<>>
    BY DEF IInv, Decode, radio
  <1>2. \A r \in Requests : \A topic : req[r].pc # "abandoned" /\ ~UnderWay(req[r], topic)
    BY <1>1, SyncingFacts DEF UnderWay
  <1>3. Printed(section) \in Sections /\ Filled(Printed(section)) = section
    BY <1>1, PrintedFacts DEF TypeOK
  <1>4. /\ \/ config' = config /\ ("config" \notin doubts' => "config" \notin doubts)
           \/ config' = Printed(section)
        /\ \/ name' = name /\ ("owner" \notin doubts' => "owner" \notin doubts)
           \/ name' = owner
        /\ doubts' \subseteq doubts /\ own' \in BOOLEAN
    <2>1. CASE Head(todo) = "my_info"
      BY <1>1, <2>1 DEF Decode, copy, TypeOK
    <2>2. CASE Head(todo) = "node_info"
      BY <1>1, <2>2 DEF Decode, copy, TypeOK
    <2>3. CASE Head(todo) = "config"
      BY <1>1, <2>3 DEF Decode, copy, TypeOK
    <2>4. QED BY <2>1, <2>2, <2>3 DEF Decode
  <1>5. todo' \in Seq({"my_info", "node_info", "config"})
    BY <1>1 DEF TypeOK
  <1>6. config' \in Sections /\ name' \in Names \cup {Null} /\ doubts' \subseteq Topics
    BY <1>1, <1>3, <1>4 DEF TypeOK
  <1>7. TypeOK'
    BY <1>1, <1>4, <1>5, <1>6 DEF TypeOK
  <1>8. \A r \in Requests : Fits(req[r])' /\ Doubted(req[r])'
    BY <1>1, SyncingFacts DEF IInv, Fits, Doubted
  <1>9. /\ "config" \notin doubts' =>
             \/ "config" \notin doubts /\ config' = config /\ section' = section
             \/ (\A r \in Requests : ~UnderWay(req[r], "config")) /\ Filled(config') = section'
        /\ "owner" \notin doubts' =>
             \/ "owner" \notin doubts /\ name' = name /\ owner' = owner
             \/ (\A r \in Requests : ~UnderWay(req[r], "owner")) /\ name' = owner'
    BY <1>1, <1>2, <1>3, <1>4
  <1>10. QED BY <1>1, <1>2, <1>7, <1>8, <1>9, RequestsStay

LEMMA SyncCompletePreserves ==
    ASSUME IInv, SyncComplete
    PROVE  IInv'
  <1>1. /\ TypeOK /\ state = "SYNCING" /\ state' = "READY" /\ doubts' = doubts
        /\ config' = config /\ name' = name /\ section' = section /\ owner' = owner
        /\ req \in [Requests -> Reqs]
    BY DEF IInv, TypeOK, SyncComplete, copy, radio, Reqs
  <1>2. \A r \in Requests : req[r].pc \notin {"sending", "writing", "abandoned"}
    BY <1>1, SyncingFacts
  <1>3. ASSUME NEW r \in Requests
        PROVE  /\ req'[r] \in Reqs /\ req'[r].pc = req[r].pc /\ req'[r].kind = req[r].kind
               /\ req'[r].air = req[r].air /\ req'[r].called = req[r].called
               /\ req'[r].seen = IF req[r].seen = "reset" THEN "synced" ELSE req[r].seen
    <2>1. req[r] \in Reqs
      BY <1>1
    <2>2. PICK n : n = [req[r] EXCEPT !.seen = "synced"]
      OBVIOUS
    <2>3. /\ n \in Reqs /\ n.pc = req[r].pc /\ n.kind = req[r].kind /\ n.air = req[r].air
          /\ n.called = req[r].called /\ n.seen = "synced"
      BY <2>1, <2>2 DEF Reqs
    <2>4. req'[r] = IF req[r].seen = "reset" THEN n ELSE req[r]
      BY <2>2 DEF SyncComplete
    <2>5. QED BY <2>1, <2>3, <2>4
  <1>4. req' \in [Requests -> Reqs]
    BY <1>3 DEF SyncComplete
  <1>5. TypeOK'
    BY <1>1, <1>4 DEF TypeOK, SyncComplete, Reqs
  <1>6. (\A r \in Requests : Shape(req[r]) /\ Fits(req[r]) /\ Doubted(req[r]))'
    <2>1. SUFFICES ASSUME NEW r \in Requests PROVE (Shape(req[r]) /\ Fits(req[r]) /\ Doubted(req[r]))'
      OBVIOUS
    <2>2. Shape(req[r]) /\ Fits(req[r]) /\ Doubted(req[r])
      BY DEF IInv
    <2>3. Shape(req[r])'
      BY <1>2, <1>3, <2>2 DEF Shape
    <2>4. req'[r].pc = "returning" => req'[r].seen = "synced" \/ req'[r].air = "dropped"
      BY <1>3, <2>2 DEF Shape
    <2>5. Fits(req[r])' /\ Doubted(req[r])'
      BY <1>1, <1>2, <1>3, <2>4 DEF Fits, Doubted
    <2>6. QED BY <2>3, <2>5
  <1>7. \A r \in Requests : \A topic : ~UnderWay(req[r], topic) /\ ~UnderWay(req[r], topic)'
                                   /\ ~Taken(req[r], topic) /\ ~Taken(req[r], topic)'
    BY <1>2, <1>3 DEF UnderWay, Taken
  <1>8. OneWriter' /\ MadeOfSection'
    BY <1>2, <1>3, <1>7 DEF OneWriter, MadeOfSection
  <1>9. ConfigFollows' /\ OwnerFollows'
    BY <1>1, <1>7 DEF IInv, ConfigFollows, OwnerFollows
  <1>10. QED BY <1>5, <1>6, <1>8, <1>9 DEF IInv

LEMMA LinkGonePreserves ==
    ASSUME IInv, LinkGone, state' = "AWAY" \/ state' = state
    PROVE  IInv'
  <1>1. /\ TypeOK /\ client' = FALSE /\ todo' = <<>> /\ mode' = mode /\ writes' = writes /\ own' = own
        /\ config' = config /\ name' = name /\ section' = section /\ owner' = owner
        /\ req \in [Requests -> Reqs] /\ req' = [r \in Requests |-> Cut(req[r])]
    BY DEF IInv, TypeOK, LinkGone, copy, radio, Reqs
  <1>2. /\ doubts \subseteq doubts' /\ doubts' \subseteq Topics
        /\ \A topic \in Topics \ doubts' : \A r \in Requests : ~Taken(req[r], topic)
    BY <1>1 DEF TypeOK, LinkGone, Taken
  <1>3. ASSUME NEW r \in Requests
        PROVE  \/ /\ req'[r] = req[r] /\ req[r].pc # "abandoned"
                  /\ req[r].pc = "writing" => req[r].air = "dropped"
               \/ /\ req'[r] \in Reqs /\ req'[r].pc \in {"idle", "broken"}
                  /\ req'[r].kind = "none" /\ req'[r].air = "none"
    <2>1. Idle \in Reqs /\ Idle.pc = "idle" /\ Idle.kind = "none" /\ Idle.air = "none"
      BY SectionFacts, RequestsAssumption DEF Idle, Empty, Reqs
    <2>2. PICK broken : broken = [Idle EXCEPT !.pc = "broken"]
      OBVIOUS
    <2>3. broken \in Reqs /\ broken.pc = "broken" /\ broken.kind = "none" /\ broken.air = "none"
      BY <2>1, <2>2 DEF Reqs
    <2>4. req'[r] = Cut(req[r])
      BY <1>1
    <2>5. CASE req[r].pc = "writing" /\ req[r].air # "dropped"
      BY <2>2, <2>3, <2>4, <2>5 DEF Cut
    <2>6. CASE req[r].pc = "abandoned"
      BY <2>1, <2>4, <2>6 DEF Cut
    <2>7. CASE req[r].pc # "abandoned" /\ ~(req[r].pc = "writing" /\ req[r].air # "dropped")
      <3>1. Cut(req[r]) = req[r]
        BY <2>7, Zenon DEF Cut
      <3>2. QED BY <2>4, <2>7, <3>1
    <2>8. QED BY <2>5, <2>6, <2>7
  <1>4. req' \in [Requests -> Reqs]
    BY <1>1, <1>3
  <1>5. TypeOK'
    <2>1. state' \in {"READY", "SYNCING", "AWAY"} /\ todo' \in Seq({"my_info", "node_info", "config"})
      BY <1>1 DEF TypeOK
    <2>2. QED BY <1>1, <1>2, <1>4, <2>1 DEF TypeOK, Reqs
  <1>6. (\A r \in Requests : Shape(req[r]) /\ Fits(req[r]) /\ Doubted(req[r]))'
    BY <1>1, <1>2, <1>3 DEF IInv, Shape, Fits, Doubted
  <1>7. \A r \in Requests : \A topic :
          /\ ~Taken(req[r], topic)' /\ req'[r].pc # "abandoned"
          /\ topic \in Topics /\ UnderWay(req[r], topic)' => UnderWay(req[r], topic) /\ req'[r] = req[r]
    BY <1>3 DEF Taken, UnderWay, Topics
  <1>8. OneWriter'
    BY <1>2, <1>7 DEF IInv, OneWriter
  <1>9. ConfigFollows' /\ OwnerFollows'
    BY <1>1, <1>2, <1>7 DEF IInv, ConfigFollows, OwnerFollows, Topics
  <1>10. MadeOfSection'
    BY <1>1, <1>2, <1>7 DEF IInv, MadeOfSection, Topics
  <1>11. QED BY <1>5, <1>6, <1>8, <1>9, <1>10 DEF IInv

LEMMA SessionEndsPreserves == ASSUME IInv, SessionEnds PROVE IInv'
  BY LinkGonePreserves DEF SessionEnds

LEMMA StopTearsDownPreserves == ASSUME IInv, StopTearsDown PROVE IInv'
  BY LinkGonePreserves DEF StopTearsDown

-----------------------------------------------------------------------------
(* The theorems.                                                           *)

LEMMA InitHolds == ASSUME Init PROVE IInv
  <1>1. Idle \in Reqs /\ Idle.pc = "idle" /\ Idle.kind = "none" /\ Idle.air = "none"
        /\ Empty \in Sections
    BY SectionFacts, RequestsAssumption DEF Idle, Empty, Reqs
  <1>2. \A r \in Requests : req[r] = Idle
    BY DEF Init
  <1>3. TypeOK
    <2>1. req \in [Requests -> Reqs]
      BY <1>1 DEF Init
    <2>2. todo \in Seq({"my_info", "node_info", "config"})
      BY DEF Init
    <2>3. QED BY <1>1, <2>1, <2>2 DEF Init, TypeOK, Reqs
  <1>4. \A r \in Requests : Shape(req[r]) /\ Fits(req[r]) /\ Doubted(req[r])
    BY <1>1, <1>2 DEF Shape, Fits, Doubted
  <1>5. doubts = Topics
    BY DEF Init
  <1>6. QED BY <1>3, <1>4, <1>5 DEF IInv, OneWriter, ConfigFollows, OwnerFollows, MadeOfSection, Topics

LEMMA StepPreserves == ASSUME IInv, [Next]_vars PROVE IInv'
  <1>1. CASE Next
    BY <1>1, RequestBeginsPreserves, RequestStepPreserves, RadioTakesPreserves, OthersWritePreserves,
       SessionEndsPreserves, StopTearsDownPreserves, DeviceStopsPreserves, SyncBeginsPreserves, DecodePreserves,
       SyncCompletePreserves DEF Next
  <1>2. CASE UNCHANGED vars
    <2>1. IInv' <=> IInv
      BY <1>2 DEF vars, copy, radio, IInv, TypeOK, Shape, Fits, Doubted, OneWriter,
                  ConfigFollows, OwnerFollows, MadeOfSection, UnderWay, Taken
    <2>2. QED BY <2>1
  <1>3. QED BY <1>1, <1>2

\* A copy of the radio's section or of its name is wrong only where writes
\* overlapped, were given up, dropped or others', or while one is taken and not
\* acknowledged (the requests of core/methods.py and the radio).
THEOREM CopiesFollowTheRadio == Spec => []IInv
  <1>1. Init => IInv
    BY InitHolds
  <1>2. IInv /\ [Next]_vars => IInv'
    BY StepPreserves
  <1>3. QED BY <1>1, <1>2, PTL DEF Spec

\* In READY, with no write between the radio and the copy, requests work on
\* what the radio has, its section and its owner's name alike.
THEOREM RequestsWorkOnTheTruth == Spec => []RequestsInv
  <1>1. ASSUME IInv PROVE RequestsInv
    <2>1. ASSUME NEW topic, Settled(topic) PROVE \A r \in Requests : ~Taken(req[r], topic)
      BY <2>1 DEF Settled, Taken
    <2>2. ConfigAccurate /\ OwnerAccurate
      BY <1>1, <2>1 DEF IInv, ConfigFollows, OwnerFollows, ConfigAccurate, OwnerAccurate
    <2>3. QED BY <1>1, <2>2 DEF IInv, RequestsInv
  <1>2. QED BY <1>1, CopiesFollowTheRadio, PTL

\* A body that gives some fields wipes no other: when the radio takes the
\* section set_config() has made of its copy, the others are as they were.
THEOREM SubmissionsWipeNothing == Spec => OthersKept
  <1> DEFINE Kept ==
        \A r \in Requests :
          req[r].kind = "config" /\ req[r].air = "sent" /\ req'[r].air = "taken" /\ "config" \notin doubts
              => \A f \in Fields \ req[r].given : section'[f] = section[f]
  <1>1. ASSUME IInv, [Next]_vars PROVE [Kept]_vars
    <2>1. SUFFICES ASSUME NEW r \in Requests, Next,
                          req[r].kind = "config", req[r].air = "sent", req'[r].air = "taken",
                          "config" \notin doubts, NEW f \in Fields \ req[r].given
                   PROVE  section'[f] = section[f]
      BY <1>1
    <2>2. section' = section \/ \E s \in Requests : RadioTakes(s)
      BY <2>1 DEF Next, RequestBegins, RequestStep, SendAdmin, Acknowledged, WriteTimeout, WriteFails,
                  PurgePolls, DeadlinePasses, Elsewhere, radio, SessionEnds, StopTearsDown, LinkGone,
                  DeviceStops, SyncBegins, Decode, SyncComplete, OthersWrite
    <2>3. CASE \E s \in Requests : RadioTakes(s)
      <3>1. PICK s \in Requests : RadioTakes(s)
        BY <2>3
      <3>2. req \in [Requests -> Reqs] /\ Shape(req[r])
        BY <1>1 DEF IInv, TypeOK, Reqs
      <3>3. s = r
        BY <2>1, <3>1, <3>2 DEF RadioTakes
      <3>4. req[r].pc # "abandoned"
        BY <2>1, <3>1, <3>2, <3>3 DEF RadioTakes, Idle
      <3>5. req[r].pc = "writing"
        BY <2>1, <3>2, <3>4 DEF Shape, Reqs
      <3>6. section' = Filled(req[r].values)
        BY <2>1, <3>1, <3>3 DEF RadioTakes
      <3>7. QED BY <1>1, <2>1, <3>5, <3>6 DEF IInv, MadeOfSection, UnderWay
    <2>4. QED BY <2>2, <2>3
  <1>2. QED BY <1>1, CopiesFollowTheRadio, PTL DEF Spec, OthersKept

\* A step of one request is none of another.
LEMMA OthersUntouched ==
    ASSUME IInv, NEW r \in Requests, NEW s \in Requests \ {r},
           RequestBegins(s) \/ RequestStep(s) \/ RadioTakes(s)
    PROVE  req'[r] = req[r]
  <1>1. req \in [Requests -> Reqs]
    BY DEF IInv, TypeOK, Reqs
  <1>2. ASSUME NEW job, Begins(s, job) PROVE req'[r] = req[r]
    BY <1>1, <1>2 DEF Begins, Ends
  <1>3. ASSUME NEW ok, Ends(s, ok) PROVE req'[r] = req[r]
    BY <1>1, <1>3 DEF Ends
  <1>4. CASE RequestBegins(s)
    BY <1>2, <1>3, <1>4 DEF RequestBegins, SetConfig, SetRebootSection, SetOwner, SetChannel,
                            SetPosition, GetChannelLive, Purge
  <1>5. CASE RequestStep(s)
    BY <1>1, <1>3, <1>5 DEF RequestStep, SendAdmin, SendToRadio, Acknowledged, Written, WriteTimeout,
                            WriteFails, PurgePolls, DeadlinePasses
  <1>6. CASE RadioTakes(s)
    BY <1>1, <1>6 DEF RadioTakes
  <1>7. QED BY <1>4, <1>5, <1>6

\* Where an answer of ok comes from: a write that has returned, or a purge
\* that has seen READY end and come back.
LEMMA AnswersFacts ==
    ASSUME IInv, Next, NEW r \in Requests, NEW kind \in Kinds, Answers(r, kind)
    PROVE  /\ req[r].air \in {"taken", "dropped"}
           /\ kind = "purge" => req[r].seen = "synced" \/ req[r].air = "dropped"
  <1>1. /\ req \in [Requests -> Reqs] /\ req[r] \in Reqs /\ Shape(req[r]) /\ Fits(req[r])
        /\ req[r].kind = kind /\ req'[r].kind # req[r].kind /\ req'[r].ok = TRUE
    BY DEF IInv, TypeOK, Reqs, Answers
  <1>2. req[r].kind # "none"
    BY <1>1 DEF Kinds, Topics
  <1>3. ~Ends(r, FALSE)
    <2>1. SUFFICES ASSUME Ends(r, FALSE) PROVE FALSE
      OBVIOUS
    <2>2. CASE req[r].air = "sent" /\ req[r].kind \in Topics
      BY <1>1, <2>1, <2>2 DEF Ends
    <2>3. CASE ~(req[r].air = "sent" /\ req[r].kind \in Topics)
      BY <1>1, <2>1, <2>3 DEF Ends, Idle
    <2>4. QED BY <2>2, <2>3
  <1>4. req'[r] # req[r]
    BY <1>1
  <1>5. ~RequestBegins(r)
    BY <1>1, <1>2 DEF RequestBegins, Shape
  <1>6. CASE RequestStep(r)
    <2>1. CASE SendAdmin(r)
      <3>1. PICK air \in {"sent", "dropped"} : req' = [req EXCEPT ![r].pc = "writing", ![r].air = air]
        BY <1>3, <2>1 DEF SendAdmin, SendToRadio
      <3>2. req'[r].kind = req[r].kind
        BY <1>1, <3>1
      <3>3. QED BY <1>1, <3>2
    <2>2. CASE Acknowledged(r)
      <3>1. req[r].kind # "purge"
        <4>1. SUFFICES ASSUME req[r].kind = "purge" PROVE FALSE
          OBVIOUS
        <4>2. req' = [req EXCEPT ![r].pc = "leaving"]
          BY <2>2, <4>1 DEF Acknowledged, Written
        <4>3. req'[r].kind = req[r].kind
          BY <1>1, <4>2
        <4>4. QED BY <1>1, <4>3
      <3>2. QED BY <1>1, <2>2, <3>1 DEF Acknowledged
    <2>3. CASE WriteTimeout(r) \/ WriteFails(r)
      BY <1>3, <2>3 DEF WriteTimeout, WriteFails
    <2>4. CASE PurgePolls(r)
      <3>1. req[r].pc = "returning" /\ state = "READY"
        <4>1. SUFFICES ASSUME ~(req[r].pc = "returning" /\ state = "READY") PROVE FALSE
          OBVIOUS
        <4>2. req' = [req EXCEPT ![r].pc = "returning", ![r].overdue = FALSE]
          BY <1>3, <2>4, <4>1 DEF PurgePolls
        <4>3. req'[r].kind = req[r].kind
          BY <1>1, <4>2
        <4>4. QED BY <1>1, <4>3
      <3>2. QED BY <1>1, <3>1 DEF Shape, Fits
    <2>5. CASE DeadlinePasses(r)
      BY <1>1, <2>5 DEF DeadlinePasses
    <2>6. QED BY <1>6, <2>1, <2>2, <2>3, <2>4, <2>5 DEF RequestStep
  <1>7. ~RadioTakes(r)
    <2>1. CASE req[r].pc = "abandoned"
      BY <1>1, <2>1 DEF RadioTakes, Idle
    <2>2. CASE req[r].pc # "abandoned"
      <3>1. PICK n : n = [req[r] EXCEPT !.air = "taken",
                            !.seen = IF req[r].kind = "purge" THEN "reset" ELSE "nothing"]
        OBVIOUS
      <3>2. n.kind = req[r].kind
        BY <1>1, <3>1 DEF Reqs
      <3>3. RadioTakes(r) => req'[r] = n
        BY <1>1, <2>2, <3>1 DEF RadioTakes
      <3>4. QED BY <1>1, <3>2, <3>3
    <2>3. QED BY <2>1, <2>2
  <1>8. \A s \in Requests \ {r} : ~(RequestBegins(s) \/ RequestStep(s) \/ RadioTakes(s))
    BY <1>4, OthersUntouched
  <1>9. ~(SessionEnds \/ StopTearsDown)
    <2>1. SUFFICES ASSUME LinkGone PROVE FALSE
      BY DEF SessionEnds, StopTearsDown
    <2>2. req'[r] = Cut(req[r])
      BY <2>1 DEF LinkGone
    <2>3. CASE req[r].pc = "writing" /\ req[r].air # "dropped"
      BY <1>1, <2>2, <2>3 DEF Cut, Idle
    <2>4. CASE req[r].pc = "abandoned"
      BY <1>1, <2>2, <2>4 DEF Cut, Idle
    <2>5. CASE req[r].pc # "abandoned" /\ ~(req[r].pc = "writing" /\ req[r].air # "dropped")
      <3>1. Cut(req[r]) = req[r]
        BY <2>5, Zenon DEF Cut
      <3>2. QED BY <1>4, <2>2, <3>1
    <2>6. QED BY <2>3, <2>4, <2>5
  <1>10. ~SyncComplete
    <2>1. PICK n : n = [req[r] EXCEPT !.seen = "synced"]
      OBVIOUS
    <2>2. n.kind = req[r].kind
      BY <1>1, <2>1 DEF Reqs
    <2>3. SyncComplete => req'[r] = n \/ req'[r] = req[r]
      BY <2>1 DEF SyncComplete
    <2>4. QED BY <1>1, <2>2, <2>3
  <1>11. ~(OthersWrite \/ DeviceStops \/ SyncBegins \/ Decode)
    BY <1>4 DEF OthersWrite, DeviceStops, SyncBegins, Decode
  <1>12. QED BY <1>5, <1>6, <1>7, <1>8, <1>9, <1>10, <1>11 DEF Next

\* A write is dropped by one request's own send_toradio().
LEMMA DroppedFacts ==
    ASSUME IInv, Next, NEW r \in Requests, req[r].air # "dropped", req'[r].air = "dropped"
    PROVE  state = "READY" /\ ~client
  <1>1. /\ req \in [Requests -> Reqs] /\ req[r] \in Reqs /\ Shape(req[r])
        /\ req'[r] # req[r]
    BY DEF IInv, TypeOK, Reqs
  <1>2. Idle.air = "none"
    BY DEF Idle
  <1>3. ASSUME NEW ok, Ends(r, ok) PROVE FALSE
    <2>1. CASE req[r].air = "sent" /\ req[r].kind \in Topics
      BY <1>1, <1>3, <2>1 DEF Ends
    <2>2. CASE ~(req[r].air = "sent" /\ req[r].kind \in Topics)
      BY <1>1, <1>2, <1>3, <2>2 DEF Ends, Idle
    <2>3. QED BY <2>1, <2>2
  <1>4. ~RequestBegins(r)
    <2>1. ASSUME NEW n, Begins(r, n), n.air = "none" PROVE FALSE
      BY <1>1, <1>3, <2>1 DEF Begins
    <2>2. ASSUME NEW kind, NEW values, NEW called, NEW given, NEW role
          PROVE  /\ Job(kind, values, called, given).air = "none"
                 /\ [Job(kind, values, called, given) EXCEPT !.role = role].air = "none"
      BY DEF Job, Idle
    <2>3. ASSUME NEW kind, NEW values, NEW called, NEW given, Begins(r, Job(kind, values, called, given))
          PROVE  FALSE
      <3>1. PICK n : n = Job(kind, values, called, given)
        OBVIOUS
      <3>2. n.air = "none" /\ Begins(r, n)
        BY <2>2, <2>3, <3>1
      <3>3. QED BY <2>1, <3>2
    <2>4. ASSUME NEW called, NEW role, SetOwner(r, called, role) PROVE FALSE
      <3>1. PICK n : n = [Job("owner", Empty, called, {}) EXCEPT !.role = role]
        OBVIOUS
      <3>2. n.air = "none" /\ (Begins(r, n) \/ Ends(r, ~role))
        BY <2>2, <2>4, <3>1 DEF SetOwner
      <3>3. QED BY <1>3, <2>1, <3>2
    <2>5. QED BY <1>3, <2>3, <2>4 DEF RequestBegins, SetConfig, SetRebootSection, SetChannel,
                                      SetPosition, GetChannelLive, Purge
  <1>5. CASE RequestStep(r)
    <2>1. CASE SendAdmin(r)
      <3>1. SendToRadio(r)
        BY <1>3, <2>1 DEF SendAdmin
      <3>2. CASE state = "READY" /\ client
        <4>1. req' = [req EXCEPT ![r].pc = "writing", ![r].air = "sent"]
          BY <3>1, <3>2 DEF SendToRadio
        <4>2. PICK n : n = [req[r] EXCEPT !.pc = "writing", !.air = "sent"]
          OBVIOUS
        <4>3. n.air = "sent" /\ req'[r] = n
          BY <1>1, <4>1, <4>2 DEF Reqs
        <4>4. QED BY <1>1, <4>3
      <3>3. CASE ~(state = "READY" /\ client)
        BY <1>3, <2>1, <3>3 DEF SendAdmin
      <3>4. QED BY <3>2, <3>3
    <2>2. CASE Acknowledged(r)
      <3>1. req[r].kind = "purge" /\ req' = [req EXCEPT ![r].pc = "leaving"]
        BY <1>3, <2>2 DEF Acknowledged, Written
      <3>2. PICK n : n = [req[r] EXCEPT !.pc = "leaving"]
        OBVIOUS
      <3>3. n.air = req[r].air /\ req'[r] = n
        BY <1>1, <3>1, <3>2 DEF Reqs
      <3>4. QED BY <1>1, <3>3
    <2>3. CASE WriteTimeout(r) \/ WriteFails(r)
      BY <1>3, <2>3 DEF WriteTimeout, WriteFails
    <2>4. CASE PurgePolls(r)
      <3>1. req' = [req EXCEPT ![r].pc = "returning", ![r].overdue = FALSE]
        BY <1>3, <2>4 DEF PurgePolls
      <3>2. PICK n : n = [req[r] EXCEPT !.pc = "returning", !.overdue = FALSE]
        OBVIOUS
      <3>3. n.air = req[r].air /\ req'[r] = n
        BY <1>1, <3>1, <3>2 DEF Reqs
      <3>4. QED BY <1>1, <3>3
    <2>5. CASE DeadlinePasses(r)
      <3>1. PICK n : n = [req[r] EXCEPT !.overdue = TRUE]
        OBVIOUS
      <3>2. n.air = req[r].air /\ req'[r] = n
        BY <1>1, <2>5, <3>1 DEF Reqs, DeadlinePasses
      <3>3. QED BY <1>1, <3>2
    <2>6. QED BY <1>5, <2>1, <2>2, <2>3, <2>4, <2>5 DEF RequestStep
  <1>6. ~RadioTakes(r)
    <2>1. PICK n : n = [req[r] EXCEPT !.air = "taken",
                          !.seen = IF req[r].kind = "purge" THEN "reset" ELSE "nothing"]
      OBVIOUS
    <2>2. n.air = "taken"
      BY <1>1, <2>1 DEF Reqs
    <2>3. RadioTakes(r) => req'[r] = n \/ req'[r] = Idle
      BY <1>1, <2>1 DEF RadioTakes
    <2>4. QED BY <1>1, <1>2, <2>2, <2>3
  <1>7. \A s \in Requests \ {r} : ~(RequestBegins(s) \/ RequestStep(s) \/ RadioTakes(s))
    BY <1>1, OthersUntouched
  <1>8. ~(SessionEnds \/ StopTearsDown)
    BY <1>1, <1>2 DEF SessionEnds, StopTearsDown, LinkGone, Cut, Idle
  <1>9. ~SyncComplete
    <2>1. PICK n : n = [req[r] EXCEPT !.seen = "synced"]
      OBVIOUS
    <2>2. n.air = req[r].air
      BY <1>1, <2>1 DEF Reqs
    <2>3. SyncComplete => req'[r] = n \/ req'[r] = req[r]
      BY <2>1 DEF SyncComplete
    <2>4. QED BY <1>1, <2>2, <2>3
  <1>10. ~(OthersWrite \/ DeviceStops \/ SyncBegins \/ Decode)
    BY <1>1 DEF OthersWrite, DeviceStops, SyncBegins, Decode
  <1>11. QED BY <1>4, <1>5, <1>6, <1>7, <1>8, <1>9, <1>10 DEF Next

\* An answer of ok is of a write that the radio has taken, but for one that
\* was dropped by send_toradio(), in READY and with the client gone: stop() is
\* tearing the session down.
THEOREM SuccessIsOfTheRadio == Spec => OnlyStopDrops
  <1> DEFINE Answered ==
        \A r \in Requests :
          /\ \A kind \in Kinds : Answers(r, kind) => req[r].air \in {"taken", "dropped"}
          /\ req[r].air # "dropped" /\ req'[r].air = "dropped" => state = "READY" /\ ~client
  <1>1. ASSUME IInv, [Next]_vars PROVE [Answered]_vars
    BY <1>1, AnswersFacts, DroppedFacts
  <1>2. QED BY <1>1, CopiesFollowTheRadio, PTL DEF Spec, OnlyStopDrops

\* purge_nodedb() answers ok only after a sync that came after the reset, or
\* when stop() dropped the reset.
THEOREM PurgeSeesItsReset == Spec => PurgeAfterReset
  <1> DEFINE Seeing == \A r \in Requests :
        Answers(r, "purge") => req[r].seen = "synced" \/ req[r].air = "dropped"
  <1>1. ASSUME IInv, [Next]_vars PROVE [Seeing]_vars
    <2>1. "purge" \in Kinds
      BY DEF Kinds
    <2>2. QED BY <1>1, <2>1, AnswersFacts
  <1>2. QED BY <1>1, CopiesFollowTheRadio, PTL DEF Spec, PurgeAfterReset

=============================================================================
