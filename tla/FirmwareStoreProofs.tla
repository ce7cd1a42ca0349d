-------------------------- MODULE FirmwareStoreProofs --------------------------
(***************************************************************************)
(* What the firmware directory promises, for any number of names, uploads, *)
(* downloads and pieces.  A file is reached under one name only; so what   *)
(* happens at one name leaves the others alone, and a name that nobody     *)
(* disturbs has what the last writer left, piece by piece.                 *)
(***************************************************************************)
EXTENDS FirmwareStore, ConfigFile, SequenceTheorems, TLAPS

Under == {"asking", "streaming", "closed"}
Open  == {"streaming", "closed"}

DownloadType ==
    [pc : {"none", "complete", "failed", "stopped"} \cup Under,
     name : Names \cup {None}, file : Files \cup {None}, done : 0..Last, sized : BOOLEAN]

\* At most the pieces of one image, each at its place.
Content ==
    {c \in Seq({None} \cup (Files \X Nat)) :
        /\ Len(c) <= Last
        /\ \A i \in 1..Len(c) : c[i] \in {None} \cup (Files \X {i})}

Types ==
    /\ dir \in [Names -> Files \cup {None}]
    /\ data \in [Files -> Content]
    /\ dl \in [Downloads -> DownloadType]
    /\ used \subseteq Uploads
    /\ pending \in Names \cup {None}
    /\ ready \in [Names -> Files \cup {None}] /\ sure \in Files \cup {None}
    /\ doubt \subseteq Names

\* A download under way has a name, one that has opened its file has a file,
\* and one that has not has written nothing.
DownloadShape ==
    \A d \in Downloads :
        /\ dl[d].pc \in Under => dl[d].name \in Names
        /\ dl[d].pc \in Open => dl[d].file \in Files
        /\ dl[d].pc = "asking" => dl[d].done = 0

\* The file f is reached from the name n: by a request, or by a task that
\* opened it under that name.
Leads(n, f) == dir[n] = f \/ \E d \in Opened(n) : dl[d].file = f

\* No file is reached under two names.
OneName ==
    \A f \in Files, m, n \in Names : Leads(m, f) /\ Leads(n, f) => m = n

\* Who has not written yet has no file.
Unused == {d \in Downloads : dl[d].pc \in {"none", "asking"}} \cup (Uploads \ used)
Fresh(f) == \A n \in Names : ~Leads(n, f)
NothingYet == \A s \in Unused : Fresh(s)

\* The first k pieces of the image of s.
Pieces(s, k) == [i \in 1..k |-> <<s, i>>]

\* The pieces that d has written to its file; the last is in the buffer until
\* the file is closed.
OnDisk(d) ==
    IF dl[d].pc = "closed" THEN Last
    ELSE IF dl[d].done = Last THEN Last - 1 ELSE dl[d].done

\* Without a doubt on n, a download that has n open is alone, and its file is
\* the one of the directory and has what it wrote, nothing else.
WriterAlone(n) ==
    n \notin doubt =>
        \A d \in Opened(n) :
            /\ Opened(n) = {d}
            /\ dir[n] = dl[d].file
            /\ data[dir[n]] = Pieces(d, OnDisk(d))

\* Without a doubt on n and nobody writing to it, there is one image.
RestsWhole(n) ==
    n \notin doubt /\ Opened(n) = {} /\ dir[n] # None =>
        \E s \in Files : data[dir[n]] = Image(s)

\* What was announced of n is there, and nobody is at it.
AnnouncedIsThere(n) ==
    ready[n] # None =>
        /\ n \notin doubt
        /\ Active(n) = {}
        /\ dir[n] # None /\ data[dir[n]] = Image(ready[n])

NameIsAsLeft(n) == WriterAlone(n) /\ RestsWhole(n) /\ AnnouncedIsThere(n)

\* The image that was announced before POST /ota is the one announced now.
SureIsReady == sure # None => pending # None /\ ready[pending] = sure

IInv ==
    /\ Types /\ DownloadShape
    /\ OneName /\ NothingYet
    /\ \A n \in Names : NameIsAsLeft(n)
    /\ SureIsReady /\ FlashedIsReady

-----------------------------------------------------------------------------
(* What is in a file.                                                      *)

LEMMA PiecesType ==
    ASSUME NEW s \in Files, NEW k \in 0..Last
    PROVE  Pieces(s, k) \in Content /\ Len(Pieces(s, k)) = k
  <1>1. Pieces(s, k) \in Seq({None} \cup (Files \X Nat))
    BY StoreAssumption DEF Pieces
  <1>2. Len(Pieces(s, k)) = k
    BY StoreAssumption, <1>1 DEF Pieces
  <1>3. QED BY <1>1, <1>2 DEF Content, Pieces

\* A piece written after those before it extends them.
LEMMA WrittenExtends ==
    ASSUME NEW s \in Files, NEW k \in 0..(Last - 1)
    PROVE  Written(Pieces(s, k), s, k + 1) = Pieces(s, k + 1)
  <1>1. Len(Pieces(s, k)) = k
    BY PiecesType, StoreAssumption
  <1>2. QED BY <1>1 DEF Written, Pieces

\* Whatever the file has become, a piece lands at its place.
LEMMA WrittenType ==
    ASSUME NEW c \in Content, NEW s \in Files, NEW i \in 1..Last
    PROVE  Written(c, s, i) \in Content
  <1> DEFINE L == IF i > Len(c) THEN i ELSE Len(c)
  <1>1. Len(c) \in Nat /\ Len(c) <= Last /\ L \in 0..Last /\ i \in Nat
    BY StoreAssumption DEF Content
  <1>2. \A j \in 1..L : Written(c, s, i)[j] \in {None} \cup (Files \X {j})
    BY <1>1 DEF Written, Content
  <1>3. Written(c, s, i) \in Seq({None} \cup (Files \X Nat))
    <2>1. Written(c, s, i) \in [1..L -> {None} \cup (Files \X Nat)]
      BY <1>1 DEF Written, Content
    <2>2. QED BY <1>1, <2>1
  <1>4. Len(Written(c, s, i)) = L
    BY <1>1, <1>3 DEF Written
  <1>5. QED BY <1>1, <1>2, <1>3, <1>4 DEF Content

\* What a write cut off leaves is a part of the image.
LEMMA PartType ==
    ASSUME NEW s \in Files, NEW k \in 0..(Last - 1)
    PROVE  SubSeq(Image(s), 1, k) = Pieces(s, k)
  <1>1. Image(s) \in Seq({s} \X Nat) /\ Len(Image(s)) = Last
    BY StoreAssumption DEF Image
  <1>2. QED BY <1>1, StoreAssumption DEF Image, Pieces

-----------------------------------------------------------------------------
(* What a step leaves alone.                                               *)

\* A step that keeps m, its tasks and its file keeps what is known of m.
LEMMA Elsewhere ==
    ASSUME Types, DownloadShape, NEW m \in Names, NameIsAsLeft(m),
           dir'[m] = dir[m], ready'[m] = ready[m], m \in doubt' <=> m \in doubt,
           \A d \in Downloads : d \in Active(m)' <=> d \in Active(m),
           \A d \in Active(m) : dl'[d] = dl[d],
           dir[m] # None => data'[dir[m]] = data[dir[m]]
    PROVE  NameIsAsLeft(m)'
  <1>1. Active(m)' = Active(m) /\ Active(m) \subseteq Downloads
    BY DEF Active
  <1>2. Opened(m)' = Opened(m) /\ Opened(m) \subseteq Active(m)
    BY <1>1 DEF Active, Opened
  <1>3. \A d \in Opened(m) : OnDisk(d)' = OnDisk(d) /\ dl'[d].file = dl[d].file
    BY <1>2 DEF OnDisk
  <1>4. WriterAlone(m)'
    <2> SUFFICES ASSUME m \notin doubt, NEW d \in Opened(m)
                 PROVE  /\ Opened(m) = {d}
                        /\ dir'[m] = dl'[d].file
                        /\ data'[dir'[m]] = Pieces(d, OnDisk(d)')
      BY <1>2 DEF WriterAlone
    <2>1. Opened(m) = {d} /\ dir[m] = dl[d].file /\ data[dir[m]] = Pieces(d, OnDisk(d))
      BY DEF NameIsAsLeft, WriterAlone
    <2>2. dir[m] # None
      BY <2>1, StoreAssumption DEF DownloadShape, Opened, Open, Files
    <2>3. QED BY <1>3, <2>1, <2>2
  <1>5. RestsWhole(m)'
    BY <1>2 DEF NameIsAsLeft, RestsWhole
  <1>6. AnnouncedIsThere(m)'
    BY <1>1 DEF NameIsAsLeft, AnnouncedIsThere
  <1>7. QED BY <1>4, <1>5, <1>6 DEF NameIsAsLeft

\* A step of one download of n keeps the tasks of the other names.
LEMMA OtherTasks ==
    ASSUME Types, NEW n \in Names, NEW d \in Downloads, NEW new,
           dl' = [dl EXCEPT ![d] = new],
           dl[d].pc \in Under => dl[d].name = n,
           new.pc \in Under => new.name = n
    PROVE  \A m \in Names \ {n} :
             /\ \A e \in Downloads : e \in Active(m)' <=> e \in Active(m)
             /\ \A e \in Active(m) : dl'[e] = dl[e]
  BY DEF Active, Types, Under

\* No file is reached under two names as long as none is reached anew.
LEMMA LeadsShrink ==
    ASSUME OneName, NothingYet, Unused' \subseteq Unused,
           \A m \in Names, f \in Files : Leads(m, f)' => Leads(m, f)
    PROVE  OneName' /\ NothingYet'
  <1>1. OneName'
    BY DEF OneName
  <1>2. Unused \subseteq Files
    BY DEF Unused, Files
  <1>3. NothingYet'
    BY <1>2 DEF NothingYet, Fresh
  <1>4. QED BY <1>1, <1>3

\* Nor when a name opens its own file, or the new one of a writer.
LEMMA LeadsGrow ==
    ASSUME OneName, NothingYet, Unused' \subseteq Unused, NEW n \in Names, NEW s \in Files,
           \A m \in Names, f \in Files : Leads(m, f)' => Leads(m, f) \/ (m = n /\ f = s),
           Leads(n, s) \/ (Fresh(s) /\ s \notin Unused')
    PROVE  OneName' /\ NothingYet'
  <1>1. OneName'
    BY DEF OneName, Fresh
  <1>2. Unused \subseteq Files
    BY DEF Unused, Files
  <1>3. NothingYet'
    BY <1>2 DEF NothingYet, Fresh
  <1>4. QED BY <1>1, <1>3

\* A request for n takes back what was announced of it.
LEMMA NamedKeeps ==
    ASSUME Types, SureIsReady, NEW n \in Names, Named(n), pending' = pending
    PROVE  /\ SureIsReady' /\ ready'[n] = None
           /\ \A m \in Names \ {n} : ready'[m] = ready[m]
           /\ ready' \in [Names -> Files \cup {None}] /\ sure' \in Files \cup {None}
  BY DEF Named, SureIsReady, Types

-----------------------------------------------------------------------------
(* The steps of a download.                                                *)

LEMMA RequestedPreserves ==
    ASSUME IInv, NEW d \in Downloads, NEW n \in Names, Requested(d, n)
    PROVE  IInv'
  <1>1. PICK sized \in BOOLEAN :
          dl' = [dl EXCEPT ![d] = [Idle("asking") EXCEPT !.name = n, !.sized = sized]]
    BY DEF Requested
  <1> DEFINE new == [Idle("asking") EXCEPT !.name = n, !.sized = sized]
  <1>2. new \in DownloadType /\ new.pc = "asking" /\ new.name = n /\ new.done = 0
    <2>1. Idle("asking") \in DownloadType /\ Idle("asking").pc = "asking" /\ Idle("asking").done = 0
      BY StoreAssumption DEF Idle, DownloadType, Under
    <2>2. QED BY <2>1 DEF DownloadType
  <1>3. dl' = [dl EXCEPT ![d] = new]
    BY <1>1
  <1> HIDE DEF new
  <1>4. Types /\ DownloadShape /\ SureIsReady /\ Named(n) /\ pending' = pending
    BY DEF IInv, Requested
  <1>5. /\ SureIsReady' /\ ready'[n] = None
        /\ \A m \in Names \ {n} : ready'[m] = ready[m]
        /\ ready' \in [Names -> Files \cup {None}] /\ sure' \in Files \cup {None}
    BY ONLY <1>4, n \in Names, NamedKeeps, Zenon
  <1>6. Types' /\ DownloadShape'
    BY <1>2, <1>3, <1>4, <1>5 DEF Types, DownloadShape, Requested, store, Open
  <1>7. \A m \in Names : Opened(m)' = Opened(m) /\ \A e \in Opened(m) : dl'[e] = dl[e]
    BY <1>2, <1>3, <1>4 DEF Opened, Requested, Types
  <1>8. OneName' /\ NothingYet'
    <2>1. \A m \in Names, f \in Files : Leads(m, f)' => Leads(m, f)
      BY <1>7 DEF Leads, Requested, store
    <2>2. Unused' \subseteq Unused
      BY <1>2, <1>3, <1>4 DEF Unused, Requested, Types
    <2>3. QED BY <2>1, <2>2, LeadsShrink DEF IInv
  <1>9. ASSUME NEW m \in Names PROVE NameIsAsLeft(m)'
    <2>1. CASE m = n
      <3>1. WriterAlone(m) /\ RestsWhole(m)
        BY DEF IInv, NameIsAsLeft
      <3>2. \A e \in Opened(m) : OnDisk(e)' = OnDisk(e)
        BY <1>7 DEF OnDisk
      <3>3. WriterAlone(m)'
        BY <1>7, <3>1, <3>2, ZenonT(60) DEF WriterAlone, Requested, store
      <3>4. RestsWhole(m)'
        BY <1>7, <3>1 DEF RestsWhole, Requested, store
      <3>5. AnnouncedIsThere(m)'
        BY <1>5, <2>1 DEF AnnouncedIsThere
      <3>6. QED BY <3>3, <3>4, <3>5 DEF NameIsAsLeft
    <2>2. CASE m # n
      <3>1. \A e \in Downloads : e \in Active(m)' <=> e \in Active(m)
        BY <1>2, <1>3, <1>4, <2>2 DEF Active, Requested, Types
      <3>2. \A e \in Active(m) : dl'[e] = dl[e]
        BY <1>3, <1>4 DEF Active, Requested, Types
      <3>3. QED BY <1>4, <1>5, <2>2, <3>1, <3>2, Elsewhere DEF IInv, Requested, store
    <2>3. QED BY <2>1, <2>2
  <1>10. FlashedIsReady'
    BY DEF IInv, FlashedIsReady, Requested
  <1>11. QED BY <1>5, <1>6, <1>8, <1>9, <1>10 DEF IInv

LEMMA OpensPreserves ==
    ASSUME IInv, NEW d \in Downloads, Opens(d)
    PROVE  IInv'
  <1>0. PICK n, f, new :
          /\ n = dl[d].name /\ f = OpensFile(n, d)
          /\ new = [dl[d] EXCEPT !.pc = "streaming", !.file = f]
    OBVIOUS
  <1>1. /\ Types /\ DownloadShape /\ dl[d].pc = "asking" /\ n \in Names /\ dl[d].done = 0
        /\ dl[d] \in DownloadType
    BY <1>0 DEF IInv, Opens, Types, DownloadShape, Under
  <1>2. f \in Files
    BY <1>0, <1>1 DEF OpensFile, Types, Files
  <1>3. /\ dl' = [dl EXCEPT ![d] = new]
        /\ dir' = [dir EXCEPT ![n] = f] /\ data' = [data EXCEPT ![f] = <<>>]
    BY <1>0, <1>1 DEF Opens, Types, DownloadType
  <1>4. /\ doubt' = Touched(n, Opened(n))
        /\ UNCHANGED <<used, pending, flashed, ready, sure>>
    BY <1>0 DEF Opens
  <1>5. Leads(n, f) \/ (f = d /\ Fresh(f))
    BY <1>0, <1>1 DEF OpensFile, Leads, IInv, NothingYet, Unused
  <1>6. new \in DownloadType /\ new.pc = "streaming" /\ new.name = n /\ new.file = f /\ new.done = 0
    BY <1>0, <1>1, <1>2 DEF DownloadType, Under
  <1>7. <<>> \in Content /\ <<>> = Pieces(d, 0)
    BY StoreAssumption DEF Content, Pieces
  <1>8. Types' /\ DownloadShape'
    BY <1>1, <1>2, <1>3, <1>4, <1>6, <1>7 DEF Types, DownloadShape, Touched, Open
  <1>9. OneName' /\ NothingYet'
    <2>1. \A m \in Names, g \in Files : Leads(m, g)' => Leads(m, g) \/ (m = n /\ g = f)
      BY <1>1, <1>3, <1>6 DEF Leads, Opened, Types
    <2>2. Unused' \subseteq Unused /\ (f = d => f \notin Unused')
      BY <1>1, <1>3, <1>4, <1>6, StoreAssumption DEF Unused, Types
    <2>3. QED
      BY <1>1, <1>2, <1>5, <2>1, <2>2, LeadsGrow DEF IInv
  <1>10. ASSUME NEW m \in Names \ {n} PROVE NameIsAsLeft(m)'
    <2>1. dir[m] # None => dir[m] # f
      BY <1>1, <1>2, <1>5 DEF IInv, OneName, Fresh, Leads
    <2>2. dir[m] # None => data'[dir[m]] = data[dir[m]]
      BY <1>1, <1>3, <2>1 DEF Types
    <2>3. /\ \A e \in Downloads : e \in Active(m)' <=> e \in Active(m)
          /\ \A e \in Active(m) : dl'[e] = dl[e]
      BY <1>0, <1>1, <1>3, <1>6, OtherTasks
    <2>4. QED
      BY <1>1, <1>3, <1>4, <2>2, <2>3, Elsewhere DEF IInv, Types, Touched
  <1>11. NameIsAsLeft(n)'
    <2>1. n \notin doubt' => Opened(n)' = {d}
      <3>1. n \notin doubt' => Opened(n) = {}
        BY <1>4 DEF Touched
      <3>2. Opened(n)' = Opened(n) \cup {d}
        BY <1>0, <1>1, <1>3, <1>6 DEF Opened, Types
      <3>3. QED BY <3>1, <3>2
    <2>2. dir'[n] = f /\ dl'[d].file = f /\ data'[f] = Pieces(d, 0) /\ OnDisk(d)' = 0
      BY <1>1, <1>2, <1>3, <1>6, <1>7, StoreAssumption DEF Types, OnDisk
    <2>3. WriterAlone(n)'
      BY <2>1, <2>2 DEF WriterAlone
    <2>4. RestsWhole(n)'
      BY <2>1 DEF RestsWhole
    <2>5. d \in Active(n)
      BY <1>0, <1>1 DEF Active
    <2>6. AnnouncedIsThere(n)'
      BY <1>1, <1>4, <2>5 DEF IInv, NameIsAsLeft, AnnouncedIsThere
    <2>7. QED BY <2>3, <2>4, <2>6 DEF NameIsAsLeft
  <1>12. SureIsReady' /\ FlashedIsReady'
    BY <1>4 DEF IInv, SureIsReady, FlashedIsReady
  <1>13. QED BY <1>1, <1>8, <1>9, <1>10, <1>11, <1>12 DEF IInv

\* A download that writes to the file it has open keeps the other names.
LEMMA WriterElsewhere ==
    ASSUME IInv, NEW d \in Downloads, NEW n \in Names, dl[d].pc \in Open, dl[d].name = n,
           NEW new, dl' = [dl EXCEPT ![d] = new], new.pc \in Under => new.name = n,
           \A f \in Files \ {dl[d].file} : data'[f] = data[f],
           NEW m \in Names \ {n},
           dir'[m] = dir[m], ready'[m] = ready[m], m \in doubt' <=> m \in doubt
    PROVE  NameIsAsLeft(m)'
  <1>1. Types /\ DownloadShape /\ NameIsAsLeft(m)
    BY DEF IInv
  <1>2. dl[d].file \in Files /\ Leads(n, dl[d].file)
    BY <1>1 DEF DownloadShape, Leads, Opened, Open
  <1>3. dir[m] # None => dir[m] # dl[d].file
    BY <1>1, <1>2 DEF IInv, OneName, Leads
  <1>4. dir[m] # None => data'[dir[m]] = data[dir[m]]
    BY <1>1, <1>3 DEF Types
  <1>5. /\ \A e \in Downloads : e \in Active(m)' <=> e \in Active(m)
        /\ \A e \in Active(m) : dl'[e] = dl[e]
    BY <1>1, OtherTasks
  <1>6. QED BY <1>1, <1>4, <1>5, Elsewhere

LEMMA ChunkPreserves ==
    ASSUME IInv, NEW d \in Downloads, Chunk(d)
    PROVE  IInv'
  <1>0. PICK n, f, i, new :
          /\ n = dl[d].name /\ f = dl[d].file /\ i = dl[d].done + 1
          /\ new = [dl[d] EXCEPT !.done = i]
    OBVIOUS
  <1>1. /\ Types /\ DownloadShape /\ dl[d].pc = "streaming" /\ dl[d] \in DownloadType
        /\ n \in Names /\ f \in Files /\ i \in 1..Last /\ dl[d].done = i - 1
    <2>1. /\ Types /\ DownloadShape /\ dl[d].pc = "streaming" /\ i <= Last
          /\ dl[d] \in DownloadType
      BY <1>0 DEF IInv, Chunk, Types
    <2>2. n \in Names /\ f \in Files
      BY <1>0, <2>1 DEF DownloadShape, Under, Open
    <2>3. dl[d].done \in 0..Last
      BY <2>1 DEF DownloadType
    <2>4. QED BY <1>0, <2>1, <2>2, <2>3, StoreAssumption
  <1>2. /\ dl' = [dl EXCEPT ![d] = new]
        /\ data' = IF i < Last THEN [data EXCEPT ![f] = Written(@, d, i)] ELSE data
        /\ UNCHANGED <<dir, used, pending, flashed, ready, sure, doubt>>
    BY <1>0, <1>1 DEF Chunk, history
  <1>3. /\ new \in DownloadType /\ new.pc = "streaming" /\ new.name = n /\ new.file = f
        /\ new.done = i
    BY <1>0, <1>1, StoreAssumption DEF DownloadType
  <1>4. Types' /\ DownloadShape'
    <2>1. data[f] \in Content /\ d \in Files
      BY <1>1 DEF Types, Files
    <2>2. Written(data[f], d, i) \in Content
      BY <1>1, <2>1, WrittenType
    <2>3. data' \in [Files -> Content]
      BY <1>1, <1>2, <2>2 DEF Types
    <2>4. QED
      BY <1>1, <1>2, <1>3, <2>3 DEF Types, DownloadShape, Open
  <1>5. /\ \A m \in Names : Opened(m)' = Opened(m)
        /\ \A e \in Downloads : dl'[e].file = dl[e].file
    BY <1>0, <1>1, <1>2, <1>3 DEF Opened, Types
  <1>6. OneName' /\ NothingYet'
    <2>1. \A m \in Names, g \in Files : Leads(m, g)' => Leads(m, g)
      BY <1>2, <1>5 DEF Leads, Opened
    <2>2. Unused' \subseteq Unused
      BY <1>1, <1>2, <1>3 DEF Unused, Types
    <2>3. QED BY <2>1, <2>2, LeadsShrink DEF IInv
  <1>7. ASSUME NEW m \in Names \ {n} PROVE NameIsAsLeft(m)'
    <2>1. \A g \in Files \ {f} : data'[g] = data[g]
      BY <1>1, <1>2 DEF Types
    <2>2. QED BY <1>0, <1>1, <1>2, <1>3, <2>1, WriterElsewhere DEF Open
  <1>8. NameIsAsLeft(n)'
    <2>1. d \in Opened(n) /\ d \in Active(n) /\ NameIsAsLeft(n)
      BY <1>0, <1>1 DEF IInv, Opened, Active
    <2>2. ASSUME n \notin doubt
          PROVE  Opened(n) = {d} /\ dir[n] = f /\ data'[f] = Pieces(d, OnDisk(d)')
      <3>1. Opened(n) = {d} /\ dir[n] = f /\ data[f] = Pieces(d, i - 1)
        <4>1. OnDisk(d) = i - 1
          BY <1>1, StoreAssumption DEF OnDisk
        <4>2. QED BY <1>0, <2>1, <2>2, <4>1 DEF NameIsAsLeft, WriterAlone
      <3>2. OnDisk(d)' = IF i = Last THEN Last - 1 ELSE i
        BY <1>1, <1>2, <1>3 DEF OnDisk, Types
      <3>3. CASE i = Last
        BY <1>2, <3>1, <3>2, <3>3, StoreAssumption
      <3>4. CASE i < Last
        <4>1. data'[f] = Written(Pieces(d, i - 1), d, i)
          BY <1>1, <1>2, <3>1, <3>4 DEF Types
        <4>2. i - 1 \in 0..(Last - 1) /\ (i - 1) + 1 = i /\ d \in Files
          BY <1>1, StoreAssumption DEF Files
        <4>3. Written(Pieces(d, i - 1), d, i) = Pieces(d, i)
          BY <4>2, WrittenExtends
        <4>4. QED BY <1>1, <3>1, <3>2, <3>4, <4>1, <4>3, StoreAssumption
      <3>5. QED BY <1>1, <3>3, <3>4, StoreAssumption
    <2>3. WriterAlone(n)'
      BY <1>0, <1>1, <1>2, <1>5, <2>2 DEF WriterAlone
    <2>4. RestsWhole(n)'
      BY <1>1, <1>5, <2>1 DEF RestsWhole
    <2>5. AnnouncedIsThere(n)'
      BY <1>2, <2>1 DEF NameIsAsLeft, AnnouncedIsThere
    <2>6. QED BY <2>3, <2>4, <2>5 DEF NameIsAsLeft
  <1>9. SureIsReady' /\ FlashedIsReady'
    BY <1>2 DEF IInv, SureIsReady, FlashedIsReady
  <1>10. QED BY <1>1, <1>4, <1>6, <1>7, <1>8, <1>9 DEF IInv

LEMMA BodyEndsPreserves ==
    ASSUME IInv, NEW d \in Downloads, BodyEnds(d)
    PROVE  IInv'
  <1>0. PICK n, f, new :
          n = dl[d].name /\ f = dl[d].file /\ new = [dl[d] EXCEPT !.pc = "closed"]
    OBVIOUS
  <1>1. /\ Types /\ DownloadShape /\ dl[d].pc = "streaming" /\ dl[d] \in DownloadType
        /\ n \in Names /\ f \in Files /\ d \in Files
    BY <1>0 DEF IInv, BodyEnds, Types, DownloadShape, Under, Open, Files
  <1>2. /\ dl' = [dl EXCEPT ![d] = new]
        /\ data' = IF dl[d].done = Last THEN [data EXCEPT ![f] = Written(@, d, Last)] ELSE data
        /\ doubt' = IF dl[d].done = Last THEN doubt ELSE doubt \cup {n}
        /\ UNCHANGED <<dir, used, pending, flashed, ready, sure>>
    BY <1>0, <1>1 DEF BodyEnds, Flushed
  <1>3. new \in DownloadType /\ new.pc = "closed" /\ new.name = n /\ new.file = f
    BY <1>0, <1>1 DEF DownloadType, Under
  <1>4. Types' /\ DownloadShape'
    <2>1. data[f] \in Content /\ Last \in 1..Last
      BY <1>1, StoreAssumption DEF Types
    <2>2. Written(data[f], d, Last) \in Content
      BY <1>1, <2>1, WrittenType
    <2>3. data' \in [Files -> Content]
      BY <1>1, <1>2, <2>2 DEF Types
    <2>4. QED
      BY <1>1, <1>2, <1>3, <2>3 DEF Types, DownloadShape
  <1>5. /\ \A m \in Names : Opened(m)' = Opened(m)
        /\ \A e \in Downloads : dl'[e].file = dl[e].file
    BY <1>0, <1>1, <1>2, <1>3 DEF Opened, Types
  <1>6. OneName' /\ NothingYet'
    <2>1. \A m \in Names, g \in Files : Leads(m, g)' => Leads(m, g)
      BY <1>2, <1>5 DEF Leads, Opened
    <2>2. Unused' \subseteq Unused
      BY <1>1, <1>2, <1>3 DEF Unused, Types
    <2>3. QED BY <2>1, <2>2, LeadsShrink DEF IInv
  <1>7. ASSUME NEW m \in Names \ {n} PROVE NameIsAsLeft(m)'
    <2>1. \A g \in Files \ {f} : data'[g] = data[g]
      BY <1>1, <1>2 DEF Types
    <2>2. QED BY <1>0, <1>1, <1>2, <1>3, <2>1, WriterElsewhere DEF Open
  <1>8. NameIsAsLeft(n)'
    <2>1. d \in Opened(n) /\ d \in Active(n) /\ NameIsAsLeft(n)
      BY <1>0, <1>1 DEF IInv, Opened, Active
    <2>2. ASSUME n \notin doubt'
          PROVE  Opened(n) = {d} /\ dir[n] = f /\ data'[f] = Pieces(d, OnDisk(d)')
      <3>1. n \notin doubt /\ dl[d].done = Last /\ OnDisk(d) = Last - 1
        BY <1>1, <1>2, <2>2 DEF OnDisk
      <3>2. Opened(n) = {d} /\ dir[n] = f /\ data[f] = Pieces(d, Last - 1)
        BY <1>0, <2>1, <3>1 DEF NameIsAsLeft, WriterAlone
      <3>3. Last - 1 \in 0..(Last - 1) /\ (Last - 1) + 1 = Last
        BY StoreAssumption
      <3>4. Written(Pieces(d, Last - 1), d, Last) = Pieces(d, Last)
        BY <1>1, <3>3, WrittenExtends
      <3>5. data'[f] = Pieces(d, Last)
        BY <1>1, <1>2, <3>1, <3>2, <3>4 DEF Types
      <3>6. OnDisk(d)' = Last
        BY <1>1, <1>2, <1>3 DEF OnDisk, Types
      <3>7. QED BY <3>2, <3>5, <3>6
    <2>3. WriterAlone(n)'
      BY <1>0, <1>1, <1>2, <1>5, <2>2 DEF WriterAlone
    <2>4. RestsWhole(n)'
      BY <1>1, <1>5, <2>1 DEF RestsWhole
    <2>5. AnnouncedIsThere(n)'
      BY <1>2, <2>1 DEF NameIsAsLeft, AnnouncedIsThere
    <2>6. QED BY <2>3, <2>4, <2>5 DEF NameIsAsLeft
  <1>9. SureIsReady' /\ FlashedIsReady'
    BY <1>2 DEF IInv, SureIsReady, FlashedIsReady
  <1>10. QED BY <1>1, <1>4, <1>6, <1>7, <1>8, <1>9 DEF IInv

\* When a download completes and its name is not in doubt, its image is there.
LEMMA CompleteIsWhole ==
    ASSUME IInv, NEW d \in Downloads, NEW n \in Names, dl[d].name = n,
           dl[d].pc = "closed", n \notin doubt
    PROVE  Opened(n) = {d} /\ dir[n] # None /\ data[dir[n]] = Image(d)
  <1>1. /\ d \in Opened(n) /\ OnDisk(d) = Last /\ WriterAlone(n)
        /\ dl[d].file \in Files
    BY DEF IInv, NameIsAsLeft, Opened, OnDisk, DownloadShape, Open
  <1>2. /\ Opened(n) = {d} /\ dir[n] = dl[d].file
        /\ data[dir[n]] = Pieces(d, Last)
    BY <1>1 DEF WriterAlone
  <1>3. QED BY <1>1, <1>2, StoreAssumption DEF Pieces, Image, Files

LEMMA CompletesPreserves ==
    ASSUME IInv, NEW d \in Downloads, Completes(d)
    PROVE  IInv'
  <1>0. PICK n, new : n = dl[d].name /\ new = Idle("complete")
    OBVIOUS
  <1>1. /\ Types /\ DownloadShape /\ dl[d].pc = "closed" /\ dl[d] \in DownloadType
        /\ n \in Names /\ d \in Files
    BY <1>0 DEF IInv, Completes, Types, DownloadShape, Under, Files
  <1>2. /\ dl' = [dl EXCEPT ![d] = new]
        /\ ready' = IF n \notin doubt /\ Active(n) = {d} THEN [ready EXCEPT ![n] = d] ELSE ready
        /\ UNCHANGED <<dir, data, used, pending, flashed, sure, doubt>>
    BY <1>0 DEF Completes, store
  <1>3. new \in DownloadType /\ new.pc = "complete"
    BY <1>0, StoreAssumption DEF DownloadType, Under, Idle
  <1>4. Types' /\ DownloadShape'
    BY <1>1, <1>2, <1>3 DEF Types, DownloadShape, Open, Under
  <1>5. /\ Opened(n)' = Opened(n) \ {d} /\ Active(n)' = Active(n) \ {d}
        /\ d \in Opened(n) /\ d \in Active(n)
        /\ \A m \in Names : Opened(m)' = Opened(m) \ {d}
        /\ \A e \in Downloads \ {d} : dl'[e] = dl[e]
    BY <1>0, <1>1, <1>2, <1>3 DEF Opened, Active, Types
  <1>6. OneName' /\ NothingYet'
    <2>1. \A m \in Names, g \in Files : Leads(m, g)' => Leads(m, g)
      BY <1>2, <1>5 DEF Leads, Opened
    <2>2. Unused' \subseteq Unused
      BY <1>1, <1>2, <1>3 DEF Unused, Types
    <2>3. QED BY <2>1, <2>2, LeadsShrink DEF IInv
  <1>7. ASSUME NEW m \in Names \ {n} PROVE NameIsAsLeft(m)'
    <2>1. ready'[m] = ready[m]
      BY <1>1, <1>2 DEF Types
    <2>2. QED BY <1>0, <1>1, <1>2, <1>3, <2>1, WriterElsewhere DEF Open, Under
  <1>8. n \notin doubt => Opened(n) = {d} /\ dir[n] # None /\ data[dir[n]] = Image(d)
    BY <1>0, <1>1, CompleteIsWhole
  <1>9. NameIsAsLeft(n)'
    <2>1. WriterAlone(n)'
      BY <1>2, <1>5, <1>8 DEF WriterAlone
    <2>2. RestsWhole(n)'
      BY <1>1, <1>2, <1>8 DEF RestsWhole
    <2>3. AnnouncedIsThere(n)'
      BY <1>1, <1>2, <1>5, <1>8 DEF IInv, NameIsAsLeft, AnnouncedIsThere, Types
    <2>4. QED BY <2>1, <2>2, <2>3 DEF NameIsAsLeft
  <1>10. SureIsReady'
    <2>1. ready[n] = None
      BY <1>1, <1>5 DEF IInv, NameIsAsLeft, AnnouncedIsThere
    <2>2. QED BY <1>1, <1>2, <2>1 DEF IInv, SureIsReady, Types
  <1>11. FlashedIsReady'
    BY <1>2 DEF IInv, FlashedIsReady
  <1>12. QED BY <1>1, <1>4, <1>6, <1>7, <1>9, <1>10, <1>11 DEF IInv

LEMMA FailsPreserves ==
    ASSUME IInv, NEW d \in Downloads, Fails(d)
    PROVE  IInv'
  <1>0. PICK n, new : n = dl[d].name /\ new = Idle("failed")
    OBVIOUS
  <1>1. /\ Types /\ DownloadShape /\ dl[d].pc \in {"asking", "streaming"}
        /\ dl[d] \in DownloadType /\ n \in Names /\ SureIsReady
    BY <1>0 DEF IInv, Fails, Types, DownloadShape, Under
  <1>2. /\ dl' = [dl EXCEPT ![d] = new] /\ dir' = [dir EXCEPT ![n] = None]
        /\ Named(n) /\ doubt' = Touched(n, Opened(n) \ {d})
        /\ UNCHANGED <<data, used, pending, flashed>>
    BY <1>0 DEF Fails, Cleaned
  <1>3. new \in DownloadType /\ new.pc = "failed"
    BY <1>0, StoreAssumption DEF DownloadType, Under, Idle
  <1>4. /\ SureIsReady' /\ ready'[n] = None
        /\ \A m \in Names \ {n} : ready'[m] = ready[m]
        /\ ready' \in [Names -> Files \cup {None}] /\ sure' \in Files \cup {None}
    BY <1>1, <1>2, NamedKeeps
  <1>5. Types' /\ DownloadShape'
    BY <1>1, <1>2, <1>3, <1>4 DEF Types, DownloadShape, Open, Under, Touched
  <1>6. /\ \A m \in Names : Opened(m)' = Opened(m) \ {d}
        /\ \A e \in Downloads \ {d} : dl'[e] = dl[e]
    BY <1>1, <1>2, <1>3 DEF Opened, Types
  <1>7. OneName' /\ NothingYet'
    <2>1. \A m \in Names, g \in Files : Leads(m, g)' => Leads(m, g)
      BY <1>1, <1>2, <1>6, StoreAssumption DEF Leads, Opened, Types, Files
    <2>2. Unused' \subseteq Unused
      BY <1>1, <1>2, <1>3 DEF Unused, Types
    <2>3. QED BY <2>1, <2>2, LeadsShrink DEF IInv
  <1>8. ASSUME NEW m \in Names \ {n} PROVE NameIsAsLeft(m)'
    <2>1. /\ \A e \in Downloads : e \in Active(m)' <=> e \in Active(m)
          /\ \A e \in Active(m) : dl'[e] = dl[e]
      BY <1>0, <1>1, <1>2, <1>3, OtherTasks DEF Under
    <2>2. dir'[m] = dir[m] /\ (m \in doubt' <=> m \in doubt)
      BY <1>1, <1>2 DEF Types, Touched
    <2>3. QED BY <1>1, <1>2, <1>4, <2>1, <2>2, Elsewhere DEF IInv
  <1>9. NameIsAsLeft(n)'
    <2>1. dir'[n] = None /\ (n \notin doubt' => Opened(n)' = {})
      BY <1>1, <1>2, <1>6 DEF Types, Touched
    <2>2. QED BY <1>4, <2>1 DEF NameIsAsLeft, WriterAlone, RestsWhole, AnnouncedIsThere
  <1>10. FlashedIsReady'
    BY <1>2 DEF IInv, FlashedIsReady
  <1>11. QED BY <1>1, <1>4, <1>5, <1>7, <1>8, <1>9, <1>10 DEF IInv

-----------------------------------------------------------------------------
(* The other requests.                                                     *)

LEMMA UploadPreserves ==
    ASSUME IInv, NEW u \in Uploads, NEW n \in Names, Upload(u, n)
    PROVE  IInv'
  <1>0. PICK f : f = OpensFile(n, u)
    OBVIOUS
  <1>1. /\ Types /\ DownloadShape /\ u \in Files /\ f \in Files
        /\ Leads(n, f) \/ (f = u /\ Fresh(f))
    BY <1>0 DEF IInv, Types, Files, OpensFile, Upload, Leads, NothingYet, Unused
  <1>2. PICK k \in 0..Last :
          /\ data' = [data EXCEPT ![f] = Pieces(u, k)]
          /\ \/ /\ k = Last
                /\ ready' = [ready EXCEPT ![n] = IF Active(n) = {} THEN u ELSE None]
                /\ doubt' = Touched(n, Opened(n))
             \/ /\ ready' = [ready EXCEPT ![n] = None]
                /\ doubt' = doubt \cup {n}
    <2>1. CASE /\ data' = [data EXCEPT ![f] = Image(u)]
               /\ ready' = [ready EXCEPT ![n] = IF Active(n) = {} THEN u ELSE None]
               /\ doubt' = Touched(n, Opened(n))
      <3>1. Last \in 0..Last /\ Image(u) = Pieces(u, Last)
        BY StoreAssumption DEF Image, Pieces
      <3>2. QED BY <2>1, <3>1
    <2>2. ASSUME NEW k \in 0..(Last - 1),
                 data' = [data EXCEPT ![f] = SubSeq(Image(u), 1, k)],
                 ready' = [ready EXCEPT ![n] = None], doubt' = doubt \cup {n}
          PROVE  \E j \in 0..Last :
                   /\ data' = [data EXCEPT ![f] = Pieces(u, j)]
                   /\ ready' = [ready EXCEPT ![n] = None]
                   /\ doubt' = doubt \cup {n}
      <3>1. k \in 0..Last /\ SubSeq(Image(u), 1, k) = Pieces(u, k)
        BY <1>1, PartType, StoreAssumption
      <3>2. QED BY <2>2, <3>1
    <2>3. QED BY <1>0, <2>1, <2>2 DEF Upload
  <1>3. /\ dir' = [dir EXCEPT ![n] = f] /\ used' = used \cup {u}
        /\ sure' = IF pending = n THEN None ELSE sure
        /\ UNCHANGED <<dl, pending, flashed>>
    BY <1>0 DEF Upload
  <1>4. Types' /\ DownloadShape'
    <2>1. Pieces(u, k) \in Content
      BY <1>1, <1>2, PiecesType
    <2>2. data' \in [Files -> Content]
      BY <1>1, <1>2, <2>1 DEF Types
    <2>3. ready' \in [Names -> Files \cup {None}] /\ doubt' \subseteq Names
      BY <1>1, <1>2 DEF Types, Touched
    <2>4. dir' \in [Names -> Files \cup {None}]
      BY <1>1, <1>3 DEF Types
    <2>5. QED BY <1>1, <1>3, <2>2, <2>3, <2>4 DEF Types, DownloadShape
  <1>5. \A m \in Names : Opened(m)' = Opened(m) /\ Active(m)' = Active(m)
    BY <1>3 DEF Opened, Active
  <1>6. OneName' /\ NothingYet'
    <2>1. \A m \in Names, g \in Files : Leads(m, g)' => Leads(m, g) \/ (m = n /\ g = f)
      BY <1>1, <1>3, <1>5 DEF Leads, Types
    <2>2. Unused' \subseteq Unused /\ (f = u => f \notin Unused')
      BY <1>3, StoreAssumption DEF Unused
    <2>3. QED BY <1>1, <2>1, <2>2, LeadsGrow DEF IInv
  <1>7. ASSUME NEW m \in Names \ {n} PROVE NameIsAsLeft(m)'
    <2>1. dir[m] # None => dir[m] # f
      BY <1>1 DEF IInv, OneName, Fresh, Leads
    <2>2. dir[m] # None => data'[dir[m]] = data[dir[m]]
      BY <1>1, <1>2, <2>1 DEF Types
    <2>3. dir'[m] = dir[m] /\ ready'[m] = ready[m] /\ (m \in doubt' <=> m \in doubt)
      BY <1>1, <1>2, <1>3 DEF Types, Touched
    <2>4. /\ \A e \in Downloads : e \in Active(m)' <=> e \in Active(m)
          /\ \A e \in Active(m) : dl'[e] = dl[e]
      BY <1>3, <1>5
    <2>5. QED BY <1>1, <2>2, <2>3, <2>4, Elsewhere DEF IInv
  <1>8. NameIsAsLeft(n)'
    <2>1. dir'[n] = f /\ data'[f] = Pieces(u, k)
      BY <1>1, <1>2, <1>3 DEF Types
    <2>2. n \notin doubt' => Opened(n) = {} /\ k = Last
      BY <1>2 DEF Touched
    <2>3. Pieces(u, Last) = Image(u)
      BY DEF Pieces, Image
    <2>4. WriterAlone(n)' /\ RestsWhole(n)'
      BY <1>1, <1>5, <2>1, <2>2, <2>3 DEF WriterAlone, RestsWhole
    <2>5. ready'[n] # None => ready'[n] = u /\ Active(n) = {} /\ k = Last /\ n \notin doubt'
      BY <1>1, <1>2 DEF Types, Touched, Opened, Active
    <2>6. f # None
      BY <1>1, StoreAssumption DEF Files
    <2>7. AnnouncedIsThere(n)'
      BY <1>5, <2>1, <2>3, <2>5, <2>6 DEF AnnouncedIsThere
    <2>8. QED BY <2>4, <2>7 DEF NameIsAsLeft
  <1>9. SureIsReady'
    <2>1. \A m \in Names \ {n} : ready'[m] = ready[m]
      BY <1>1, <1>2 DEF Types
    <2>2. QED BY <1>1, <1>3, <2>1 DEF IInv, SureIsReady, Types
  <1>10. FlashedIsReady'
    BY <1>3 DEF IInv, FlashedIsReady
  <1>11. QED BY <1>4, <1>6, <1>7, <1>8, <1>9, <1>10 DEF IInv

LEMMA DeletePreserves ==
    ASSUME IInv, NEW n \in Names, Delete(n)
    PROVE  IInv'
  <1>1. /\ Types /\ DownloadShape /\ SureIsReady
        /\ dir' = [dir EXCEPT ![n] = None] /\ Named(n) /\ doubt' = Touched(n, Opened(n))
        /\ UNCHANGED <<data, dl, used, pending, flashed>>
    BY DEF IInv, Delete
  <1>2. /\ SureIsReady' /\ ready'[n] = None
        /\ \A m \in Names \ {n} : ready'[m] = ready[m]
        /\ ready' \in [Names -> Files \cup {None}] /\ sure' \in Files \cup {None}
    BY <1>1, NamedKeeps
  <1>3. Types' /\ DownloadShape'
    BY <1>1, <1>2 DEF Types, DownloadShape, Touched
  <1>4. \A m \in Names : Opened(m)' = Opened(m) /\ Active(m)' = Active(m)
    BY <1>1 DEF Opened, Active
  <1>5. OneName' /\ NothingYet'
    <2>1. \A m \in Names, g \in Files : Leads(m, g)' => Leads(m, g)
      BY <1>1, <1>4, StoreAssumption DEF Leads, Types, Files
    <2>2. Unused' \subseteq Unused
      BY <1>1 DEF Unused
    <2>3. QED BY <2>1, <2>2, LeadsShrink DEF IInv
  <1>6. ASSUME NEW m \in Names \ {n} PROVE NameIsAsLeft(m)'
    <2>1. dir'[m] = dir[m] /\ (m \in doubt' <=> m \in doubt)
      BY <1>1 DEF Types, Touched
    <2>2. /\ \A e \in Downloads : e \in Active(m)' <=> e \in Active(m)
          /\ \A e \in Active(m) : dl'[e] = dl[e]
      BY <1>1, <1>4
    <2>3. QED BY <1>1, <1>2, <2>1, <2>2, Elsewhere DEF IInv
  <1>7. NameIsAsLeft(n)'
    <2>1. dir'[n] = None /\ (n \notin doubt' => Opened(n)' = {})
      BY <1>1, <1>4 DEF Types, Touched
    <2>2. QED BY <1>2, <2>1 DEF NameIsAsLeft, WriterAlone, RestsWhole, AnnouncedIsThere
  <1>8. FlashedIsReady'
    BY <1>1 DEF IInv, FlashedIsReady
  <1>9. QED BY <1>2, <1>3, <1>5, <1>6, <1>7, <1>8 DEF IInv

\* What the steps read that leave the directory and its tasks alone.
LEMMA DirectoryKept ==
    ASSUME IInv, UNCHANGED <<store, dl, used, ready, doubt>>
    PROVE  /\ OneName' /\ NothingYet' /\ DownloadShape'
           /\ \A n \in Names : NameIsAsLeft(n)'
  <1>1. \A m \in Names : Opened(m)' = Opened(m) /\ Active(m)' = Active(m)
    BY DEF Opened, Active
  <1>2. OneName' /\ NothingYet'
    <2>1. \A m \in Names, g \in Files : Leads(m, g)' => Leads(m, g)
      BY <1>1 DEF Leads, store
    <2>2. Unused' \subseteq Unused
      BY DEF Unused
    <2>3. QED BY <2>1, <2>2, LeadsShrink DEF IInv
  <1>3. ASSUME NEW m \in Names PROVE NameIsAsLeft(m)'
    <2>1. /\ \A e \in Downloads : e \in Active(m)' <=> e \in Active(m)
          /\ \A e \in Active(m) : dl'[e] = dl[e]
      BY <1>1
    <2>2. QED BY <2>1, Elsewhere DEF IInv, store
  <1>4. DownloadShape'
    BY DEF IInv, DownloadShape
  <1>5. QED BY <1>2, <1>3, <1>4

LEMMA PostOtaPreserves ==
    ASSUME IInv, NEW n \in Names, PostOta(n)
    PROVE  IInv'
  <1>1. /\ OneName' /\ NothingYet' /\ DownloadShape'
        /\ \A m \in Names : NameIsAsLeft(m)'
    BY DirectoryKept DEF PostOta
  <1>2. Types' /\ SureIsReady' /\ FlashedIsReady'
    BY StoreAssumption DEF IInv, Types, SureIsReady, FlashedIsReady, PostOta, store
  <1>3. QED BY <1>1, <1>2 DEF IInv

LEMMA ReadsPreserves ==
    ASSUME IInv, ReadsFirmware
    PROVE  IInv'
  <1>1. /\ OneName' /\ NothingYet' /\ DownloadShape'
        /\ \A m \in Names : NameIsAsLeft(m)'
    BY DirectoryKept DEF ReadsFirmware
  <1>2. Types' /\ SureIsReady'
    BY DEF IInv, Types, SureIsReady, ReadsFirmware, store
  <1>3. FlashedIsReady'
    <2> SUFFICES ASSUME flashed' # None, flashed'.sure # None
                 PROVE  flashed'.bytes = Image(flashed'.sure)
      BY DEF FlashedIsReady
    <2>1. flashed' = [bytes |-> data[dir[pending]], sure |-> sure]
      BY DEF ReadsFirmware
    <2>2. sure # None /\ pending \in Names /\ ready[pending] = sure
      BY <2>1 DEF IInv, SureIsReady, Types
    <2>3. data[dir[pending]] = Image(ready[pending])
      BY <2>2 DEF IInv, NameIsAsLeft, AnnouncedIsThere
    <2>4. QED BY <2>1, <2>2, <2>3
  <1>4. QED BY <1>1, <1>2, <1>3 DEF IInv

LEMMA StopsPreserves ==
    ASSUME IInv, Stops
    PROVE  IInv'
  <1> DEFINE gone == {d \in Downloads : dl[d].pc \in Under}
  <1>1. /\ Types /\ DownloadShape
        /\ dl' = [d \in Downloads |-> IF d \in gone THEN Idle("stopped") ELSE dl[d]]
        /\ doubt' = doubt \cup {dl[d].name : d \in {e \in gone : dl[e].pc = "streaming"}}
        /\ pending' = None /\ sure' = None
        /\ UNCHANGED <<dir, data, used, flashed, ready>>
    BY DEF IInv, Stops, Under, store
  <1>2. Idle("stopped") \in DownloadType /\ Idle("stopped").pc = "stopped"
    BY StoreAssumption DEF DownloadType, Under, Idle
  <1>3. doubt' \subseteq Names
    BY <1>1 DEF Types, DownloadShape, Under
  <1>4. dl' \in [Downloads -> DownloadType]
    BY <1>1, <1>2 DEF Types
  <1>5. Types'
    BY <1>1, <1>3, <1>4 DEF Types
  <1>6. \A d \in Downloads : dl'[d].pc \notin Under
    BY <1>1, <1>2 DEF Under
  <1>7. DownloadShape' /\ \A n \in Names : Opened(n)' = {} /\ Active(n)' = {}
    BY <1>6 DEF DownloadShape, Under, Open, Opened, Active
  <1>8. OneName' /\ NothingYet'
    <2>1. \A m \in Names, g \in Files : Leads(m, g)' => Leads(m, g)
      BY <1>1, <1>7 DEF Leads
    <2>2. Unused' \subseteq Unused
      BY <1>1, <1>2 DEF Unused
    <2>3. QED BY <2>1, <2>2, LeadsShrink DEF IInv
  <1>9. ASSUME NEW n \in Names PROVE NameIsAsLeft(n)'
    <2>1. WriterAlone(n)'
      BY <1>7 DEF WriterAlone
    <2>2. RestsWhole(n)'
      <3> SUFFICES ASSUME n \notin doubt', dir[n] # None
                   PROVE  \E s \in Files : data[dir[n]] = Image(s)
        BY <1>1 DEF RestsWhole
      <3>1. n \notin doubt
        BY <1>1
      <3>2. CASE Opened(n) = {}
        BY <3>1, <3>2 DEF IInv, NameIsAsLeft, RestsWhole
      <3>3. ASSUME NEW d \in Opened(n)
            PROVE  \E s \in Files : data[dir[n]] = Image(s)
        <4>1. d \in Downloads /\ dl[d].name = n /\ dl[d].pc # "streaming"
          BY <1>1 DEF Opened, Under
        <4>2. dl[d].pc = "closed"
          BY <4>1 DEF Opened
        <4>3. QED BY <3>1, <4>1, <4>2, CompleteIsWhole DEF Files
      <3>4. QED BY <3>2, <3>3
    <2>3. AnnouncedIsThere(n)'
      <3> SUFFICES ASSUME ready[n] # None
                   PROVE  n \notin doubt' /\ dir[n] # None /\ data[dir[n]] = Image(ready[n])
        BY <1>1, <1>7 DEF AnnouncedIsThere
      <3>1. n \notin doubt /\ Active(n) = {} /\ dir[n] # None /\ data[dir[n]] = Image(ready[n])
        BY DEF IInv, NameIsAsLeft, AnnouncedIsThere
      <3>2. n \notin doubt'
        BY <1>1, <3>1 DEF Active, Under
      <3>3. QED BY <3>1, <3>2
    <2>4. QED BY <2>1, <2>2, <2>3 DEF NameIsAsLeft
  <1>10. SureIsReady' /\ FlashedIsReady'
    BY <1>1 DEF IInv, SureIsReady, FlashedIsReady
  <1>11. QED BY <1>5, <1>7, <1>8, <1>9, <1>10 DEF IInv

-----------------------------------------------------------------------------
(* The theorems.                                                           *)

\* The directory, its tasks and what was announced stay together as IInv says.
THEOREM InductiveInvariant == Spec => []IInv
  <1>1. Init => IInv
    <2> SUFFICES ASSUME Init PROVE IInv
      OBVIOUS
    <2>1. Idle("none") \in DownloadType /\ Idle("none").pc = "none"
      BY StoreAssumption DEF DownloadType, Under, Idle
    <2>2. <<>> \in Content
      BY StoreAssumption DEF Content
    <2>3. \A d \in Downloads : dl[d] = Idle("none")
      BY DEF Init
    <2>4. Types
      BY <2>1, <2>2 DEF Init, Types
    <2>5. DownloadShape /\ \A n \in Names : Opened(n) = {} /\ Active(n) = {}
      BY <2>1, <2>3 DEF DownloadShape, Under, Open, Opened, Active
    <2>6. OneName /\ NothingYet
      BY <2>5, StoreAssumption DEF Init, OneName, NothingYet, Fresh, Leads, Unused, Files
    <2>7. \A n \in Names : NameIsAsLeft(n)
      BY <2>5 DEF Init, NameIsAsLeft, WriterAlone, RestsWhole, AnnouncedIsThere
    <2>8. SureIsReady /\ FlashedIsReady
      BY DEF Init, SureIsReady, FlashedIsReady
    <2>9. QED BY <2>4, <2>5, <2>6, <2>7, <2>8 DEF IInv
  <1>2. IInv /\ [Next]_vars => IInv'
    <2> SUFFICES ASSUME IInv, [Next]_vars PROVE IInv'
      OBVIOUS
    <2>1. CASE \E d \in Downloads, n \in Names : Requested(d, n)
      BY <2>1, RequestedPreserves
    <2>2. CASE \E d \in Downloads : DownloadStep(d)
      BY <2>2, OpensPreserves, ChunkPreserves, BodyEndsPreserves, CompletesPreserves,
         FailsPreserves DEF DownloadStep
    <2>3. CASE \E u \in Uploads, n \in Names : Upload(u, n)
      BY <2>3, UploadPreserves
    <2>4. CASE \E n \in Names : Delete(n) \/ PostOta(n)
      BY <2>4, DeletePreserves, PostOtaPreserves
    <2>5. CASE ReadsFirmware
      BY <2>5, ReadsPreserves
    <2>6. CASE Stops
      BY <2>6, StopsPreserves
    <2>7. CASE UNCHANGED vars
      <3>1. /\ OneName' /\ NothingYet' /\ DownloadShape'
            /\ \A m \in Names : NameIsAsLeft(m)'
        BY <2>7, DirectoryKept DEF vars, history
      <3>2. Types' /\ SureIsReady' /\ FlashedIsReady'
        BY <2>7 DEF IInv, Types, SureIsReady, FlashedIsReady, vars, store, history
      <3>3. QED BY <3>1, <3>2 DEF IInv
    <2>8. QED BY <2>1, <2>2, <2>3, <2>4, <2>5, <2>6, <2>7 DEF Next
  <1>3. QED BY <1>1, <1>2, PTL DEF Spec

\* A name that nobody is at and that is not in doubt leads to one whole image:
\* what POST /ota takes for a file is a firmware (server.py:430).
THEOREM StoredIsWhole == Spec => []StoreInv
  <1>1. IInv => StoreInv
    <2> SUFFICES ASSUME IInv PROVE StoreInv
      OBVIOUS
    <2>1. \A f \in Files :
            /\ Len(data[f]) <= Last
            /\ \A i \in DOMAIN data[f] : data[f][i] \in {None} \cup (Files \X {i})
      BY DEF IInv, Types, Content
    <2>2. \A d \in Downloads : dl[d] \in DownloadType
      BY DEF IInv, Types
    <2>3. TypeOK
      BY <2>1, <2>2 DEF IInv, Types, TypeOK, DownloadType, Under
    <2>4. StoredWhole
      BY DEF IInv, NameIsAsLeft, RestsWhole, StoredWhole
    <2>5. QED BY <2>3, <2>4 DEF StoreInv
  <1>2. QED BY <1>1, InductiveInvariant, PTL

\* What the device reads turns after POST /ota is the image that was announced
\* before it, if nobody asked for its name since.
THEOREM ReadsWhatWasReady == Spec => []FlashedIsReady
  <1>1. IInv => FlashedIsReady
    BY DEF IInv
  <1>2. QED BY <1>1, InductiveInvariant, PTL

\* ota_download_complete is broadcast for a file that has the whole image
\* downloaded, under the same exceptions.
THEOREM CompletionTells == Spec => CompleteMeansWhole
  <1> DEFINE Whole ==
        \A d \in Downloads :
          LET n == dl[d].name
          IN  dl[d].pc # "complete" /\ dl'[d].pc = "complete" /\ n \notin doubt
              => dir[n] # None /\ data[dir[n]] = Image(d)
  <1>1. IInv /\ [Next]_vars => [Whole]_vars
    <2> SUFFICES ASSUME IInv, Next, NEW d \in Downloads, NEW n, n = dl[d].name,
                        dl[d].pc # "complete", dl'[d].pc = "complete", n \notin doubt
                 PROVE  dir[n] # None /\ data[dir[n]] = Image(d)
      OBVIOUS
    <2>1. Completes(d)
      <3>1. Types /\ dl'[d] # dl[d]
        BY DEF IInv
      <3>2. ASSUME NEW e \in Downloads, NEW m \in Names, Requested(e, m) PROVE FALSE
        <4>1. PICK sized \in BOOLEAN :
                dl' = [dl EXCEPT ![e] = [Idle("asking") EXCEPT !.name = m, !.sized = sized]]
          BY <3>2 DEF Requested
        <4>2. dl'[d].pc \in {dl[d].pc, "asking"}
          BY <3>1, <4>1 DEF Idle, Types
        <4>3. QED BY <4>2
      <3>3. ASSUME NEW e \in Downloads, Opens(e) \/ Chunk(e) \/ BodyEnds(e) \/ Fails(e)
            PROVE  FALSE
        <4>1. dl'[d].pc \in {dl[d].pc, "streaming", "closed", "failed"}
          BY <3>1, <3>3 DEF Opens, Chunk, BodyEnds, Fails, Cleaned, Idle, Types, DownloadType
        <4>2. QED BY <4>1
      <3>4. ASSUME NEW e \in Downloads, Completes(e) PROVE e = d
        BY <3>1, <3>4 DEF Completes, Types
      <3>5. ~Stops
        BY <3>1 DEF Stops, Idle, Types
      <3>6. QED
        BY <3>1, <3>2, <3>3, <3>4, <3>5
        DEF Next, DownloadStep, Upload, Delete, PostOta, ReadsFirmware
    <2>2. dl[d].pc = "closed" /\ n \in Names
      BY <2>1 DEF Completes, IInv, DownloadShape, Under
    <2>3. QED BY <2>2, CompleteIsWhole
  <1>2. QED BY <1>1, InductiveInvariant, PTL DEF Spec, CompleteMeansWhole

-----------------------------------------------------------------------------
(* The other file the server keeps: what the configuration file keeps, for *)
(* any number of addresses and settings.  A promise is made by a save that *)
(* is complete, and whatever loads the file loads what was promised: only  *)
(* an unreadable file is taken for empty, and that has no promise but of   *)
(* absence.  A save cut short keeps the absence of what was absent, and    *)
(* nothing else.                                                           *)

\* The empty file.
LEMMA DefaultsIsFile ==
    /\ Defaults \in Configs /\ Defaults.readable /\ Defaults.setting = 0
    /\ \A a \in Addrs : Defaults.devices[a] = "absent"
  BY ConfigAssumption DEF Defaults, Configs, Entries

\* What bridge_config.load() returns has the entries and settings of the file.
LEMMA LoadedIsFile ==
    ASSUME FileTypeOK
    PROVE  /\ Loaded \in Configs /\ Loaded.readable
           /\ Loaded.devices = file.devices /\ Loaded.setting = file.setting
  <1>1. Defaults \in Configs /\ Defaults.readable
    BY DefaultsIsFile
  <1>2. CASE file.readable
    BY <1>2 DEF FileTypeOK, Loaded
  <1>3. CASE ~file.readable
    BY <1>1, <1>3 DEF FileTypeOK, Loaded, Defaults
  <1>4. QED BY <1>2, <1>3

\* A file with one entry or the settings changed is a file.
LEMMA ChangedIsFile ==
    ASSUME NEW f \in Configs, NEW a \in Addrs, NEW e \in Present \cup {"absent"},
           NEW v \in Values
    PROVE  /\ WithEntry(f, a, e) \in Configs /\ WithSetting(f, v) \in Configs
           /\ WithEntry(f, a, e).readable = f.readable
           /\ WithSetting(f, v).readable = f.readable
           /\ WithEntry(f, a, e).setting = f.setting
           /\ WithSetting(f, v).setting = v
           /\ WithSetting(f, v).devices = f.devices
           /\ \A b \in Addrs : WithEntry(f, a, e).devices[b] =
                                 IF b = a THEN e ELSE f.devices[b]
  BY DEF WithEntry, WithSetting, Configs, Entries

\* A cut brings no entry that was not to be saved.
LEMMA CutIsFile ==
    ASSUME NEW f \in Configs, NEW c \in CutOf(f)
    PROVE  /\ c \in Configs
           /\ ~c.readable => c = [Defaults EXCEPT !.readable = FALSE]
           /\ \A a \in Addrs : f.devices[a] = "absent" => c.devices[a] = "absent"
  <1>1. CASE c = [Defaults EXCEPT !.readable = FALSE]
    BY <1>1, ConfigAssumption DEF Defaults, Configs, Entries
  <1>2. CASE c \in Configs /\ c.readable
             /\ \A a \in Addrs : \/ c.devices[a] \in {"absent", f.devices[a]}
                                 \/ c.devices[a] = "auto" /\ f.devices[a] = "manual"
    BY <1>2
  <1>3. QED BY <1>1, <1>2 DEF CutOf

\* What a cut leaves true of the promises.
LEMMA LossIsKnown ==
    ASSUME ConfigInv, NEW touched \in SUBSET Addrs, NEW new \in Configs,
           file' \in CutOf(new), LosesPromises(touched),
           \A a \in Addrs \ touched : new.devices[a] = file.devices[a]
    PROVE  /\ PromisesKept'
           /\ file' \in Configs
           /\ ~file'.readable => file' = [Defaults EXCEPT !.readable = FALSE]
           /\ promised' \in [Addrs -> Present \cup {"absent", Unknown}]
           /\ setting' \in Values \cup {Unknown}
  <1>1. /\ file' \in Configs
        /\ ~file'.readable => file' = [Defaults EXCEPT !.readable = FALSE]
        /\ \A a \in Addrs : new.devices[a] = "absent" => file'.devices[a] = "absent"
    BY CutIsFile
  <1>2. /\ promised' \in [Addrs -> Present \cup {"absent", Unknown}]
        /\ setting' \in Values \cup {Unknown}
    BY DEF LosesPromises
  <1>3. PromisesKept'
    BY <1>1 DEF LosesPromises, PromisesKept, ConfigInv
  <1>4. QED BY <1>1, <1>2, <1>3

LEMMA ConfigStep ==
    ASSUME ConfigInv, [FileNext]_fileVars PROVE ConfigInv'
  <1> USE DEF ConfigInv
  <1>1. /\ Loaded \in Configs /\ Loaded.readable
        /\ Loaded.devices = file.devices /\ Loaded.setting = file.setting
    BY LoadedIsFile
  <1>2. ASSUME NEW f \in Configs PROVE Configured(f) \subseteq Addrs /\ Reloaded(f) \subseteq Addrs
    BY <1>2 DEF Configured, Reloaded, FileTypeOK
  <1>3. ASSUME NEW a \in Addrs, NEW e \in Present, NEW persist \in BOOLEAN,
               AddDevice(a, e, persist)
        PROVE  ConfigInv'
    <2> DEFINE new == WithEntry(Loaded, a, e)
    <2>1. /\ new \in Configs /\ new.readable /\ new.setting = Loaded.setting
          /\ \A b \in Addrs : new.devices[b] = IF b = a THEN e ELSE Loaded.devices[b]
      BY <1>1, ChangedIsFile, ConfigAssumption
    <2>2. CASE /\ up /\ file' = new
               /\ promised' = [promised EXCEPT ![a] = e]
               /\ registry' = Reloaded(new)
               /\ UNCHANGED <<up, setting>>
      <3>1. FileTypeOK'
        BY <1>2, <2>1, <2>2 DEF FileTypeOK
      <3>2. PromisesKept'
        BY <1>1, <2>1, <2>2 DEF FileTypeOK, PromisesKept
      <3>3. QED BY <3>1, <3>2
    <2>3. CASE up /\ CutShort(new, {a})
      <3>1. \A b \in Addrs \ {a} : new.devices[b] = file.devices[b]
        BY <1>1, <2>1
      <3>2. file' \in CutOf(new) /\ LosesPromises({a})
        BY <2>3 DEF CutShort
      <3>3. QED BY <2>1, <2>3, <3>1, <3>2, LossIsKnown DEF CutShort, FileTypeOK
    <2>4. CASE up /\ registry' = Reloaded(file) /\ UNCHANGED <<file, up, promised, setting>>
      BY <1>2, <2>4 DEF FileTypeOK, PromisesKept
    <2>5. QED BY <1>3, <2>2, <2>3, <2>4 DEF AddDevice
  <1>4. ASSUME NEW a \in Addrs, NEW e \in Present, PatchDevice(a, e)
        PROVE  ConfigInv'
    <2> DEFINE new == WithEntry(Loaded, a, e)
    <2>1. /\ new \in Configs /\ new.readable /\ new.setting = Loaded.setting
          /\ \A b \in Addrs : new.devices[b] = IF b = a THEN e ELSE Loaded.devices[b]
      BY <1>1, ChangedIsFile, ConfigAssumption
    <2>2. CASE /\ file' = new
               /\ promised' = [promised EXCEPT ![a] = e]
               /\ UNCHANGED <<up, registry, setting>>
      BY <1>1, <2>1, <2>2 DEF FileTypeOK, PromisesKept
    <2>3. CASE up /\ CutShort(new, {a})
      <3>1. \A b \in Addrs \ {a} : new.devices[b] = file.devices[b]
        BY <1>1, <2>1
      <3>2. file' \in CutOf(new) /\ LosesPromises({a})
        BY <2>3 DEF CutShort
      <3>3. QED BY <2>1, <2>3, <3>1, <3>2, LossIsKnown DEF CutShort, FileTypeOK
    <2>4. QED BY <1>4, <2>2, <2>3 DEF PatchDevice
  <1>5. ASSUME NEW a \in Addrs, ForgetDevice(a)
        PROVE  ConfigInv'
    <2> DEFINE new == WithEntry(Loaded, a, "absent")
    <2>1. /\ new \in Configs /\ new.readable /\ new.setting = Loaded.setting
          /\ \A b \in Addrs : new.devices[b] = IF b = a THEN "absent" ELSE Loaded.devices[b]
      BY <1>1, ChangedIsFile, ConfigAssumption
    <2>2. CASE registry' = registry \ {a} /\ UNCHANGED <<file, up, promised, setting>>
      BY <2>2 DEF FileTypeOK, PromisesKept
    <2>3. CASE /\ file' = new
               /\ promised' = [promised EXCEPT ![a] = "absent"]
               /\ registry' = registry \ {a}
               /\ UNCHANGED <<up, setting>>
      BY <1>1, <2>1, <2>3 DEF FileTypeOK, PromisesKept
    <2>4. CASE /\ file' \in CutOf(new)
               /\ LosesPromises({a})
               /\ up' \in BOOLEAN
               /\ registry' = IF up' THEN registry \ {a} ELSE {}
      <3>1. \A b \in Addrs \ {a} : new.devices[b] = file.devices[b]
        BY <1>1, <2>1
      <3>2. QED BY <2>1, <2>4, <3>1, LossIsKnown DEF FileTypeOK
    <2>5. QED BY <1>5, <2>2, <2>3, <2>4 DEF ForgetDevice
  <1>6. ASSUME NEW v \in Values, PutSettings(v)
        PROVE  ConfigInv'
    <2> DEFINE new == WithSetting(Loaded, v)
    <2>1. new \in Configs /\ new.readable /\ new.setting = v /\ new.devices = Loaded.devices
      BY <1>1 DEF WithSetting, Configs
    <2>2. CASE file' = new /\ setting' = v /\ UNCHANGED <<up, registry, promised>>
      BY <1>1, <2>1, <2>2 DEF FileTypeOK, PromisesKept
    <2>3. CASE up /\ CutShort(new, {})
      <3>1. \A b \in Addrs \ {} : new.devices[b] = file.devices[b]
        BY <1>1, <2>1
      <3>2. file' \in CutOf(new) /\ LosesPromises({})
        BY <2>3 DEF CutShort
      <3>3. QED BY <2>1, <2>3, <3>1, <3>2, LossIsKnown DEF CutShort, FileTypeOK
    <2>4. QED BY <1>6, <2>2, <2>3 DEF PutSettings
  <1>7. CASE Repair
    BY <1>7, DefaultsIsFile, ConfigAssumption
    DEF Repair, LosesPromises, FileTypeOK, PromisesKept
  <1>8. CASE \/ \E a \in Addrs : RemoveDevice(a)
             \/ Reload \/ Start \/ Crash \/ UNCHANGED fileVars
    BY <1>2, <1>8 DEF RemoveDevice, Reload, Start, Crash, fileVars, FileTypeOK, PromisesKept
  <1>9. QED
    BY <1>3, <1>4, <1>5, <1>6, <1>7, <1>8 DEF FileNext

\* What was answered as saved stays in the file, through every request, crash
\* and restart, until a save is cut short (bridge_config.py:65-107).
THEOREM SavedIsKept == FileSpec => []ConfigInv
  <1>1. FileInit => ConfigInv
    BY DefaultsIsFile, ConfigAssumption
    DEF FileInit, ConfigInv, FileTypeOK, PromisesKept, Present
  <1>2. ConfigInv /\ [FileNext]_fileVars => ConfigInv'
    BY ConfigStep
  <1>3. QED BY <1>1, <1>2, PTL DEF FileSpec

\* A step that takes a device out of the registry is one that was asked to, or
\* a reload of a file that lost the entry in a cut save.
LEMMA DropStep ==
    ASSUME ConfigInv, FileNext, up', NEW a \in registry \ registry'
    PROVE  \/ ForgetDevice(a) \/ RemoveDevice(a)
           \/ promised[a] \in {"absent", Unknown} /\ Loadable(file')
  <1>1. /\ Loaded \in Configs /\ Loaded.devices = file.devices
        /\ a \in Addrs
        /\ file.devices[a] = "absent" => promised[a] \in {"absent", Unknown}
    BY LoadedIsFile DEF ConfigInv, FileTypeOK, PromisesKept
  <1>2. ASSUME NEW f \in Configs, registry' = Reloaded(f)
        PROVE  Loadable(f) /\ f.devices[a] = "absent"
    BY <1>1, <1>2 DEF Reloaded, Configured
  <1>3. ASSUME NEW b \in Addrs, NEW e \in Present, NEW persist \in BOOLEAN,
               AddDevice(b, e, persist)
        PROVE  promised[a] \in {"absent", Unknown} /\ Loadable(file')
    <2> DEFINE new == WithEntry(Loaded, b, e)
    <2>1. new \in Configs /\ new.devices[a] = IF a = b THEN e ELSE Loaded.devices[a]
      BY <1>1, ChangedIsFile, ConfigAssumption
    <2>2. CASE file' = new /\ registry' = Reloaded(new)
      BY <1>1, <1>2, <2>1, <2>2 DEF Present
    <2>3. CASE CutShort(new, {b})
      BY <2>3 DEF CutShort
    <2>4. CASE registry' = Reloaded(file) /\ UNCHANGED file
      BY <1>1, <1>2, <2>4 DEF ConfigInv, FileTypeOK
    <2>5. QED BY <1>3, <2>2, <2>3, <2>4 DEF AddDevice
  <1>4. CASE Reload
    BY <1>1, <1>2, <1>4 DEF Reload, ConfigInv, FileTypeOK
  <1>5. ASSUME NEW b \in Addrs, ForgetDevice(b) \/ RemoveDevice(b) PROVE b = a
    BY <1>5 DEF ForgetDevice, RemoveDevice
  <1>6. CASE \/ \E b \in Addrs, e \in Present : PatchDevice(b, e)
             \/ \E v \in Values : PutSettings(v)
             \/ Start \/ Crash \/ Repair
    BY <1>6 DEF PatchDevice, PutSettings, CutShort, Start, Crash, Repair,
      ConfigInv, FileTypeOK
  <1>7. QED BY <1>3, <1>4, <1>5, <1>6 DEF FileNext

\* A running server keeps the devices it was not asked to drop
\* (device_manager.py:95-134, server.py:141-260).
THEOREM DevicesStay == FileSpec => DevicesKept
  <1>1. ConfigInv /\ [FileNext]_fileVars =>
          [\A a \in registry \ registry' :
             \/ ~up'
             \/ ForgetDevice(a) \/ RemoveDevice(a)
             \/ promised[a] \in {"absent", Unknown} /\ Loadable(file')]_fileVars
    BY DropStep DEF fileVars
  <1>2. QED BY <1>1, SavedIsKept, PTL DEF FileSpec, DevicesKept

=============================================================================
