---------------------------- MODULE MemoryProofs ----------------------------
(***************************************************************************)
(* What is remembered, for any entries, proposals, Dreams, batches, limits *)
(* and faults: the database has one active record of a conflict key, one   *)
(* record per batch and statement and no replacement that leads nowhere,   *)
(* and an entry that was written is digested, unread or Lost.              *)
(***************************************************************************)
EXTENDS Memory, SequenceTheorems, FiniteSetTheorems, WellFoundedInduction, TLAPS

-----------------------------------------------------------------------------
(***************************************************************************)
(* The types.                                                              *)
(***************************************************************************)
Kinds == {"history", "reflection", "broken", "manual"}
Marks == SUBSET (Nat \cup (Kinds \X Nat))
Levels == {1, 2, 5}
Places == SUBSET Nat
Revs == Nat \ {0}
Said == [content : Contents, level : Levels]
Todos == Seq(Said)
RecordSet == [batch : Marks, content : Contents, level : Levels, status : Statuses, rev : Revs,
              repl : Nat, blocked : Places]
RunSet == [pc : Pcs, batch : Marks, line : Nat, todo : Todos, rec : Nat, rev : Nat,
           seen : Nat, seenRev : Nat, tries : Nat]
Lefts == [asked : Nat, faults : Nat, due : Nat]

WorldOK == world \in Worlds
RecordsOK == records \in Seq(RecordSet)
FilesOK ==
    /\ made \in 0 .. Len(Entries) /\ number \in Seq(Nat) /\ Len(number) = made
    /\ \A i \in 1 .. made : number[i] <= i
    /\ counter \in 0 .. made /\ dcursor \in 0 .. made /\ rcursor \in 0 .. made
    /\ hist \in Seq(Nat) /\ refl \in Seq(Nat) /\ Len(refl) <= made
    /\ ToSet(hist) \subseteq 1 .. made /\ ToSet(refl) \subseteq 1 .. made
    /\ digested \subseteq 1 .. made /\ dropped \subseteq 1 .. made
    /\ shifted \in BOOLEAN /\ left \in Lefts

Ingesting == {"create", "look", "apply"}
RunOK(a, q) ==
    /\ q \in RunSet /\ q.tries < Attempts
    /\ q.pc = "idle" => q = Idle
    /\ q.pc \in Ingesting => q.todo # <<>>
    /\ q.pc \in {"look", "apply"} => q.rec # None
    /\ a = User => q.pc \in Ingesting \cup {"idle"}
    /\ a = Keeper => q.pc \in {"idle", "reset", "cut", "expire"}
\* What a run knows of the records and of the files.
Knows(a, q) ==
    /\ q.rec <= Len(records)
    /\ a # User => q.batch \subseteq 1 .. made
    /\ q.line <= made
RunsOK == DOMAIN run = Actors /\ \A a \in Actors : RunOK(a, run[a]) /\ Knows(a, run[a])

TypeInv == WorldOK /\ RecordsOK /\ FilesOK /\ RunsOK

LEMMA WorldIs ==
    ASSUME WorldOK
    PROVE  /\ User # Keeper /\ User \notin Dreams /\ Keeper \notin Dreams
           /\ world.asked \in Nat /\ world.faults \in Nat /\ world.due \in Nat
           /\ Entries \in Seq([kind : {"history", "reflection", "broken"}, part : Nat])
           /\ Len(Entries) \in Nat
           /\ \A i \in 1 .. Len(Entries) : Kind(i) \in {"history", "reflection", "broken"}
           /\ Answers \subseteq Todos
           /\ MaxBatch \in Nat \ {0} /\ HistoryMax \in Nat \ {0}
           /\ LinesMax \in Nat \ {0} /\ Attempts \in Nat \ {0}
<1> DEFINE EntrySet == [kind : {"history", "reflection", "broken"}, part : Nat]
<1>1. /\ User # Keeper /\ {User, Keeper} \cap Dreams = {}
      /\ {world.asked, world.faults, world.due} \subseteq Nat
      /\ Entries \in Seq(EntrySet)
      /\ \A todo \in Answers :
            todo \in Seq([content : {p.content : p \in ToSet(todo)}, level : {1, 2}])
      /\ MaxBatch \in Nat \ {0} /\ HistoryMax \in Nat \ {0}
      /\ LinesMax \in Nat \ {0} /\ Attempts \in Nat \ {0}
  BY MemoryAssumption DEF WorldOK, Dreams, Entries, Answers
<1>2. Len(Entries) \in Nat /\ \A i \in 1 .. Len(Entries) : Entries[i] \in EntrySet
  BY <1>1, ElementOfSeq, LenProperties
<1>3. \A i \in 1 .. Len(Entries) : Kind(i) \in {"history", "reflection", "broken"}
  BY <1>2 DEF Kind
<1>4. ASSUME NEW todo \in Answers PROVE todo \in Todos
  <2> DEFINE C == {p.content : p \in ToSet(todo)}
  <2>1. C \subseteq Contents
    BY DEF Contents
  <2>2. [content : C, level : {1, 2}] \subseteq Said
    BY <2>1 DEF Said, Levels
  <2>3. todo \in Seq([content : C, level : {1, 2}])
    BY <1>1
  <2> QED
    BY <2>2, <2>3, SeqMonotonic DEF Todos
<1> QED
  BY <1>1, <1>2, <1>3, <1>4

LEMMA IdleIs ==
    /\ Idle \in RunSet /\ Idle.pc = "idle" /\ Idle.batch = {} /\ Idle.line = 0 /\ Idle.todo = <<>>
    /\ Idle.rec = 0 /\ Idle.rev = 0 /\ Idle.seen = 0 /\ Idle.seenRev = 0 /\ Idle.tries = 0
<1>1. {} \in Marks /\ <<>> \in Todos /\ "idle" \in Pcs
  BY DEF Marks, Todos, Pcs
<1> QED
  BY <1>1 DEF Idle, RunSet, None

LEMMA SameWorld ==
    ASSUME world' = world
    PROVE  /\ Entries' = Entries /\ Answers' = Answers /\ Contents' = Contents /\ Dreams' = Dreams
           /\ Actors' = Actors /\ RecordSet' = RecordSet /\ RunSet' = RunSet /\ Todos' = Todos
           /\ Said' = Said /\ \A i : Kind(i)' = Kind(i) /\ Valid(i)' = Valid(i)
<1>1. Entries' = Entries /\ Answers' = Answers /\ Dreams' = Dreams
  BY DEF Entries, Answers, Dreams
<1>2. Contents' = Contents /\ Actors' = Actors /\ \A i : Kind(i)' = Kind(i) /\ Valid(i)' = Valid(i)
  BY <1>1 DEF Contents, Actors, Kind, Valid
<1>3. Said' = Said /\ RecordSet' = RecordSet
  BY <1>2 DEF Said, RecordSet
<1>4. Todos' = Todos
  BY <1>3 DEF Todos
<1>5. RunSet' = RunSet
  BY <1>4 DEF RunSet
<1> QED
  BY <1>1, <1>2, <1>3, <1>4, <1>5

-----------------------------------------------------------------------------
(***************************************************************************)
(* The database: what a transaction does to the records.                   *)
(***************************************************************************)
\* Record r after it was revised.
Bumped(r, y, status, repl) ==
    /\ y \in RecordSet
    /\ y.batch = records[r].batch /\ y.content = records[r].content /\ y.level = records[r].level
    /\ y.rev = records[r].rev + 1 /\ y.status = status /\ y.repl = repl

Append1(x) ==
    /\ x \in RecordSet /\ x.status = "candidate" /\ Owner(x.batch, x.content) = {}
    /\ records' = Append(records, x)

\* One record is revised: closed, promoted or blocked.
Revision(r) ==
    \E y : /\ records' = [records EXCEPT ![r] = y]
           /\ \/ /\ records[r].status \in {"candidate", "active"}
                 /\ Bumped(r, y, "revoked", None) \/ Bumped(r, y, "expired", None)
              \/ /\ records[r].status = "candidate" /\ Active = {}
                 /\ Bumped(r, y, "active", None)
              \/ Bumped(r, y, records[r].status, records[r].repl)

Both(r, y, s, z) == [[records EXCEPT ![r] = y] EXCEPT ![s] = z]

\* A candidate replaces the active record, or is merged into it.
Exchange(r, s) ==
    /\ r # s /\ records[r].status = "candidate" /\ records[s].status = "active"
    /\ \E y, z : /\ records' = Both(r, y, s, z)
                 /\ \/ Bumped(r, y, "superseded", s) /\ Bumped(s, z, "active", records[s].repl)
                    \/ Bumped(r, y, "active", None) /\ Bumped(s, z, "superseded", r)

DbEffect ==
    \/ records' = records
    \/ \E x : Append1(x)
    \/ \E r \in DOMAIN records : Revision(r)
    \/ \E r, s \in DOMAIN records : Exchange(r, s)

LEMMA RecordsAre ==
    ASSUME RecordsOK
    PROVE  /\ DOMAIN records = 1 .. Len(records) /\ Len(records) \in Nat
           /\ \A r \in DOMAIN records :
                 /\ records[r] \in RecordSet /\ r \in Nat /\ r # None /\ r <= Len(records)
                 /\ records[r].batch \in Marks /\ records[r].content \in Contents
                 /\ records[r].level \in Levels /\ records[r].status \in Statuses
                 /\ records[r].rev \in Revs /\ records[r].rev \in Nat
                 /\ records[r].repl \in Nat /\ records[r].blocked \in Places
<1>1. DOMAIN records = 1 .. Len(records) /\ Len(records) \in Nat
  BY DEF RecordsOK
<1>2. \A r \in DOMAIN records : records[r] \in RecordSet
  BY <1>1, ElementOfSeq DEF RecordsOK
<1>3. \A x \in RecordSet : /\ x.batch \in Marks /\ x.content \in Contents /\ x.level \in Levels
                           /\ x.status \in Statuses /\ x.rev \in Revs /\ x.repl \in Nat
                           /\ x.blocked \in Places
  BY DEF RecordSet
<1>4. \A r \in DOMAIN records : r \in Nat /\ r # None /\ r <= Len(records)
  BY <1>1 DEF None
<1>5. Revs \subseteq Nat
  BY DEF Revs
<1> QED
  BY <1>1, <1>2, <1>3, <1>4, <1>5

LEMMA ExistingIs ==
    ASSUME RecordsOK
    PROVE  /\ Active \subseteq DOMAIN records /\ Existing \in 0 .. Len(records)
           /\ Existing = None <=> Active = {}
           /\ Existing # None => Existing \in Active /\ records[Existing].status = "active"
<1>1. Active # {} => (CHOOSE r \in Active : TRUE) \in Active
  OBVIOUS
<1>2. Active \subseteq DOMAIN records
  BY DEF Active
<1> QED
  BY <1>1, <1>2, RecordsAre DEF Existing, Active, None

\* A record with a new revision, and more of what it is blocked by.
LEMMA BumpedIs ==
    ASSUME RecordsOK, NEW r \in DOMAIN records
    PROVE  /\ \A status \in Statuses, repl \in Nat : Bumped(r, Revised(r, status, repl), status, repl)
           /\ \A s \in Nat : Bumped(r, [records[r] EXCEPT !.rev = @ + 1, !.blocked = @ \cup {s}],
                                    records[r].status, records[r].repl)
           /\ records[r].status = "active" =>
                Bumped(r, [records[r] EXCEPT !.status = "active", !.rev = @ + 1], "active", records[r].repl)
<1>0. /\ records[r] \in RecordSet /\ records[r].rev \in Nat /\ records[r].blocked \in Places
      /\ records[r].rev + 1 \in Revs /\ {} \in Places
      /\ \A s \in Nat : records[r].blocked \cup {s} \in Places
  <2>1. records[r] \in RecordSet /\ records[r].rev \in Nat /\ records[r].blocked \in Places
    BY RecordsAre
  <2> QED
    BY <2>1 DEF Places, Revs
<1> DEFINE n == records[r].rev + 1
<1>1. n \in Revs
  BY <1>0
<1> HIDE DEF n
<1>2. ASSUME NEW status \in Statuses, NEW repl \in Nat
      PROVE  Bumped(r, Revised(r, status, repl), status, repl)
  <2> DEFINE y == [records[r] EXCEPT !.rev = n, !.status = status, !.repl = repl, !.blocked = {}]
  <2>1. y = Revised(r, status, repl)
    BY DEF Revised, n
  <2>2. /\ y \in RecordSet /\ y.batch = records[r].batch /\ y.content = records[r].content
        /\ y.level = records[r].level /\ y.rev = n /\ y.status = status /\ y.repl = repl
    BY <1>0, <1>1 DEF RecordSet
  <2> HIDE DEF y
  <2> QED
    BY <2>1, <2>2 DEF Bumped, n
<1>3. ASSUME NEW s \in Nat
      PROVE  Bumped(r, [records[r] EXCEPT !.rev = @ + 1, !.blocked = @ \cup {s}],
                    records[r].status, records[r].repl)
  <2> DEFINE b == records[r].blocked \cup {s}
  <2>0. b \in Places
    BY <1>0
  <2> HIDE DEF b
  <2> DEFINE y == [records[r] EXCEPT !.rev = n, !.blocked = b]
  <2>1. y = [records[r] EXCEPT !.rev = @ + 1, !.blocked = @ \cup {s}]
    BY <1>0 DEF n, b, RecordSet
  <2>2. /\ y \in RecordSet /\ y.batch = records[r].batch /\ y.content = records[r].content
        /\ y.level = records[r].level /\ y.rev = n /\ y.status = records[r].status
        /\ y.repl = records[r].repl
    BY <1>0, <1>1, <2>0 DEF RecordSet
  <2> HIDE DEF y
  <2> QED
    BY <2>1, <2>2 DEF Bumped, n
<1>4. ASSUME records[r].status = "active"
      PROVE  Bumped(r, [records[r] EXCEPT !.status = "active", !.rev = @ + 1], "active", records[r].repl)
  <2> DEFINE y == [records[r] EXCEPT !.status = "active", !.rev = n]
  <2>1. y = [records[r] EXCEPT !.status = "active", !.rev = @ + 1]
    BY <1>0 DEF n, RecordSet
  <2>2. /\ y \in RecordSet /\ y.batch = records[r].batch /\ y.content = records[r].content
        /\ y.level = records[r].level /\ y.rev = n /\ y.status = "active"
        /\ y.repl = records[r].repl
    BY <1>0, <1>1, <1>4 DEF RecordSet, Statuses
  <2> HIDE DEF y
  <2> QED
    BY <2>1, <2>2 DEF Bumped, n
<1> QED
  BY <1>2, <1>3, <1>4

\* The four transactions of the lifecycle.
LEMMA AfterIs ==
    ASSUME RecordsOK, NEW r \in DOMAIN records, NEW s \in Nat, records[r].status = "candidate"
    PROVE  /\ records' = After(r, s, "promote") /\ Active = {} => DbEffect
           /\ records' = After(r, s, "block") => DbEffect
           /\ records' = After(r, s, "merge") /\ s \in DOMAIN records /\ records[s].status = "active"
                => DbEffect
           /\ records' = After(r, s, "replace") /\ s \in DOMAIN records /\ records[s].status = "active"
                => DbEffect
<1>0. "active" \in Statuses /\ "superseded" \in Statuses /\ None \in Nat /\ r \in Nat
  BY RecordsAre DEF Statuses, None
<1>1. ASSUME records' = After(r, s, "promote"), Active = {} PROVE DbEffect
  <2>1. records' = [records EXCEPT ![r] = Revised(r, "active", None)]
    BY <1>1 DEF After
  <2>2. Bumped(r, Revised(r, "active", None), "active", None)
    BY <1>0, BumpedIs
  <2>3. Revision(r)
    BY <1>1, <2>1, <2>2 DEF Revision
  <2> QED
    BY <2>3 DEF DbEffect
<1>2. ASSUME records' = After(r, s, "block") PROVE DbEffect
  <2> DEFINE y == [records[r] EXCEPT !.rev = @ + 1, !.blocked = @ \cup {s}]
  <2>1. records' = [records EXCEPT ![r] = y]
    BY <1>2, RecordsAre DEF After
  <2>2. Bumped(r, y, records[r].status, records[r].repl)
    BY BumpedIs
  <2> HIDE DEF y
  <2>3. Revision(r)
    BY <2>1, <2>2 DEF Revision
  <2> QED
    BY <2>3 DEF DbEffect
<1>3. ASSUME records' = After(r, s, "merge"), s \in DOMAIN records, records[s].status = "active"
      PROVE  DbEffect
  <2> DEFINE y == Revised(r, "superseded", s)
             z == [records[s] EXCEPT !.status = "active", !.rev = @ + 1]
  <2>1. r # s
    BY <1>3
  <2>2. records' = Both(r, y, s, z)
    BY <1>3, <2>1, RecordsAre DEF After, Both
  <2>3. Bumped(r, y, "superseded", s)
    BY <1>0, BumpedIs
  <2>4. Bumped(s, z, "active", records[s].repl)
    BY <1>3, BumpedIs
  <2> HIDE DEF y, z
  <2>5. Exchange(r, s)
    BY <1>3, <2>1, <2>2, <2>3, <2>4 DEF Exchange
  <2> QED
    BY <1>3, <2>5 DEF DbEffect
<1>4. ASSUME records' = After(r, s, "replace"), s \in DOMAIN records, records[s].status = "active"
      PROVE  DbEffect
  <2> DEFINE y == Revised(r, "active", None)
             z == Revised(s, "superseded", r)
  <2>1. r # s
    BY <1>4
  <2>2. records' = Both(r, y, s, z)
    BY <1>4, <2>1, RecordsAre DEF After, Both
  <2>3. Bumped(r, y, "active", None)
    BY <1>0, BumpedIs
  <2>4. Bumped(s, z, "superseded", r)
    BY <1>0, <1>4, BumpedIs
  <2> HIDE DEF y, z
  <2>5. Exchange(r, s)
    BY <1>4, <2>1, <2>2, <2>3, <2>4 DEF Exchange
  <2> QED
    BY <1>4, <2>5 DEF DbEffect
<1> QED
  BY <1>1, <1>2, <1>3, <1>4

\* A record keeps its batch, its content and its level; whatever else of it
\* changes, its revision grows.
Kept(x) ==
    /\ records'[x].batch = records[x].batch /\ records'[x].content = records[x].content
    /\ records'[x].level = records[x].level
    /\ records'[x] = records[x] \/ records'[x].rev > records[x].rev

LEMMA RevisionIs ==
    ASSUME RecordsOK, NEW r \in DOMAIN records, NEW y, NEW status, NEW repl, Bumped(r, y, status, repl),
           records' = [records EXCEPT ![r] = y]
    PROVE  /\ records' \in Seq(RecordSet) /\ Len(records') = Len(records) /\ DOMAIN records' = DOMAIN records
           /\ \A x \in DOMAIN records : x # r => records'[x] = records[x]
           /\ records'[r].status = status /\ records'[r].repl = repl
           /\ \A x \in DOMAIN records : Kept(x)
<1>0. DOMAIN records = 1 .. Len(records) /\ records \in Seq(RecordSet) /\ r \in 1 .. Len(records)
      /\ records[r].rev \in Nat /\ y \in RecordSet
  BY RecordsAre DEF RecordsOK, Bumped
<1>1. /\ records' \in Seq(RecordSet) /\ Len(records') = Len(records)
      /\ \A x \in 1 .. Len(records) : records'[x] = IF x = r THEN y ELSE records[x]
  BY <1>0, ExceptSeq
<1>2. DOMAIN records' = DOMAIN records
  BY <1>0, <1>1
<1>3. records'[r] = y
  BY <1>0, <1>1
<1>4. y.rev > records[r].rev
  BY <1>0 DEF Bumped
<1>5. Kept(r)
  BY <1>3, <1>4 DEF Kept, Bumped
<1>6. \A x \in DOMAIN records : x # r => records'[x] = records[x]
  BY <1>0, <1>1
<1> QED
  BY <1>1, <1>2, <1>3, <1>5, <1>6 DEF Kept, Bumped

LEMMA ExchangeIs ==
    ASSUME RecordsOK, NEW r \in DOMAIN records, NEW s \in DOMAIN records, r # s,
           NEW y, NEW z, NEW sy, NEW ry, NEW sz, NEW rz, Bumped(r, y, sy, ry), Bumped(s, z, sz, rz),
           records' = Both(r, y, s, z)
    PROVE  /\ records' \in Seq(RecordSet) /\ Len(records') = Len(records) /\ DOMAIN records' = DOMAIN records
           /\ \A x \in DOMAIN records : x # r /\ x # s => records'[x] = records[x]
           /\ records'[r].status = sy /\ records'[r].repl = ry
           /\ records'[s].status = sz /\ records'[s].repl = rz
           /\ \A x \in DOMAIN records : Kept(x)
<1>0. DOMAIN records = 1 .. Len(records) /\ records \in Seq(RecordSet)
      /\ r \in 1 .. Len(records) /\ s \in 1 .. Len(records)
      /\ records[r].rev \in Nat /\ records[s].rev \in Nat /\ y \in RecordSet /\ z \in RecordSet
  BY RecordsAre DEF RecordsOK, Bumped
<1> DEFINE u == [records EXCEPT ![r] = y]
<1>1. /\ u \in Seq(RecordSet) /\ Len(u) = Len(records)
      /\ \A x \in 1 .. Len(records) : u[x] = IF x = r THEN y ELSE records[x]
  BY <1>0, ExceptSeq
<1>2. records' = [u EXCEPT ![s] = z]
  BY DEF Both
<1> HIDE DEF u
<1>3. /\ records' \in Seq(RecordSet) /\ Len(records') = Len(records)
      /\ \A x \in 1 .. Len(records) : records'[x] = IF x = s THEN z ELSE u[x]
  BY <1>0, <1>1, <1>2, ExceptSeq
<1>4. DOMAIN records' = DOMAIN records
  BY <1>0, <1>3
<1>5. records'[r] = y /\ records'[s] = z
  BY <1>0, <1>1, <1>3
<1>6. y.rev > records[r].rev /\ z.rev > records[s].rev
  BY <1>0 DEF Bumped
<1>7. Kept(r) /\ Kept(s)
  BY <1>5, <1>6 DEF Kept, Bumped
<1>8. \A x \in DOMAIN records : x # r /\ x # s => records'[x] = records[x]
  BY <1>0, <1>1, <1>3
<1> QED
  BY <1>3, <1>4, <1>5, <1>7, <1>8 DEF Kept, Bumped

LEMMA AppendIs ==
    ASSUME RecordsOK, NEW x, Append1(x)
    PROVE  /\ records' \in Seq(RecordSet) /\ Len(records') = Len(records) + 1
           /\ DOMAIN records' = 1 .. Len(records) + 1
           /\ \A i \in DOMAIN records : i \in DOMAIN records' /\ records'[i] = records[i]
           /\ records'[Len(records) + 1] = x /\ Len(records) + 1 \notin DOMAIN records
           /\ \A i \in DOMAIN records : Kept(i)
<1>0. DOMAIN records = 1 .. Len(records) /\ Len(records) \in Nat /\ records \in Seq(RecordSet)
      /\ x \in RecordSet /\ records' = Append(records, x)
  BY RecordsAre DEF RecordsOK, Append1
<1>1. /\ records' \in Seq(RecordSet) /\ Len(records') = Len(records) + 1
      /\ \A i \in 1 .. Len(records) : records'[i] = records[i]
      /\ records'[Len(records) + 1] = x
  BY <1>0, AppendProperties
<1>2. DOMAIN records' = 1 .. Len(records) + 1
  BY <1>1
<1>3. \A i \in DOMAIN records : i \in DOMAIN records'
  BY <1>0, <1>2
<1>4. Len(records) + 1 \notin DOMAIN records
  BY <1>0
<1> QED
  BY <1>0, <1>1, <1>2, <1>3, <1>4 DEF Kept

LEMMA Points ==
    ASSUME RecordsOK, DbEffect
    PROVE  /\ records' \in Seq(RecordSet) /\ Len(records') \in Nat /\ Len(records) <= Len(records')
           /\ \A x \in DOMAIN records : x \in DOMAIN records' /\ Kept(x)
<1>0. Len(records) \in Nat /\ records \in Seq(RecordSet)
  BY RecordsAre DEF RecordsOK
<1>1. CASE records' = records
  BY <1>0, <1>1 DEF Kept
<1>2. ASSUME NEW x, Append1(x)
      PROVE  records' \in Seq(RecordSet) /\ Len(records') = Len(records) + 1
             /\ \A i \in DOMAIN records : i \in DOMAIN records' /\ Kept(i)
  BY <1>2, AppendIs
<1>3. ASSUME NEW r \in DOMAIN records, Revision(r)
      PROVE  records' \in Seq(RecordSet) /\ Len(records') = Len(records)
             /\ \A i \in DOMAIN records : i \in DOMAIN records' /\ Kept(i)
  BY <1>3, RevisionIs DEF Revision
<1>4. ASSUME NEW r \in DOMAIN records, NEW s \in DOMAIN records, Exchange(r, s)
      PROVE  records' \in Seq(RecordSet) /\ Len(records') = Len(records)
             /\ \A i \in DOMAIN records : i \in DOMAIN records' /\ Kept(i)
  BY <1>4, ExchangeIs DEF Exchange
<1> QED
  BY <1>0, <1>1, <1>2, <1>3, <1>4 DEF DbEffect

Superseded == {r \in DOMAIN records : records[r].status = "superseded"}

\* At most one active record, one record per batch and statement, and no
\* replacement that leads nowhere.
DbInv ==
    /\ \A r, s \in Active : r = s
    /\ CreatedOnce
    /\ \A r \in Superseded : records[r].repl \in DOMAIN records
    /\ \A S \in (SUBSET Superseded) \ {{}} : \E r \in S : records[r].repl \notin S

LEMMA OneActiveStep ==
    ASSUME RecordsOK, DbInv, DbEffect
    PROVE  \A r, s \in Active' : r = s
<1>0. \A x : x \in Active <=> x \in DOMAIN records /\ records[x].status = "active"
  BY DEF Active
<1>1. \A x : x \in Active' <=> x \in DOMAIN records' /\ records'[x].status = "active"
  BY DEF Active
<1>2. CASE records' = records
  BY <1>0, <1>1, <1>2 DEF DbInv
<1>3. ASSUME NEW x, Append1(x) PROVE Active' \subseteq Active
  <2>1. x.status # "active"
    BY <1>3 DEF Append1
  <2>2. \A i \in DOMAIN records' : i \in DOMAIN records \/ i = Len(records) + 1
    BY <1>3, AppendIs, RecordsAre
  <2> QED
    BY <1>0, <1>1, <1>3, <2>1, <2>2, AppendIs
<1>4. ASSUME NEW r \in DOMAIN records, Revision(r)
      PROVE  Active' \subseteq Active \/ (Active = {} /\ Active' \subseteq {r})
  <2>1. PICK y : /\ records' = [records EXCEPT ![r] = y]
                 /\ \/ /\ records[r].status \in {"candidate", "active"}
                       /\ Bumped(r, y, "revoked", None) \/ Bumped(r, y, "expired", None)
                    \/ /\ records[r].status = "candidate" /\ Active = {}
                       /\ Bumped(r, y, "active", None)
                    \/ Bumped(r, y, records[r].status, records[r].repl)
    BY <1>4 DEF Revision
  <2>2. CASE Bumped(r, y, "revoked", None) \/ Bumped(r, y, "expired", None)
    <3>1. PICK status \in {"revoked", "expired"} : Bumped(r, y, status, None)
      BY <2>2
    <3>2. records'[r].status = status /\ DOMAIN records' = DOMAIN records
          /\ \A x \in DOMAIN records : x # r => records'[x] = records[x]
      BY <2>1, <3>1, RevisionIs
    <3>3. status # "active"
      OBVIOUS
    <3> QED
      BY <1>0, <1>1, <3>2, <3>3
  <2>3. CASE Active = {} /\ Bumped(r, y, "active", None)
    <3>1. DOMAIN records' = DOMAIN records
          /\ \A x \in DOMAIN records : x # r => records'[x] = records[x]
      BY <2>1, <2>3, RevisionIs
    <3> QED
      BY <1>0, <1>1, <2>3, <3>1
  <2>4. CASE Bumped(r, y, records[r].status, records[r].repl)
    <3>1. records'[r].status = records[r].status /\ DOMAIN records' = DOMAIN records
          /\ \A x \in DOMAIN records : x # r => records'[x] = records[x]
      BY <2>1, <2>4, RevisionIs
    <3> QED
      BY <1>0, <1>1, <3>1
  <2> QED
    BY <2>1, <2>2, <2>3, <2>4
<1>5. ASSUME NEW r \in DOMAIN records, NEW s \in DOMAIN records, Exchange(r, s)
      PROVE  \E t : Active' \subseteq {t}
  <2>0. Active = {s} /\ r # s
    BY <1>0, <1>5 DEF Exchange, DbInv
  <2>1. PICK y, z : /\ records' = Both(r, y, s, z)
                    /\ \/ Bumped(r, y, "superseded", s) /\ Bumped(s, z, "active", records[s].repl)
                       \/ Bumped(r, y, "active", None) /\ Bumped(s, z, "superseded", r)
    BY <1>5 DEF Exchange
  <2>2. CASE Bumped(r, y, "superseded", s) /\ Bumped(s, z, "active", records[s].repl)
    <3> DEFINE rz == records[s].repl
    <3>0. Bumped(r, y, "superseded", s) /\ Bumped(s, z, "active", rz)
      BY <2>2
    <3> HIDE DEF rz
    <3>1. /\ records'[r].status = "superseded" /\ DOMAIN records' = DOMAIN records
          /\ \A x \in DOMAIN records : x # r /\ x # s => records'[x] = records[x]
      BY <2>0, <2>1, <3>0, ExchangeIs
    <3>2. Active' \subseteq {s}
      BY <1>0, <1>1, <2>0, <3>1
    <3> QED
      BY <3>2
  <2>3. CASE Bumped(r, y, "active", None) /\ Bumped(s, z, "superseded", r)
    <3>1. /\ records'[s].status = "superseded" /\ DOMAIN records' = DOMAIN records
          /\ \A x \in DOMAIN records : x # r /\ x # s => records'[x] = records[x]
      BY <2>0, <2>1, <2>3, ExchangeIs
    <3>2. Active' \subseteq {r}
      BY <1>0, <1>1, <2>0, <3>1
    <3> QED
      BY <3>2
  <2> QED
    BY <2>1, <2>2, <2>3
<1>6. \A r, s \in Active : r = s
  BY DEF DbInv
<1> QED
  BY <1>2, <1>3, <1>4, <1>5, <1>6 DEF DbEffect

LEMMA CreatedOnceStep ==
    ASSUME RecordsOK, DbInv, DbEffect
    PROVE  CreatedOnce'
<1>1. CASE DOMAIN records' = DOMAIN records
  <2>1. \A x \in DOMAIN records : Kept(x)
    BY Points
  <2> QED
    BY <1>1, <2>1 DEF Kept, DbInv, CreatedOnce
<1>2. ASSUME NEW x, Append1(x)
      PROVE  CreatedOnce'
  <2> DEFINE n == Len(records) + 1
  <2>1. /\ DOMAIN records' = 1 .. n /\ records'[n] = x
        /\ \A i \in DOMAIN records : records'[i] = records[i]
        /\ \A i \in 1 .. n : i \in DOMAIN records \/ i = n
    BY <1>2, AppendIs, RecordsAre
  <2> HIDE DEF n
  <2>2. \A i \in DOMAIN records : records[i].batch # x.batch \/ records[i].content # x.content
    BY <1>2 DEF Append1, Owner
  <2> QED
    BY <2>1, <2>2 DEF DbInv, CreatedOnce
<1>3. ASSUME NEW r \in DOMAIN records, Revision(r) PROVE DOMAIN records' = DOMAIN records
  BY <1>3, RevisionIs DEF Revision
<1>4. ASSUME NEW r \in DOMAIN records, NEW s \in DOMAIN records, Exchange(r, s)
      PROVE  DOMAIN records' = DOMAIN records
  BY <1>4, ExchangeIs DEF Exchange
<1> QED
  BY <1>1, <1>2, <1>3, <1>4 DEF DbEffect

\* The replaced records stay as they are, or one more joins them whose
\* replacement is none of them.
Joins(x) ==
    /\ Superseded' = Superseded \cup {x} /\ x \in DOMAIN records' /\ x \notin Superseded
    /\ records'[x].repl \in DOMAIN records' /\ records'[x].repl \notin Superseded'

LEMMA ChainsStep ==
    ASSUME RecordsOK, DbInv, DbEffect
    PROVE  /\ \A r \in Superseded' : records'[r].repl \in DOMAIN records'
           /\ \A S \in (SUBSET Superseded') \ {{}} : \E r \in S : records'[r].repl \notin S
<1>0. \A x : x \in Superseded <=> x \in DOMAIN records /\ records[x].status = "superseded"
  BY DEF Superseded
<1>1. \A x : x \in Superseded' <=> x \in DOMAIN records' /\ records'[x].status = "superseded"
  BY DEF Superseded
<1>2. \A x \in DOMAIN records : x \in DOMAIN records'
  BY Points
<1>3. \A r \in Superseded : records'[r].repl = records[r].repl
  <2>1. CASE records' = records
    BY <2>1
  <2>2. ASSUME NEW x, Append1(x) PROVE \A r \in DOMAIN records : records'[r] = records[r]
    BY <2>2, AppendIs
  <2>3. ASSUME NEW r \in DOMAIN records, Revision(r)
        PROVE  \A i \in Superseded : records'[i].repl = records[i].repl
    <3>1. PICK y : /\ records' = [records EXCEPT ![r] = y]
                   /\ \/ /\ records[r].status \in {"candidate", "active"}
                         /\ Bumped(r, y, "revoked", None) \/ Bumped(r, y, "expired", None)
                      \/ /\ records[r].status = "candidate" /\ Active = {}
                         /\ Bumped(r, y, "active", None)
                      \/ Bumped(r, y, records[r].status, records[r].repl)
      BY <2>3 DEF Revision
    <3>2. \A i \in DOMAIN records : i # r => records'[i] = records[i]
      <4>1. records \in Seq(RecordSet) /\ records' = [records EXCEPT ![r] = y]
        BY <3>1 DEF RecordsOK
      <4> QED
        BY <4>1
    <3>3. r \notin Superseded \/ Bumped(r, y, records[r].status, records[r].repl)
      BY <1>0, <3>1
    <3>4. ASSUME Bumped(r, y, records[r].status, records[r].repl)
          PROVE  records'[r].repl = records[r].repl
      <4>1. y.repl = records[r].repl
        BY <3>4 DEF Bumped
      <4>2. records' = [records EXCEPT ![r] = y] /\ records \in Seq(RecordSet)
        BY <3>1 DEF RecordsOK
      <4>3. records'[r] = y
        BY <4>2
      <4> QED
        BY <4>1, <4>3
    <3> QED
      BY <1>0, <3>2, <3>3, <3>4
  <2>4. ASSUME NEW r \in DOMAIN records, NEW s \in DOMAIN records, Exchange(r, s)
        PROVE  \A i \in Superseded : records'[i] = records[i]
    <3>1. \A i \in DOMAIN records : i # r /\ i # s => records'[i] = records[i]
      BY <2>4, ExchangeIs DEF Exchange
    <3> QED
      BY <1>0, <2>4, <3>1 DEF Exchange
  <2> QED
    BY <1>0, <2>1, <2>2, <2>3, <2>4 DEF DbEffect
<1>4. Superseded' = Superseded \/ \E x : Joins(x)
  <2>1. CASE records' = records
    BY <1>0, <1>1, <2>1
  <2>2. ASSUME NEW x, Append1(x) PROVE Superseded' = Superseded
    <3>1. x.status # "superseded"
      BY <2>2 DEF Append1
    <3>2. \A i \in DOMAIN records' : i \in DOMAIN records \/ i = Len(records) + 1
      BY <2>2, AppendIs, RecordsAre
    <3>3. \A i : i \in Superseded' <=> i \in Superseded
      BY <1>0, <1>1, <2>2, <3>1, <3>2, AppendIs
    <3> QED
      BY <3>3
  <2>3. ASSUME NEW r \in DOMAIN records, Revision(r) PROVE Superseded' = Superseded
    <3>1. PICK y : /\ records' = [records EXCEPT ![r] = y]
                   /\ \/ /\ records[r].status \in {"candidate", "active"}
                         /\ Bumped(r, y, "revoked", None) \/ Bumped(r, y, "expired", None)
                      \/ /\ records[r].status = "candidate" /\ Active = {}
                         /\ Bumped(r, y, "active", None)
                      \/ Bumped(r, y, records[r].status, records[r].repl)
      BY <2>3 DEF Revision
    <3>2. DOMAIN records' = DOMAIN records /\ \A i \in DOMAIN records : i # r => records'[i] = records[i]
      BY <3>1, RevisionIs
    <3>3. records[r].status = "superseded" <=> records'[r].status = "superseded"
      <4>1. CASE Bumped(r, y, records[r].status, records[r].repl)
        BY <3>1, <4>1, RevisionIs
      <4>2. ASSUME NEW status \in {"revoked", "expired", "active"}, Bumped(r, y, status, None),
                   records[r].status \in {"candidate", "active"}
            PROVE  records[r].status # "superseded" /\ records'[r].status # "superseded"
        <5>1. records'[r].status = status
          BY <3>1, <4>2, RevisionIs
        <5> QED
          BY <4>2, <5>1
      <4> QED
        BY <3>1, <4>1, <4>2
    <3>4. \A i : i \in Superseded' <=> i \in Superseded
      BY <1>0, <1>1, <3>2, <3>3
    <3> QED
      BY <3>4
  <2>4. ASSUME NEW r \in DOMAIN records, NEW s \in DOMAIN records, Exchange(r, s)
        PROVE  \E x : Joins(x)
    <3>0. r # s /\ records[r].status = "candidate" /\ records[s].status = "active"
      BY <2>4 DEF Exchange
    <3>1. PICK y, z : /\ records' = Both(r, y, s, z)
                      /\ \/ Bumped(r, y, "superseded", s) /\ Bumped(s, z, "active", records[s].repl)
                         \/ Bumped(r, y, "active", None) /\ Bumped(s, z, "superseded", r)
      BY <2>4 DEF Exchange
    <3>2. CASE Bumped(r, y, "superseded", s) /\ Bumped(s, z, "active", records[s].repl)
      <4> DEFINE rz == records[s].repl
      <4>0. Bumped(r, y, "superseded", s) /\ Bumped(s, z, "active", rz)
        BY <3>2
      <4> HIDE DEF rz
      <4>1. /\ DOMAIN records' = DOMAIN records
            /\ \A x \in DOMAIN records : x # r /\ x # s => records'[x] = records[x]
            /\ records'[r].status = "superseded" /\ records'[r].repl = s /\ records'[s].status = "active"
        BY <3>0, <3>1, <4>0, ExchangeIs
      <4>2. \A i : i \in Superseded' <=> i \in Superseded \cup {r}
        BY <1>0, <1>1, <3>0, <4>1
      <4>3. Joins(r)
        BY <1>0, <1>1, <3>0, <4>1, <4>2 DEF Joins
      <4> QED
        BY <4>3
    <3>3. CASE Bumped(r, y, "active", None) /\ Bumped(s, z, "superseded", r)
      <4>1. /\ DOMAIN records' = DOMAIN records
            /\ \A x \in DOMAIN records : x # r /\ x # s => records'[x] = records[x]
            /\ records'[s].status = "superseded" /\ records'[s].repl = r /\ records'[r].status = "active"
        BY <3>0, <3>1, <3>3, ExchangeIs
      <4>2. \A i : i \in Superseded' <=> i \in Superseded \cup {s}
        BY <1>0, <1>1, <3>0, <4>1
      <4>3. Joins(s)
        BY <1>0, <1>1, <3>0, <4>1, <4>2 DEF Joins
      <4> QED
        BY <4>3
    <3> QED
      BY <3>1, <3>2, <3>3
  <2> QED
    BY <2>1, <2>2, <2>3, <2>4 DEF DbEffect
<1>5. \A r \in Superseded : records[r].repl \in DOMAIN records
  BY DEF DbInv
<1>6. \A S : S \subseteq Superseded /\ S # {} => \E r \in S : records[r].repl \notin S
  BY DEF DbInv
<1>7. ASSUME NEW S, S \subseteq Superseded, S # {} PROVE \E r \in S : records'[r].repl \notin S
  BY <1>3, <1>6, <1>7
<1>8. CASE Superseded' = Superseded
  BY <1>2, <1>3, <1>5, <1>7, <1>8
<1>9. ASSUME NEW x, Joins(x)
      PROVE  /\ \A r \in Superseded' : records'[r].repl \in DOMAIN records'
             /\ \A S \in (SUBSET Superseded') \ {{}} : \E r \in S : records'[r].repl \notin S
  <2>1. \A r \in Superseded' : records'[r].repl \in DOMAIN records'
    BY <1>2, <1>3, <1>5, <1>9 DEF Joins
  <2>2. ASSUME NEW S, S \subseteq Superseded', S # {} PROVE \E r \in S : records'[r].repl \notin S
    <3>1. CASE x \in S
      BY <1>9, <2>2, <3>1 DEF Joins
    <3>2. CASE x \notin S
      <4>1. S \subseteq Superseded
        BY <1>9, <2>2, <3>2 DEF Joins
      <4> QED
        BY <1>7, <2>2, <4>1
    <3> QED
      BY <3>1, <3>2
  <2> QED
    BY <2>1, <2>2
<1> QED
  BY <1>4, <1>8, <1>9

LEMMA DbStep ==
    ASSUME RecordsOK, DbInv, DbEffect
    PROVE  DbInv'
BY OneActiveStep, CreatedOnceStep, ChainsStep DEF DbInv

-----------------------------------------------------------------------------
(***************************************************************************)
(* The runs: what each of them has seen of the records is still so, or     *)
(* their revisions tell.                                                   *)
(***************************************************************************)
Sees(q) ==
    /\ q.pc \in {"look", "apply"} =>
          /\ q.rev <= records[q.rec].rev
          /\ q.rev = records[q.rec].rev => records[q.rec].status = "candidate"
    /\ q.pc = "apply" =>
          /\ q.rev = records[q.rec].rev => Wants(q.rec, q.seen) # "nothing"
          /\ q.seen <= Len(records)
          /\ q.seen # None =>
                /\ q.seenRev <= records[q.seen].rev
                /\ q.seenRev = records[q.seen].rev => records[q.seen].status = "active"

SeenInv == \A a \in Actors : Sees(run[a])

\* Whatever a step does, the records and the entries only grow.
Growth == world' = world /\ DbEffect /\ made' \in Nat /\ made <= made'

LEMMA WantsKept ==
    ASSUME RecordsOK, DbEffect, NEW r \in DOMAIN records, NEW s \in 0 .. Len(records),
           records'[r] = records[r]
    PROVE  Wants(r, s)' = Wants(r, s)
<1>1. s # None => /\ records'[s].content = records[s].content
                  /\ records'[s].level = records[s].level
  <2>1. s # None => s \in DOMAIN records
    BY RecordsAre DEF None
  <2> QED
    BY <2>1, Points DEF Kept
<1>2. Promotable(r)' = Promotable(r)
  BY DEF Promotable
<1> QED
  BY <1>1, <1>2 DEF Wants

LEMMA RunFields ==
    ASSUME NEW q \in RunSet
    PROVE  /\ q.pc \in Pcs /\ q.batch \in Marks /\ q.line \in Nat /\ q.todo \in Todos /\ q.rec \in Nat
           /\ q.rev \in Nat /\ q.seen \in Nat /\ q.seenRev \in Nat /\ q.tries \in Nat
BY DEF RunSet

LEMMA SeesKept ==
    ASSUME RecordsOK, DbEffect, NEW q \in RunSet, q.rec <= Len(records),
           q.pc \in {"look", "apply"} => q.rec # None, Sees(q)
    PROVE  Sees(q)'
<1>0. /\ q.rec \in Nat /\ q.rev \in Nat /\ q.seen \in Nat /\ q.seenRev \in Nat
      /\ Len(records) \in Nat /\ Len(records') \in Nat /\ Len(records) <= Len(records')
      /\ DOMAIN records = 1 .. Len(records)
  BY RunFields, RecordsAre, Points
<1>1. ASSUME NEW x \in DOMAIN records, NEW n \in Nat, n <= records[x].rev
      PROVE  n <= records'[x].rev /\ (n = records'[x].rev => records'[x] = records[x])
  <2>1. records[x].rev \in Nat /\ Kept(x)
    BY RecordsAre, Points
  <2> DEFINE m == records[x].rev
             k == records'[x].rev
  <2>2. m \in Nat /\ n <= m /\ ((k = m /\ records'[x] = records[x]) \/ k > m)
    BY <1>1, <2>1 DEF Kept
  <2>3. records' \in Seq(RecordSet) /\ x \in DOMAIN records'
    BY Points
  <2>4. k \in Nat
    <3>1. records'[x] \in RecordSet
      BY <2>3, ElementOfSeq
    <3> QED
      BY <3>1 DEF RecordSet, Revs
  <2> HIDE DEF m, k
  <2>5. n <= k /\ (n = k => k = m)
    BY <2>2, <2>4
  <2>6. n = k => ~(k > m)
    BY <2>2, <2>4, <2>5
  <2> QED
    BY <2>2, <2>5, <2>6 DEF k, m
<1>2. ASSUME q.pc \in {"look", "apply"}
      PROVE  /\ q.rec \in DOMAIN records /\ q.rev <= records'[q.rec].rev
             /\ q.rev = records'[q.rec].rev => records'[q.rec] = records[q.rec]
  <2>1. q.rec \in DOMAIN records
    BY <1>0, <1>2 DEF None
  <2>2. q.rev <= records[q.rec].rev
    BY <1>2 DEF Sees
  <2> QED
    BY <1>0, <1>1, <2>1, <2>2
<1>3. ASSUME q.pc \in {"look", "apply"}
      PROVE  /\ q.rev <= records'[q.rec].rev
             /\ q.rev = records'[q.rec].rev => records'[q.rec].status = "candidate"
  BY <1>2, <1>3 DEF Sees
<1>4. ASSUME q.pc = "apply"
      PROVE  /\ q.rev = records'[q.rec].rev => Wants(q.rec, q.seen)' # "nothing"
             /\ q.seen <= Len(records')
             /\ q.seen # None =>
                   /\ q.seenRev <= records'[q.seen].rev
                   /\ q.seenRev = records'[q.seen].rev => records'[q.seen].status = "active"
  <2>0. q.seen <= Len(records) /\ q.seen \in 0 .. Len(records)
    BY <1>0, <1>4 DEF Sees
  <2>1. q.seen <= Len(records')
    BY <1>0, <2>0
  <2>2. ASSUME q.rev = records'[q.rec].rev PROVE Wants(q.rec, q.seen)' # "nothing"
    <3>1. records'[q.rec] = records[q.rec] /\ q.rec \in DOMAIN records
      BY <1>2, <1>4, <2>2
    <3>2. Wants(q.rec, q.seen)' = Wants(q.rec, q.seen)
      BY <2>0, <3>1, WantsKept
    <3> QED
      BY <1>4, <2>2, <3>1, <3>2 DEF Sees
  <2>3. ASSUME q.seen # None
        PROVE  /\ q.seenRev <= records'[q.seen].rev
               /\ q.seenRev = records'[q.seen].rev => records'[q.seen].status = "active"
    <3>1. q.seen \in DOMAIN records
      BY <1>0, <2>0, <2>3 DEF None
    <3>2. q.seenRev <= records[q.seen].rev
          /\ (q.seenRev = records[q.seen].rev => records[q.seen].status = "active")
      BY <1>4, <2>3 DEF Sees
    <3>3. q.seenRev <= records'[q.seen].rev
          /\ (q.seenRev = records'[q.seen].rev => records'[q.seen] = records[q.seen])
      BY <1>0, <1>1, <3>1, <3>2
    <3> QED
      BY <3>2, <3>3
  <2> QED
    BY <2>1, <2>2, <2>3
<1> QED
  BY <1>3, <1>4 DEF Sees

LEMMA Stays ==
    ASSUME TypeInv, Growth, NEW a \in Actors, NEW q, RunOK(a, q), Knows(a, q), Sees(q)
    PROVE  RunOK(a, q)' /\ Knows(a, q)' /\ Sees(q)'
<1>0. world' = world /\ RecordsOK /\ DbEffect /\ q \in RunSet
  BY DEF Growth, TypeInv, RunOK
<1>1. RunOK(a, q)'
  <2>1. RunSet' = RunSet
    BY <1>0, SameWorld
  <2> QED
    BY <2>1 DEF RunOK
<1>2. Knows(a, q)'
  <2>1. Len(records) \in Nat /\ Len(records') \in Nat /\ Len(records) <= Len(records')
    BY <1>0, RecordsAre, Points
  <2>2. made \in Nat /\ made' \in Nat /\ made <= made' /\ q.rec \in Nat /\ q.line \in Nat
    BY <1>0, WorldIs, RunFields DEF Growth, TypeInv, FilesOK
  <2>3. q.rec <= Len(records) /\ q.line <= made /\ (a # User => q.batch \subseteq 1 .. made)
    BY DEF Knows
  <2>4. q.rec <= Len(records') /\ q.line <= made'
    BY <2>1, <2>2, <2>3
  <2>5. 1 .. made \subseteq 1 .. made'
    BY <2>2
  <2> QED
    BY <2>3, <2>4, <2>5 DEF Knows
<1>3. Sees(q)'
  <2>1. q.rec <= Len(records) /\ (q.pc \in {"look", "apply"} => q.rec # None)
    BY DEF Knows, RunOK
  <2> QED
    BY <1>0, <2>1, SeesKept
<1> QED
  BY <1>1, <1>2, <1>3

LEMMA RunIs ==
    ASSUME TypeInv, SeenInv, NEW a \in Actors
    PROVE  RunOK(a, run[a]) /\ Knows(a, run[a]) /\ Sees(run[a])
BY DEF TypeInv, RunsOK, SeenInv

LEMMA IdleFine ==
    ASSUME TypeInv, NEW a \in Actors
    PROVE  RunOK(a, Idle) /\ Knows(a, Idle) /\ Sees(Idle)
<1>1. Attempts \in Nat \ {0} /\ made \in Nat /\ Len(records) \in Nat
  BY WorldIs, RecordsAre DEF TypeInv, FilesOK
<1>2. RunOK(a, Idle)
  BY <1>1, IdleIs DEF RunOK, Ingesting
<1>3. Knows(a, Idle)
  BY <1>1, IdleIs DEF Knows
<1>4. Sees(Idle)
  BY IdleIs DEF Sees
<1> QED
  BY <1>2, <1>3, <1>4

\* Run a becomes q.
RunStep(a, q) ==
    /\ run' = [run EXCEPT ![a] = q]
    /\ RunOK(a, q) /\ Knows(a, q)' /\ Sees(q)'

LEMMA RunStepIs ==
    ASSUME TypeInv, SeenInv, Growth, NEW a \in Actors, NEW q, RunStep(a, q)
    PROVE  /\ RunsOK' /\ SeenInv' /\ run'[a] = q
           /\ \A b \in Actors : b # a => run'[b] = run[b]
<1>0. /\ DOMAIN run = Actors /\ run' = [run EXCEPT ![a] = q] /\ Actors' = Actors
  BY SameWorld DEF TypeInv, RunsOK, RunStep, Growth
<1>1. DOMAIN run' = Actors' /\ run'[a] = q /\ \A b \in Actors : b # a => run'[b] = run[b]
  BY <1>0
<1>2. RunOK(a, q)'
  <2>1. RunSet' = RunSet
    BY SameWorld DEF Growth
  <2> QED
    BY <2>1 DEF RunOK, RunStep
<1>3. ASSUME NEW b \in Actors, b # a
      PROVE  RunOK(b, run[b])' /\ Knows(b, run[b])' /\ Sees(run[b])'
  <2>1. PICK y : y = run[b]
    OBVIOUS
  <2>2. RunOK(b, y) /\ Knows(b, y) /\ Sees(y)
    BY <2>1, RunIs
  <2>3. RunOK(b, y)' /\ Knows(b, y)' /\ Sees(y)'
    BY <2>2, Stays
  <2>4. y = run'[b]
    BY <1>1, <1>3, <2>1
  <2> QED
    BY <2>3, <2>4
<1>4. RunOK(a, run[a])' /\ Knows(a, run[a])' /\ Sees(run[a])'
  BY <1>1, <1>2 DEF RunStep
<1>5. \A b \in Actors' : RunOK(b, run[b])' /\ Knows(b, run[b])' /\ Sees(run[b])'
  BY <1>0, <1>3, <1>4
<1> QED
  BY <1>1, <1>5 DEF RunsOK, SeenInv

LEMMA RunsStay ==
    ASSUME TypeInv, SeenInv, Growth, run' = run \/ Dies
    PROVE  /\ RunsOK' /\ SeenInv'
           /\ \A b \in Actors : run'[b] = run[b] \/ (b # User /\ run'[b] = Idle)
<1>0. DOMAIN run = Actors /\ Actors' = Actors
  BY SameWorld DEF TypeInv, RunsOK, Growth
<1>1. DOMAIN run' = Actors' /\ \A b \in Actors : run'[b] = run[b] \/ (b # User /\ run'[b] = Idle)
  BY <1>0 DEF Dies
<1>2. ASSUME NEW b \in Actors
      PROVE  RunOK(b, run[b])' /\ Knows(b, run[b])' /\ Sees(run[b])'
  <2>1. PICK y \in {run[b], Idle} : y = run'[b]
    BY <1>1
  <2>2. RunOK(b, y) /\ Knows(b, y) /\ Sees(y)
    BY <2>1, RunIs, IdleFine
  <2>3. RunOK(b, y)' /\ Knows(b, y)' /\ Sees(y)'
    BY <2>2, Stays
  <2> QED
    BY <2>1, <2>3
<1> QED
  BY <1>0, <1>1, <1>2 DEF RunsOK, SeenInv

-----------------------------------------------------------------------------
(***************************************************************************)
(* The steps that ingest.                                                  *)
(***************************************************************************)
\* What a step of the ingestion makes of run a: it goes on with the same batch,
\* ends, or hands the batch over to the cursors.
Ingested(a, q) ==
    /\ RunStep(a, q)
    /\ \/ q.pc = "idle" /\ digested' = digested
       \/ /\ q.pc \in Ingesting /\ digested' = digested
          /\ a # User => /\ run[a].pc \in Ingesting \cup {"asking"}
                         /\ q.batch = run[a].batch /\ q.line = run[a].line
       \/ /\ a # User /\ q.pc = "history" /\ run[a].pc \in Ingesting \cup {"asking"}
          /\ q.batch = run[a].batch /\ q.line = run[a].line
          /\ digested' = digested \cup run[a].batch

IngestStep(a) ==
    /\ UNCHANGED <<files, shifted, dropped>> /\ left' \in Lefts
    /\ \E q : Ingested(a, q)

LEMMA Enough ==
    ASSUME TypeInv, Growth, UNCHANGED files, NEW a \in Actors,
           NEW q, q.batch = run[a].batch, q.line = run[a].line, q.rec <= Len(records'), RunsOK
    PROVE  Knows(a, q)'
<1>1. Knows(a, run[a]) /\ made' = made
  BY DEF TypeInv, RunsOK, files
<1> QED
  BY <1>1 DEF Knows

LEMMA FailsIs ==
    ASSUME TypeInv, SeenInv, Growth, NEW a \in Actors, Fails(a)
    PROVE  \E q : Ingested(a, q)
<1>1. RunOK(a, Idle) /\ Knows(a, Idle)' /\ Sees(Idle)'
  BY IdleFine, Stays
<1>2. run' = [run EXCEPT ![a] = Idle] /\ digested' = digested
  BY DEF Fails, history
<1>3. RunStep(a, Idle)
  BY <1>1, <1>2 DEF RunStep
<1> QED
  BY <1>2, <1>3, IdleIs DEF Ingested

GoesOn(a, rest) == [Proposal(a) EXCEPT !.todo = rest]
HandsOver(a) == [Proposal(a) EXCEPT !.pc = "history", !.todo = <<>>]

LEMMA ProposalIs ==
    ASSUME NEW a, run[a] \in RunSet, NEW rest \in Todos
    PROVE  /\ GoesOn(a, rest) \in RunSet /\ GoesOn(a, rest).pc = "create"
           /\ GoesOn(a, rest).batch = run[a].batch /\ GoesOn(a, rest).line = run[a].line
           /\ GoesOn(a, rest).todo = rest /\ GoesOn(a, rest).rec = 0 /\ GoesOn(a, rest).tries = 0
           /\ HandsOver(a) \in RunSet /\ HandsOver(a).pc = "history"
           /\ HandsOver(a).batch = run[a].batch /\ HandsOver(a).line = run[a].line
           /\ HandsOver(a).rec = 0 /\ HandsOver(a).tries = 0
<1> DEFINE p == Proposal(a)
<1>0. "create" \in Pcs /\ "history" \in Pcs /\ <<>> \in Todos
  BY DEF Pcs, Todos
<1>1. /\ p \in RunSet /\ p.pc = "create" /\ p.batch = run[a].batch /\ p.line = run[a].line
      /\ p.rec = 0 /\ p.tries = 0
  BY <1>0 DEF RunSet, Proposal, None
<1> HIDE DEF p
<1> DEFINE x == [p EXCEPT !.todo = rest]
           y == [p EXCEPT !.pc = "history", !.todo = <<>>]
<1>2. /\ x \in RunSet /\ x.pc = p.pc /\ x.batch = p.batch /\ x.line = p.line /\ x.todo = rest
      /\ x.rec = p.rec /\ x.tries = p.tries
  BY <1>1 DEF RunSet
<1>3. /\ y \in RunSet /\ y.pc = "history" /\ y.batch = p.batch /\ y.line = p.line
      /\ y.rec = p.rec /\ y.tries = p.tries
  BY <1>0, <1>1 DEF RunSet
<1>4. x = GoesOn(a, rest) /\ y = HandsOver(a)
  BY DEF p, GoesOn, HandsOver
<1> HIDE DEF x, y
<1> QED
  BY <1>1, <1>2, <1>3, <1>4

LEMMA ProceedIs ==
    ASSUME TypeInv, SeenInv, Growth, UNCHANGED files, NEW a \in Actors, NEW rest \in Todos,
           run[a].pc \in Ingesting \cup {"asking"}, Proceed(a, rest)
    PROVE  shifted' = shifted /\ dropped' = dropped /\ \E q : Ingested(a, q)
<1>0. /\ RunOK(a, run[a]) /\ Knows(a, run[a]) /\ run[a] \in RunSet /\ RunsOK
      /\ Attempts \in Nat \ {0} /\ <<>> \in Todos /\ Len(records') \in Nat
  BY RunIs, WorldIs, Points DEF RunOK, TypeInv, Todos, Growth
<1>1. a # Keeper
  BY <1>0 DEF RunOK, Ingesting
<1>2. ASSUME NEW q \in RunSet, q.pc \in {"create", "history"}, q.tries = 0, q.rec = 0,
             q.pc = "create" => q.todo # <<>>, q.pc = "history" => a # User,
             q.batch = run[a].batch, q.line = run[a].line, run' = [run EXCEPT ![a] = q]
      PROVE  RunStep(a, q)
  <2>1. RunOK(a, q)
    BY <1>0, <1>1, <1>2 DEF RunOK, Ingesting
  <2>2. q.rec <= Len(records')
    BY <1>0, <1>2
  <2>3. Knows(a, q)'
    BY <1>0, <1>2, <2>2, Enough
  <2>4. Sees(q)'
    BY <1>2 DEF Sees
  <2> QED
    BY <1>2, <2>1, <2>3, <2>4 DEF RunStep
<1>3. CASE rest # <<>>
  <2>0. PICK q : q = GoesOn(a, rest)
    OBVIOUS
  <2>1. run' = [run EXCEPT ![a] = q] /\ UNCHANGED history
    BY <1>3, <2>0 DEF Proceed, GoesOn
  <2>2. /\ q \in RunSet /\ q.pc = "create" /\ q.batch = run[a].batch /\ q.line = run[a].line
        /\ q.todo = rest /\ q.rec = 0 /\ q.tries = 0
    BY <1>0, <2>0, ProposalIs
  <2>3. RunStep(a, q)
    BY <1>2, <1>3, <2>1, <2>2
  <2>4. Ingested(a, q)
    BY <2>1, <2>2, <2>3 DEF Ingested, Ingesting, history
  <2> QED
    BY <2>1, <2>4 DEF history
<1>4. CASE rest = <<>> /\ a = User
  <2>1. Fails(a)
    BY <1>4 DEF Proceed, Fails
  <2>2. \E q : Ingested(a, q)
    BY <2>1, FailsIs
  <2> QED
    BY <2>1, <2>2 DEF Fails, history
<1>5. CASE rest = <<>> /\ a # User
  <2>0. PICK q : q = HandsOver(a)
    OBVIOUS
  <2>1. run' = [run EXCEPT ![a] = q] /\ UNCHANGED <<shifted, dropped>>
        /\ digested' = digested \cup run[a].batch
    BY <1>5, <2>0 DEF Proceed, HandsOver
  <2>2. /\ q \in RunSet /\ q.pc = "history" /\ q.batch = run[a].batch /\ q.line = run[a].line
        /\ q.rec = 0 /\ q.tries = 0
    BY <1>0, <2>0, ProposalIs
  <2>3. RunStep(a, q)
    BY <1>2, <1>5, <2>1, <2>2
  <2>4. Ingested(a, q)
    BY <1>5, <2>1, <2>2, <2>3 DEF Ingested
  <2> QED
    BY <2>1, <2>4
<1> QED
  BY <1>3, <1>4, <1>5

\* A run looks at record r of revision n; it means to change it, having seen s.
Looks(a, r, n, k) == [run[a] EXCEPT !.pc = "look", !.rec = r, !.rev = n, !.tries = k]
Applies(a, s, n) == [run[a] EXCEPT !.pc = "apply", !.seen = s, !.seenRev = n]

LEMMA LooksIs ==
    ASSUME NEW a, run[a] \in RunSet, NEW r \in Nat, NEW n \in Nat, NEW k \in Nat
    PROVE  /\ Looks(a, r, n, k) \in RunSet /\ Looks(a, r, n, k).pc = "look"
           /\ Looks(a, r, n, k).batch = run[a].batch /\ Looks(a, r, n, k).line = run[a].line
           /\ Looks(a, r, n, k).todo = run[a].todo /\ Looks(a, r, n, k).rec = r
           /\ Looks(a, r, n, k).rev = n /\ Looks(a, r, n, k).tries = k
<1> DEFINE x == Looks(a, r, n, k)
<1>0. "look" \in Pcs
  BY DEF Pcs
<1>1. /\ x \in RunSet /\ x.pc = "look" /\ x.batch = run[a].batch /\ x.line = run[a].line
      /\ x.todo = run[a].todo /\ x.rec = r /\ x.rev = n /\ x.tries = k
  BY <1>0 DEF RunSet, Looks
<1> HIDE DEF x
<1> QED
  BY <1>1 DEF x

LEMMA AppliesIs ==
    ASSUME NEW a, run[a] \in RunSet, NEW r \in Nat, NEW n \in Nat
    PROVE  /\ Applies(a, r, n) \in RunSet /\ Applies(a, r, n).pc = "apply"
           /\ Applies(a, r, n).batch = run[a].batch /\ Applies(a, r, n).line = run[a].line
           /\ Applies(a, r, n).todo = run[a].todo /\ Applies(a, r, n).rec = run[a].rec
           /\ Applies(a, r, n).rev = run[a].rev /\ Applies(a, r, n).seen = r
           /\ Applies(a, r, n).seenRev = n /\ Applies(a, r, n).tries = run[a].tries
<1> DEFINE y == Applies(a, r, n)
<1>0. "apply" \in Pcs
  BY DEF Pcs
<1>1. /\ y \in RunSet /\ y.pc = "apply" /\ y.batch = run[a].batch /\ y.line = run[a].line
      /\ y.todo = run[a].todo /\ y.rec = run[a].rec /\ y.rev = run[a].rev
      /\ y.seen = r /\ y.seenRev = n /\ y.tries = run[a].tries
  BY <1>0 DEF RunSet, Applies
<1> HIDE DEF y
<1> QED
  BY <1>1 DEF y

\* A run that goes on with its proposal.
LEMMA OnWithIt ==
    ASSUME TypeInv, SeenInv, Growth, UNCHANGED files, NEW a \in Actors, run[a].pc \in Ingesting,
           NEW q \in RunSet, q.pc \in {"look", "apply"}, q.tries < Attempts, q.rec # None,
           q.todo = run[a].todo, q.batch = run[a].batch, q.line = run[a].line,
           q.rec <= Len(records'), Sees(q)', run' = [run EXCEPT ![a] = q], digested' = digested
    PROVE  Ingested(a, q)
<1>0. RunOK(a, run[a]) /\ RunsOK
  BY RunIs DEF TypeInv
<1>1. a # Keeper /\ run[a].todo # <<>>
  BY <1>0 DEF RunOK, Ingesting
<1>2. RunOK(a, q)
  BY <1>1 DEF RunOK, Ingesting
<1>3. Knows(a, q)'
  BY <1>0, Enough
<1>4. RunStep(a, q)
  BY <1>2, <1>3 DEF RunStep
<1> QED
  BY <1>4 DEF Ingested, Ingesting

LEMMA FilesAre ==
    ASSUME TypeInv
    PROVE  /\ made \in Nat /\ Len(Entries) \in Nat /\ made <= Len(Entries)
           /\ \A i \in 1 .. made : /\ i \in Nat /\ i \in 1 .. Len(Entries) /\ Kind(i) \in Kinds
                                  /\ number[i] \in Nat /\ number[i] <= i
           /\ counter \in Nat /\ dcursor \in Nat /\ rcursor \in Nat
           /\ Len(hist) \in Nat /\ DOMAIN hist = 1 .. Len(hist)
           /\ Len(refl) \in Nat /\ DOMAIN refl = 1 .. Len(refl)
           /\ \A l \in 1 .. Len(refl) : refl[l] \in 1 .. made
           /\ \A l \in 1 .. Len(hist) : hist[l] \in 1 .. made
<1>1. FilesOK /\ Len(Entries) \in Nat
      /\ \A i \in 1 .. Len(Entries) : Kind(i) \in {"history", "reflection", "broken"}
  BY WorldIs DEF TypeInv
<1>2. made \in Nat /\ made <= Len(Entries) /\ number \in Seq(Nat) /\ Len(number) = made
  BY <1>1 DEF FilesOK
<1>3. ASSUME NEW i \in 1 .. made
      PROVE  /\ i \in Nat /\ i \in 1 .. Len(Entries) /\ Kind(i) \in Kinds
             /\ number[i] \in Nat /\ number[i] <= i
  <2>1. i \in Nat /\ i \in 1 .. Len(Entries)
    BY <1>1, <1>2
  <2>2. number[i] \in Nat
    BY <1>2, ElementOfSeq
  <2>3. number[i] <= i
    BY <1>1 DEF FilesOK
  <2> QED
    BY <1>1, <2>1, <2>2, <2>3 DEF Kinds
<1>4. counter \in Nat /\ dcursor \in Nat /\ rcursor \in Nat
  BY <1>1, <1>2 DEF FilesOK
<1>5. /\ Len(hist) \in Nat /\ DOMAIN hist = 1 .. Len(hist)
      /\ Len(refl) \in Nat /\ DOMAIN refl = 1 .. Len(refl)
      /\ ToSet(hist) \subseteq 1 .. made /\ ToSet(refl) \subseteq 1 .. made
  BY <1>1 DEF FilesOK
<1> QED
  BY <1>1, <1>2, <1>3, <1>4, <1>5 DEF ToSet

LEMMA CitedIs ==
    ASSUME TypeInv, NEW a \in Actors
    PROVE  Cited(a) \in Marks
<1>1. run[a] \in RunSet /\ (a # User => run[a].batch \subseteq 1 .. made)
  BY DEF TypeInv, RunsOK, RunOK, Knows
<1>2. run[a].batch \in Marks
  BY <1>1, RunFields
<1>3. ASSUME NEW i \in 1 .. made PROVE Ref(i) \in Kinds \X Nat
  <2>1. i \in Nat /\ number[i] \in Nat /\ Kind(i) \in Kinds
    BY <1>3, FilesAre
  <2> QED
    BY <2>1 DEF Ref
<1>4. a # User => {Ref(i) : i \in run[a].batch} \in Marks
  BY <1>1, <1>3 DEF Marks
<1> QED
  BY <1>2, <1>4 DEF Cited

LEMMA HeadIs ==
    ASSUME TypeInv, NEW a \in Actors, run[a].pc \in Ingesting
    PROVE  /\ Head(run[a].todo).content \in Contents /\ Head(run[a].todo).level \in Levels
           /\ Tail(run[a].todo) \in Todos
<1>1. run[a].todo \in Seq(Said) /\ run[a].todo # <<>>
  BY RunFields DEF TypeInv, RunsOK, RunOK, Todos
<1>2. Head(run[a].todo) \in Said /\ Tail(run[a].todo) \in Seq(Said)
  BY <1>1, HeadTailProperties
<1>3. \A p \in Said : p.content \in Contents /\ p.level \in Levels
  BY DEF Said
<1> QED
  BY <1>2, <1>3 DEF Todos

LEMMA FirstRecord ==
    ASSUME RecordsOK, NEW b \in Marks, NEW c \in Contents, NEW l \in Levels
    PROVE  LET x == [batch |-> b, content |-> c, level |-> l, status |-> "candidate",
                     rev |-> 1, repl |-> None, blocked |-> {}]
           IN  /\ x \in RecordSet /\ x.batch = b /\ x.content = c
               /\ x.status = "candidate" /\ x.rev = 1
<1>1. "candidate" \in Statuses /\ 1 \in Revs /\ None \in Nat /\ {} \in Places
  BY DEF Statuses, Revs, None, Places
<1> QED
  BY <1>1 DEF RecordSet

LEMMA SettledIs ==
    ASSUME TypeInv, SeenInv, Growth, UNCHANGED files, NEW a \in Actors, run[a].pc \in Ingesting, Settled(a)
    PROVE  shifted' = shifted /\ dropped' = dropped /\ \E q : Ingested(a, q)
<1>1. Tail(run[a].todo) \in Todos /\ Proceed(a, Tail(run[a].todo))
  BY HeadIs DEF Settled
<1> QED
  BY <1>1, ProceedIs

LEMMA SameGrowth ==
    ASSUME TypeInv, UNCHANGED <<world, files>>, DbEffect
    PROVE  Growth
<1>1. made \in Nat
  BY WorldIs DEF TypeInv, FilesOK
<1> QED
  BY <1>1 DEF Growth, files

LEMMA CreateIs ==
    ASSUME TypeInv, SeenInv, NEW a \in Actors, Create(a)
    PROVE  Growth /\ IngestStep(a)
<1> DEFINE p == Head(run[a].todo)
           owner == Owner(Cited(a), p.content)
           x == [batch |-> Cited(a), content |-> p.content, level |-> p.level,
                 status |-> "candidate", rev |-> 1, repl |-> None, blocked |-> {}]
<1>0. /\ run[a].pc = "create" /\ run[a].pc \in Ingesting /\ UNCHANGED <<world, files, left>>
      /\ IF owner = {}
         THEN /\ records' = Append(records, x)
              /\ run' = [run EXCEPT ![a].pc = "look", ![a].rec = Len(records) + 1, ![a].rev = 1]
              /\ UNCHANGED history
         ELSE LET r == CHOOSE r \in owner : TRUE
              IN  /\ IF records[r].status = "candidate"
                     THEN /\ run' = [run EXCEPT ![a].pc = "look", ![a].rec = r, ![a].rev = records[r].rev]
                          /\ UNCHANGED history
                     ELSE Settled(a)
                  /\ UNCHANGED records
  BY DEF Create, Ingesting
<1>1. /\ RecordsOK /\ left \in Lefts /\ run[a] \in RunSet /\ DOMAIN run = Actors
      /\ run[a].tries < Attempts /\ run[a].tries \in Nat
      /\ Len(records) \in Nat /\ DOMAIN records = 1 .. Len(records)
  BY RunIs, RecordsAre, RunFields DEF TypeInv, FilesOK, RunOK, RunsOK
<1>2. Cited(a) \in Marks /\ p.content \in Contents /\ p.level \in Levels
  BY <1>0, CitedIs, HeadIs
<1>3. CASE owner = {}
  <2>b. PICK n \in Nat : n = Len(records) + 1
    BY <1>1
  <2>0. records' = Append(records, x) /\ UNCHANGED history
        /\ run' = [run EXCEPT ![a].pc = "look", ![a].rec = n, ![a].rev = 1]
    BY <1>0, <1>3, <2>b
  <2>1. x \in RecordSet /\ x.batch = Cited(a) /\ x.content = p.content /\ x.status = "candidate" /\ x.rev = 1
    BY <1>1, <1>2, FirstRecord
  <2> HIDE DEF x
  <2>2. Append1(x)
    BY <1>3, <2>0, <2>1 DEF Append1
  <2>3. DbEffect /\ records'[n] = x /\ Len(records') = n /\ n # None /\ n \in Nat
    BY <1>1, <2>2, <2>b, AppendIs DEF DbEffect, None
  <2>4. Growth
    BY <1>0, <2>3, SameGrowth
  <2>c. PICK m \in Nat, k \in Nat : m = 1 /\ k = run[a].tries
    BY <1>1
  <2>a. PICK q : q = Looks(a, n, m, k)
    OBVIOUS
  <2>5. /\ q \in RunSet /\ q.pc = "look" /\ q.batch = run[a].batch /\ q.line = run[a].line
        /\ q.todo = run[a].todo /\ q.rec = n /\ q.rev = 1 /\ q.tries = run[a].tries
    <3>1. run[a] \in RunSet /\ n \in Nat /\ m \in Nat /\ k \in Nat
      BY <1>1, <2>b, <2>c
    <3>2. /\ q \in RunSet /\ q.pc = "look" /\ q.batch = run[a].batch /\ q.line = run[a].line
          /\ q.todo = run[a].todo /\ q.rec = n /\ q.rev = m /\ q.tries = k
      BY <2>a, <3>1, LooksIs
    <3> QED
      BY <2>c, <3>2
  <2>6. run' = [run EXCEPT ![a] = q]
    BY <1>1, <2>0, <2>a, <2>c DEF Looks, RunSet
  <2>7. Sees(q)'
    BY <2>1, <2>3, <2>5 DEF Sees
  <2>d. q.rec <= Len(records') /\ q.rec # None /\ digested' = digested
    BY <2>0, <2>3, <2>5 DEF history
  <2>8. Ingested(a, q)
    BY <1>0, <1>1, <2>4, <2>5, <2>6, <2>7, <2>d, OnWithIt
  <2> QED
    BY <1>0, <1>1, <2>0, <2>4, <2>8 DEF IngestStep, history
<1>4. CASE owner # {}
  <2>0. PICK r \in owner :
          /\ IF records[r].status = "candidate"
             THEN /\ run' = [run EXCEPT ![a].pc = "look", ![a].rec = r, ![a].rev = records[r].rev]
                  /\ UNCHANGED history
             ELSE Settled(a)
          /\ UNCHANGED records
    BY <1>0, <1>4
  <2>1. Growth
    BY <1>0, <2>0, SameGrowth DEF DbEffect
  <2>2. r \in DOMAIN records /\ r \in Nat /\ r # None /\ r <= Len(records) /\ records[r].rev \in Nat
    BY RecordsAre, <1>1 DEF Owner
  <2>3. CASE records[r].status = "candidate"
    <3>0. PICK q : q = Looks(a, r, records[r].rev, run[a].tries)
      OBVIOUS
    <3>1. /\ q \in RunSet /\ q.pc = "look" /\ q.batch = run[a].batch /\ q.line = run[a].line
          /\ q.todo = run[a].todo /\ q.rec = r /\ q.rev = records[r].rev /\ q.tries = run[a].tries
      BY <1>1, <2>2, <3>0, LooksIs
    <3>2. run' = [run EXCEPT ![a] = q] /\ UNCHANGED history
      BY <1>1, <2>0, <2>3, <3>0 DEF Looks, RunSet
    <3>3. records'[r].rev \in Nat /\ Sees(q)'
      BY <2>0, <2>2, <2>3, <3>1 DEF Sees
    <3>4. Ingested(a, q)
      BY <1>0, <1>1, <2>0, <2>1, <2>2, <3>1, <3>2, <3>3, OnWithIt DEF history
    <3> QED
      BY <1>0, <1>1, <2>1, <3>2, <3>4 DEF IngestStep, history
  <2>4. CASE records[r].status # "candidate"
    <3>1. shifted' = shifted /\ dropped' = dropped /\ \E q : Ingested(a, q)
      BY <1>0, <2>0, <2>1, <2>4, SettledIs
    <3> QED
      BY <1>0, <1>1, <2>1, <3>1 DEF IngestStep
  <2> QED
    BY <2>3, <2>4
<1> QED
  BY <1>3, <1>4

LEMMA LookIs ==
    ASSUME TypeInv, SeenInv, NEW a \in Actors, Look(a)
    PROVE  Growth /\ IngestStep(a)
<1>0. /\ run[a].pc = "look" /\ run[a].pc \in Ingesting /\ UNCHANGED <<world, files, records, left>>
      /\ IF Wants(run[a].rec, Existing) = "nothing" THEN Settled(a)
         ELSE /\ run' = [run EXCEPT ![a].pc = "apply", ![a].seen = Existing,
                            ![a].seenRev = IF Existing = None THEN 0 ELSE records[Existing].rev]
              /\ UNCHANGED history
  BY DEF Look, Ingesting
<1>1. /\ RecordsOK /\ left \in Lefts /\ run[a] \in RunSet /\ DOMAIN run = Actors
      /\ run[a].tries < Attempts /\ Len(records) \in Nat /\ DOMAIN records = 1 .. Len(records)
      /\ run[a].rec # None /\ run[a].rec <= Len(records) /\ Sees(run[a])
  BY <1>0, RunIs, RecordsAre DEF TypeInv, FilesOK, RunOK, RunsOK, Knows
<1>2. Growth
  BY <1>0, SameGrowth DEF DbEffect
<1>3. CASE Wants(run[a].rec, Existing) = "nothing"
  BY <1>0, <1>1, <1>2, <1>3, SettledIs DEF IngestStep
<1>4. CASE Wants(run[a].rec, Existing) # "nothing"
  <2> DEFINE s == Existing
             n == IF Existing = None THEN 0 ELSE records[Existing].rev
  <2>1. s \in Nat /\ s <= Len(records) /\ n \in Nat
        /\ (s # None => n = records[s].rev /\ records[s].status = "active")
    BY <1>1, ExistingIs, RecordsAre DEF Active
  <2>2. run' = [run EXCEPT ![a].pc = "apply", ![a].seen = s, ![a].seenRev = n] /\ UNCHANGED history
    BY <1>0, <1>4
  <2>3. Wants(run[a].rec, s) # "nothing"
    BY <1>4
  <2> HIDE DEF s, n
  <2>a. PICK q : q = Applies(a, s, n)
    OBVIOUS
  <2>4. /\ q \in RunSet /\ q.pc = "apply" /\ q.batch = run[a].batch /\ q.line = run[a].line
        /\ q.todo = run[a].todo /\ q.rec = run[a].rec /\ q.rev = run[a].rev
        /\ q.seen = s /\ q.seenRev = n /\ q.tries = run[a].tries
    <3>1. run[a] \in RunSet /\ s \in Nat /\ n \in Nat
      BY <1>1, <2>1
    <3> QED
      BY <2>a, <3>1, AppliesIs
  <2>5. run' = [run EXCEPT ![a] = q]
    BY <1>1, <2>2, <2>a DEF Applies
  <2>6. Sees(q)
    BY <1>0, <1>1, <2>1, <2>3, <2>4 DEF Sees
  <2>7. Sees(q)'
    BY <1>0, <1>1, <1>2, <2>4, <2>6, SeesKept DEF Growth
  <2>8. Ingested(a, q)
    BY <1>0, <1>1, <1>2, <2>2, <2>4, <2>5, <2>7, OnWithIt DEF history
  <2> QED
    BY <1>0, <1>1, <1>2, <2>2, <2>8 DEF IngestStep, history
<1> QED
  BY <1>3, <1>4

LEMMA WantsIs ==
    ASSUME NEW r, NEW s
    PROVE  /\ Wants(r, s) \in {"promote", "nothing", "merge", "replace", "block"}
           /\ Wants(r, s) \in {"merge", "replace", "block"} => s # None
BY DEF Wants

LEMMA ApplyIs ==
    ASSUME TypeInv, SeenInv, NEW a \in Actors, Apply(a)
    PROVE  Growth /\ IngestStep(a)
<1> DEFINE r == run[a].rec
           s == run[a].seen
           want == Wants(r, s)
<1>0. /\ run[a].pc = "apply" /\ run[a].pc \in Ingesting /\ UNCHANGED <<world, files, left>>
      /\ IF Conflicts(a, want)
         THEN /\ IF run[a].tries + 1 = Attempts THEN Fails(a)
                 ELSE IF records[r].status # "candidate" THEN Settled(a)
                 ELSE /\ run' = [run EXCEPT ![a].pc = "look", ![a].rev = records[r].rev,
                                            ![a].tries = @ + 1]
                      /\ UNCHANGED history
              /\ UNCHANGED records
         ELSE IF Doubles(want) THEN Fails(a) /\ UNCHANGED records
         ELSE records' = After(r, s, want) /\ Settled(a)
  BY DEF Apply, Ingesting
<1>1. /\ RecordsOK /\ left \in Lefts /\ run[a] \in RunSet /\ DOMAIN run = Actors
      /\ run[a].tries < Attempts /\ run[a].tries \in Nat /\ Attempts \in Nat
      /\ Len(records) \in Nat /\ DOMAIN records = 1 .. Len(records)
      /\ r # None /\ r <= Len(records) /\ r \in Nat /\ s \in Nat /\ Sees(run[a])
  BY <1>0, RunIs, RecordsAre, RunFields, WorldIs DEF TypeInv, FilesOK, RunOK, RunsOK, Knows
<1>2. r \in DOMAIN records /\ records[r].rev \in Nat
  <2>1. r \in DOMAIN records
    BY <1>1 DEF None
  <2> QED
    BY <1>1, <2>1, RecordsAre
<1>3. CASE Conflicts(a, want)
  <2>1. Growth
    BY <1>0, <1>3, SameGrowth DEF DbEffect
  <2>2. CASE Fails(a)
    BY <1>0, <1>1, <2>1, <2>2, FailsIs DEF IngestStep, Fails, history
  <2>3. CASE Settled(a)
    BY <1>0, <1>1, <2>1, <2>3, SettledIs DEF IngestStep
  <2>4. CASE /\ run[a].tries + 1 # Attempts /\ records[r].status = "candidate"
             /\ run' = [run EXCEPT ![a].pc = "look", ![a].rev = records[r].rev, ![a].tries = @ + 1]
             /\ UNCHANGED history
    <3>0. PICK n \in Nat, k \in Nat, m \in Nat : n = records[r].rev /\ k = run[a].tries + 1 /\ m = r
      BY <1>1, <1>2
    <3>1. PICK q : q = Looks(a, m, n, k)
      OBVIOUS
    <3>2. /\ q \in RunSet /\ q.pc = "look" /\ q.batch = run[a].batch /\ q.line = run[a].line
          /\ q.todo = run[a].todo /\ q.rec = m /\ q.rev = n /\ q.tries = k
      <4>1. run[a] \in RunSet /\ m \in Nat /\ n \in Nat /\ k \in Nat
        BY <1>1, <3>0
      <4>2. /\ Looks(a, m, n, k) \in RunSet /\ Looks(a, m, n, k).pc = "look"
            /\ Looks(a, m, n, k).batch = run[a].batch /\ Looks(a, m, n, k).line = run[a].line
            /\ Looks(a, m, n, k).todo = run[a].todo /\ Looks(a, m, n, k).rec = m
            /\ Looks(a, m, n, k).rev = n /\ Looks(a, m, n, k).tries = k
        BY <4>1, LooksIs
      <4> QED
        BY <3>1, <4>2
    <3>3. run' = [run EXCEPT ![a] = q]
      BY <1>1, <2>4, <3>0, <3>1 DEF Looks, RunSet
    <3>4. k < Attempts
      BY <1>1, <2>4, <3>0
    <3>5. records' = records
      BY <1>0, <1>3
    <3>6. Sees(q)'
      BY <2>4, <3>0, <3>2, <3>5 DEF Sees
    <3>7. q.rec # None /\ q.rec <= Len(records') /\ digested' = digested
      BY <1>1, <2>4, <3>0, <3>2, <3>5 DEF history
    <3>8. Ingested(a, q)
      BY <1>0, <2>1, <3>2, <3>3, <3>4, <3>6, <3>7, OnWithIt
    <3> QED
      BY <1>0, <1>1, <2>1, <2>4, <3>8 DEF IngestStep, history
  <2> QED
    BY <1>0, <1>3, <2>2, <2>3, <2>4
<1>4. CASE ~Conflicts(a, want) /\ Doubles(want)
  <2>1. Fails(a) /\ records' = records
    BY <1>0, <1>4
  <2>2. Growth
    BY <1>0, <2>1, SameGrowth DEF DbEffect
  <2> QED
    BY <1>0, <1>1, <2>1, <2>2, FailsIs DEF IngestStep, Fails, history
<1>5. CASE ~Conflicts(a, want) /\ ~Doubles(want)
  <2>1. records' = After(r, s, want) /\ Settled(a)
    BY <1>0, <1>5
  <2>2. records[r].rev = run[a].rev
    BY <1>5 DEF Conflicts
  <2>3. records[r].status = "candidate" /\ want # "nothing"
    BY <1>0, <1>1, <2>2 DEF Sees
  <2>4. want \in {"merge", "replace"} => s \in DOMAIN records /\ records[s].status = "active"
    <3>1. ASSUME want \in {"merge", "replace"} PROVE s # None /\ records[s].rev = run[a].seenRev
      BY <1>5, <3>1, WantsIs DEF Conflicts
    <3>2. s <= Len(records)
      BY <1>0, <1>1 DEF Sees
    <3>3. want \in {"merge", "replace"} => s \in DOMAIN records
      BY <1>1, <3>1, <3>2 DEF None
    <3> QED
      BY <1>0, <1>1, <3>1, <3>3 DEF Sees
  <2>5. want = "promote" => Active = {}
    BY <1>5 DEF Doubles
  <2>6. want \in {"promote", "merge", "replace", "block"}
    BY <2>3, WantsIs
  <2> HIDE DEF want
  <2>7. DbEffect
    BY <1>1, <1>2, <2>1, <2>3, <2>4, <2>5, <2>6, AfterIs
  <2>8. Growth
    BY <1>0, <2>7, SameGrowth
  <2> QED
    BY <1>0, <1>1, <2>1, <2>8, SettledIs DEF IngestStep
<1> QED
  BY <1>3, <1>4, <1>5

LEMMA AnswerIs ==
    ASSUME TypeInv, SeenInv, NEW d \in Dreams, Answer(d) \/ NoAnswer(d)
    PROVE  Growth /\ IngestStep(d) /\ ~InSync
<1>0. /\ run[d].pc = "asking" /\ ~InSync /\ UNCHANGED <<world, files, records, left>>
      /\ Fails(d) \/ \E todo \in Proposals(Cited(d)) : Proceed(d, todo)
  BY DEF Answer, NoAnswer
<1>1. Growth /\ left \in Lefts /\ d \in Actors /\ Answers \subseteq Todos
  BY <1>0, SameGrowth, WorldIs DEF DbEffect, TypeInv, FilesOK, Actors
<1>2. CASE Fails(d)
  BY <1>0, <1>1, <1>2, FailsIs DEF IngestStep, Fails, history
<1>3. ASSUME NEW todo \in Proposals(Cited(d)), Proceed(d, todo)
      PROVE  IngestStep(d)
  <2>1. todo \in Todos
    BY <1>1, <1>3 DEF Proposals
  <2>2. shifted' = shifted /\ dropped' = dropped /\ \E q : Ingested(d, q)
    BY <1>0, <1>1, <1>3, <2>1, ProceedIs
  <2> QED
    BY <1>0, <1>1, <2>2 DEF IngestStep
<1> QED
  BY <1>0, <1>1, <1>2, <1>3

LEMMA CommandIs ==
    ASSUME TypeInv, Command
    PROVE  left' \in Lefts /\ left.asked \in Nat
<1>1. left \in Lefts
  BY DEF TypeInv, FilesOK
<1>2. left.asked \in Nat /\ left.asked > 0
  BY <1>1 DEF Lefts, Command
<1> DEFINE n == left.asked - 1
<1>3. n \in Nat
  BY <1>2
<1>4. left' = [left EXCEPT !.asked = n]
  BY <1>1 DEF Command, Lefts
<1> HIDE DEF n
<1> QED
  BY <1>1, <1>2, <1>3, <1>4 DEF Lefts

LEMMA FaultIs ==
    ASSUME TypeInv, Fault
    PROVE  left' \in Lefts
<1>1. left \in Lefts
  BY DEF TypeInv, FilesOK
<1>2. left.faults \in Nat /\ left.faults > 0
  BY <1>1 DEF Lefts, Fault
<1> DEFINE n == left.faults - 1
<1>3. n \in Nat
  BY <1>2
<1>4. left' = [left EXCEPT !.faults = n]
  BY <1>1 DEF Fault, Lefts
<1> HIDE DEF n
<1> QED
  BY <1>1, <1>2, <1>3, <1>4 DEF Lefts

LEMMA CorrectIs ==
    ASSUME TypeInv, SeenInv, Correct
    PROVE  Growth /\ IngestStep(User)
<1>0. /\ Command /\ UNCHANGED <<world, files, records, history>> /\ User \in Actors
  BY DEF Correct, Actors
<1>1. PICK c \in Contents : run' = [run EXCEPT ![User] =
           [Idle EXCEPT !.pc = "create", !.batch = {<<"manual", left.asked>>},
                        !.todo = <<[content |-> c, level |-> 5]>>]]
  BY DEF Correct
<1>2. Growth /\ left' \in Lefts /\ left.asked \in Nat
  BY <1>0, SameGrowth, CommandIs DEF DbEffect
<1>3. PICK b, todo : b = {<<"manual", left.asked>>} /\ todo = <<[content |-> c, level |-> 5]>>
  OBVIOUS
<1>4. b \in Marks /\ todo \in Todos /\ todo # <<>> /\ "create" \in Pcs
  BY <1>2, <1>3 DEF Marks, Kinds, Todos, Said, Levels, Pcs
<1>5. PICK q : q = [Idle EXCEPT !.pc = "create", !.batch = b, !.todo = todo]
  OBVIOUS
<1>6. /\ q \in RunSet /\ q.pc = "create" /\ q.todo = todo /\ q.rec = 0 /\ q.line = 0 /\ q.tries = 0
  BY <1>4, <1>5, IdleIs DEF RunSet
<1>7. run' = [run EXCEPT ![User] = q]
  BY <1>1, <1>3, <1>5
<1>8. Attempts \in Nat \ {0} /\ User # Keeper /\ Len(records') \in Nat /\ made' \in Nat
  BY <1>2, WorldIs, Points DEF TypeInv, Growth
<1>9. RunOK(User, q) /\ Knows(User, q)' /\ Sees(q)'
  BY <1>4, <1>6, <1>8 DEF RunOK, Knows, Sees, Ingesting
<1>10. Ingested(User, q)
  BY <1>0, <1>6, <1>7, <1>9 DEF Ingested, RunStep, Ingesting, history
<1> QED
  BY <1>0, <1>2, <1>10 DEF IngestStep, history

\* A step that changes records and nothing else.
RecordStep == UNCHANGED <<files, run, history>> /\ left' \in Lefts

LEMMA CloseIs ==
    ASSUME RecordsOK, NEW r \in DOMAIN records, NEW status \in {"revoked", "expired"},
           records[r].status \in {"candidate", "active"},
           records' = [records EXCEPT ![r] = Revised(r, status, None)]
    PROVE  DbEffect
<1>1. status \in Statuses /\ None \in Nat
  BY DEF Statuses, None
<1>2. Bumped(r, Revised(r, status, None), status, None)
  BY <1>1, BumpedIs
<1>3. Revision(r)
  BY <1>2 DEF Revision
<1> QED
  BY <1>3 DEF DbEffect

LEMMA CommandsAre ==
    ASSUME TypeInv, NEW r \in DOMAIN records, Promote(r) \/ Revoke(r)
    PROVE  Growth /\ RecordStep
<1>0. Command /\ UNCHANGED <<world, files, run, history>> /\ RecordsOK
  BY DEF Promote, Revoke, TypeInv
<1>1. CASE Revoke(r)
  <2>1. DbEffect
    BY <1>0, <1>1, CloseIs DEF Revoke
  <2> QED
    BY <1>0, <2>1, SameGrowth, CommandIs DEF RecordStep
<1>2. CASE Promote(r)
  <2>1. PICK s, want : s = Existing /\ want = (IF Existing = None THEN "promote"
             ELSE IF records[Existing].content = records[r].content THEN "merge" ELSE "replace")
    OBVIOUS
  <2>2. records' = After(r, s, want) /\ records[r].status = "candidate"
    BY <1>2, <2>1 DEF Promote
  <2>3. s \in Nat /\ (s = None <=> Active = {})
        /\ (s # None => s \in DOMAIN records /\ records[s].status = "active")
    BY <1>0, <2>1, ExistingIs, RecordsAre
  <2>4. want \in {"promote", "merge", "replace"} /\ (want = "promote" <=> s = None)
    BY <2>1
  <2>5. DbEffect
    BY <1>0, <2>2, <2>3, <2>4, AfterIs
  <2> QED
    BY <1>0, <2>5, SameGrowth, CommandIs DEF RecordStep
<1> QED
  BY <1>1, <1>2

-----------------------------------------------------------------------------
(***************************************************************************)
(* The history, the reflections and the batches.                           *)
(***************************************************************************)
\* Nothing is missed when the cursor passes entry i of the history; nor when
\* line i of the reflections goes.
Had(i) == i \in digested \/ i \in dropped \/ Reused(i)
Done(i) == i \in digested \/ ~Valid(i)

Numbered(i) ==
    /\ number[i] >= 1 /\ number[i] <= counter + 1
    /\ number[i] <= dcursor => Had(i)
    /\ i \in ToSet(hist) \/ Had(i)
    /\ \A j \in i + 1 .. made : Kind(j) = "history" => number[i] <= number[j]

\* The entries have rising numbers, are in the file until they are had, and
\* those the cursor has passed are had.
HistInv ==
    /\ \A i \in 1 .. made : Kind(i) = "history" => Numbered(i)
    /\ \A i \in ToSet(hist) : Kind(i) = "history"
    /\ \A l \in 1 .. Len(refl) : Kind(refl[l]) # "history"
    /\ dcursor = 0 \/ \E m \in 1 .. made : Kind(m) = "history" /\ number[m] = dcursor

\* A batch leaves out no earlier entry of the history; the cursors move when it
\* is digested.
Whole(q) ==
    /\ q.pc \in Ingesting \cup {"asking", "history"} =>
          \A m \in q.batch : Kind(m) = "history" =>
             \A i \in 1 .. m : Kind(i) = "history" => i \in q.batch \/ Had(i)
    /\ q.pc \in {"history", "reflections"} => q.batch \subseteq digested

BatchInv == \A d \in Dreams : Whole(run[d])

\* The lines a run advances the cursor by, and those it cuts.
Lines(q) == q.line <= Len(refl) /\ \A l \in 1 .. q.line : Done(refl[l]) \/ refl[l] \in q.batch
Cuts(q) ==
    /\ q.line <= Len(refl) /\ (q.line # 0 => rcursor = 0)
    /\ \A l \in 1 .. q.line : Done(refl[l])
Placed(q) ==
    /\ q.pc \in Ingesting \cup {"asking", "history", "reflections"} => Lines(q)
    /\ q.pc = "cut" => Cuts(q)

\* As long as nothing was renumbered under a Dream, the cursor has passed what
\* is done only, and what is not done is in the file.
LineInv ==
    ~shifted =>
        /\ rcursor <= Len(refl) /\ \A l \in 1 .. rcursor : Done(refl[l])
        /\ \A i \in 1 .. made : Kind(i) = "reflection" =>
              i \in digested \/ \E l \in 1 .. Len(refl) : refl[l] = i
        /\ \A a \in Dreams \cup {Keeper} : Placed(run[a])

\* One run at a time has the event loop.
OneSync ==
    \A a, b \in Dreams \cup {Keeper} :
        run[a].pc \notin {"idle", "asking"} /\ run[b].pc \notin {"idle", "asking"} => a = b

\* What no step takes back.
Further ==
    /\ Growth /\ \A i \in 1 .. made : number'[i] = number[i]
    /\ digested \subseteq digested' /\ dropped \subseteq dropped' /\ (shifted => shifted')

LEMMA StillHad ==
    ASSUME TypeInv, Further, NEW i \in 1 .. made
    PROVE  /\ i \in 1 .. made' /\ Kind(i)' = Kind(i) /\ Valid(i)' = Valid(i)
           /\ number'[i] = number[i]
           /\ (Had(i) => Had(i)') /\ (Done(i) => Done(i)')
<1>0. world' = world /\ made \in Nat /\ made' \in Nat /\ made <= made'
  BY FilesAre DEF Further, Growth
<1>1. \A j : Kind(j)' = Kind(j) /\ Valid(j)' = Valid(j)
  BY <1>0, SameWorld
<1>2. ASSUME Reused(i) PROVE Reused(i)'
  <2>1. PICK j \in 1 .. i - 1 : Kind(j) = "history" /\ number[j] = number[i]
    BY <1>2 DEF Reused
  <2>2. j \in 1 .. made
    BY <1>0, <2>1
  <2>3. number'[j] = number'[i]
    BY <1>2, <2>1, <2>2 DEF Further
  <2> QED
    BY <1>1, <1>2, <2>1, <2>3 DEF Reused
<1>3. (Had(i) => Had(i)') /\ (Done(i) => Done(i)')
  BY <1>1, <1>2 DEF Had, Done, Further
<1> QED
  BY <1>0, <1>1, <1>3 DEF Further

LEMMA StillWhole ==
    ASSUME TypeInv, Further, NEW q, q.batch \subseteq 1 .. made, Whole(q)
    PROVE  Whole(q)'
<1>1. ASSUME NEW m \in q.batch, NEW i \in 1 .. m
      PROVE  m \in 1 .. made /\ i \in 1 .. made
  BY FilesAre
<1>2. ASSUME q.pc \in Ingesting \cup {"asking", "history"}, NEW m \in q.batch, Kind(m)' = "history",
             NEW i \in 1 .. m, Kind(i)' = "history"
      PROVE  i \in q.batch \/ Had(i)'
  <2>1. m \in 1 .. made /\ i \in 1 .. made
    BY <1>1
  <2>2. Kind(m) = "history" /\ Kind(i) = "history"
    BY <1>2, <2>1, StillHad
  <2>3. i \in q.batch \/ Had(i)
    BY <1>2, <2>2 DEF Whole
  <2> QED
    BY <2>1, <2>3, StillHad
<1>3. q.pc \in {"history", "reflections"} => q.batch \subseteq digested'
  BY DEF Whole, Further
<1> QED
  BY <1>2, <1>3 DEF Whole

LEMMA ActorsAre ==
    ASSUME TypeInv
    PROVE  /\ Dreams \subseteq Actors /\ User \in Actors /\ Keeper \in Actors
           /\ User \notin Dreams \cup {Keeper} /\ Keeper \notin Dreams
           /\ Dreams \cup {Keeper} \subseteq Actors
BY WorldIs DEF TypeInv, Actors

LEMMA BatchRun ==
    ASSUME TypeInv, SeenInv, Further, BatchInv, NEW a \in Actors, NEW q, RunStep(a, q),
           a \in Dreams => Whole(q)'
    PROVE  BatchInv'
<1>0. run'[a] = q /\ Dreams' = Dreams /\ \A b \in Actors : b # a => run'[b] = run[b]
  BY RunStepIs, SameWorld DEF Further, Growth
<1>1. ASSUME NEW d \in Dreams PROVE Whole(run[d])'
  <2>0. d \in Actors
    BY ActorsAre
  <2>1. CASE d = a
    BY <1>0, <2>1
  <2>2. CASE d # a
    <3>1. PICK y : y = run[d]
      OBVIOUS
    <3>2. Whole(y) /\ y.batch \subseteq 1 .. made
      BY <2>0, <3>1, RunIs, ActorsAre DEF BatchInv, Knows
    <3>3. Whole(y)'
      BY <3>2, StillWhole
    <3> QED
      BY <1>0, <2>0, <2>2, <3>1, <3>3
  <2> QED
    BY <2>1, <2>2
<1> QED
  BY <1>0, <1>1 DEF BatchInv

LEMMA BatchStays ==
    ASSUME TypeInv, SeenInv, Further, BatchInv, run' = run \/ Dies
    PROVE  BatchInv'
<1>0. Dreams' = Dreams
  BY SameWorld DEF Further, Growth
<1>1. ASSUME NEW d \in Dreams PROVE Whole(run[d])'
  <2>0. d \in Actors /\ d # User
    BY ActorsAre
  <2>1. run'[d] = run[d] \/ run'[d] = Idle
    BY <2>0, RunsStay DEF Further
  <2>2. CASE run'[d] = Idle
    BY <2>2, IdleIs DEF Whole, Ingesting
  <2>3. CASE run'[d] = run[d]
    <3>1. PICK y : y = run[d]
      OBVIOUS
    <3>2. Whole(y) /\ y.batch \subseteq 1 .. made
      BY <2>0, <3>1, RunIs, ActorsAre DEF BatchInv, Knows
    <3>3. Whole(y)'
      BY <3>2, StillWhole
    <3> QED
      BY <2>3, <3>1, <3>3
  <2> QED
    BY <2>1, <2>2, <2>3
<1> QED
  BY <1>0, <1>1 DEF BatchInv

LEMMA StillPlaced ==
    ASSUME TypeInv, Further, refl' = refl, rcursor' \in {rcursor, 0}, NEW q \in RunSet, Placed(q)
    PROVE  Placed(q)'
<1>0. q.line \in Nat /\ Len(refl) \in Nat
  BY RunFields, FilesAre
<1>1. ASSUME q.line <= Len(refl), NEW l \in 1 .. q.line
      PROVE  refl'[l] = refl[l] /\ (Done(refl[l]) => Done(refl[l])')
  <2>1. l \in 1 .. Len(refl)
    BY <1>0, <1>1
  <2>2. PICK i \in 1 .. made : i = refl[l]
    BY <2>1, FilesAre
  <2>3. Done(i) => Done(i)'
    BY StillHad
  <2> QED
    BY <2>2, <2>3
<1>2. Lines(q) => Lines(q)'
  BY <1>1 DEF Lines
<1>3. Cuts(q) => Cuts(q)'
  BY <1>1 DEF Cuts
<1> QED
  BY <1>2, <1>3 DEF Placed

\* The two steps of LineInv but the runs.
LEMMA LineFiles ==
    ASSUME TypeInv, Further, LineInv, ~shifted, refl' = refl, rcursor' \in {rcursor, 0},
           \A i \in 1 .. made' : i \in 1 .. made \/ Kind(i) # "reflection"
    PROVE  /\ rcursor' <= Len(refl') /\ \A l \in 1 .. rcursor' : Done(refl[l])'
           /\ \A i \in 1 .. made' : Kind(i)' = "reflection" =>
                 i \in digested' \/ \E l \in 1 .. Len(refl') : refl'[l] = i
<1>0. rcursor \in Nat /\ Len(refl) \in Nat /\ world' = world
  BY FilesAre DEF Further, Growth
<1>1. rcursor <= Len(refl) /\ \A l \in 1 .. rcursor : Done(refl[l])
  BY DEF LineInv
<1>2. ASSUME NEW l \in 1 .. rcursor' PROVE Done(refl[l])'
  <2>1. l \in 1 .. rcursor /\ l \in 1 .. Len(refl)
    BY <1>0, <1>1
  <2>2. PICK i \in 1 .. made : i = refl[l]
    BY <2>1, FilesAre
  <2>3. Done(i)'
    BY <1>1, <2>1, <2>2, StillHad
  <2> QED
    BY <2>2, <2>3
<1>3. rcursor' <= Len(refl')
  BY <1>0, <1>1
<1>4. ASSUME NEW i \in 1 .. made', Kind(i)' = "reflection"
      PROVE  i \in digested' \/ \E l \in 1 .. Len(refl') : refl'[l] = i
  <2>1. Kind(i) = "reflection"
    BY <1>0, <1>4, SameWorld
  <2>2. i \in 1 .. made
    BY <2>1
  <2>3. i \in digested \/ \E l \in 1 .. Len(refl) : refl[l] = i
    BY <2>1, <2>2 DEF LineInv
  <2> QED
    BY <2>3 DEF Further
<1> QED
  BY <1>2, <1>3, <1>4

LEMMA LineRun ==
    ASSUME TypeInv, SeenInv, Further, LineInv, shifted' = shifted, refl' = refl,
           rcursor' \in {rcursor, 0},
           \A i \in 1 .. made' : i \in 1 .. made \/ Kind(i) # "reflection",
           NEW a \in Actors, NEW q, RunStep(a, q), a # User /\ ~shifted => Placed(q)'
    PROVE  LineInv'
<1>0. run'[a] = q /\ Dreams' = Dreams /\ \A b \in Actors : b # a => run'[b] = run[b]
  BY RunStepIs, SameWorld DEF Further, Growth
<1>1. ASSUME ~shifted, NEW b \in Dreams \cup {Keeper} PROVE Placed(run[b])'
  <2>0. b \in Actors /\ b # User
    BY ActorsAre
  <2>1. CASE b = a
    BY <1>0, <1>1, <2>0, <2>1
  <2>2. CASE b # a
    <3>1. PICK y : y = run[b]
      OBVIOUS
    <3>2. Placed(y) /\ y \in RunSet
      BY <1>1, <2>0, <3>1, RunIs DEF LineInv, RunOK
    <3>3. Placed(y)'
      BY <3>2, StillPlaced
    <3> QED
      BY <1>0, <2>0, <2>2, <3>1, <3>3
  <2> QED
    BY <2>1, <2>2
<1> QED
  BY <1>0, <1>1, LineFiles DEF LineInv

LEMMA LineStays ==
    ASSUME TypeInv, SeenInv, Further, LineInv, shifted' = shifted, refl' = refl,
           rcursor' \in {rcursor, 0},
           \A i \in 1 .. made' : i \in 1 .. made \/ Kind(i) # "reflection",
           run' = run \/ Dies
    PROVE  LineInv'
<1>0. Dreams' = Dreams
  BY SameWorld DEF Further, Growth
<1>1. ASSUME ~shifted, NEW b \in Dreams \cup {Keeper} PROVE Placed(run[b])'
  <2>0. b \in Actors /\ b # User
    BY ActorsAre
  <2>1. run'[b] = run[b] \/ run'[b] = Idle
    BY <2>0, RunsStay DEF Further
  <2>2. CASE run'[b] = Idle
    BY <2>2, IdleIs DEF Placed, Ingesting
  <2>3. CASE run'[b] = run[b]
    <3>1. PICK y : y = run[b]
      OBVIOUS
    <3>2. Placed(y) /\ y \in RunSet
      BY <1>1, <2>0, <3>1, RunIs DEF LineInv, RunOK
    <3>3. Placed(y)'
      BY <3>2, StillPlaced
    <3> QED
      BY <2>3, <3>1, <3>3
  <2> QED
    BY <2>1, <2>2, <2>3
<1> QED
  BY <1>0, <1>1, LineFiles DEF LineInv

LEMMA HistStays ==
    ASSUME TypeInv, Further, HistInv, UNCHANGED <<made, number, counter, hist, dcursor>>,
           \A l \in 1 .. Len(refl') : Kind(refl'[l]) # "history"
    PROVE  HistInv'
<1>0. \A i : Kind(i)' = Kind(i)
  BY SameWorld DEF Further, Growth
<1>1. ASSUME NEW i \in 1 .. made, Kind(i) = "history" PROVE Numbered(i)'
  <2>1. Numbered(i) /\ (Had(i) => Had(i)')
    BY <1>1, StillHad DEF HistInv
  <2> QED
    BY <1>0, <2>1 DEF Numbered
<1> QED
  BY <1>0, <1>1 DEF HistInv

LEMMA OneSyncRun ==
    ASSUME TypeInv, SeenInv, Growth, OneSync, NEW a \in Actors, NEW q, RunStep(a, q),
           \/ a = User
           \/ ~InSync
           \/ run[a].pc \notin {"idle", "asking"}
    PROVE  OneSync'
<1>0. run'[a] = q /\ Dreams' = Dreams /\ \A b \in Actors : b # a => run'[b] = run[b]
  BY RunStepIs, SameWorld DEF Growth
<1>1. User \notin Dreams \cup {Keeper} /\ Dreams \cup {Keeper} \subseteq Actors
  BY ActorsAre
<1>2. a = User \/ \A b \in Dreams \cup {Keeper} : b # a => run[b].pc \in {"idle", "asking"}
  BY <1>1 DEF InSync, OneSync, Actors
<1> QED
  BY <1>0, <1>1, <1>2 DEF OneSync

LEMMA OneSyncStays ==
    ASSUME TypeInv, SeenInv, Growth, OneSync, run' = run \/ Dies
    PROVE  OneSync'
<1>0. Dreams' = Dreams /\ \A b \in Actors : run'[b] = run[b] \/ run'[b] = Idle
  BY RunsStay, SameWorld DEF Growth
<1>1. Dreams \cup {Keeper} \subseteq Actors
  BY ActorsAre
<1> QED
  BY <1>0, <1>1, IdleIs DEF OneSync

-----------------------------------------------------------------------------
(***************************************************************************)
(* The whole invariant, and the steps that write no file.                  *)
(***************************************************************************)
Inv == TypeInv /\ SeenInv /\ DbInv /\ HistInv /\ BatchInv /\ LineInv /\ OneSync

LEMMA GrowthKeeps ==
    ASSUME TypeInv, DbInv, Growth
    PROVE  WorldOK' /\ RecordsOK' /\ DbInv'
<1>1. world' = world /\ records' \in Seq(RecordSet) /\ RecordSet' = RecordSet
  BY Points, SameWorld DEF Growth, TypeInv
<1>2. DbInv'
  BY DbStep DEF Growth, TypeInv
<1> QED
  BY <1>1, <1>2 DEF WorldOK, RecordsOK, TypeInv

LEMMA SameFiles ==
    ASSUME TypeInv, UNCHANGED <<world, files, shifted, dropped>>, left' \in Lefts,
           digested' \subseteq 1 .. made
    PROVE  FilesOK'
<1>1. Entries' = Entries /\ FilesOK
  BY SameWorld DEF TypeInv
<1> QED
  BY <1>1 DEF FilesOK, files

LEMMA SameFurther ==
    ASSUME TypeInv, HistInv, Growth, UNCHANGED <<files, shifted, dropped>>, digested \subseteq digested'
    PROVE  /\ Further /\ \A l \in 1 .. Len(refl') : Kind(refl'[l]) # "history"
           /\ \A i \in 1 .. made' : i \in 1 .. made \/ Kind(i) # "reflection"
           /\ refl' = refl /\ rcursor' \in {rcursor, 0}
           /\ UNCHANGED <<made, number, counter, hist, dcursor>>
BY DEF Further, HistInv, files

LEMMA IngestKeeps ==
    ASSUME Inv, Growth, NEW a \in Actors, IngestStep(a),
           \/ a = User
           \/ ~InSync
           \/ run[a].pc \in Ingesting
    PROVE  Inv'
<1>0. /\ TypeInv /\ SeenInv /\ DbInv /\ HistInv /\ BatchInv /\ LineInv /\ OneSync
      /\ UNCHANGED <<world, files, shifted, dropped>> /\ left' \in Lefts
  BY DEF Inv, IngestStep, Growth
<1>1. PICK q : Ingested(a, q)
  BY DEF IngestStep
<1>2. RunStep(a, q) /\ RunOK(a, run[a]) /\ Knows(a, run[a]) /\ q \in RunSet
  BY <1>0, <1>1, RunIs DEF Ingested, RunStep, RunOK
<1>3. digested' = digested \/ (a # User /\ digested' = digested \cup run[a].batch)
  BY <1>1 DEF Ingested
<1>4. digested \subseteq digested' /\ digested' \subseteq 1 .. made
  BY <1>0, <1>2, <1>3 DEF Knows, TypeInv, FilesOK
<1>5. /\ Further /\ \A l \in 1 .. Len(refl') : Kind(refl'[l]) # "history"
      /\ \A i \in 1 .. made' : i \in 1 .. made \/ Kind(i) # "reflection"
      /\ refl' = refl /\ rcursor' \in {rcursor, 0}
      /\ UNCHANGED <<made, number, counter, hist, dcursor>>
  BY <1>0, <1>4, SameFurther
<1>6. TypeInv' /\ SeenInv'
  BY <1>0, <1>2, <1>4, SameFiles, RunStepIs, GrowthKeeps DEF TypeInv
<1>7. a \in Dreams => Whole(q)'
  <2>0. a \in Dreams => a # User /\ Whole(run[a]) /\ run[a].batch \subseteq 1 .. made
    BY <1>0, <1>2, ActorsAre DEF BatchInv, Knows
  <2>1. CASE q.pc = "idle"
    BY <2>1 DEF Whole, Ingesting
  <2>2. CASE a \in Dreams /\ q.pc # "idle"
    <3>1. /\ q.pc \in Ingesting \/ q.pc = "history"
          /\ q.pc = "history" => run[a].batch \subseteq digested'
          /\ run[a].pc \in Ingesting \cup {"asking"} /\ q.batch = run[a].batch
      BY <1>1, <2>0, <2>2 DEF Ingested, Ingesting
    <3>2. PICK y : y = run[a]
      OBVIOUS
    <3>3. Whole(y)'
      BY <1>0, <1>5, <2>0, <2>2, <3>2, StillWhole
    <3>4. /\ y.pc \in Ingesting \cup {"asking", "history"} /\ y.batch = q.batch
          /\ q.pc = "history" => q.batch \subseteq digested'
      BY <3>1, <3>2 DEF Ingesting
    <3>5. q.pc # "reflections"
      BY <3>1 DEF Ingesting
    <3> QED
      BY <3>3, <3>4, <3>5 DEF Whole
  <2> QED
    BY <2>1, <2>2
<1>8. a # User /\ ~shifted => Placed(q)'
  <2>1. CASE q.pc = "idle"
    BY <2>1 DEF Placed, Ingesting
  <2>2. CASE a # User /\ ~shifted /\ q.pc # "idle"
    <3>1. /\ q.pc \in Ingesting \/ q.pc = "history"
          /\ run[a].pc \in Ingesting \cup {"asking"} /\ q.batch = run[a].batch /\ q.line = run[a].line
      BY <1>1, <2>2 DEF Ingested
    <3>2. PICK y : y = run[a]
      OBVIOUS
    <3>3. Placed(y) /\ y \in RunSet
      BY <1>0, <1>2, <2>2, <3>2 DEF LineInv, Actors, RunOK
    <3>4. Placed(y)'
      BY <1>0, <1>5, <3>3, StillPlaced
    <3>5. y.pc \in Ingesting \cup {"asking"} /\ q.batch = y.batch /\ q.line = y.line /\ q.pc # "cut"
      BY <3>1, <3>2 DEF Ingesting
    <3> QED
      BY <3>4, <3>5 DEF Placed, Lines
  <2> QED
    BY <2>1, <2>2
<1>9. HistInv'
  BY <1>0, <1>5, HistStays
<1>10. BatchInv'
  BY <1>0, <1>2, <1>5, <1>7, BatchRun
<1>11. LineInv'
  <2>1. shifted' = shifted
    BY <1>0
  <2> QED
    BY <1>0, <1>2, <1>5, <1>8, <2>1, LineRun
<1>12. OneSync'
  <2>1. \/ a = User
        \/ ~InSync
        \/ run[a].pc \notin {"idle", "asking"}
    BY DEF Ingesting
  <2> QED
    BY <1>0, <1>2, <2>1, OneSyncRun
<1> QED
  BY <1>0, <1>6, <1>9, <1>10, <1>11, <1>12, GrowthKeeps DEF Inv

LEMMA RecordKeeps ==
    ASSUME Inv, Growth, RecordStep
    PROVE  Inv'
<1>0. /\ TypeInv /\ SeenInv /\ DbInv /\ HistInv /\ BatchInv /\ LineInv /\ OneSync
      /\ UNCHANGED <<world, files, shifted, dropped>> /\ left' \in Lefts
      /\ digested' = digested /\ run' = run /\ shifted' = shifted
  BY DEF Inv, RecordStep, Growth, history
<1>1. digested \subseteq digested' /\ digested' \subseteq 1 .. made
  BY <1>0 DEF TypeInv, FilesOK
<1>2. /\ Further /\ \A l \in 1 .. Len(refl') : Kind(refl'[l]) # "history"
      /\ \A i \in 1 .. made' : i \in 1 .. made \/ Kind(i) # "reflection"
      /\ refl' = refl /\ rcursor' \in {rcursor, 0}
      /\ UNCHANGED <<made, number, counter, hist, dcursor>>
  BY <1>0, <1>1, SameFurther
<1>3. TypeInv' /\ SeenInv'
  BY <1>0, <1>1, SameFiles, RunsStay, GrowthKeeps DEF TypeInv
<1>4. HistInv' /\ BatchInv' /\ LineInv' /\ OneSync'
  BY <1>0, <1>2, HistStays, BatchStays, LineStays, OneSyncStays
<1> QED
  BY <1>0, <1>3, <1>4, GrowthKeeps DEF Inv

-----------------------------------------------------------------------------
(***************************************************************************)
(* A Dream begins.                                                         *)
(***************************************************************************)
LEMMA MaxIs ==
    ASSUME NEW n \in Nat, NEW S, S \subseteq 0 .. n, S # {}
    PROVE  Max(S) \in S /\ Max(S) \in Nat /\ \A y \in S : y <= Max(S)
<1> DEFINE T == {n - y : y \in S}
<1>1. T \subseteq Nat /\ T # {}
  <2>1. \A y \in S : n - y \in Nat
    OBVIOUS
  <2> QED
    BY <2>1
<1> HIDE DEF T
<1>2. PICK t \in T : \A u \in T : ~(<<u, t>> \in OpToRel(<, Nat))
  BY <1>1, NatLessThanWellFounded, WFMin
<1>3. \A u \in T : t <= u
  <2>1. ASSUME NEW u \in T PROVE ~(u < t)
    <3>1. <<u, t>> \in Nat \X Nat
      BY <1>1
    <3> QED
      BY <1>2, <3>1 DEF OpToRel
  <2> QED
    BY <1>1, <2>1
<1>4. PICK x \in S : t = n - x
  BY DEF T
<1>5. ASSUME NEW y \in S PROVE x >= y
  <2>1. n - x <= n - y
    BY <1>3, <1>4 DEF T
  <2> QED
    BY <2>1
<1>6. \E z \in S : \A y \in S : z >= y
  BY <1>5
<1> DEFINE m == Max(S)
<1>7. m \in S /\ \A y \in S : m >= y
  BY <1>6 DEF Max
<1> HIDE DEF m
<1>8. m \in Nat /\ \A y \in S : y \in Nat /\ y <= m
  BY <1>7
<1> QED
  BY <1>7, <1>8 DEF m

\* S is the beginning of T.
Initial(S, T) == S \subseteq T /\ \A i \in S : \A j \in T : j <= i => j \in S

LEMMA InitialInitial ==
    ASSUME NEW A, NEW B, NEW C, Initial(A, B), Initial(B, C)
    PROVE  Initial(A, C)
BY DEF Initial

LEMMA PrefixIs ==
    ASSUME NEW S, S \subseteq Nat, NEW T
    PROVE  Initial(Prefix(S, T), S) /\ Prefix(S, T) \subseteq T
<1>1. ASSUME NEW i \in Prefix(S, T), NEW j \in S, j <= i PROVE j \in Prefix(S, T)
  <2>1. i \in S /\ \A k \in S : k <= i => k \in T
    BY DEF Prefix
  <2>2. \A k \in S : k <= j => k <= i
    BY <1>1, <2>1
  <2> QED
    BY <2>1, <2>2 DEF Prefix
<1>2. Prefix(S, T) \subseteq S
  BY DEF Prefix
<1>3. ASSUME NEW i \in Prefix(S, T) PROVE i \in T
  <2>1. i \in S /\ i \in Nat
    BY <1>2
  <2>2. i <= i
    BY <2>1
  <2> QED
    BY <2>1, <2>2 DEF Prefix
<1> QED
  BY <1>1, <1>2, <1>3 DEF Initial

LEMMA FirstIs ==
    ASSUME NEW S, S \subseteq Nat, IsFiniteSet(S), NEW k \in Int
    PROVE  /\ Initial(First(k, S), S) /\ First(k, S) \subseteq Nat
           /\ IsFiniteSet(First(k, S)) /\ Cardinality(First(k, S)) \in Nat
<1> DEFINE below(i) == {j \in S : j < i}
<1>1. \A i \in S : IsFiniteSet(below(i)) /\ Cardinality(below(i)) \in Nat
  BY FS_Subset, FS_CardinalityType
<1>2. ASSUME NEW i \in First(k, S), NEW j \in S, j <= i PROVE j \in First(k, S)
  <2>1. i \in S /\ Cardinality(below(i)) < k
    BY DEF First
  <2>2. below(j) \subseteq below(i)
    <3>1. i \in Nat /\ j \in Nat /\ \A x \in S : x \in Nat
      BY <1>2, <2>1
    <3>2. \A x \in S : x < j => x < i
      BY <1>2, <3>1
    <3> QED
      BY <3>2
  <2>3. IsFiniteSet(below(i)) /\ Cardinality(below(i)) \in Nat
        /\ Cardinality(below(j)) \in Nat
    BY <1>1, <2>1
  <2> HIDE DEF below
  <2>4. Cardinality(below(j)) <= Cardinality(below(i))
    BY <2>2, <2>3, FS_Subset
  <2>5. Cardinality(below(j)) < k
    BY <2>1, <2>3, <2>4
  <2> QED
    BY <2>5 DEF First, below
<1>3. First(k, S) \subseteq S
  BY DEF First
<1>4. IsFiniteSet(First(k, S)) /\ Cardinality(First(k, S)) \in Nat
  BY <1>3, FS_Subset, FS_CardinalityType
<1> QED
  BY <1>2, <1>3, <1>4 DEF Initial

LEMMA NewAre ==
    ASSUME TypeInv
    PROVE  /\ NewHistory \subseteq 1 .. made /\ NewHistory \subseteq Nat /\ IsFiniteSet(NewHistory)
           /\ NewLines \subseteq 1 .. Len(refl) /\ NewLines \subseteq Nat /\ IsFiniteSet(NewLines)
           /\ Effective \in Nat
<1>1. ToSet(hist) \subseteq 1 .. made /\ made \in Nat /\ Len(refl) \in Nat /\ rcursor \in Nat
      /\ DOMAIN refl = 1 .. Len(refl)
  BY FilesAre DEF TypeInv, FilesOK
<1>2. NewHistory \subseteq 1 .. made /\ NewLines \subseteq 1 .. Len(refl)
  BY <1>1 DEF NewHistory, NewLines
<1>3. IsFiniteSet(1 .. made) /\ IsFiniteSet(1 .. Len(refl))
  BY <1>1, FS_Interval
<1>4. IsFiniteSet(NewHistory) /\ IsFiniteSet(NewLines)
  BY <1>2, <1>3, FS_Subset
<1> QED
  BY <1>1, <1>2, <1>4 DEF Effective

LEMMA TakenIs ==
    ASSUME TypeInv, NEW source \in {"history", "reflection"}, NEW b \in Taken(source)
    PROVE  Initial(b.h, NewHistory) /\ b.r \subseteq NewLines
<1> DEFINE head == IF source = "history" THEN Min(NewHistory) ELSE refl[Min(Usable)]
           H == Prefix(NewHistory, {i \in NewHistory : Part(i) = Part(head)})
           R == Prefix(Usable, {l \in Usable : Part(refl[l]) = Part(head)})
           k == IF source = "history" THEN MaxBatch ELSE MaxBatch - Cardinality(First(MaxBatch, R))
           h == First(k, H)
           n == MaxBatch - Cardinality(h)
           r == First(n, R)
<1>1. b \in Fitted(source, h, r)
  BY DEF Taken
<1>2. Initial(H, NewHistory) /\ Initial(R, Usable) /\ Usable \subseteq NewLines /\ Usable \subseteq Nat
  BY NewAre, PrefixIs DEF Usable
<1> HIDE DEF H, R
<1>3. MaxBatch \in Int /\ IsFiniteSet(H) /\ H \subseteq Nat /\ IsFiniteSet(R) /\ R \subseteq Nat
  <2>1. H \subseteq NewHistory /\ R \subseteq NewLines
    BY <1>2 DEF Initial
  <2> QED
    BY <2>1, NewAre, FS_Subset, WorldIs DEF TypeInv
<1>4. k \in Int
  <2>1. Cardinality(First(MaxBatch, R)) \in Nat
    BY <1>3, FirstIs
  <2> QED
    BY <1>3, <2>1
<1> HIDE DEF k
<1>5. Initial(h, H) /\ h \subseteq Nat /\ IsFiniteSet(h) /\ Cardinality(h) \in Nat
  BY <1>3, <1>4, FirstIs
<1> HIDE DEF h
<1>6. n \in Int
  BY <1>3, <1>5
<1> HIDE DEF n
<1>7. Initial(r, R) /\ r \subseteq Nat /\ IsFiniteSet(r) /\ Cardinality(r) \in Nat
  BY <1>3, <1>6, FirstIs
<1> HIDE DEF r
<1>8. PICK x \in Int, y \in Int : b.h = First(x, h) /\ b.r = First(y, r)
  <2>1. \E x \in 0 .. Cardinality(h), y \in 0 .. Cardinality(r) : b = [h |-> First(x, h), r |-> First(y, r)]
    BY <1>1 DEF Fitted
  <2>2. \A x \in 0 .. Cardinality(h), y \in 0 .. Cardinality(r) : x \in Int /\ y \in Int
    BY <1>5, <1>7
  <2> QED
    BY <2>1, <2>2
<1>9. Initial(b.h, h) /\ Initial(b.r, r)
  BY <1>5, <1>7, <1>8, FirstIs
<1>10. Initial(b.h, NewHistory)
  BY <1>2, <1>5, <1>9, InitialInitial
<1> QED
  BY <1>2, <1>7, <1>9, <1>10 DEF Initial

LEMMA BatchesAre ==
    ASSUME TypeInv, NEW b \in Batches
    PROVE  Initial(b.h, NewHistory) /\ b.r \subseteq NewLines
<1>1. PICK source \in {"history", "reflection"} : b \in Taken(source)
  BY Zenon DEF Batches
<1> QED
  BY <1>1, TakenIs

LEMMA AdvanceIs ==
    ASSUME TypeInv, NEW R, NEW n, n = Max(Advance(R) \cup {0})
    PROVE  /\ n \in Nat /\ n <= Len(refl) /\ n <= made
           /\ \A l \in 1 .. n : l <= Effective \/ l \in R \/ ~Valid(refl[l])
<1> DEFINE T == R \cup {l \in NewLines : ~Valid(refl[l])}
<1>0. Len(refl) \in Nat /\ made \in Nat /\ Len(refl) <= made /\ Effective \in Nat
      /\ NewLines \subseteq 1 .. Len(refl) /\ NewLines \subseteq Nat
  BY FilesAre, NewAre DEF TypeInv, FilesOK
<1>1. Advance(R) = Prefix(NewLines, T)
  BY DEF Advance
<1> HIDE DEF T
<1>2. Initial(Advance(R), NewLines) /\ Advance(R) \subseteq T
  BY <1>0, <1>1, PrefixIs
<1>3. Advance(R) \cup {0} \subseteq 0 .. Len(refl)
  <2>1. Advance(R) \subseteq 1 .. Len(refl)
    BY <1>0, <1>2 DEF Initial
  <2>2. \A l \in 1 .. Len(refl) : l \in 0 .. Len(refl)
    BY <1>0
  <2> QED
    BY <1>0, <2>1, <2>2
<1>4. n \in Advance(R) \cup {0}
  <2> DEFINE S == Advance(R) \cup {0}
  <2>1. S \subseteq 0 .. Len(refl) /\ S # {}
    BY <1>3
  <2> HIDE DEF S
  <2>2. Max(S) \in S
    BY <1>0, <2>1, MaxIs
  <2> QED
    BY <2>2 DEF S
<1>5. n \in 0 .. Len(refl) /\ n <= made
  <2>1. n \in 0 .. Len(refl)
    BY <1>3, <1>4
  <2> QED
    BY <1>0, <2>1
<1>6. ASSUME NEW l \in 1 .. n, ~(l <= Effective)
      PROVE  l \in R \/ ~Valid(refl[l])
  <2>1. n # 0 /\ n \in Advance(R)
    BY <1>4, <1>5, <1>6
  <2>2. l \in NewLines
    BY <1>0, <1>5, <1>6, FilesAre DEF NewLines
  <2>3. l <= n
    BY <1>5
  <2>4. l \in Advance(R)
    BY <1>2, <2>1, <2>2, <2>3 DEF Initial
  <2> QED
    BY <1>2, <2>4 DEF T
<1>7. n \in Nat /\ n <= Len(refl)
  BY <1>0, <1>5
<1> QED
  BY <1>5, <1>6, <1>7

\* Lines before the cursor are done.
LEMMA EffectiveDone ==
    ASSUME TypeInv, LineInv, ~shifted, NEW l \in 1 .. Len(refl), l <= Effective
    PROVE  Done(refl[l])
<1>1. rcursor <= Len(refl) /\ \A k \in 1 .. rcursor : Done(refl[k])
  BY DEF LineInv
<1>2. Effective = rcursor /\ rcursor \in Nat /\ Len(refl) \in Nat
  BY <1>1, FilesAre DEF Effective
<1>3. l \in 1 .. rcursor
  BY <1>2
<1> QED
  BY <1>1, <1>3

\* A step that only moves a run.
LEMMA RunKeeps ==
    ASSUME Inv, Growth, UNCHANGED <<files, records, left, history>>, NEW a \in Actors, NEW q,
           RunStep(a, q), a \in Dreams => Whole(q)', a # User /\ ~shifted => Placed(q)',
           \/ a = User
           \/ ~InSync
           \/ run[a].pc \notin {"idle", "asking"}
    PROVE  Inv'
<1>0. /\ TypeInv /\ SeenInv /\ DbInv /\ HistInv /\ BatchInv /\ LineInv /\ OneSync
      /\ UNCHANGED <<world, files, shifted, dropped>> /\ left' \in Lefts
      /\ digested' = digested /\ shifted' = shifted
  BY DEF Inv, Growth, history, TypeInv, FilesOK
<1>1. digested \subseteq digested' /\ digested' \subseteq 1 .. made
  BY <1>0 DEF TypeInv, FilesOK
<1>2. /\ Further /\ \A l \in 1 .. Len(refl') : Kind(refl'[l]) # "history"
      /\ \A i \in 1 .. made' : i \in 1 .. made \/ Kind(i) # "reflection"
      /\ refl' = refl /\ rcursor' \in {rcursor, 0}
      /\ UNCHANGED <<made, number, counter, hist, dcursor>>
  BY <1>0, <1>1, SameFurther
<1>3. TypeInv' /\ SeenInv'
  BY <1>0, <1>1, SameFiles, RunStepIs, GrowthKeeps DEF TypeInv
<1>4. HistInv'
  BY <1>0, <1>2, HistStays
<1>5. BatchInv'
  BY <1>0, <1>2, BatchRun
<1>6. LineInv'
  BY <1>0, <1>2, LineRun
<1>7. OneSync'
  BY <1>0, OneSyncRun
<1> QED
  BY <1>0, <1>3, <1>4, <1>5, <1>6, <1>7, GrowthKeeps DEF Inv

\* Run a goes on to pc, with n lines to cut or to pass.
MovesTo(a, pc, n, q) ==
    q = [run[a] EXCEPT !.pc = pc, !.line = n] /\ run' = [run EXCEPT ![a] = q]

LEMMA MovedIs ==
    ASSUME TypeInv, SeenInv, Growth, NEW a \in Actors, a # User, NEW n \in Nat, n <= made',
           NEW pc \in {"reflections", "reset", "cut"}, a = Keeper => pc # "reflections",
           NEW q, MovesTo(a, pc, n, q)
    PROVE  /\ RunStep(a, q) /\ q \in RunSet
           /\ q.pc = pc /\ q.line = n /\ q.batch = run[a].batch
<1>0. /\ RunOK(a, run[a]) /\ Knows(a, run[a]) /\ run[a] \in RunSet /\ pc \in Pcs
      /\ run[a].rec \in Nat /\ Len(records) \in Nat /\ Len(records') \in Nat
      /\ Len(records) <= Len(records') /\ made \in Nat /\ made' \in Nat /\ made <= made'
  BY RunIs, RunFields, RecordsAre, Points, FilesAre DEF RunOK, TypeInv, Growth, Pcs
<1>1. /\ q \in RunSet /\ q.pc = pc /\ q.line = n /\ q.batch = run[a].batch /\ q.rec = run[a].rec
      /\ q.tries = run[a].tries
  BY <1>0 DEF MovesTo, RunSet
<1>2. RunOK(a, q)
  BY <1>0, <1>1 DEF RunOK, Ingesting
<1>3. Knows(a, q)'
  <2>1. q.rec <= Len(records')
    BY <1>0, <1>1 DEF Knows
  <2>2. q.batch \subseteq 1 .. made'
    BY <1>0, <1>1 DEF Knows
  <2> QED
    BY <1>1, <2>1, <2>2 DEF Knows
<1>4. Sees(q)'
  BY <1>1 DEF Sees
<1> QED
  BY <1>1, <1>2, <1>3, <1>4 DEF RunStep, MovesTo

LEMMA BeginKeeps ==
    ASSUME Inv, NEW d \in Dreams, Begin(d)
    PROVE  Inv'
<1>0. /\ TypeInv /\ SeenInv /\ HistInv /\ BatchInv /\ LineInv
      /\ run[d].pc = "idle" /\ ~InSync /\ (NewHistory # {} \/ NewLines # {})
      /\ UNCHANGED <<world, files, records, left, history>>
  BY DEF Inv, Begin
<1>1. /\ d \in Actors /\ d # User /\ d # Keeper /\ run[d] = Idle /\ DOMAIN run = Actors
      /\ made \in Nat /\ Len(refl) \in Nat /\ Len(refl) <= made /\ made' = made
      /\ Len(records) \in Nat /\ records' = records
  <2>1. d \in Actors /\ d # User /\ d # Keeper
    BY <1>0, ActorsAre
  <2>2. run[d] = Idle
    BY <1>0, <2>1, RunIs DEF RunOK
  <2>3. made \in Nat /\ Len(refl) \in Nat /\ Len(records) \in Nat
    BY <1>0, FilesAre, RecordsAre DEF TypeInv
  <2>4. Len(refl) <= made /\ DOMAIN run = Actors
    BY <1>0 DEF TypeInv, RunsOK, FilesOK
  <2> QED
    BY <1>0, <2>1, <2>2, <2>3, <2>4 DEF files
<1>2. Growth
  BY <1>0, SameGrowth DEF DbEffect
<1>3. /\ Further /\ refl' = refl /\ rcursor' \in {rcursor, 0}
  BY <1>0, <1>2, SameFurther DEF history
<1>4. ASSUME NEW q, RunStep(d, q), Whole(q), q.batch \subseteq 1 .. made, q \in RunSet,
             ~shifted => Placed(q)
      PROVE  Inv'
  <2>1. Whole(q)'
    BY <1>0, <1>3, <1>4, StillWhole
  <2>2. ~shifted => Placed(q)'
    BY <1>0, <1>3, <1>4, StillPlaced
  <2>3. UNCHANGED <<files, records, left, history>>
    BY <1>0
  <2> QED
    BY <1>0, <1>1, <1>2, <1>4, <2>1, <2>2, <2>3, RunKeeps
<1>5. CASE NewHistory = {} /\ \A l \in NewLines : ~Valid(refl[l])
  <2>0. PICK n : n = Max(NewLines)
    OBVIOUS
  <2>1. NewLines \subseteq 1 .. Len(refl) /\ NewLines \subseteq 0 .. Len(refl) /\ NewLines # {}
    BY <1>0, <1>1, <1>5, NewAre
  <2>2. n \in NewLines /\ n \in Nat /\ n <= Len(refl) /\ n <= made'
    <3>1. n \in NewLines /\ n \in Nat
      BY <1>1, <2>0, <2>1, MaxIs
    <3> QED
      BY <1>1, <2>1, <3>1
  <2>3. PICK q : q = [run[d] EXCEPT !.pc = "reflections", !.line = n]
    OBVIOUS
  <2>4. MovesTo(d, "reflections", n, q)
    BY <1>0, <1>1, <1>5, <2>0, <2>3 DEF Begin, MovesTo
  <2>5. RunStep(d, q) /\ q \in RunSet /\ q.pc = "reflections" /\ q.line = n /\ q.batch = {}
    <3>1. RunStep(d, q) /\ q \in RunSet /\ q.pc = "reflections" /\ q.line = n /\ q.batch = run[d].batch
      BY <1>0, <1>1, <1>2, <2>2, <2>4, MovedIs
    <3> QED
      BY <1>1, <3>1, IdleIs
  <2>6. Whole(q) /\ q.batch \subseteq 1 .. made
    BY <2>5 DEF Whole, Ingesting
  <2>7. ~shifted => Placed(q)
    <3>1. ASSUME ~shifted, NEW l \in 1 .. n PROVE Done(refl[l])
      <4>1. l \in 1 .. Len(refl) /\ l \in Nat
        BY <1>1, <2>2
      <4>2. CASE l <= Effective
        BY <1>0, <3>1, <4>1, <4>2, EffectiveDone
      <4>3. CASE ~(l <= Effective)
        <5>1. l \in NewLines
          BY <1>0, <4>1, <4>3, NewAre, FilesAre DEF NewLines
        <5> QED
          BY <1>5, <5>1 DEF Done
      <4> QED
        BY <4>2, <4>3
    <3> QED
      BY <2>2, <2>5, <3>1 DEF Placed, Lines
  <2> QED
    BY <1>4, <2>5, <2>6, <2>7
<1>6. ASSUME NEW b \in Batches,
             run' = [run EXCEPT ![d] = [Idle EXCEPT !.pc = "asking",
                       !.batch = b.h \cup {refl[l] : l \in b.r}, !.line = Max(Advance(b.r) \cup {0})]]
      PROVE  Inv'
  <2>0. PICK B, n : B = b.h \cup {refl[l] : l \in b.r} /\ n = Max(Advance(b.r) \cup {0})
    OBVIOUS
  <2>1. Initial(b.h, NewHistory) /\ b.r \subseteq NewLines
    BY <1>0, BatchesAre
  <2>2. /\ n \in Nat /\ n <= Len(refl) /\ n <= made
        /\ \A l \in 1 .. n : l <= Effective \/ l \in b.r \/ ~Valid(refl[l])
    BY <1>0, <2>0, AdvanceIs
  <2>3. b.h \subseteq 1 .. made /\ {refl[l] : l \in b.r} \subseteq 1 .. made
    BY <1>0, <2>1, NewAre, FilesAre DEF Initial
  <2>4. B \subseteq 1 .. made /\ B \in Marks
    BY <1>1, <2>0, <2>3 DEF Marks
  <2>5. PICK q : q = [Idle EXCEPT !.pc = "asking", !.batch = B, !.line = n]
    OBVIOUS
  <2>6. /\ q \in RunSet /\ q.pc = "asking" /\ q.batch = B /\ q.line = n /\ q.rec = 0 /\ q.tries = 0
    <3>1. "asking" \in Pcs
      BY DEF Pcs
    <3> QED
      BY <2>2, <2>4, <2>5, <3>1, IdleIs DEF RunSet
  <2>7. run' = [run EXCEPT ![d] = q]
    BY <1>6, <2>0, <2>5
  <2>8. RunStep(d, q)
    <3>1. Attempts \in Nat \ {0}
      BY <1>0, WorldIs DEF TypeInv
    <3>2. RunOK(d, q)
      BY <1>1, <2>6, <3>1 DEF RunOK, Ingesting
    <3>3. Knows(d, q)'
      BY <1>1, <2>2, <2>4, <2>6 DEF Knows
    <3> QED
      BY <2>6, <2>7, <3>2, <3>3 DEF RunStep, Sees
  <2>9. ASSUME NEW m \in B, Kind(m) = "history", NEW i \in 1 .. m, Kind(i) = "history"
        PROVE  i \in B \/ Had(i)
    <3>1. m \in b.h
      <4>1. \A l \in b.r : Kind(refl[l]) # "history"
        BY <1>0, <2>1, NewAre DEF HistInv
      <4> QED
        BY <2>0, <2>9, <4>1
    <3>2. m \in 1 .. made /\ i \in 1 .. made /\ i <= m
      BY <1>1, <2>4
    <3>3. Numbered(i) /\ number[i] \in Nat /\ dcursor \in Nat
      BY <1>0, <2>9, <3>2, FilesAre DEF HistInv
    <3>4. CASE ~Had(i)
      <4>1. i \in ToSet(hist) /\ number[i] > dcursor
        BY <3>3, <3>4 DEF Numbered
      <4>2. i \in NewHistory
        BY <4>1 DEF NewHistory
      <4>3. i \in b.h
        BY <2>1, <3>1, <3>2, <4>2 DEF Initial
      <4> QED
        BY <2>0, <4>3
    <3> QED
      BY <3>4
  <2>10. Whole(q)
    BY <2>6, <2>9 DEF Whole
  <2>11. ~shifted => Placed(q)
    <3>1. ASSUME ~shifted, NEW l \in 1 .. n PROVE Done(refl[l]) \/ refl[l] \in B
      <4>1. l \in 1 .. Len(refl)
        BY <1>1, <2>2
      <4>2. l <= Effective => Done(refl[l])
        BY <1>0, <3>1, <4>1, EffectiveDone
      <4> QED
        BY <2>0, <2>2, <4>2 DEF Done
    <3> QED
      BY <2>2, <2>6, <3>1 DEF Placed, Lines
  <2> QED
    BY <1>4, <2>4, <2>6, <2>8, <2>10, <2>11
<1> QED
  BY <1>0, <1>5, <1>6 DEF Begin

-----------------------------------------------------------------------------
(***************************************************************************)
(* The cursors move and the consumed lines go.                             *)
(***************************************************************************)
LEMMA WriterIs ==
    ASSUME TypeInv, UNCHANGED left \/ Fault
    PROVE  left' \in Lefts
BY FaultIs DEF TypeInv, FilesOK

\* The entries of the history a Dream has had: the last of them is the cursor.
LEMMA LastHad ==
    ASSUME TypeInv, NEW B, B \subseteq 1 .. made,
           NEW h, h = {number[i] : i \in {j \in B : Kind(j) = "history"}}, h # {}
    PROVE  \E m \in B : Kind(m) = "history" /\ number[m] = Max(h)
<1>1. h \subseteq 0 .. made
  <2>1. ASSUME NEW i \in B PROVE number[i] \in 0 .. made
    <3>1. i \in 1 .. made /\ made \in Nat
      BY FilesAre
    <3>2. number[i] \in Nat /\ number[i] <= i
      BY <3>1, FilesAre
    <3> QED
      BY <3>1, <3>2
  <2> QED
    BY <2>1
<1>2. Max(h) \in h
  BY <1>1, FilesAre, MaxIs
<1> QED
  BY <1>2

LEMMA CursorMoves ==
    ASSUME TypeInv, HistInv, Further, UNCHANGED <<made, number, counter, hist, refl, digested>>,
           NEW B, B \subseteq digested, NEW m \in B, Kind(m) = "history", dcursor' = number[m],
           \A i \in 1 .. m : Kind(i) = "history" => i \in B \/ Had(i)
    PROVE  HistInv' /\ dcursor' \in 0 .. made'
<1>0. /\ \A i : Kind(i)' = Kind(i)
      /\ digested \subseteq 1 .. made /\ m \in 1 .. made /\ made \in Nat
      /\ number[m] \in Nat /\ number[m] <= m
  <2>1. digested \subseteq 1 .. made
    BY DEF TypeInv, FilesOK
  <2> QED
    BY <2>1, SameWorld, FilesAre DEF Further, Growth
<1>1. ASSUME NEW i \in 1 .. made, Kind(i) = "history" PROVE Numbered(i)'
  <2>1. Numbered(i) /\ (Had(i) => Had(i)') /\ number[i] \in Nat
    BY <1>1, StillHad, FilesAre DEF HistInv
  <2>2. ASSUME number[i] <= number[m] PROVE Had(i)
    <3>1. CASE i <= m
      <4>1. i \in 1 .. m
        BY <1>0, <3>1
      <4> QED
        BY <1>1, <4>1 DEF Had
    <3>2. CASE ~(i <= m)
      <4>1. i \in m + 1 .. made /\ m \in 1 .. i - 1
        BY <1>0, <3>2
      <4>2. number[m] <= number[i]
        BY <1>0, <1>1, <4>1 DEF HistInv, Numbered
      <4>3. number[m] = number[i]
        BY <1>0, <2>1, <2>2, <4>2
      <4> QED
        BY <1>1, <4>1, <4>3 DEF Had, Reused
    <3> QED
      BY <3>1, <3>2
  <2> QED
    BY <1>0, <2>1, <2>2 DEF Numbered
<1>2. dcursor' \in 0 .. made'
  BY <1>0
<1>3. \E k \in 1 .. made' : Kind(k)' = "history" /\ number'[k] = dcursor'
  BY <1>0
<1> QED
  BY <1>0, <1>1, <1>2, <1>3 DEF HistInv

LEMMA MoveHistoryKeeps ==
    ASSUME Inv, NEW d \in Dreams, MoveHistory(d)
    PROVE  Inv'
<1>0. /\ TypeInv /\ SeenInv /\ DbInv /\ HistInv /\ BatchInv /\ LineInv /\ OneSync
      /\ run[d].pc = "history" /\ run' = [run EXCEPT ![d].pc = "reflections"]
      /\ UNCHANGED <<world, made, number, counter, hist, refl, rcursor, records, digested, shifted, dropped>>
  BY DEF Inv, MoveHistory, history
<1> DEFINE h == {number[i] : i \in {j \in run[d].batch : Kind(j) = "history"}}
<1>1. \/ dcursor' = dcursor /\ left' = left
      \/ h # {} /\ dcursor' = Max(h) /\ left' = left
      \/ dcursor' = dcursor /\ Fault
  BY DEF MoveHistory, Writes
<1> HIDE DEF h
<1>2. d \in Actors /\ d # User /\ d # Keeper /\ DOMAIN run = Actors
  BY <1>0, ActorsAre DEF TypeInv, RunsOK
<1>3. /\ RunOK(d, run[d]) /\ run[d] \in RunSet /\ run[d].line \in Nat /\ run[d].line <= made'
      /\ run[d].batch \subseteq 1 .. made /\ made \in Nat /\ made' = made
  <2>1. RunOK(d, run[d]) /\ Knows(d, run[d]) /\ run[d] \in RunSet
    BY <1>0, <1>2, RunIs DEF RunOK
  <2> QED
    BY <1>0, <1>2, <2>1, FilesAre, RunFields DEF Knows
<1>4. Growth /\ Further
  BY <1>0, <1>3 DEF Growth, Further, DbEffect
<1>5. PICK q, n : n = run[d].line /\ q = [run[d] EXCEPT !.pc = "reflections", !.line = n]
  OBVIOUS
<1>6. MovesTo(d, "reflections", n, q)
  <2>1. q = [run[d] EXCEPT !.pc = "reflections"]
    BY <1>3, <1>5 DEF RunSet
  <2> QED
    BY <1>0, <1>2, <1>5, <2>1 DEF MovesTo
<1>7. /\ RunStep(d, q) /\ q \in RunSet
      /\ q.pc = "reflections" /\ q.line = n /\ q.batch = run[d].batch
  BY <1>0, <1>2, <1>3, <1>4, <1>5, <1>6, MovedIs
<1>8. run[d].batch \subseteq digested
  BY <1>0 DEF BatchInv, Whole
<1>9. Whole(q)'
  BY <1>0, <1>7, <1>8 DEF Whole, Ingesting
<1>10. ~shifted => Placed(q)'
  <2>1. ~shifted => Placed(run[d])
    BY <1>0 DEF LineInv
  <2>2. ~shifted => Placed(q)
    BY <1>0, <1>5, <1>7, <2>1 DEF Placed, Lines
  <2> QED
    BY <1>0, <1>4, <1>7, <2>2, StillPlaced
<1>11. HistInv' /\ dcursor' \in 0 .. made'
  <2>1. CASE dcursor' = dcursor
    <3>1. HistInv'
      BY <1>0, <1>4, <2>1, HistStays DEF HistInv
    <3> QED
      BY <1>0, <2>1, <3>1 DEF TypeInv, FilesOK
  <2>2. CASE h # {} /\ dcursor' = Max(h)
    <3>1. PICK m \in run[d].batch : Kind(m) = "history" /\ number[m] = Max(h)
      BY <1>0, <1>3, <2>2, LastHad DEF h
    <3>2. \A i \in 1 .. m : Kind(i) = "history" => i \in run[d].batch \/ Had(i)
      BY <1>0, <3>1 DEF BatchInv, Whole
    <3>3. dcursor' = number[m]
      BY <2>2, <3>1
    <3> QED
      BY <1>0, <1>4, <1>8, <3>1, <3>2, <3>3, CursorMoves
  <2> QED
    BY <1>1, <2>1, <2>2
<1>12. left' \in Lefts
  BY <1>0, <1>1, WriterIs
<1>13. FilesOK'
  <2>1. Entries' = Entries /\ FilesOK
    BY <1>0, SameWorld DEF TypeInv
  <2> QED
    BY <1>0, <1>11, <1>12, <2>1 DEF FilesOK
<1>14. TypeInv' /\ SeenInv' /\ DbInv'
  BY <1>0, <1>2, <1>4, <1>7, <1>13, RunStepIs, GrowthKeeps DEF TypeInv
<1>15. BatchInv'
  BY <1>0, <1>2, <1>4, <1>7, <1>9, BatchRun
<1>16. LineInv'
  <2>1. \A i \in 1 .. made' : i \in 1 .. made \/ Kind(i) # "reflection"
    BY <1>3
  <2> QED
    BY <1>0, <1>2, <1>4, <1>7, <1>10, <2>1, LineRun
<1>17. OneSync'
  BY <1>0, <1>2, <1>4, <1>7, OneSyncRun
<1> QED
  BY <1>11, <1>14, <1>15, <1>16, <1>17 DEF Inv

\* Whoever else has read lines is waiting for an answer.
LEMMA OthersWait ==
    ASSUME TypeInv, OneSync, NEW a \in Dreams \cup {Keeper}, run[a].pc \notin {"idle", "asking"},
           NEW b \in Dreams \cup {Keeper}, b # a
    PROVE  run[b].pc \in {"idle", "asking"}
BY DEF OneSync

LEMMA LinesStill ==
    ASSUME TypeInv, Further, refl' = refl, NEW q \in RunSet, q.pc \in {"idle", "asking"}, Placed(q)
    PROVE  Placed(q)'
<1>0. q.line \in Nat /\ Len(refl) \in Nat
  BY RunFields, FilesAre
<1>1. ASSUME q.line <= Len(refl), NEW l \in 1 .. q.line
      PROVE  refl'[l] = refl[l] /\ (Done(refl[l]) => Done(refl[l])')
  <2>1. l \in 1 .. Len(refl)
    BY <1>0, <1>1
  <2>2. PICK i \in 1 .. made : i = refl[l]
    BY <2>1, FilesAre
  <2>3. Done(i) => Done(i)'
    BY StillHad
  <2> QED
    BY <2>2, <2>3
<1>2. Lines(q) => Lines(q)'
  BY <1>1 DEF Lines
<1> QED
  BY <1>2 DEF Placed, Ingesting

\* The file without its first k lines.
LEMMA CutIs ==
    ASSUME NEW s \in Seq(Nat), NEW k \in Nat, NEW t, t = SubSeq(s, k + 1, Len(s))
    PROVE  /\ t \in Seq(Nat) /\ Len(t) <= Len(s) /\ Len(t) \in Nat /\ DOMAIN t = 1 .. Len(t)
           /\ \A l \in 1 .. Len(t) : l + k \in 1 .. Len(s) /\ t[l] = s[l + k]
           /\ k <= Len(s) => Len(t) = Len(s) - k
<1> DEFINE n == Len(s)
<1>0. n \in Nat /\ k + 1 \in Nat
  OBVIOUS
<1>1. CASE k <= n
  <2>1. /\ t \in Seq(Nat) /\ Len(t) = n - (k + 1) + 1
        /\ \A l \in 1 .. n - (k + 1) + 1 : t[l] = s[(k + 1) + l - 1]
    <3>1. k + 1 \in 1 .. n + 1 /\ n \in (k + 1) - 1 .. n
      BY <1>0, <1>1
    <3> QED
      BY <1>0, <1>1, <3>1
  <2>2. DOMAIN t = 1 .. Len(t)
    BY <2>1
  <2> HIDE DEF n
  <2>3. Len(t) = n - k /\ \A l \in 1 .. n - k : t[l] = s[(k + 1) + l - 1]
    <3>1. n - (k + 1) + 1 = n - k
      BY <1>0
    <3> QED
      BY <2>1, <3>1
  <2>4. \A l \in 1 .. n - k : (k + 1) + l - 1 = l + k /\ l + k \in 1 .. n
    BY <1>0, <1>1
  <2>5. Len(t) <= n /\ Len(t) \in Nat
    BY <1>0, <1>1, <2>3
  <2> QED
    BY <2>1, <2>2, <2>3, <2>4, <2>5 DEF n
<1>2. CASE ~(k <= n)
  <2>1. t = <<>>
    BY <1>0, <1>2
  <2> QED
    BY <1>0, <1>2, <2>1
<1> QED
  BY <1>1, <1>2

\* What compaction keeps of the history.
LEMMA KeptIs ==
    ASSUME TypeInv, NEW kept, kept \in {hist, SubSeq(hist, Len(hist) - HistoryMax + 1, Len(hist))},
           kept = hist \/ Len(hist) > HistoryMax
    PROVE  kept \in Seq(Nat) /\ ToSet(kept) \subseteq ToSet(hist)
<1>0. hist \in Seq(Nat) /\ Len(hist) \in Nat /\ DOMAIN hist = 1 .. Len(hist) /\ HistoryMax \in Nat \ {0}
  BY FilesAre, WorldIs DEF TypeInv, FilesOK
<1>1. CASE kept # hist
  <2>1. PICK k, n : n = Len(hist) /\ k = n - HistoryMax
    OBVIOUS
  <2>2. k \in Nat /\ n - HistoryMax + 1 = k + 1
    <3>1. n \in Nat /\ n > HistoryMax /\ HistoryMax \in Nat
      BY <1>0, <1>1, <2>1
    <3> QED
      BY <2>1, <3>1
  <2>3. hist \in Seq(Nat) /\ kept = SubSeq(hist, k + 1, Len(hist))
    BY <1>0, <1>1, <2>1, <2>2
  <2>4. kept \in Seq(Nat) /\ DOMAIN kept = 1 .. Len(kept)
    BY <2>2, <2>3, CutIs
  <2>5. \A i \in 1 .. Len(kept) : i + k \in 1 .. Len(hist) /\ kept[i] = hist[i + k]
    BY <2>2, <2>3, CutIs
  <2> QED
    BY <1>0, <2>4, <2>5 DEF ToSet
<1> QED
  BY <1>0, <1>1

LEMMA Compacted ==
    ASSUME TypeInv, HistInv, Further, UNCHANGED <<made, number, counter, refl, dcursor>>,
           ToSet(hist') \subseteq ToSet(hist),
           {i \in ToSet(hist) \ ToSet(hist') : number[i] > dcursor} \subseteq dropped'
    PROVE  HistInv'
<1>0. (\A i : Kind(i)' = Kind(i)) /\ dcursor \in Nat
  BY SameWorld, FilesAre DEF Further, Growth
<1>1. ASSUME NEW i \in 1 .. made, Kind(i) = "history" PROVE Numbered(i)'
  <2>1. Numbered(i) /\ (Had(i) => Had(i)') /\ number[i] \in Nat
    BY <1>1, StillHad, FilesAre DEF HistInv
  <2>2. i \in ToSet(hist') \/ Had(i)'
    <3>1. CASE Had(i)
      BY <2>1, <3>1
    <3>2. CASE ~Had(i)
      <4>1. i \in ToSet(hist) /\ number[i] > dcursor
        BY <1>0, <2>1, <3>2 DEF Numbered
      <4> QED
        BY <4>1 DEF Had
    <3> QED
      BY <3>1, <3>2
  <2> QED
    BY <1>0, <2>1, <2>2 DEF Numbered
<1> QED
  BY <1>0, <1>1 DEF HistInv

LEMMA MoveReflectionsKeeps ==
    ASSUME Inv, NEW d \in Dreams, MoveReflections(d)
    PROVE  Inv'
<1>0. /\ TypeInv /\ SeenInv /\ DbInv /\ HistInv /\ BatchInv /\ LineInv /\ OneSync
      /\ run[d].pc = "reflections" /\ run' = [run EXCEPT ![d].pc = "reset"]
      /\ UNCHANGED <<world, made, number, counter, dcursor, refl, records, digested, shifted>>
      /\ hist' \in {hist, SubSeq(hist, Len(hist) - HistoryMax + 1, Len(hist))}
      /\ hist' = hist \/ ~(Len(hist) <= HistoryMax)
      /\ dropped' = dropped \cup {i \in ToSet(hist) \ ToSet(hist') : number[i] > dcursor}
  BY DEF Inv, MoveReflections, Compact
<1>1. \/ rcursor' = rcursor /\ left' = left
      \/ rcursor' = run[d].line /\ left' = left
      \/ rcursor' = rcursor /\ Fault
  BY DEF MoveReflections, Writes
<1>2. d \in Actors /\ d # User /\ d # Keeper /\ DOMAIN run = Actors
  BY <1>0, ActorsAre DEF TypeInv, RunsOK
<1>3. /\ RunOK(d, run[d]) /\ run[d] \in RunSet /\ run[d].line \in Nat /\ run[d].line <= made'
      /\ run[d].batch \subseteq 1 .. made /\ made \in Nat /\ made' = made
  <2>1. RunOK(d, run[d]) /\ Knows(d, run[d]) /\ run[d] \in RunSet
    BY <1>0, <1>2, RunIs DEF RunOK
  <2> QED
    BY <1>0, <1>2, <2>1, FilesAre, RunFields DEF Knows
<1>4. Growth /\ Further
  BY <1>0, <1>3 DEF Growth, Further, DbEffect
<1>5. PICK q, n : n = run[d].line /\ q = [run[d] EXCEPT !.pc = "reset", !.line = n]
  OBVIOUS
<1>6. MovesTo(d, "reset", n, q)
  <2>1. q = [run[d] EXCEPT !.pc = "reset"]
    BY <1>3, <1>5 DEF RunSet
  <2> QED
    BY <1>0, <1>2, <1>5, <2>1 DEF MovesTo
<1>7. /\ RunStep(d, q) /\ q \in RunSet
      /\ q.pc = "reset" /\ q.line = n /\ q.batch = run[d].batch
  BY <1>0, <1>2, <1>3, <1>4, <1>5, <1>6, MovedIs
<1>8. run[d].batch \subseteq digested
  BY <1>0 DEF BatchInv, Whole
<1>9. Whole(q)' /\ Placed(q)'
  BY <1>7 DEF Whole, Placed, Ingesting
<1>10. hist' \in Seq(Nat) /\ ToSet(hist') \subseteq ToSet(hist)
  <2>1. hist' = hist \/ Len(hist) > HistoryMax
    BY <1>0, FilesAre, WorldIs DEF TypeInv
  <2>2. PICK kept : kept = hist'
    OBVIOUS
  <2> QED
    BY <1>0, <2>1, <2>2, KeptIs
<1>11. HistInv'
  <2>1. {i \in ToSet(hist) \ ToSet(hist') : number[i] > dcursor} \subseteq dropped'
    BY <1>0
  <2> QED
    BY <1>0, <1>4, <1>10, <2>1, Compacted
<1>12. left' \in Lefts
  BY <1>0, <1>1, WriterIs
<1>13. FilesOK'
  <2>1. Entries' = Entries /\ FilesOK
    BY <1>0, SameWorld DEF TypeInv
  <2>2. rcursor' \in 0 .. made'
    BY <1>1, <1>3, <2>1 DEF FilesOK
  <2>3. dropped' \subseteq 1 .. made /\ ToSet(hist') \subseteq 1 .. made
    BY <1>0, <1>10, <2>1 DEF FilesOK
  <2> QED
    BY <1>0, <1>10, <1>12, <2>1, <2>2, <2>3 DEF FilesOK
<1>14. TypeInv' /\ SeenInv' /\ DbInv'
  BY <1>0, <1>2, <1>4, <1>7, <1>13, RunStepIs, GrowthKeeps DEF TypeInv
<1>15. BatchInv'
  BY <1>0, <1>2, <1>4, <1>7, <1>9, BatchRun
<1>16. LineInv'
  <2>0. run'[d] = q /\ Dreams' = Dreams /\ \A b \in Actors : b # d => run'[b] = run[b]
    BY <1>0, <1>2, <1>4, <1>7, RunStepIs, SameWorld
  <2>1. ASSUME ~shifted, NEW b \in Dreams \cup {Keeper} PROVE Placed(run[b])'
    <3>1. CASE b = d
      BY <1>9, <2>0, <3>1
    <3>2. CASE b # d
      <4>1. PICK y : y = run[b]
        OBVIOUS
      <4>2. y.pc \in {"idle", "asking"} /\ b \in Actors
        BY <1>0, <3>2, <4>1, OthersWait, ActorsAre
      <4>3. Placed(y) /\ y \in RunSet
        BY <1>0, <2>1, <4>1, <4>2, RunIs DEF LineInv, RunOK
      <4>4. Placed(y)'
        BY <1>0, <1>4, <4>2, <4>3, LinesStill
      <4> QED
        BY <2>0, <3>2, <4>1, <4>2, <4>4
    <3> QED
      BY <3>1, <3>2
  <2>2. ASSUME ~shifted PROVE rcursor' <= Len(refl') /\ \A l \in 1 .. rcursor' : Done(refl[l])'
    <3>1. /\ rcursor <= Len(refl) /\ \A l \in 1 .. rcursor : Done(refl[l])
          /\ run[d].line <= Len(refl) /\ \A l \in 1 .. run[d].line : Done(refl[l]) \/ refl[l] \in run[d].batch
      BY <1>0, <2>2 DEF LineInv, Placed, Lines
    <3>2. \A l \in 1 .. run[d].line : Done(refl[l])
      BY <1>8, <3>1 DEF Done
    <3>3. rcursor' <= Len(refl) /\ \A l \in 1 .. rcursor' : Done(refl[l])
      BY <1>1, <3>1, <3>2
    <3>4. ASSUME NEW l \in 1 .. rcursor' PROVE Done(refl[l])'
      <4>1. l \in 1 .. Len(refl)
        <5>1. rcursor' \in Nat /\ Len(refl) \in Nat
          BY <1>0, <1>1, <1>3, FilesAre
        <5> QED
          BY <3>3, <5>1
      <4>2. PICK i \in 1 .. made : i = refl[l]
        BY <1>0, <4>1, FilesAre
      <4>3. Done(i)'
        BY <1>0, <1>4, <3>3, <4>2, StillHad
      <4> QED
        BY <1>0, <4>2, <4>3
    <3> QED
      BY <1>0, <3>3, <3>4
  <2>3. ASSUME ~shifted, NEW i \in 1 .. made', Kind(i)' = "reflection"
        PROVE i \in digested' \/ \E l \in 1 .. Len(refl') : refl'[l] = i
    <3>1. Kind(i) = "reflection"
      BY <1>0, <2>3, SameWorld
    <3> QED
      BY <1>0, <2>3, <3>1 DEF LineInv
  <2> QED
    BY <1>0, <2>0, <2>1, <2>2, <2>3 DEF LineInv
<1>17. OneSync'
  BY <1>0, <1>2, <1>4, <1>7, OneSyncRun
<1> QED
  BY <1>11, <1>14, <1>15, <1>16, <1>17 DEF Inv

LEMMA ResetKeeps ==
    ASSUME Inv, NEW a \in Dreams \cup {Keeper}, Reset(a)
    PROVE  Inv'
<1>0. /\ TypeInv /\ SeenInv /\ DbInv /\ HistInv /\ BatchInv /\ LineInv /\ OneSync
      /\ run[a].pc = "reset"
      /\ UNCHANGED <<world, made, number, counter, hist, dcursor, refl, records, digested, shifted, dropped>>
  BY DEF Inv, Reset, history
<1>1. rcursor' \in {rcursor, 0} /\ (left' = left \/ Fault)
  BY DEF Reset, Writes
<1>2. a \in Actors /\ a # User /\ DOMAIN run = Actors
  BY <1>0, ActorsAre DEF TypeInv, RunsOK
<1>3. /\ Effective \in Nat /\ Effective <= Len(refl) /\ Effective <= made
      /\ made \in Nat /\ made' = made /\ Len(refl) \in Nat
  <2>1. Len(refl) \in Nat /\ made \in Nat /\ Len(refl) <= made /\ Effective \in Nat /\ rcursor \in Nat
    BY <1>0, FilesAre, NewAre DEF TypeInv, FilesOK
  <2>2. Effective <= Len(refl)
    BY <2>1 DEF Effective
  <2> QED
    BY <1>0, <2>1, <2>2
<1>4. Growth /\ Further
  BY <1>0, <1>3 DEF Growth, Further, DbEffect
<1>5. PICK n : n = IF rcursor' = 0 THEN Effective ELSE 0
  OBVIOUS
<1>6. PICK q : q = [run[a] EXCEPT !.pc = "cut", !.line = n]
  OBVIOUS
<1>7. MovesTo(a, "cut", n, q)
  BY <1>2, <1>5, <1>6 DEF MovesTo, Reset
<1>8. n \in Nat /\ n <= Len(refl) /\ n <= made' /\ (n # 0 => rcursor' = 0) /\ n <= Effective
  BY <1>3, <1>5
<1>9. /\ RunStep(a, q) /\ q \in RunSet
      /\ q.pc = "cut" /\ q.line = n /\ q.batch = run[a].batch
  BY <1>0, <1>2, <1>4, <1>7, <1>8, MovedIs
<1>10. Whole(q)'
  BY <1>9 DEF Whole, Ingesting
<1>11. ~shifted => Placed(q)'
  <2>1. ASSUME ~shifted, NEW l \in 1 .. n PROVE Done(refl[l])'
    <3>1. l \in 1 .. Len(refl) /\ l <= Effective
      BY <1>3, <1>8
    <3>2. PICK i \in 1 .. made : i = refl[l]
      BY <1>0, <3>1, FilesAre
    <3>3. Done(i)
      BY <1>0, <2>1, <3>1, <3>2, EffectiveDone
    <3>4. Done(i)'
      BY <1>0, <1>4, <3>3, StillHad
    <3> QED
      BY <1>0, <3>2, <3>4
  <2> QED
    BY <1>0, <1>8, <1>9, <2>1 DEF Placed, Cuts, Ingesting
<1>12. HistInv'
  BY <1>0, <1>4, HistStays DEF HistInv
<1>13. left' \in Lefts
  BY <1>0, <1>1, WriterIs
<1>14. FilesOK'
  <2>1. Entries' = Entries /\ FilesOK
    BY <1>0, SameWorld DEF TypeInv
  <2>2. rcursor' \in 0 .. made'
    BY <1>1, <1>3, <2>1 DEF FilesOK
  <2> QED
    BY <1>0, <1>13, <2>1, <2>2 DEF FilesOK
<1>15. TypeInv' /\ SeenInv' /\ DbInv'
  BY <1>0, <1>2, <1>4, <1>9, <1>14, RunStepIs, GrowthKeeps DEF TypeInv
<1>16. BatchInv'
  BY <1>0, <1>2, <1>4, <1>9, <1>10, BatchRun
<1>17. LineInv'
  <2>1. \A i \in 1 .. made' : i \in 1 .. made \/ Kind(i) # "reflection"
    BY <1>3
  <2> QED
    BY <1>0, <1>1, <1>2, <1>4, <1>9, <1>11, <2>1, LineRun
<1>18. OneSync'
  BY <1>0, <1>2, <1>4, <1>9, OneSyncRun
<1> QED
  BY <1>12, <1>15, <1>16, <1>17, <1>18 DEF Inv

\* The run of a step that cuts is over but for what expires.
LEMMA ExpiresIs ==
    ASSUME TypeInv, SeenInv, Growth, NEW a \in Actors, a # User,
           NEW q, q = [Idle EXCEPT !.pc = "expire"], run' = [run EXCEPT ![a] = q]
    PROVE  RunStep(a, q) /\ q \in RunSet /\ q.pc = "expire"
<1>1. "expire" \in Pcs /\ Attempts \in Nat \ {0} /\ Len(records') \in Nat /\ made' \in Nat
  BY WorldIs, Points DEF Pcs, TypeInv, Growth
<1>2. /\ q \in RunSet /\ q.pc = "expire" /\ q.batch = {} /\ q.line = 0 /\ q.rec = 0 /\ q.tries = 0
  BY <1>1, IdleIs DEF RunSet
<1>3. RunOK(a, q)
  BY <1>1, <1>2 DEF RunOK, Ingesting
<1>4. Knows(a, q)' /\ Sees(q)'
  BY <1>1, <1>2 DEF Knows, Sees
<1> QED
  BY <1>2, <1>3, <1>4 DEF RunStep

\* The lines that go are done, and no Dream knows the others by their old numbers.
LEMMA CutLines ==
    ASSUME TypeInv, LineInv, OneSync, Further, NEW a \in Dreams \cup {Keeper}, run[a].pc = "cut",
           ~shifted, ~Asking, UNCHANGED <<made, digested, rcursor>>,
           NEW n \in Nat, n <= Len(refl), \A l \in 1 .. n : Done(refl[l]), rcursor = 0,
           refl' = SubSeq(refl, n + 1, Len(refl)),
           Placed(run[a])', \A b \in Actors : b # a => run'[b] = run[b]
    PROVE  LineInv'
<1>0. /\ refl \in Seq(Nat) /\ Len(refl) \in Nat /\ Dreams' = Dreams /\ world' = world
  BY FilesAre, SameWorld DEF TypeInv, FilesOK, Further, Growth
<1>1. Len(refl') = Len(refl) - n /\ \A l \in 1 .. Len(refl') : refl'[l] = refl[l + n]
  <2>1. PICK t : t = refl'
    OBVIOUS
  <2>2. t = SubSeq(refl, n + 1, Len(refl)) /\ n <= Len(refl) /\ refl \in Seq(Nat)
    BY <1>0, <2>1
  <2>3. n <= Len(refl) => Len(t) = Len(refl) - n
    BY <2>2, CutIs
  <2>4. \A l \in 1 .. Len(t) : l + n \in 1 .. Len(refl) /\ t[l] = refl[l + n]
    BY <2>2, CutIs
  <2> QED
    BY <2>1, <2>2, <2>3, <2>4
<1>2. ASSUME NEW i \in 1 .. made, Kind(i) = "reflection"
      PROVE  i \in digested \/ \E l \in 1 .. Len(refl') : refl'[l] = i
  <2>1. CASE i \in digested
    BY <2>1
  <2>2. CASE i \notin digested
    <3>1. PICK l \in 1 .. Len(refl) : refl[l] = i
      BY <1>2, <2>2 DEF LineInv
    <3>2. ~(l <= n)
      BY <1>0, <1>2, <2>2, <3>1 DEF Done, Valid
    <3>3. PICK x, y : x = Len(refl) /\ y = Len(refl')
      OBVIOUS
    <3>4. x \in Nat /\ y = x - n /\ l \in 1 .. x
      BY <1>0, <1>1, <3>1, <3>3
    <3>5. l - n \in 1 .. y /\ (l - n) + n = l
      BY <3>2, <3>4
    <3> QED
      BY <1>1, <3>1, <3>3, <3>5
  <2> QED
    BY <2>1, <2>2
<1>3. ASSUME NEW b \in Dreams \cup {Keeper}, b # a PROVE Placed(run[b])'
  <2>1. run[b].pc \in {"idle", "asking"} /\ b \in Actors
    BY <1>3, OthersWait, ActorsAre
  <2>2. RunOK(b, run[b])
    BY <2>1 DEF TypeInv, RunsOK
  <2>3. run[b] = Idle
    BY <2>1, <2>2 DEF RunOK, Asking
  <2>4. run'[b] = Idle
    BY <1>3, <2>1, <2>3
  <2> QED
    BY <2>4, IdleIs DEF Placed, Ingesting
<1>4. \A i : Kind(i)' = Kind(i)
  BY <1>0, SameWorld
<1>5. \A b \in Dreams \cup {Keeper} : Placed(run[b])'
  BY <1>3
<1>6. rcursor' = 0 /\ rcursor' <= Len(refl')
  <2>1. PICK x, y : x = Len(refl) /\ y = Len(refl')
    OBVIOUS
  <2>2. x \in Nat /\ n <= x /\ y = x - n
    BY <1>0, <1>1, <2>1
  <2>3. 0 <= y
    BY <2>2
  <2> QED
    BY <1>0, <2>1, <2>3
<1>7. \A l \in 1 .. rcursor' : Done(refl[l])'
  BY <1>6
<1>8. \A i \in 1 .. made' : Kind(i)' = "reflection" =>
         i \in digested' \/ \E l \in 1 .. Len(refl') : refl'[l] = i
  BY <1>2, <1>4
<1> QED
  BY <1>0, <1>5, <1>6, <1>7, <1>8 DEF LineInv

LEMMA CutKeeps ==
    ASSUME Inv, NEW a \in Dreams \cup {Keeper}, Cut(a)
    PROVE  Inv'
<1>0. /\ TypeInv /\ SeenInv /\ DbInv /\ HistInv /\ BatchInv /\ LineInv /\ OneSync
      /\ run[a].pc = "cut" /\ shifted' = (shifted \/ (refl' # refl /\ Asking))
      /\ UNCHANGED <<world, made, number, counter, hist, dcursor, rcursor, records, digested, dropped>>
  BY DEF Inv, Cut
<1>1. a \in Actors /\ a # User /\ DOMAIN run = Actors
  BY <1>0, ActorsAre DEF TypeInv, RunsOK
<1>2. PICK n : n = run[a].line
  OBVIOUS
<1>3. n \in Nat /\ made \in Nat /\ refl \in Seq(Nat)
  <2>1. run[a] \in RunSet
    BY <1>0, <1>1, RunIs DEF RunOK
  <2> QED
    BY <1>0, <1>2, <2>1, RunFields, FilesAre DEF TypeInv, FilesOK
<1>4. /\ refl' = refl \/ (n # 0 /\ refl' = SubSeq(refl, n + 1, Len(refl)))
      /\ left' = left \/ Fault
  BY <1>2 DEF Cut, Writes
<1>5. Growth /\ Further
  <2>1. Growth
    BY <1>0, <1>3 DEF Growth, DbEffect
  <2>2. shifted => shifted'
    BY <1>0, Zenon
  <2> QED
    BY <1>0, <2>1, <2>2 DEF Further
<1>6. PICK q : q = [Idle EXCEPT !.pc = "expire"]
  OBVIOUS
<1>7. RunStep(a, q) /\ q \in RunSet /\ q.pc = "expire"
  BY <1>0, <1>1, <1>5, <1>6, ExpiresIs DEF Cut
<1>8. Whole(q)' /\ Placed(q)'
  BY <1>7 DEF Whole, Placed, Ingesting
<1>9. /\ refl' \in Seq(Nat) /\ Len(refl') <= made /\ ToSet(refl') \subseteq 1 .. made
      /\ \A l \in 1 .. Len(refl') : \E k \in 1 .. Len(refl) : refl'[l] = refl[k]
  <2>1. Len(refl) <= made /\ ToSet(refl) \subseteq 1 .. made /\ Len(refl) \in Nat
        /\ \A l \in 1 .. Len(refl) : refl[l] \in 1 .. made
    BY <1>0, FilesAre DEF TypeInv, FilesOK
  <2>2. CASE refl' = refl
    BY <1>3, <2>1, <2>2
  <2>3. CASE refl' = SubSeq(refl, n + 1, Len(refl))
    <3>1. PICK t : t = refl'
      OBVIOUS
    <3>2. /\ t \in Seq(Nat) /\ Len(t) <= Len(refl) /\ Len(t) \in Nat /\ DOMAIN t = 1 .. Len(t)
          /\ \A l \in 1 .. Len(t) : l + n \in 1 .. Len(refl) /\ t[l] = refl[l + n]
      BY <1>3, <2>3, <3>1, CutIs
    <3>3. Len(t) <= made
      BY <1>3, <2>1, <3>2
    <3>4. ToSet(t) \subseteq 1 .. made
      BY <2>1, <3>2 DEF ToSet
    <3> QED
      BY <3>1, <3>2, <3>3, <3>4
  <2> QED
    BY <1>4, <2>2, <2>3
<1>10. HistInv'
  <2>1. \A l \in 1 .. Len(refl') : Kind(refl'[l]) # "history"
    BY <1>0, <1>9 DEF HistInv
  <2> QED
    BY <1>0, <1>5, <2>1, HistStays
<1>11. left' \in Lefts
  BY <1>0, <1>4, WriterIs
<1>12. FilesOK'
  <2>1. Entries' = Entries /\ FilesOK
    BY <1>0, SameWorld DEF TypeInv
  <2> QED
    BY <1>0, <1>9, <1>11, <2>1 DEF FilesOK
<1>13. TypeInv' /\ SeenInv' /\ DbInv'
  BY <1>0, <1>1, <1>5, <1>7, <1>12, RunStepIs, GrowthKeeps DEF TypeInv
<1>14. BatchInv'
  BY <1>0, <1>1, <1>5, <1>7, <1>8, BatchRun
<1>15. LineInv'
  <2>1. CASE refl' = refl
    <3>1. \A i \in 1 .. made' : i \in 1 .. made \/ Kind(i) # "reflection"
      BY <1>0
    <3>2. shifted' = shifted
      BY <1>0, <2>1 DEF TypeInv, FilesOK
    <3> QED
      BY <1>0, <1>1, <1>5, <1>7, <1>8, <2>1, <3>1, <3>2, LineRun
  <2>2. CASE refl' # refl /\ (shifted \/ Asking)
    BY <1>0, <2>2 DEF LineInv
  <2>3. CASE refl' # refl /\ ~shifted /\ ~Asking
    <3>1. run'[a] = q /\ \A b \in Actors : b # a => run'[b] = run[b]
      BY <1>0, <1>1, <1>5, <1>7, RunStepIs
    <3>2. Placed(run[a])'
      BY <1>8, <3>1
    <3>3. n # 0 /\ refl' = SubSeq(refl, n + 1, Len(refl))
      BY <1>4, <2>3
    <3>4. n <= Len(refl) /\ rcursor = 0 /\ \A l \in 1 .. n : Done(refl[l])
      <4>1. Cuts(run[a])
        BY <1>0, <2>3 DEF LineInv, Placed
      <4> QED
        BY <1>2, <3>3, <4>1 DEF Cuts
    <3> QED
      BY <1>0, <1>3, <1>5, <2>3, <3>1, <3>2, <3>3, <3>4, CutLines
  <2> QED
    BY <2>1, <2>2, <2>3
<1>16. OneSync'
  BY <1>0, <1>1, <1>5, <1>7, OneSyncRun
<1> QED
  BY <1>10, <1>13, <1>14, <1>15, <1>16 DEF Inv

LEMMA ExpireKeeps ==
    ASSUME Inv, NEW a \in Dreams \cup {Keeper}, ExpireDue(a)
    PROVE  Inv'
<1>0. TypeInv /\ SeenInv /\ run[a].pc = "expire" /\ UNCHANGED <<world, files, history>>
  BY DEF Inv, ExpireDue
<1>1. a \in Actors /\ a # User
  BY <1>0, ActorsAre
<1>2. CASE run' = [run EXCEPT ![a] = Idle] /\ UNCHANGED <<records, left>>
  <2>1. Growth
    BY <1>0, <1>2, SameGrowth DEF DbEffect
  <2>2. PICK q : q = Idle
    OBVIOUS
  <2>3. RunOK(a, q) /\ Knows(a, q)' /\ Sees(q)' /\ q.pc = "idle"
    BY <1>0, <1>1, <2>1, <2>2, IdleFine, Stays, IdleIs
  <2>4. RunStep(a, q)
    BY <1>2, <2>2, <2>3 DEF RunStep
  <2>5. Whole(q)' /\ Placed(q)'
    BY <2>3 DEF Whole, Placed, Ingesting
  <2>6. UNCHANGED <<files, records, left, history>> /\ run[a].pc \notin {"idle", "asking"}
    BY <1>0, <1>2
  <2> QED
    BY <1>1, <2>1, <2>4, <2>5, <2>6, RunKeeps
<1>3. CASE /\ left.due > 0 /\ left' = [left EXCEPT !.due = @ - 1] /\ UNCHANGED run
           /\ \E r \in DOMAIN records :
                 /\ records[r].status \in {"candidate", "active"}
                 /\ records' = [records EXCEPT ![r] = Revised(r, "expired", None)]
  <2>1. DbEffect
    BY <1>0, <1>3, CloseIs DEF TypeInv
  <2>2. Growth
    BY <1>0, <2>1, SameGrowth
  <2>3. left' \in Lefts
    <3>1. left \in Lefts /\ left.due \in Nat
      BY <1>0 DEF TypeInv, FilesOK, Lefts
    <3> DEFINE n == left.due - 1
    <3>2. n \in Nat
      BY <1>3, <3>1
    <3>3. left' = [left EXCEPT !.due = n]
      BY <1>3, <3>1 DEF Lefts
    <3> HIDE DEF n
    <3> QED
      BY <3>1, <3>2, <3>3 DEF Lefts
  <2>4. RecordStep
    BY <1>0, <1>3, <2>3 DEF RecordStep
  <2> QED
    BY <2>2, <2>4, RecordKeeps
<1> QED
  BY <1>2, <1>3 DEF ExpireDue

LEMMA HygieneKeeps ==
    ASSUME Inv, Hygiene
    PROVE  Inv'
<1>0. /\ TypeInv /\ SeenInv /\ run[Keeper].pc = "idle" /\ ~InSync
      /\ run' = [run EXCEPT ![Keeper].pc = "reset"]
      /\ UNCHANGED <<world, files, records, left, history>>
  BY DEF Inv, Hygiene
<1>1. Keeper \in Actors /\ Keeper # User /\ Keeper \notin Dreams /\ made \in Nat /\ made' = made
  BY <1>0, ActorsAre, FilesAre DEF files
<1>2. Growth
  BY <1>0, SameGrowth DEF DbEffect
<1>3. run[Keeper] \in RunSet /\ run[Keeper].line = 0
  <2>1. run[Keeper] = Idle
    BY <1>0, <1>1, RunIs DEF RunOK
  <2> QED
    BY <2>1, IdleIs
<1>4. PICK q : q = [run[Keeper] EXCEPT !.pc = "reset", !.line = 0]
  OBVIOUS
<1>5. MovesTo(Keeper, "reset", 0, q)
  <2>1. q = [run[Keeper] EXCEPT !.pc = "reset"]
    BY <1>3, <1>4 DEF RunSet
  <2> QED
    BY <1>0, <1>1, <1>4, <2>1 DEF MovesTo, TypeInv, RunsOK
<1>6. RunStep(Keeper, q) /\ q.pc = "reset"
  BY <1>0, <1>1, <1>2, <1>5, MovedIs
<1>7. Placed(q)'
  BY <1>6 DEF Placed, Ingesting
<1> QED
  BY <1>0, <1>1, <1>2, <1>6, <1>7, RunKeeps

-----------------------------------------------------------------------------
(***************************************************************************)
(* Entries are written.                                                    *)
(***************************************************************************)
LEMMA MoreIs ==
    ASSUME NEW s \in Seq(Nat), NEW x \in Nat, NEW t, t = Append(s, x)
    PROVE  /\ t \in Seq(Nat) /\ Len(t) = Len(s) + 1 /\ Len(s) \in Nat
           /\ DOMAIN t = 1 .. Len(t) /\ t[Len(s) + 1] = x
           /\ \A i \in 1 .. Len(s) : t[i] = s[i]
           /\ ToSet(t) = ToSet(s) \cup {x}
<1>1. /\ t \in Seq(Nat) /\ Len(t) = Len(s) + 1 /\ Len(s) \in Nat /\ DOMAIN s = 1 .. Len(s)
      /\ DOMAIN t = 1 .. Len(t) /\ t[Len(s) + 1] = x /\ \A i \in 1 .. Len(s) : t[i] = s[i]
  BY AppendProperties, LenProperties
<1> DEFINE n == Len(s)
<1>2. n \in Nat /\ DOMAIN s = 1 .. n /\ DOMAIN t = 1 .. n + 1 /\ t[n + 1] = x
      /\ \A i \in 1 .. n : t[i] = s[i]
  BY <1>1
<1> HIDE DEF n
<1>3. 1 .. n + 1 = 1 .. n \cup {n + 1}
  BY <1>2
<1>4. ToSet(t) = ToSet(s) \cup {x}
  BY <1>2, <1>3 DEF ToSet
<1> QED
  BY <1>1, <1>4

LEMMA MadeIs ==
    ASSUME TypeInv, NEW n \in Nat, n <= made + 1, made' = made + 1, number' = Append(number, n)
    PROVE  /\ number' \in Seq(Nat) /\ Len(number') = made' /\ made' \in Nat /\ made <= made'
           /\ \A i \in 1 .. made : number'[i] = number[i]
           /\ number'[made'] = n /\ \A i \in 1 .. made' : number'[i] <= i
           /\ 1 .. made' = 1 .. made \cup {made'}
<1>1. made \in Nat /\ number \in Seq(Nat) /\ Len(number) = made /\ \A i \in 1 .. made : number[i] <= i
  BY FilesAre DEF TypeInv, FilesOK
<1>2. PICK t : t = number'
  OBVIOUS
<1>3. /\ t \in Seq(Nat) /\ Len(t) = made + 1 /\ t[made + 1] = n
      /\ \A i \in 1 .. made : t[i] = number[i]
  BY <1>1, <1>2, MoreIs
<1>4. 1 .. made + 1 = 1 .. made \cup {made + 1}
  BY <1>1
<1>5. \A i \in 1 .. made + 1 : t[i] <= i
  BY <1>1, <1>3, <1>4
<1> QED
  BY <1>1, <1>2, <1>3, <1>4, <1>5

LEMMA HistGrows ==
    ASSUME TypeInv, HistInv, Further, UNCHANGED <<dcursor, refl>>, made' = made + 1,
           number' = Append(number, counter + 1), hist' = Append(hist, made + 1),
           counter' \in {counter, counter + 1}, Kind(made + 1) = "history"
    PROVE  HistInv'
<1>0. /\ \A i : Kind(i)' = Kind(i)
      /\ dcursor \in Nat /\ counter \in Nat /\ counter <= made /\ made \in Nat /\ hist \in Seq(Nat)
  BY SameWorld, FilesAre DEF Further, Growth, TypeInv, FilesOK
<1>1. /\ \A i \in 1 .. made : number'[i] = number[i]
      /\ number'[made'] = counter + 1 /\ 1 .. made' = 1 .. made \cup {made'}
  <2>1. counter + 1 \in Nat /\ counter + 1 <= made + 1
    BY <1>0
  <2> QED
    BY <2>1, MadeIs
<1>2. ToSet(hist') = ToSet(hist) \cup {made + 1}
  <2>1. PICK t : t = hist'
    OBVIOUS
  <2>2. made + 1 \in Nat /\ t = Append(hist, made + 1)
    BY <1>0, <2>1
  <2> QED
    BY <1>0, <2>1, <2>2, MoreIs
<1>3. ASSUME NEW i \in 1 .. made, Kind(i) = "history" PROVE Numbered(i)'
  <2>1. Numbered(i) /\ (Had(i) => Had(i)') /\ number[i] \in Nat
    BY <1>3, StillHad, FilesAre DEF HistInv
  <2>2. number[i] >= 1 /\ number[i] <= counter + 1 /\ number[i] <= counter' + 1
    BY <1>0, <2>1 DEF Numbered
  <2>3. i \in ToSet(hist') \/ Had(i)'
    BY <1>2, <2>1 DEF Numbered
  <2>4. ASSUME NEW j \in i + 1 .. made', Kind(j) = "history" PROVE number'[i] <= number'[j]
    <3>1. CASE j = made'
      BY <1>1, <2>2, <3>1
    <3>2. CASE j # made'
      <4>1. j \in i + 1 .. made /\ j \in 1 .. made
        BY <1>0, <3>2
      <4>2. number[i] <= number[j]
        BY <2>1, <2>4, <4>1 DEF Numbered
      <4> QED
        BY <1>1, <4>1, <4>2
    <3> QED
      BY <3>1, <3>2
  <2>5. number'[i] <= dcursor' => Had(i)'
    BY <1>1, <2>1 DEF Numbered
  <2> QED
    BY <1>0, <1>1, <2>2, <2>3, <2>4, <2>5 DEF Numbered
<1>4. PICK k : k = made + 1
  OBVIOUS
<1>5. /\ k \in Nat /\ made' = k /\ number'[k] = counter + 1 /\ k \in ToSet(hist')
      /\ 1 .. made' = 1 .. made \cup {k}
  <2>1. k \in Nat /\ k = made'
    BY <1>0, <1>4
  <2>2. number'[k] = counter + 1 /\ 1 .. made' = 1 .. made \cup {k}
    BY <1>1, <2>1, Zenon
  <2>3. k \in ToSet(hist')
    BY <1>2, <1>4
  <2> QED
    BY <2>1, <2>2, <2>3
<1>6. Numbered(k)'
  <2>1. ASSUME counter + 1 <= dcursor PROVE Reused(k)'
    <3>1. PICK m \in 1 .. made : Kind(m) = "history" /\ number[m] = dcursor
      BY <1>0, <2>1 DEF HistInv
    <3>2. number[m] <= counter + 1 /\ number[m] \in Nat
      BY <3>1, FilesAre DEF HistInv, Numbered
    <3>3. number'[m] = number'[k]
      <4>1. dcursor <= counter + 1
        BY <3>1, <3>2
      <4>2. dcursor = counter + 1
        BY <1>0, <2>1, <4>1
      <4> QED
        BY <1>1, <1>5, <3>1, <4>2
    <3>4. m \in 1 .. k - 1
      BY <1>0, <1>5, <1>4, <3>1
    <3> QED
      BY <1>0, <1>4, <3>1, <3>3, <3>4 DEF Reused
  <2>2. number'[k] >= 1 /\ number'[k] <= counter' + 1
    <3>1. counter + 1 >= 1 /\ counter + 1 <= counter' + 1
      <4>1. counter \in Nat /\ counter' \in {counter, counter + 1}
        BY <1>0
      <4>2. PICK x, y : x = counter /\ y = counter'
        OBVIOUS
      <4>3. x \in Nat /\ (y = x \/ y = x + 1)
        BY <4>1, <4>2
      <4>4. x + 1 >= 1 /\ x + 1 <= y + 1
        BY <4>3
      <4> QED
        BY <4>2, <4>4
    <3> QED
      BY <1>5, <3>1
  <2>3. \A j \in k + 1 .. made' : FALSE
    BY <1>5
  <2>4. number'[k] <= dcursor' => Had(k)'
    BY <1>5, <2>1 DEF Had
  <2> QED
    BY <1>5, <2>2, <2>3, <2>4 DEF Numbered
<1>7. \A i \in 1 .. made' : Kind(i)' = "history" => Numbered(i)'
  BY <1>0, <1>3, <1>5, <1>6
<1>8. \A i \in ToSet(hist') : Kind(i)' = "history"
  BY <1>0, <1>2 DEF HistInv
<1>9. dcursor' = 0 \/ \E m \in 1 .. made' : Kind(m)' = "history" /\ number'[m] = dcursor'
  BY <1>0, <1>1 DEF HistInv
<1> QED
  BY <1>0, <1>7, <1>8, <1>9 DEF HistInv

LEMMA WriteHistoryKeeps ==
    ASSUME Inv, WriteHistory
    PROVE  Inv'
<1>0. /\ TypeInv /\ SeenInv /\ DbInv /\ HistInv /\ BatchInv /\ LineInv /\ OneSync
      /\ made < Len(Entries) /\ Kind(made + 1) = "history" /\ made' = made + 1
      /\ number' = Append(number, counter + 1) /\ hist' = Append(hist, made + 1)
      /\ UNCHANGED <<world, dcursor, refl, rcursor, records, digested, shifted, dropped>>
  BY DEF Inv, WriteHistory, history
<1>1. \/ counter' = counter + 1 /\ left' = left /\ run' = run
      \/ Fault /\ Dies /\ counter' = counter
  BY DEF WriteHistory
<1>2. made \in Nat /\ counter \in Nat /\ counter <= made /\ hist \in Seq(Nat) /\ Len(Entries) \in Nat
  BY <1>0, FilesAre DEF TypeInv, FilesOK
<1>3. /\ number' \in Seq(Nat) /\ Len(number') = made' /\ made' \in Nat /\ made <= made'
      /\ \A i \in 1 .. made : number'[i] = number[i]
      /\ (\A i \in 1 .. made' : number'[i] <= i) /\ 1 .. made' = 1 .. made \cup {made'}
  <2>1. counter + 1 \in Nat /\ counter + 1 <= made + 1
    BY <1>2
  <2> QED
    BY <1>0, <2>1, MadeIs
<1>4. Growth /\ Further
  BY <1>0, <1>3 DEF Growth, Further, DbEffect
<1>5. HistInv'
  BY <1>0, <1>1, <1>4, HistGrows
<1>6. hist' \in Seq(Nat) /\ ToSet(hist') = ToSet(hist) \cup {made'}
  <2>1. PICK t : t = hist'
    OBVIOUS
  <2>2. made + 1 \in Nat /\ t = Append(hist, made + 1)
    BY <1>0, <1>2, <2>1
  <2>3. t \in Seq(Nat) /\ ToSet(t) = ToSet(hist) \cup {made + 1}
    BY <1>2, <2>2, MoreIs
  <2> QED
    BY <1>0, <2>1, <2>3
<1>7. left' \in Lefts
  BY <1>0, <1>1, WriterIs
<1>8. FilesOK'
  <2>1. Entries' = Entries /\ FilesOK /\ 1 .. made \subseteq 1 .. made' /\ made' \in 1 .. made'
    BY <1>0, <1>2, SameWorld DEF TypeInv
  <2>2. made' \in 0 .. Len(Entries') /\ counter' \in 0 .. made'
    BY <1>0, <1>1, <1>2, <2>1
  <2>3. dcursor' \in 0 .. made' /\ rcursor' \in 0 .. made' /\ Len(refl') <= made'
    <3>1. dcursor \in Nat /\ rcursor \in Nat /\ Len(refl) \in Nat
          /\ dcursor <= made /\ rcursor <= made /\ Len(refl) <= made
      BY <1>0, <2>1, FilesAre DEF FilesOK
    <3> QED
      BY <1>0, <1>2, <3>1
  <2>4. ToSet(hist') \subseteq 1 .. made' /\ ToSet(refl') \subseteq 1 .. made'
        /\ digested' \subseteq 1 .. made' /\ dropped' \subseteq 1 .. made'
    BY <1>0, <1>6, <2>1 DEF FilesOK
  <2> QED
    BY <1>0, <1>3, <1>6, <1>7, <2>1, <2>2, <2>3, <2>4 DEF FilesOK
<1>9. run' = run \/ Dies
  BY <1>1
<1>10. TypeInv' /\ SeenInv' /\ DbInv'
  BY <1>0, <1>4, <1>8, <1>9, RunsStay, GrowthKeeps DEF TypeInv
<1>11. BatchInv' /\ OneSync'
  BY <1>0, <1>4, <1>9, BatchStays, OneSyncStays
<1>12. LineInv'
  <2>1. \A i \in 1 .. made' : i \in 1 .. made \/ Kind(i) # "reflection"
    BY <1>0, <1>3
  <2> QED
    BY <1>0, <1>4, <1>9, <2>1, LineStays
<1> QED
  BY <1>5, <1>10, <1>11, <1>12 DEF Inv

\* A line more: the Dreams that ask know the others by the same numbers.
LEMMA LinesGrow ==
    ASSUME TypeInv, SeenInv, LineInv, Further, ~InSync, ~shifted, UNCHANGED <<run, digested>>,
           made' = made + 1, refl' = Append(refl, made + 1), rcursor' \in {rcursor, 0}
    PROVE  LineInv'
<1>0. /\ refl \in Seq(Nat) /\ Len(refl) \in Nat /\ made \in Nat /\ Dreams' = Dreams
      /\ 1 .. made' = 1 .. made \cup {made + 1} /\ rcursor \in Nat
      /\ \A i : Kind(i)' = Kind(i)
      /\ \A l \in 1 .. Len(refl) : refl[l] \in 1 .. made
  BY FilesAre, SameWorld DEF TypeInv, FilesOK, Further, Growth
<1>1. Len(refl') = Len(refl) + 1 /\ refl'[Len(refl) + 1] = made + 1
      /\ \A l \in 1 .. Len(refl) : refl'[l] = refl[l]
  <2>1. PICK t : t = refl'
    OBVIOUS
  <2>2. made + 1 \in Nat /\ t = Append(refl, made + 1)
    BY <1>0, <2>1
  <2> QED
    BY <1>0, <2>1, <2>2, MoreIs
<1>2. PICK n : n = Len(refl)
  OBVIOUS
<1>3. ASSUME NEW l \in 1 .. n, Done(refl[l]) PROVE Done(refl[l])'
  <2>1. PICK i \in 1 .. made : i = refl[l]
    BY <1>0, <1>2
  <2>2. Done(i)'
    BY <1>3, <2>1, StillHad
  <2>3. refl'[l] = i
    BY <1>1, <1>2, <2>1
  <2> QED
    BY <2>2, <2>3
<1>4. rcursor <= n /\ \A l \in 1 .. rcursor : Done(refl[l])
  BY <1>2 DEF LineInv
<1>5. rcursor' <= Len(refl') /\ \A l \in 1 .. rcursor' : l \in 1 .. n /\ Done(refl[l])
  <2>1. PICK y : y = rcursor'
    OBVIOUS
  <2>2. y \in Nat /\ y <= rcursor /\ n \in Nat
    <3>1. y = rcursor \/ y = 0
      BY <2>1
    <3> QED
      BY <1>0, <1>2, <3>1
  <2>3. y <= n + 1 /\ \A l \in 1 .. y : l \in 1 .. rcursor /\ l \in 1 .. n
    BY <1>0, <1>4, <2>2
  <2> QED
    BY <1>1, <1>2, <1>4, <2>1, <2>3
<1>6. ASSUME NEW i \in 1 .. made', Kind(i) = "reflection"
      PROVE  i \in digested \/ \E l \in 1 .. Len(refl') : refl'[l] = i
  <2>0. n \in Nat /\ Len(refl') = n + 1
    BY <1>0, <1>1, <1>2
  <2>1. CASE i = made + 1
    <3>1. n + 1 \in 1 .. n + 1 /\ refl'[n + 1] = i
      BY <1>1, <1>2, <2>0, <2>1
    <3> QED
      BY <2>0, <3>1
  <2>2. CASE i # made + 1
    <3>1. i \in digested \/ \E l \in 1 .. n : refl[l] = i
      BY <1>0, <1>2, <1>6, <2>2 DEF LineInv
    <3>2. \A l \in 1 .. n : l \in 1 .. n + 1
      BY <2>0
    <3> QED
      BY <1>1, <1>2, <2>0, <3>1, <3>2
  <2> QED
    BY <2>1, <2>2
<1>7. ASSUME NEW b \in Dreams \cup {Keeper} PROVE Placed(run[b])'
  <2>1. PICK y : y = run[b]
    OBVIOUS
  <2>2. Placed(y) /\ y \in RunSet /\ y.line \in Nat /\ y.pc \in {"idle", "asking"}
    <3>1. b \in Actors
      BY ActorsAre
    <3>2. y \in RunSet
      BY <2>1, <3>1, RunIs DEF RunOK
    <3> QED
      BY <2>1, <3>2, RunFields DEF LineInv, InSync
  <2>3. ASSUME Lines(y) PROVE Lines(y)'
    <3>1. y.line <= Len(refl') /\ \A l \in 1 .. y.line : l \in 1 .. n
      <4>1. y.line <= n /\ n \in Nat
        BY <1>0, <1>2, <2>3 DEF Lines
      <4>2. y.line <= n + 1 /\ \A l \in 1 .. y.line : l \in 1 .. n
        BY <2>2, <4>1
      <4> QED
        BY <1>1, <1>2, <4>2
    <3>2. \A l \in 1 .. y.line : Done(refl[l])' \/ refl'[l] \in y.batch
      <4>1. ASSUME NEW l \in 1 .. y.line PROVE Done(refl[l])' \/ refl'[l] \in y.batch
        <5>1. l \in 1 .. n /\ (Done(refl[l]) \/ refl[l] \in y.batch)
          BY <2>3, <3>1 DEF Lines
        <5>2. refl'[l] = refl[l]
          BY <1>1, <1>2, <5>1
        <5> QED
          BY <1>3, <5>1, <5>2
      <4> QED
        BY <4>1
    <3> QED
      BY <3>1, <3>2 DEF Lines
  <2>4. Placed(y)'
    BY <2>2, <2>3 DEF Placed, Ingesting
  <2> QED
    BY <2>1, <2>4
<1>8. \A l \in 1 .. rcursor' : Done(refl[l])'
  <2>1. ASSUME NEW l \in 1 .. rcursor' PROVE Done(refl[l])'
    BY <1>3, <1>5
  <2> QED
    BY <2>1
<1>9. \A i \in 1 .. made' : Kind(i)' = "reflection" =>
         i \in digested' \/ \E l \in 1 .. Len(refl') : refl'[l] = i
  BY <1>0, <1>6
<1> QED
  BY <1>0, <1>5, <1>7, <1>8, <1>9 DEF LineInv

\* The lines before the cursor go when nobody knows the others by their numbers.
LEMMA LinesRotate ==
    ASSUME TypeInv, SeenInv, LineInv, Further, ~InSync, ~Asking, ~shifted, UNCHANGED <<run, digested>>,
           made' = made + 1, rcursor' = 0, NEW lines \in Seq(Nat), Len(lines) = Len(refl) + 1,
           lines[Len(refl) + 1] = made + 1, \A l \in 1 .. Len(refl) : lines[l] = refl[l],
           refl' = SubSeq(lines, rcursor + 1, Len(lines))
    PROVE  LineInv'
<1>0. /\ refl \in Seq(Nat) /\ Len(refl) \in Nat /\ made \in Nat /\ Dreams' = Dreams
      /\ 1 .. made' = 1 .. made \cup {made + 1} /\ rcursor \in Nat
      /\ \A i : Kind(i)' = Kind(i)
  <2>1. refl \in Seq(Nat) /\ Len(refl) \in Nat /\ made \in Nat /\ rcursor \in Nat
    BY FilesAre DEF TypeInv, FilesOK
  <2>2. Dreams' = Dreams /\ \A i : Kind(i)' = Kind(i)
    BY SameWorld DEF Further, Growth
  <2>3. 1 .. made + 1 = 1 .. made \cup {made + 1}
    BY <2>1
  <2> QED
    BY <2>1, <2>2, <2>3
<1>1. PICK n : n = Len(refl)
  OBVIOUS
<1>2. /\ lines \in Seq(Nat) /\ Len(lines) = n + 1 /\ lines[n + 1] = made + 1 /\ n \in Nat
      /\ \A l \in 1 .. n : lines[l] = refl[l]
  BY <1>0, <1>1
<1>3. rcursor <= n /\ \A l \in 1 .. rcursor : Done(refl[l])
  BY <1>1 DEF LineInv
<1>4. /\ Len(refl') = n + 1 - rcursor
      /\ \A l \in 1 .. n + 1 - rcursor : refl'[l] = lines[l + rcursor]
  <2>1. PICK t : t = refl'
    OBVIOUS
  <2>2. rcursor <= Len(lines) /\ t = SubSeq(lines, rcursor + 1, Len(lines))
    BY <1>0, <1>2, <1>3, <2>1
  <2>3. /\ rcursor <= Len(lines) => Len(t) = Len(lines) - rcursor
        /\ \A l \in 1 .. Len(t) : l + rcursor \in 1 .. Len(lines) /\ t[l] = lines[l + rcursor]
    BY <1>0, <1>2, <2>2, CutIs
  <2>4. Len(t) = n + 1 - rcursor
    <3>1. Len(t) = Len(lines) - rcursor
      BY <2>2, <2>3
    <3> QED
      BY <1>0, <1>2, <3>1
  <2> QED
    BY <2>1, <2>3, <2>4
<1>5. ASSUME NEW i \in 1 .. made', Kind(i) = "reflection"
      PROVE  i \in digested \/ \E l \in 1 .. Len(refl') : refl'[l] = i
  <2>1. ASSUME NEW k \in rcursor + 1 .. n + 1, lines[k] = i
        PROVE  \E l \in 1 .. Len(refl') : refl'[l] = i
    <3>1. k - rcursor \in 1 .. n + 1 - rcursor /\ (k - rcursor) + rcursor = k
      BY <1>0, <1>2, <2>1
    <3>2. refl'[k - rcursor] = i
      BY <1>4, <2>1, <3>1
    <3> QED
      BY <1>4, <3>1, <3>2
  <2>2. CASE i = made + 1
    <3>1. n + 1 \in rcursor + 1 .. n + 1
      BY <1>0, <1>2, <1>3
    <3> QED
      BY <1>2, <2>1, <2>2, <3>1
  <2>3. CASE i # made + 1 /\ i \notin digested
    <3>1. PICK k \in 1 .. n : refl[k] = i
      BY <1>0, <1>1, <1>5, <2>3 DEF LineInv
    <3>2. ~(k <= rcursor)
      <4>1. ~Done(refl[k])
        BY <1>5, <2>3, <3>1 DEF Done, Valid
      <4>2. k <= rcursor => k \in 1 .. rcursor
        BY <1>0, <1>2, <3>1
      <4> QED
        BY <1>3, <4>1, <4>2
    <3>3. k \in rcursor + 1 .. n + 1
      <4>1. n \in Nat /\ rcursor \in Nat
        BY <1>0, <1>2
      <4> QED
        BY <3>1, <3>2, <4>1
    <3>4. lines[k] = i
      BY <1>2, <3>1
    <3> QED
      BY <2>1, <3>3, <3>4
  <2> QED
    BY <2>2, <2>3
<1>6. ASSUME NEW b \in Dreams \cup {Keeper} PROVE Placed(run[b])'
  <2>1. b \in Actors /\ run[b].pc \in {"idle", "asking"}
    BY ActorsAre DEF InSync
  <2>2. RunOK(b, run[b])
    BY <2>1 DEF TypeInv, RunsOK
  <2>3. run[b] = Idle
    BY <2>1, <2>2 DEF RunOK, Asking
  <2>4. run'[b] = Idle
    BY <2>3
  <2> QED
    BY <2>4, IdleIs DEF Placed, Ingesting
<1>7. rcursor' <= Len(refl')
  BY <1>0, <1>2, <1>3, <1>4
<1>8. \A l \in 1 .. rcursor' : Done(refl[l])'
  OBVIOUS
<1>9. \A i \in 1 .. made' : Kind(i)' = "reflection" =>
         i \in digested' \/ \E l \in 1 .. Len(refl') : refl'[l] = i
  BY <1>0, <1>5
<1> QED
  BY <1>0, <1>6, <1>7, <1>8, <1>9 DEF LineInv

LEMMA HistRests ==
    ASSUME TypeInv, HistInv, Further, UNCHANGED <<counter, hist, dcursor>>, made' = made + 1,
           Kind(made + 1) # "history", \A l \in 1 .. Len(refl') : Kind(refl'[l]) # "history"
    PROVE  HistInv'
<1>0. (\A i : Kind(i)' = Kind(i)) /\ made \in Nat
  BY SameWorld, FilesAre DEF Further, Growth
<1>1. ASSUME NEW i \in 1 .. made, Kind(i) = "history" PROVE Numbered(i)'
  <2>1. Numbered(i) /\ (Had(i) => Had(i)')
    BY <1>1, StillHad DEF HistInv
  <2>2. ASSUME NEW j \in i + 1 .. made', Kind(j) = "history" PROVE number'[i] <= number'[j]
    <3>1. j # made + 1
      BY <2>2
    <3>2. j \in i + 1 .. made /\ j \in 1 .. made
      BY <1>0, <3>1
    <3>3. number[i] <= number[j]
      BY <2>1, <2>2, <3>2 DEF Numbered
    <3> QED
      BY <3>2, <3>3 DEF Further
  <2>3. number'[i] = number[i]
    BY DEF Further
  <2> QED
    BY <1>0, <2>1, <2>2, <2>3 DEF Numbered
<1>2. ASSUME NEW i \in 1 .. made', Kind(i) = "history" PROVE i \in 1 .. made
  BY <1>0, <1>2
<1>3. \A i \in 1 .. made' : Kind(i)' = "history" => Numbered(i)'
  BY <1>0, <1>1, <1>2
<1>4. dcursor' = 0 \/ \E m \in 1 .. made' : Kind(m)' = "history" /\ number'[m] = dcursor'
  <2>1. ASSUME NEW m \in 1 .. made PROVE m \in 1 .. made' /\ number'[m] = number[m]
    BY <1>0 DEF Further
  <2> QED
    BY <1>0, <2>1 DEF HistInv
<1> QED
  BY <1>0, <1>3, <1>4 DEF HistInv

LEMMA WriteReflectionKeeps ==
    ASSUME Inv, WriteReflection
    PROVE  Inv'
<1>1. PICK lines : lines = Append(refl, made + 1)
  OBVIOUS
<1>0. /\ TypeInv /\ SeenInv /\ DbInv /\ HistInv /\ BatchInv /\ LineInv /\ OneSync
      /\ made < Len(Entries) /\ ~InSync /\ Kind(made + 1) # "history" /\ made' = made + 1
      /\ number' = Append(number, 0) /\ rcursor' \in {rcursor, 0}
      /\ shifted' = (shifted \/ (refl' # lines /\ Asking))
      /\ UNCHANGED <<world, counter, hist, dcursor, records, run, digested, dropped>>
  BY <1>1 DEF Inv, WriteReflection
<1>2. /\ \/ refl' = lines
         \/ /\ rcursor' = 0 /\ rcursor <= Len(lines)
            /\ refl' = SubSeq(lines, rcursor + 1, Len(lines))
      /\ left' = left \/ Fault
  BY <1>1 DEF WriteReflection
<1>3. /\ made \in Nat /\ refl \in Seq(Nat) /\ Len(refl) \in Nat /\ Len(refl) <= made /\ rcursor \in Nat
      /\ Len(Entries) \in Nat /\ ToSet(refl) \subseteq 1 .. made /\ DOMAIN refl = 1 .. Len(refl)
  BY <1>0, FilesAre DEF TypeInv, FilesOK
<1>4. /\ lines \in Seq(Nat) /\ Len(lines) = Len(refl) + 1 /\ lines[Len(refl) + 1] = made + 1
      /\ (\A l \in 1 .. Len(refl) : lines[l] = refl[l]) /\ DOMAIN lines = 1 .. Len(lines)
      /\ ToSet(lines) = ToSet(refl) \cup {made + 1}
  <2>1. made + 1 \in Nat /\ refl \in Seq(Nat) /\ lines = Append(refl, made + 1)
    BY <1>1, <1>3
  <2>2. lines \in Seq(Nat) /\ Len(lines) = Len(refl) + 1 /\ DOMAIN lines = 1 .. Len(lines)
    BY <2>1, MoreIs
  <2>3. lines[Len(refl) + 1] = made + 1 /\ \A l \in 1 .. Len(refl) : lines[l] = refl[l]
    BY <2>1, MoreIs
  <2>4. ToSet(lines) = ToSet(refl) \cup {made + 1}
    BY <2>1, MoreIs
  <2> QED
    BY <2>2, <2>3, <2>4
<1>5. /\ number' \in Seq(Nat) /\ Len(number') = made' /\ made' \in Nat /\ made <= made'
      /\ \A i \in 1 .. made : number'[i] = number[i]
      /\ (\A i \in 1 .. made' : number'[i] <= i) /\ 1 .. made' = 1 .. made \cup {made'}
  <2>1. 0 \in Nat /\ 0 <= made + 1
    BY <1>3
  <2> QED
    BY <1>0, <2>1, MadeIs
<1>6. Growth /\ Further
  <2>1. Growth
    BY <1>0, <1>5 DEF Growth, DbEffect
  <2>2. shifted => shifted'
    BY <1>0, Zenon
  <2> QED
    BY <1>0, <1>5, <2>1, <2>2 DEF Further
<1>7. /\ refl' \in Seq(Nat) /\ Len(refl') <= made' /\ ToSet(refl') \subseteq 1 .. made'
      /\ \A l \in 1 .. Len(refl') : refl'[l] \in ToSet(refl')
      /\ ToSet(refl') \subseteq ToSet(lines)
  <2>1. PICK t : t = refl'
    OBVIOUS
  <2>2. /\ t \in Seq(Nat) /\ Len(t) <= Len(lines) /\ DOMAIN t = 1 .. Len(t)
        /\ ToSet(t) \subseteq ToSet(lines)
    <3>1. CASE t = lines
      <4>1. Len(lines) \in Nat
        BY <1>4
      <4> QED
        BY <1>4, <3>1, <4>1
    <3>2. CASE t = SubSeq(lines, rcursor + 1, Len(lines))
      <4>0. lines \in Seq(Nat) /\ rcursor \in Nat
        BY <1>3, <1>4
      <4>1. t \in Seq(Nat) /\ Len(t) <= Len(lines) /\ DOMAIN t = 1 .. Len(t)
        BY <3>2, <4>0, CutIs
      <4>2. \A l \in 1 .. Len(t) : l + rcursor \in 1 .. Len(lines) /\ t[l] = lines[l + rcursor]
        BY <3>2, <4>0, CutIs
      <4> QED
        BY <1>4, <4>1, <4>2 DEF ToSet
    <3> QED
      BY <1>2, <2>1, <3>1, <3>2
  <2>3. Len(t) <= made + 1
    <3>1. Len(t) \in Nat
      BY <2>2
    <3>2. Len(lines) <= made + 1 /\ Len(lines) \in Nat
      BY <1>3, <1>4
    <3> QED
      BY <1>3, <2>2, <3>1, <3>2
  <2>4. \A l \in 1 .. Len(t) : t[l] \in ToSet(t)
    BY <2>2 DEF ToSet
  <2>5. ToSet(t) \subseteq 1 .. made'
    BY <1>0, <1>3, <1>4, <1>5, <2>2
  <2> QED
    BY <1>0, <2>1, <2>2, <2>3, <2>4, <2>5
<1>8. HistInv'
  <2>1. ASSUME NEW x \in ToSet(refl) PROVE Kind(x) # "history"
    <3>1. PICK l \in 1 .. Len(refl) : x = refl[l]
      BY <1>3 DEF ToSet
    <3> QED
      BY <1>0, <3>1 DEF HistInv
  <2>2. \A l \in 1 .. Len(refl') : Kind(refl'[l]) # "history"
    BY <1>0, <1>4, <1>7, <2>1
  <2> QED
    BY <1>0, <1>6, <2>2, HistRests
<1>9. left' \in Lefts
  BY <1>0, <1>2, WriterIs
<1>10. FilesOK'
  <2>1. Entries' = Entries /\ FilesOK /\ 1 .. made \subseteq 1 .. made'
    BY <1>0, <1>5, SameWorld DEF TypeInv
  <2>2. made' \in 0 .. Len(Entries')
    BY <1>0, <1>3, <2>1
  <2>3. counter' \in 0 .. made' /\ dcursor' \in 0 .. made' /\ rcursor' \in 0 .. made'
    <3>1. dcursor \in Nat /\ rcursor \in Nat /\ counter \in Nat
          /\ dcursor <= made /\ rcursor <= made /\ counter <= made
      BY <1>0, <2>1, FilesAre DEF FilesOK
    <3> QED
      BY <1>0, <1>3, <3>1
  <2>4. hist' \in Seq(Nat) /\ ToSet(hist') \subseteq 1 .. made'
        /\ digested' \subseteq 1 .. made' /\ dropped' \subseteq 1 .. made'
    BY <1>0, <2>1 DEF FilesOK
  <2>5. shifted' \in BOOLEAN
    BY <1>0, Zenon
  <2> QED
    BY <1>5, <1>7, <1>9, <2>2, <2>3, <2>4, <2>5 DEF FilesOK
<1>11. TypeInv' /\ SeenInv' /\ DbInv'
  BY <1>0, <1>6, <1>10, RunsStay, GrowthKeeps DEF TypeInv
<1>12. BatchInv' /\ OneSync'
  BY <1>0, <1>6, BatchStays, OneSyncStays
<1>13. LineInv'
  <2>1. CASE shifted \/ (refl' # lines /\ Asking)
    BY <1>0, <2>1 DEF LineInv
  <2>2. CASE ~shifted /\ refl' = lines
    BY <1>0, <1>1, <1>6, <2>2, LinesGrow
  <2>3. CASE ~shifted /\ refl' # lines /\ ~Asking
    <3>1. rcursor' = 0 /\ refl' = SubSeq(lines, rcursor + 1, Len(lines))
      BY <1>2, <2>3
    <3> QED
      BY <1>0, <1>4, <1>6, <2>3, <3>1, LinesRotate
  <2> QED
    BY <2>1, <2>2, <2>3
<1> QED
  BY <1>8, <1>11, <1>12, <1>13 DEF Inv

LEMMA CrashKeeps ==
    ASSUME Inv, Crash
    PROVE  Inv'
<1>0. /\ TypeInv /\ SeenInv /\ DbInv /\ HistInv /\ BatchInv /\ LineInv /\ OneSync
      /\ Fault /\ Dies /\ rcursor' \in {rcursor, 0}
      /\ UNCHANGED <<world, made, number, counter, hist, dcursor, refl, records, digested, shifted, dropped>>
  BY DEF Inv, Crash, history
<1>1. made \in Nat /\ made' = made /\ FilesOK
  BY <1>0, FilesAre DEF TypeInv
<1>2. Growth /\ Further
  BY <1>0, <1>1 DEF Growth, Further, DbEffect
<1>3. FilesOK'
  <2>1. Entries' = Entries /\ left' \in Lefts
    BY <1>0, SameWorld, WriterIs
  <2>2. rcursor' \in 0 .. made'
    BY <1>0, <1>1 DEF FilesOK
  <2> QED
    BY <1>0, <1>1, <2>1, <2>2 DEF FilesOK
<1>4. TypeInv' /\ SeenInv' /\ DbInv'
  BY <1>0, <1>2, <1>3, RunsStay, GrowthKeeps DEF TypeInv
<1>5. HistInv'
  BY <1>0, <1>2, HistStays DEF HistInv
<1>6. BatchInv' /\ OneSync'
  BY <1>0, <1>2, BatchStays, OneSyncStays
<1>7. LineInv'
  <2>1. \A i \in 1 .. made' : i \in 1 .. made \/ Kind(i) # "reflection"
    BY <1>1
  <2> QED
    BY <1>0, <1>2, <2>1, LineStays
<1> QED
  BY <1>4, <1>5, <1>6, <1>7 DEF Inv

-----------------------------------------------------------------------------
(***************************************************************************)
(* The invariant holds, and what follows from it.                          *)
(***************************************************************************)
LEMMA InitInv == ASSUME Init PROVE Inv
<1>0. /\ world \in Worlds /\ made = 0 /\ number = <<>> /\ counter = 0 /\ hist = <<>> /\ dcursor = 0
      /\ refl = <<>> /\ rcursor = 0 /\ records = <<>> /\ run = [a \in Actors |-> Idle]
      /\ left = [asked |-> world.asked, faults |-> world.faults, due |-> world.due]
      /\ digested = {} /\ shifted = FALSE /\ dropped = {}
  BY DEF Init
<1>1. WorldOK
  BY <1>0 DEF WorldOK
<1>2. Len(Entries) \in Nat /\ left \in Lefts /\ Attempts \in Nat \ {0}
  <2>1. world.asked \in Nat /\ world.faults \in Nat /\ world.due \in Nat
    BY <1>1, WorldIs
  <2> QED
    BY <1>0, <1>1, <2>1, WorldIs DEF Lefts
<1>3. ToSet(hist) = {} /\ ToSet(refl) = {} /\ Len(number) = 0 /\ Len(refl) = 0 /\ Len(records) = 0
      /\ DOMAIN records = {}
  BY <1>0 DEF ToSet
<1>4. FilesOK
  <2>1. made \in 0 .. Len(Entries) /\ Len(number) = made /\ \A i \in 1 .. made : number[i] <= i
    BY <1>0, <1>2, <1>3
  <2>2. number \in Seq(Nat) /\ hist \in Seq(Nat) /\ refl \in Seq(Nat) /\ Len(refl) <= made
    BY <1>0, <1>3
  <2>3. counter \in 0 .. made /\ dcursor \in 0 .. made /\ rcursor \in 0 .. made
    BY <1>0
  <2>4. /\ ToSet(hist) \subseteq 1 .. made /\ ToSet(refl) \subseteq 1 .. made
        /\ digested \subseteq 1 .. made /\ dropped \subseteq 1 .. made /\ shifted \in BOOLEAN
    BY <1>0, <1>3
  <2> QED
    BY <1>2, <2>1, <2>2, <2>3, <2>4 DEF FilesOK
<1>5. RecordsOK
  BY <1>0 DEF RecordsOK
<1>6. ASSUME NEW a \in Actors PROVE RunOK(a, run[a]) /\ Knows(a, run[a]) /\ run[a] = Idle
  <2>1. run[a] = Idle
    BY <1>0
  <2>2. RunOK(a, Idle)
    BY <1>2, IdleIs DEF RunOK, Ingesting
  <2>3. Knows(a, Idle)
    BY <1>0, <1>3, IdleIs DEF Knows
  <2> QED
    BY <2>1, <2>2, <2>3
<1>7. TypeInv
  BY <1>0, <1>1, <1>4, <1>5, <1>6 DEF TypeInv, RunsOK
<1>8. SeenInv
  BY <1>6, IdleIs DEF SeenInv, Sees
<1>9. DbInv
  <2>1. Superseded = {} /\ Active = {}
    BY <1>3 DEF Superseded, Active
  <2> QED
    BY <1>3, <2>1 DEF DbInv, CreatedOnce
<1>10. HistInv
  BY <1>0, <1>3 DEF HistInv
<1>11. BatchInv /\ OneSync
  <2>1. \A b \in Dreams \cup {Keeper} : run[b] = Idle
    BY <1>6, <1>7, ActorsAre
  <2> QED
    BY <2>1, IdleIs DEF BatchInv, Whole, OneSync, Ingesting
<1>12. LineInv
  <2>1. \A b \in Dreams \cup {Keeper} : run[b] = Idle
    BY <1>6, <1>7, ActorsAre
  <2>2. \A b \in Dreams \cup {Keeper} : Placed(run[b])
    BY <2>1, IdleIs DEF Placed, Ingesting
  <2> QED
    BY <1>0, <1>3, <2>2 DEF LineInv
<1> QED
  BY <1>7, <1>8, <1>9, <1>10, <1>11, <1>12 DEF Inv

LEMMA IngestsKeep ==
    ASSUME Inv, NEW a \in Actors, Ingest(a)
    PROVE  Inv'
<1>1. TypeInv /\ SeenInv
  BY DEF Inv
<1>2. run[a].pc \in Ingesting
  BY DEF Ingest, Create, Look, Apply, Ingesting
<1>3. Growth /\ IngestStep(a)
  BY <1>1, CreateIs, LookIs, ApplyIs DEF Ingest
<1> QED
  BY <1>2, <1>3, IngestKeeps

LEMMA PrunesKeep ==
    ASSUME Inv, NEW a \in Dreams \cup {Keeper}, Prune(a)
    PROVE  Inv'
BY ResetKeeps, CutKeeps, ExpireKeeps DEF Prune

LEMMA DreamKeeps ==
    ASSUME Inv, NEW d \in Dreams, Begin(d) \/ Answer(d) \/ NoAnswer(d) \/ Sync(d)
    PROVE  Inv'
<1>0. TypeInv /\ SeenInv /\ d \in Actors
  BY ActorsAre DEF Inv
<1>1. CASE Begin(d)
  BY <1>1, BeginKeeps
<1>2. CASE Answer(d) \/ NoAnswer(d)
  <2>1. Growth /\ IngestStep(d) /\ ~InSync
    BY <1>0, <1>2, AnswerIs
  <2> QED
    BY <1>0, <2>1, IngestKeeps
<1>3. CASE Ingest(d)
  BY <1>0, <1>3, IngestsKeep
<1>4. CASE MoveHistory(d)
  BY <1>4, MoveHistoryKeeps
<1>5. CASE MoveReflections(d)
  BY <1>5, MoveReflectionsKeeps
<1>6. CASE Prune(d)
  BY <1>6, PrunesKeep
<1> QED
  BY <1>1, <1>2, <1>3, <1>4, <1>5, <1>6 DEF Sync

LEMMA NextKeeps == ASSUME Inv, [Next]_vars PROVE Inv'
<1>0. TypeInv /\ SeenInv /\ User \in Actors
  BY ActorsAre DEF Inv
<1>1. ASSUME NEW d \in Dreams, Begin(d) \/ Answer(d) \/ NoAnswer(d) \/ Sync(d)
      PROVE  Inv'
  BY <1>1, DreamKeeps
<1>2. CASE Ingest(User)
  BY <1>0, <1>2, IngestsKeep
<1>3. CASE Correct
  <2>1. Growth /\ IngestStep(User)
    BY <1>0, <1>3, CorrectIs
  <2> QED
    BY <1>0, <2>1, IngestKeeps
<1>4. ASSUME NEW r \in DOMAIN records, Promote(r) \/ Revoke(r)
      PROVE  Inv'
  <2>1. Growth /\ RecordStep
    BY <1>0, <1>4, CommandsAre
  <2> QED
    BY <2>1, RecordKeeps
<1>5. CASE Hygiene
  BY <1>5, HygieneKeeps
<1>6. CASE Prune(Keeper)
  BY <1>6, PrunesKeep
<1>7. CASE WriteHistory
  BY <1>7, WriteHistoryKeeps
<1>8. CASE WriteReflection
  BY <1>8, WriteReflectionKeeps
<1>9. CASE Crash
  BY <1>9, CrashKeeps
<1>10. CASE UNCHANGED vars
  <2>1. Growth
    BY <1>0, <1>10, SameGrowth DEF vars, DbEffect
  <2>2. RecordStep
    BY <1>0, <1>10 DEF vars, RecordStep, TypeInv, FilesOK
  <2> QED
    BY <2>1, <2>2, RecordKeeps
<1> QED
  BY <1>1, <1>2, <1>3, <1>4, <1>5, <1>6, <1>7, <1>8, <1>9, <1>10 DEF Next

LEMMA ConsistentIs == ASSUME Inv PROVE MemoryConsistent
<1>0. TypeInv /\ DbInv /\ FilesOK /\ RecordsOK
  BY DEF Inv, TypeInv
<1>1. TypeOK
  <2>1. /\ made \in 0 .. Len(Entries) /\ Len(number) = made
        /\ counter \in 0 .. made /\ dcursor \in 0 .. made /\ rcursor \in 0 .. made
        /\ ToSet(hist) \cup ToSet(refl) \cup digested \cup dropped \subseteq 1 .. made
    BY <1>0 DEF FilesOK
  <2>2. \A r \in DOMAIN records :
           /\ records[r].status \in Statuses /\ records[r].rev \in Nat \ {0}
           /\ records[r].content \in Contents /\ records[r].level \in {1, 2, 5}
    BY <1>0, RecordsAre DEF Revs, Levels
  <2>3. ASSUME NEW a \in Actors
        PROVE  run[a].pc \in Pcs /\ run[a].rec \in 0 .. Len(records) /\ run[a].tries < Attempts
    <3>1. RunOK(a, run[a]) /\ Knows(a, run[a]) /\ Len(records) \in Nat
      BY <1>0, RecordsAre DEF TypeInv, RunsOK
    <3>2. run[a].pc \in Pcs /\ run[a].rec \in Nat
      BY <3>1, RunFields DEF RunOK
    <3> QED
      BY <3>1, <3>2 DEF RunOK, Knows
  <2> QED
    BY <2>1, <2>2, <2>3 DEF TypeOK
<1>2. OneActive
  <2>1. CASE Active = {}
    BY <2>1, FS_EmptySet DEF OneActive
  <2>2. CASE Active # {}
    <3>1. PICK x \in Active : Active = {x}
      BY <1>0, <2>2 DEF DbInv
    <3>2. Cardinality(Active) = 1
      BY <3>1, FS_Singleton
    <3> QED
      BY <3>2 DEF OneActive
  <2> QED
    BY <2>1, <2>2
<1>3. CreatedOnce /\ ChainsEnd
  BY <1>0 DEF DbInv, ChainsEnd, Superseded
<1> QED
  BY <1>1, <1>2, <1>3 DEF MemoryConsistent

LEMMA SkippedIs == ASSUME Inv PROVE NothingSkipped
<1>0. TypeInv /\ HistInv /\ LineInv
  BY DEF Inv
<1>1. ASSUME NEW i \in 1 .. made, Kind(i) = "history"
      PROVE  i \in digested \/ i \in NewHistory \/ Lost(i)
  <2>1. Numbered(i) /\ number[i] \in Nat /\ dcursor \in Nat
    BY <1>0, <1>1, FilesAre DEF HistInv
  <2>2. CASE Had(i)
    BY <1>1, <2>2 DEF Had, Lost
  <2>3. CASE ~Had(i)
    <3>1. i \in ToSet(hist) /\ number[i] > dcursor
      BY <2>1, <2>3 DEF Numbered
    <3> QED
      BY <3>1 DEF NewHistory
  <2> QED
    BY <2>2, <2>3
<1>2. ASSUME NEW i \in 1 .. made, Kind(i) = "reflection"
      PROVE  i \in digested \/ (\E l \in NewLines : refl[l] = i) \/ Lost(i)
  <2>1. CASE shifted
    BY <1>2, <2>1 DEF Lost
  <2>2. CASE ~shifted /\ i \notin digested
    <3>1. PICK l \in 1 .. Len(refl) : refl[l] = i
      BY <1>0, <1>2, <2>2 DEF LineInv
    <3>2. ~Done(refl[l])
      BY <1>2, <2>2, <3>1 DEF Done, Valid
    <3>3. ~(l <= Effective)
      BY <1>0, <2>2, <3>2, EffectiveDone
    <3>4. l \in NewLines
      <4>1. l \in DOMAIN refl /\ Effective \in Nat /\ l \in Nat
        BY <1>0, FilesAre, NewAre
      <4> QED
        BY <3>3, <4>1 DEF NewLines
    <3> QED
      BY <3>1, <3>4
  <2> QED
    BY <2>1, <2>2
<1>3. \A i \in 1 .. made : Kind(i) \in {"history", "reflection", "broken"}
  BY <1>0, WorldIs, FilesAre DEF TypeInv
<1> QED
  BY <1>1, <1>2, <1>3 DEF NothingSkipped, Unread, Valid

\* The whole invariant holds in every behaviour of the memory.
LEMMA InvHolds == Spec => []Inv
<1>1. Init => Inv
  BY InitInv
<1>2. Inv /\ [Next]_vars => Inv'
  BY NextKeeps
<1> QED
  BY <1>1, <1>2, PTL DEF Spec

\* For any entries, proposals, Dreams, limits and faults: one active record of a
\* conflict key, one record per batch and statement, and every superseded record
\* leads to one that is not (repository.py, lifecycle.py).
THEOREM MemoryConsistentHolds == Spec => []MemoryConsistent
<1>1. Inv => MemoryConsistent
  BY ConsistentIs
<1> QED
  BY <1>1, InvHolds, PTL

\* For any entries, limits, Dreams, crashes and write errors: an entry that was
\* written is digested or the next Dream still reads it, unless compaction
\* dropped it, a crash gave its number again, or lines were renumbered while a
\* Dream was asking (dream.py, store.py, reflection.py).
THEOREM NothingSkippedHolds == Spec => []NothingSkipped
<1>1. Inv => NothingSkipped
  BY SkippedIs
<1> QED
  BY <1>1, InvHolds, PTL
=============================================================================
