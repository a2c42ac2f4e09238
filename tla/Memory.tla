------------------------------- MODULE Memory -------------------------------
(***************************************************************************)
(* How what happened becomes what is known (memory/dream.py, memory/       *)
(* store.py, memory/lifecycle.py, memory/repository.py).                   *)
(*                                                                         *)
(* Summaries go to history.jsonl, lessons to reflections.jsonl.  A Dream   *)
(* reads what lies behind two cursors - the number of an entry for the     *)
(* one, a line number for the other -, asks the model, ingests what it     *)
(* proposes, moves the cursors, and prunes the consumed reflections, which *)
(* renumbers the lines.  Cron, the idle trigger, the start and /dream run  *)
(* Dreams; nothing keeps them apart.  Around its one await a Dream has the  *)
(* event loop to itself, but it may die anywhere, a file may refuse to be  *)
(* written, and another process may change the database between two of its *)
(* transactions.                                                           *)
(***************************************************************************)
EXTENDS Integers, FiniteSets, SequencesExt

CONSTANTS
    Worlds,     \* what may be written and asked for: [entries, answers, dreams,
                \* asked, faults, due], see below (a bound of the model)
    Keeper,     \* the Consolidator's hygiene
    User,       \* somebody at another process: /memory-correct
    MaxBatch,   \* max_batch_size
    HistoryMax, \* max_history_entries
    LinesMax,   \* _MAX_REFLECTIONS
    Attempts    \* _INGEST_RECONCILE_ATTEMPTS

ASSUME MemoryAssumption ==
    /\ User # Keeper
    /\ \A w \in Worlds :
          /\ {User, Keeper} \cap w.dreams = {} /\ {w.asked, w.faults, w.due} \subseteq Nat
          /\ w.entries \in Seq([kind : {"history", "reflection", "broken"}, part : Nat])
          /\ \A todo \in w.answers :
                todo \in Seq([content : {p.content : p \in ToSet(todo)}, level : {1, 2}])
    /\ {MaxBatch, HistoryMax, LinesMax, Attempts} \subseteq Nat \ {0}

VARIABLES
    world,      \* one of Worlds
    made,       \* how many of Entries are written
    number,     \* the cursor every written entry of the history has
    counter,    \* .cursor: the last number given
    hist,       \* history.jsonl: its entries
    dcursor,    \* .dream_cursor
    refl,       \* reflections.jsonl: its lines
    rcursor,    \* .reflections_cursor
    records,    \* the current revision of every record, in order of creation
    run,        \* what every Dream and the user's command are doing
    left,       \* commands and faults that may still come
    digested,   \* entries whose batch was ingested as a whole
    shifted,    \* lines were renumbered while a Dream was asking
    dropped     \* entries compaction dropped before a Dream had them

files == <<made, number, counter, hist, dcursor, refl, rcursor>>
history == <<digested, shifted, dropped>>
vars == <<world, files, records, run, left, history>>

\* What is written, in this order; what a Dream may propose, all of it about one
\* subject and slot (one conflict key); the runs that may go on together.
Entries == world.entries
Answers == world.answers
Contents == {p.content : p \in UNION {ToSet(todo) : todo \in Answers}}
Dreams == world.dreams
Actors == Dreams \cup {User, Keeper}
Kind(i) == Entries[i].kind
Part(i) == Entries[i].part
\* reflection_evidence_id: lines of old versions have none.
Valid(i) == Kind(i) # "broken"
\* What an entry is cited as: _dream_source_batch hashes the set of these.
Ref(i) == <<Kind(i), IF Kind(i) = "history" THEN number[i] ELSE i>>

-----------------------------------------------------------------------------
(***************************************************************************)
(* The database.  A record is named by its place in records.               *)
(***************************************************************************)
None == 0
Active == {r \in DOMAIN records : records[r].status = "active"}
\* active_for_conflict_key.
Existing == IF Active = {} THEN None ELSE CHOOSE r \in Active : TRUE

\* _creation_key_record: the record a batch has created for a content.
Owner(batch, content) ==
    {r \in DOMAIN records : records[r].batch = batch /\ records[r].content = content}

\* can_auto_promote: a lesson seen more than once, or a user's correction.
Promotable(r) == records[r].level >= 2

Revised(r, status, repl) ==
    [records[r] EXCEPT !.rev = @ + 1, !.status = status, !.repl = repl, !.blocked = {}]

\* What _apply_after_ingest wants to do about candidate r when it saw s active.
Wants(r, s) ==
    CASE s = None /\ Promotable(r)                            -> "promote"
      [] s = None /\ ~Promotable(r)                           -> "nothing"
      [] s # None /\ records[s].content = records[r].content  -> "merge"
      [] OTHER -> IF s \in records[r].blocked THEN "nothing"
                  ELSE IF records[r].level > records[s].level /\ Promotable(r) THEN "replace"
                  ELSE "block"

\* What a transaction leaves: _promote_single, _merge_identical, _replace_with,
\* _block_candidate.
After(r, s, want) ==
    CASE want = "promote" -> [records EXCEPT ![r] = Revised(r, "active", None)]
      [] want = "merge"   -> [records EXCEPT ![r] = Revised(r, "superseded", s), 
                                             ![s].status = "active", ![s].rev = @ + 1]
      [] want = "replace" -> [records EXCEPT ![r] = Revised(r, "active", None),
                                             ![s] = Revised(s, "superseded", r)]
      [] want = "block"   -> [records EXCEPT ![r].rev = @ + 1, ![r].blocked = @ \cup {s}]

-----------------------------------------------------------------------------
(***************************************************************************)
(* One proposal after the other, StructuredMemoryLifecycle.ingest.  A run  *)
(* has the record it works on and the active one it saw, each with the     *)
(* revision it had.                                                        *)
(***************************************************************************)
Idle == [pc |-> "idle", batch |-> {}, line |-> 0, todo |-> <<>>,
         rec |-> None, rev |-> 0, seen |-> None, seenRev |-> 0, tries |-> 0]

\* source_batch.
Cited(a) == IF a = User THEN run[a].batch ELSE {Ref(i) : i \in run[a].batch}

\* The next proposal, or the end of the batch.
Proposal(a) == [run[a] EXCEPT !.pc = "create", !.rec = None, !.rev = 0,
                              !.seen = None, !.seenRev = 0, !.tries = 0]
Proceed(a, rest) ==
    IF rest # <<>> THEN /\ run' = [run EXCEPT ![a] = [Proposal(a) EXCEPT !.todo = rest]]
                        /\ UNCHANGED history
    ELSE IF a = User THEN run' = [run EXCEPT ![a] = Idle] /\ UNCHANGED history
    ELSE /\ run' = [run EXCEPT ![a] = [Proposal(a) EXCEPT !.pc = "history", !.todo = <<>>]]
         /\ digested' = digested \cup run[a].batch
         /\ UNCHANGED <<shifted, dropped>>

Fails(a) == run' = [run EXCEPT ![a] = Idle] /\ UNCHANGED history

\* Mutant: a record that an earlier attempt has settled is taken for an error.
SettledFails(a) == IF run[a].pc = "create" THEN Fails(a) ELSE Proceed(a, Tail(run[a].todo))

\* _resume_existing, for a record that is no candidate any more.
Settled(a) == Proceed(a, Tail(run[a].todo))

\* append_create_if_absent.
Create(a) ==
    LET p == Head(run[a].todo)
        owner == Owner(Cited(a), p.content)
    IN  /\ run[a].pc = "create"
        /\ IF owner = {}
           THEN /\ records' = Append(records,
                       [batch |-> Cited(a), content |-> p.content, level |-> p.level,
                        status |-> "candidate", rev |-> 1, repl |-> None, blocked |-> {}])
                /\ run' = [run EXCEPT ![a].pc = "look", ![a].rec = Len(records) + 1, ![a].rev = 1]
                /\ UNCHANGED history
           ELSE LET r == CHOOSE x \in owner : TRUE
                IN  /\ IF records[r].status = "candidate"
                       THEN /\ run' = [run EXCEPT ![a].pc = "look", ![a].rec = r,
                                                  ![a].rev = records[r].rev]
                            /\ UNCHANGED history
                       ELSE Settled(a)
                    /\ UNCHANGED records
        /\ UNCHANGED <<world, files, left>>

\* _apply_after_ingest reads the active record of the key.
Look(a) ==
    /\ run[a].pc = "look"
    /\ IF Wants(run[a].rec, Existing) = "nothing" THEN Settled(a)
       ELSE /\ run' = [run EXCEPT ![a].pc = "apply", ![a].seen = Existing,
                          ![a].seenRev = IF Existing = None THEN 0 ELSE records[Existing].rev]
            /\ UNCHANGED history
    /\ UNCHANGED <<world, files, records, left>>

\* Mutant: the revision of the active record is not compared.
ConflictsOwn(a, want) == records[run[a].rec].rev # run[a].rev

\* MemoryRevisionConflict: a record of the transaction was revised meanwhile.
Conflicts(a, want) ==
    \/ records[run[a].rec].rev # run[a].rev
    \/ want \in {"merge", "replace"} /\ records[run[a].seen].rev # run[a].seenRev

\* InvalidMemoryTransition: the key has another active record by now.
Doubles(want) == want = "promote" /\ Active # {}

\* _validate_against_database and the commit; after a conflict the current
\* record is read and the proposal resumed.
Apply(a) ==
    LET r == run[a].rec
        s == run[a].seen
        want == Wants(r, s)
    IN  /\ run[a].pc = "apply"
        /\ IF Conflicts(a, want)
           THEN /\ IF run[a].tries + 1 = Attempts THEN Fails(a)
                   ELSE IF records[r].status # "candidate" THEN Settled(a)
                   ELSE /\ run' = [run EXCEPT ![a].pc = "look", ![a].rev = records[r].rev,
                                              ![a].tries = @ + 1]
                        /\ UNCHANGED history
                /\ UNCHANGED records
           ELSE IF Doubles(want) THEN Fails(a) /\ UNCHANGED records
           ELSE records' = After(r, s, want) /\ Settled(a)
        /\ UNCHANGED <<world, files, left>>

-----------------------------------------------------------------------------
(***************************************************************************)
(* A Dream.                                                                *)
(***************************************************************************)
\* A Dream that has the event loop.
InSync == \E d \in Dreams \cup {Keeper} : run[d].pc \notin {"idle", "asking"}

\* A cursor beyond the file is stale: all lines count.
Effective == IF rcursor <= Len(refl) THEN rcursor ELSE 0
NewLines == {l \in DOMAIN refl : l > Effective}
NewHistory == {i \in ToSet(hist) : number[i] > dcursor}

\* The first k of a set of numbers.
First(k, S) == {i \in S : Cardinality({j \in S : j < i}) < k}
\* The numbers in S before the first one that is not in T.
Prefix(S, T) == {i \in S : \A j \in S : j <= i => j \in T}

\* reflection_advance_line: the lines before the first one that is neither sent
\* nor unusable.
Advance(lines) == Prefix(NewLines, lines \cup {l \in NewLines : ~Valid(refl[l])})

\* The unread lines with an evidence id.
Usable == {l \in NewLines : Valid(refl[l])}

\* _fit_bounded_batch: it keeps as much as fits of the entries h and the lines r;
\* what the other source has is left out first.
Fitted(source, h, r) ==
    {b \in {[h |-> First(m, h), r |-> First(n, r)] :
               m \in 0 .. Cardinality(h), n \in 0 .. Cardinality(r)} :
        /\ b.h \cup b.r # {}
        /\ IF source = "history" THEN b.r # {} => b.h = h ELSE b.h # {} => b.r = r}

\* take_history and take_reflections: a batch has one partition and starts with
\* the earliest entry, which is of this source.
Taken(source) ==
    LET head == IF source = "history" THEN Min(NewHistory) ELSE refl[Min(Usable)]
        H == Prefix(NewHistory, {i \in NewHistory : Part(i) = Part(head)})
        R == Prefix(Usable, {l \in Usable : Part(refl[l]) = Part(head)})
        h == First(IF source = "history" THEN MaxBatch
                   ELSE MaxBatch - Cardinality(First(MaxBatch, R)), H)
    IN  Fitted(source, h, First(MaxBatch - Cardinality(h), R))

\* Times are minutes, and the history wins a tie.
Batches ==
    UNION {Taken(source) : source \in
              (IF NewHistory = {} THEN {} ELSE {"history"})
              \cup {x \in {"reflection"} : Usable # {} /\ \A i \in NewHistory : refl[Min(Usable)] < i}}

\* _run_structured_batch, up to its await; without a usable entry it only moves
\* the cursor and prunes.
Begin(d) ==
    /\ run[d].pc = "idle" /\ ~InSync
    /\ NewHistory # {} \/ NewLines # {}
    /\ IF NewHistory = {} /\ \A l \in NewLines : ~Valid(refl[l])
       THEN run' = [run EXCEPT ![d].pc = "reflections", ![d].line = Max(NewLines)]
       ELSE \E b \in Batches :
               run' = [run EXCEPT ![d] = [Idle EXCEPT !.pc = "asking",
                          !.batch = b.h \cup {refl[l] : l \in b.r},
                          !.line = Max(Advance(b.r) \cup {0})]]
    /\ UNCHANGED <<world, files, records, left, history>>

\* classify_source_level: it takes two pieces of evidence to make a repeated
\* experience.
Proposals(cited) ==
    {todo \in Answers : \A p \in ToSet(todo) : p.level = 1 \/ Cardinality(cited) > 1}

Answer(d) ==
    /\ run[d].pc = "asking" /\ ~InSync
    /\ \E todo \in Proposals(Cited(d)) : Proceed(d, todo)
    /\ UNCHANGED <<world, files, records, left>>

\* An error, a truncated or an unusable answer, a cancelled run.
NoAnswer(d) ==
    /\ run[d].pc = "asking" /\ ~InSync
    /\ Fails(d)
    /\ UNCHANGED <<world, files, records, left>>

\* A write fails, or it does not.
Fault == left.faults > 0 /\ left' = [left EXCEPT !.faults = @ - 1]
Writes(file, value) ==
    \/ file' = value /\ UNCHANGED left
    \/ file' = file /\ Fault

\* The batch is ingested: set_last_dream_cursor.
MoveHistory(d) ==
    LET h == {number[i] : i \in {j \in run[d].batch : Kind(j) = "history"}}
    IN  /\ run[d].pc = "history"
        /\ IF h = {} THEN UNCHANGED <<dcursor, left>> ELSE Writes(dcursor, Max(h))
        /\ run' = [run EXCEPT ![d].pc = "reflections"]
        /\ UNCHANGED <<world, made, number, counter, hist, refl, rcursor, records, history>>

\* compact_history, after a Dream that had something to digest.
Compact(d) ==
    IF run[d].batch = {} \/ Len(hist) <= HistoryMax THEN hist
    ELSE SubSeq(hist, Len(hist) - HistoryMax + 1, Len(hist))

\* set_last_reflections_cursor, and then the history is compacted.
MoveReflections(d) ==
    LET kept == Compact(d)
    IN  /\ run[d].pc = "reflections"
        /\ IF run[d].line = 0 THEN UNCHANGED <<rcursor, left>> ELSE Writes(rcursor, run[d].line)
        /\ hist' = kept
        /\ dropped' = dropped \cup {i \in ToSet(hist) \ ToSet(kept) : number[i] > dcursor}
        /\ run' = [run EXCEPT ![d].pc = "reset"]
        /\ UNCHANGED <<world, made, number, counter, dcursor, refl, records, digested, shifted>>

\* Some Dream is asking: it knows the lines by their numbers.
Asking == \E d \in Dreams : run[d].pc = "asking"

\* Mutant: the cursor is not reset.
ResetForgotten(a) ==
    /\ run[a].pc = "reset"
    /\ run' = [run EXCEPT ![a].pc = "cut", ![a].line = Effective]
    /\ UNCHANGED <<world, files, records, left, history>>

\* prune_reflections_after_cursor: first the cursor is reset ...
Reset(a) ==
    /\ run[a].pc = "reset"
    /\ Writes(rcursor, 0)
    /\ run' = [run EXCEPT ![a].pc = "cut", ![a].line = IF rcursor' = 0 THEN Effective ELSE 0]
    /\ UNCHANGED <<world, made, number, counter, hist, dcursor, refl, records, history>>

\* ... then the file is cut.
Cut(a) ==
    /\ run[a].pc = "cut"
    /\ IF run[a].line = 0 THEN UNCHANGED <<refl, left>>
       ELSE Writes(refl, SubSeq(refl, run[a].line + 1, Len(refl)))
    /\ shifted' = (shifted \/ (refl' # refl /\ Asking))
    /\ run' = [run EXCEPT ![a] = [Idle EXCEPT !.pc = "expire"]]
    /\ UNCHANGED <<world, made, number, counter, hist, dcursor, rcursor, records, digested, dropped>>

\* expire_due: a record whose time has come, one after the other.
ExpireDue(a) ==
    /\ run[a].pc = "expire"
    /\ \/ /\ run' = [run EXCEPT ![a] = Idle]
          /\ UNCHANGED <<records, left>>
       \/ /\ left.due > 0 /\ left' = [left EXCEPT !.due = @ - 1]
          /\ \E r \in DOMAIN records :
                /\ records[r].status \in {"candidate", "active"}
                /\ records' = [records EXCEPT ![r] = Revised(r, "expired", None)]
          /\ UNCHANGED run
    /\ UNCHANGED <<world, files, history>>

\* Every so many archives the Consolidator runs the hygiene on its own.
Hygiene ==
    /\ run[Keeper].pc = "idle" /\ ~InSync
    /\ run' = [run EXCEPT ![Keeper].pc = "reset"]
    /\ UNCHANGED <<world, files, records, left, history>>

-----------------------------------------------------------------------------
(***************************************************************************)
(* The others.                                                             *)
(***************************************************************************)
\* The process with the Dreams dies.
Dies == run' = [a \in Actors |-> IF a = User THEN run[a] ELSE Idle]

\* append_history: the line, then .cursor, which a crash in between leaves.
WriteHistory ==
    LET i == made + 1
    IN  /\ made < Len(Entries) /\ ~InSync /\ Kind(i) = "history"
        /\ made' = i
        /\ number' = Append(number, counter + 1)
        /\ hist' = Append(hist, i)
        /\ \/ counter' = counter + 1 /\ UNCHANGED <<left, run>>
           \/ Fault /\ Dies /\ UNCHANGED counter
        /\ UNCHANGED <<world, dcursor, refl, rcursor, records, history>>

\* _append_reflection; a long file loses its consumed lines (_maybe_rotate).
WriteReflection ==
    LET i == made + 1
        lines == Append(refl, i)
        rotates == Len(lines) > LinesMax /\ rcursor > 0
    IN  /\ made < Len(Entries) /\ ~InSync /\ Kind(i) # "history"
        /\ made' = i
        /\ number' = Append(number, 0)
        /\ rcursor' = IF rotates THEN 0 ELSE rcursor
        /\ \/ /\ refl' = IF rotates /\ rcursor <= Len(lines)
                          THEN SubSeq(lines, rcursor + 1, Len(lines)) ELSE lines
              /\ UNCHANGED left
           \/ rotates /\ Fault /\ refl' = lines
        /\ shifted' = (shifted \/ (refl' # lines /\ Asking))
        /\ UNCHANGED <<world, counter, hist, dcursor, records, run, digested, dropped>>

Command == left.asked > 0 /\ left' = [left EXCEPT !.asked = @ - 1]

\* cmd_memory_correct ingests a proposal of its own, of the highest rank.
Correct ==
    /\ Command /\ run[User].pc = "idle"
    /\ \E c \in Contents : run' = [run EXCEPT ![User] =
           [Idle EXCEPT !.pc = "create", !.batch = {<<"manual", left.asked>>}, !.todo = <<[content |-> c, level |-> 5]>>]]
    /\ UNCHANGED <<world, files, records, history>>

\* promote: as asked for; what it read has not changed, or nothing is done.
Promote(r) ==
    /\ Command /\ records[r].status = "candidate"
    /\ records' = After(r, Existing, IF Existing = None THEN "promote"
                                     ELSE IF records[Existing].content = records[r].content THEN "merge"
                                     ELSE "replace")
    /\ UNCHANGED <<world, files, run, history>>

Revoke(r) ==
    /\ Command /\ records[r].status \in {"candidate", "active"}
    /\ records' = [records EXCEPT ![r] = Revised(r, "revoked", None)]
    /\ UNCHANGED <<world, files, run, history>>

\* It dies and starts again; a cursor that was being written is empty, which
\* reads as 0.
Crash ==
    /\ Fault /\ Dies
    /\ rcursor' \in {rcursor} \cup {x \in {0} : \E d \in Dreams : run[d].pc = "reflections"}
    /\ UNCHANGED <<world, made, number, counter, hist, dcursor, refl, records, history>>

-----------------------------------------------------------------------------
Init ==
    /\ world \in Worlds
    /\ made = 0 /\ number = <<>> /\ counter = 0 /\ hist = <<>> /\ dcursor = 0 /\ refl = <<>> /\ rcursor = 0
    /\ records = <<>>
    /\ run = [a \in Actors |-> Idle]
    /\ left = [asked |-> world.asked, faults |-> world.faults, due |-> world.due]
    /\ digested = {} /\ shifted = FALSE /\ dropped = {}

Ingest(a) == Create(a) \/ Look(a) \/ Apply(a)
Prune(a) == Reset(a) \/ Cut(a) \/ ExpireDue(a)
Sync(d) == Ingest(d) \/ MoveHistory(d) \/ MoveReflections(d) \/ Prune(d)

Next ==
    \/ \E d \in Dreams : Begin(d) \/ Answer(d) \/ NoAnswer(d) \/ Sync(d)
    \/ Ingest(User) \/ Correct
    \/ \E r \in DOMAIN records : Promote(r) \/ Revoke(r)
    \/ Hygiene \/ Prune(Keeper)
    \/ WriteHistory \/ WriteReflection \/ Crash

Spec == Init /\ [][Next]_vars

AllDreams == UNION {w.dreams : w \in Worlds}

\* Cron and the idle trigger run a Dream again and again, and what else the event
\* loop has to do does not keep it off for ever; code without an await runs on;
\* the model gives a usable answer some day.
FairSpec ==
    /\ Spec
    /\ \A d \in AllDreams :
          /\ SF_vars(d \in Dreams /\ Begin(d)) /\ SF_vars(d \in Dreams /\ Answer(d))
          /\ WF_vars(d \in Dreams /\ Sync(d))
    /\ WF_vars(Prune(Keeper))

-----------------------------------------------------------------------------
Statuses == {"candidate", "active", "superseded", "revoked", "expired"}
Pcs == {"idle", "asking", "create", "look", "apply", "history", "reflections", "reset", "cut", "expire"}

TypeOK ==
    /\ made \in 0 .. Len(Entries) /\ Len(number) = made
    /\ counter \in 0 .. made /\ dcursor \in 0 .. made /\ rcursor \in 0 .. made
    /\ ToSet(hist) \cup ToSet(refl) \cup digested \cup dropped \subseteq 1 .. made
    /\ \A r \in DOMAIN records :
          /\ records[r].status \in Statuses /\ records[r].rev \in Nat \ {0}
          /\ records[r].content \in Contents /\ records[r].level \in {1, 2, 5}
    /\ \A a \in Actors :
          run[a].pc \in Pcs /\ run[a].rec \in 0 .. Len(records) /\ run[a].tries < Attempts

\* At most one statement holds about a subject and slot.
OneActive == Cardinality(Active) <= 1

\* A batch that is ingested again makes no second record of a statement.
CreatedOnce ==
    \A r, s \in DOMAIN records :
        records[r].batch = records[s].batch /\ records[r].content = records[s].content => r = s

\* Who follows the replacements of a superseded record comes to one that is
\* not superseded.
ChainsEnd ==
    LET superseded == {r \in DOMAIN records : records[r].status = "superseded"}
    IN  /\ \A r \in superseded : records[r].repl \in DOMAIN records
        /\ \A S \in (SUBSET superseded) \ {{}} : \E r \in S : records[r].repl \notin S

\* Whatever Dreams, commands and retries do to the database, it has one active
\* record of a conflict key, one record per batch and statement, and no
\* replacement that leads nowhere (repository.py, lifecycle.py).
MemoryConsistent == TypeOK /\ OneActive /\ CreatedOnce /\ ChainsEnd

Unread(i) == i \in NewHistory \/ \E l \in NewLines : refl[l] = i
\* An entry that got the number of an entry before it.
Reused(i) == Kind(i) = "history" /\ \E j \in 1 .. i - 1 : Kind(j) = "history" /\ number[j] = number[i]

\* Compacted away, numbered twice by a crash in append_history, or renumbered
\* under a Dream that was asking.
Lost(i) == \/ Kind(i) = "history" /\ (i \in dropped \/ Reused(i))
           \/ Kind(i) = "reflection" /\ shifted

\* Whatever fails, dies or is retried, an entry that was written is digested or
\* the next Dream still reads it, unless it is Lost in one of the three ways the
\* code has (dream.py, store.py, reflection.py).
NothingSkipped ==
    \A i \in 1 .. made : ~Valid(i) \/ i \in digested \/ Unread(i) \/ Lost(i)

\* An entry that is written is digested some day, with the same exceptions: no
\* batch stays at the head of the queue for ever (dream.py).
AllDigested ==
    \A i \in 1 .. Max({Len(w.entries) : w \in Worlds}) :
        i <= made ~> i <= made /\ (~Valid(i) \/ i \in digested \/ Lost(i))
=============================================================================
