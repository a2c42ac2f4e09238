---------------------------- MODULE SessionStore ----------------------------
(***************************************************************************)
(* One session in the store (session/manager.py, session/writes.py) and    *)
(* everybody who changes it: turns (agent/turn_orchestrator.py), the       *)
(* consolidation of old messages and the compaction of an idle session     *)
(* (memory/consolidator.py, agent/autocompact.py), deliveries              *)
(* (composition/gateway.py), /new (command/builtin.py), rewind and delete  *)
(* (channels/websocket/handlers/sessions.py).                              *)
(*                                                                         *)
(* All of them run in one event loop, so a step here is what runs between  *)
(* two awaits.  Three kinds of job take the session's consolidation lock   *)
(* and hold it while the model writes a summary; the others do not take it *)
(* and may come in between.  Turns are serial (Dispatch!SessionSerial).    *)
(***************************************************************************)
EXTENDS Retention, FiniteSets

CONSTANT Worlds     \* what a behaviour is about, one of them each:
                    \*   events  which of AllEvents may happen
                    \*   suffix  _RECENT_SUFFIX_MESSAGES of AutoCompact
                    \*   cap     FILE_MAX_MESSAGES
                    \*   replay  max_messages, what the model is shown at most
                    \*   made    turns and deliveries (a bound of the model)
                    \*   asked   requests and deliveries (a bound of the model)

\* "tools": a turn calls a tool.  "outlast": an archive takes longer than the
\* session needs to count as idle.
AllEvents == {"new", "rewind", "delete", "deliver", "evict", "tools", "outlast"}

ASSUME StoreAssumption ==
    Worlds \subseteq [events : SUBSET AllEvents, suffix : Nat \ {0}, cap : Nat \ {0},
                       replay : Nat \ {0}, made : Nat, asked : Nat]

VARIABLES
    world,      \* one of Worlds, it does not change
    store,      \* the SessionManager: objects, cache, file, generations
    turn,       \* the turn at work, with the session object it holds
    job,        \* the jobs that wait for the consolidation lock or hold it
    line,       \* the lock: its holder, then those who wait for it
    archived,   \* messages summarised or dumped into the history
    deleted,    \* messages of the session when it was deleted
    cleared,    \* messages a /new or a rewind removed
    made,       \* turns and deliveries so far (they number their messages)
    asked       \* requests and deliveries so far

vars == <<world, store, turn, job, line, archived, deleted, cleared, made, asked>>

-----------------------------------------------------------------------------
(***************************************************************************)
(* The store.  objs holds every Session object ever made for the key, in   *)
(* the order they were made; cached is the index of the one in _cache, 0   *)
(* when there is none.  gen and tomb are _generations and _tombstones.     *)
(***************************************************************************)
Jobs == {"build", "background", "idle"}
NoTurn == [step |-> "idle", obj |-> 0, of |-> 0]
NoJob == [step |-> "none", obj |-> 0, chunk |-> <<>>, end |-> 0, kept |-> <<>>]
NoFile == [messages |-> <<>>, cursor |-> 0]
Message(role, of) == [role |-> role, of |-> of]

\* get_or_create: the cached object, or one made of the file.
Fetch(s) ==
    LET gen == IF s.tomb # 0 /\ s.tomb >= s.gen THEN s.tomb + 1 ELSE s.gen
    IN  IF s.cached # 0 THEN s
        ELSE [s EXCEPT !.objs = Append(@, [messages |-> s.file.messages,
                                           cursor |-> s.file.cursor, gen |-> gen]),
                       !.cached = Len(s.objs) + 1,
                       !.gen = gen]

Put(s, o, messages, cursor) ==
    [s EXCEPT !.objs[o].messages = messages, !.objs[o].cursor = cursor]

\* Mutant: an object from before a delete is saved as well.
SaveAlways(s, o) ==
    [s EXCEPT !.file = [messages |-> s.objs[o].messages, cursor |-> s.objs[o].cursor],
              !.cached = IF @ = 0 THEN o ELSE @]

Save(s, o) ==
    IF s.objs[o].gen < s.tomb THEN s
    ELSE [s EXCEPT !.file = [messages |-> s.objs[o].messages, cursor |-> s.objs[o].cursor],
                   !.cached = IF @ = 0 THEN o ELSE @]

Init ==
    /\ store = [objs |-> <<>>, cached |-> 0, file |-> NoFile, gen |-> 0, tomb |-> 0]
    /\ turn = NoTurn
    /\ job = [p \in Jobs |-> NoJob]
    /\ line = <<>>
    /\ archived = {} /\ deleted = {} /\ cleared = {}
    /\ made = 0 /\ asked = 0
    /\ world \in Worlds

-----------------------------------------------------------------------------
(***************************************************************************)
(* Jobs under the lock.                                                    *)
(***************************************************************************)
Archiving(p, s, l, o, chunk, end, kept) ==
    /\ store' = s
    /\ line' = l
    /\ job' = [job EXCEPT ![p] = [step |-> "archive", obj |-> o, chunk |-> chunk,
                                  end |-> end, kept |-> kept]]

\* Mutant: the lock is not released.
LeaveLocked(p, s, l) ==
    /\ store' = s
    /\ line' = l
    /\ job' = [job EXCEPT ![p] = NoJob]

\* release() of the holder; the waiter of a task that is cancelled is removed.
Without(l, p) ==
    LET at == {i \in DOMAIN l : l[i] = p}
    IN  IF at = {} THEN l ELSE SubSeq(l, 1, Least(at) - 1) \o After(Least(at), l)

Leave(p, s, l) ==
    /\ store' = s
    /\ line' = Without(l, p)
    /\ job' = [job EXCEPT ![p] = NoJob]

Wait(p, s) ==
    /\ store' = s
    /\ line' = Append(line, p)
    /\ job' = [job EXCEPT ![p].step = "wait"]

\* pick_consolidation_boundary: a round ends before a user's message.
Boundaries(session) == {i - 1 : i \in Users(session.messages) \cap
                                      ((session.cursor + 2)..Len(session.messages))}

\* _replay_overflow_boundary: the messages that the replay window shows, from a
\* user's message on (and the delivery it may answer), with no orphaned result.
Shown(window) ==
    LET first == IF Users(window) = {} THEN 1 ELSE Least(Users(window))
        from == IF first > 1 /\ window[first - 1].role = "delivery" THEN first - 1 ELSE first
        shown == After(from - 1, window)
    IN  After(LegalStart(shown), shown)

\* A round of maybe_consolidate_by_tokens, up to its await; or none is needed.
BeginRound(p, s, l, o, ends) ==
    \E end \in ends : Archiving(p, s, l, o,
                         SubSeq(s.objs[o].messages, s.objs[o].cursor + 1, end), end, <<>>)

\* Rounds by tokens, as many as it takes.
MoreRounds(p, s, l, o) == BeginRound(p, s, l, o, Boundaries(s.objs[o])) \/ Leave(p, s, l)

\* The first round archives what the replay window does not show.
BeginConsolidation(p, s, l, o) ==
    LET session == s.objs[o]
        tail == After(session.cursor, session.messages)
        end == Len(session.messages) - Len(Shown(LastOf(world.replay, tail)))
    IN  IF Len(tail) > world.replay /\ end > session.cursor THEN BeginRound(p, s, l, o, {end})
        ELSE MoreRounds(p, s, l, o)

\* compact_idle_session: reload, keep a suffix, archive what comes before it.
BeginIdle(s, l) ==
    LET f == Fetch([s EXCEPT !.cached = 0])
        o == f.cached
        tail == After(f.objs[o].cursor, f.objs[o].messages)
        kept == Retained(tail, world.suffix)
        cut == Len(tail) - Len(kept)
    IN  IF cut > 0 THEN Archiving("idle", f, l, o, SubSeq(tail, 1, cut), 0, kept)
        ELSE Leave("idle", Save(IF tail = <<>> THEN f ELSE Put(f, o, kept, 0), o), l)

Begin(p, s, l) ==
    IF p = "idle" THEN BeginIdle(s, l)
    ELSE LET f == Fetch(s) IN BeginConsolidation(p, f, l, f.cached)

\* async with lock: no await when it is free.
Enter(p, s) == IF line = <<>> THEN Begin(p, s, <<p>>) ELSE Wait(p, s)

Resume(p) ==
    /\ job[p].step = "wait" /\ Head(line) = p
    /\ Begin(p, store, line)
    /\ UNCHANGED <<world, turn, archived, deleted, cleared, made, asked>>

\* The archive of a round returns: the cursor moves whether the model answered or
\* the chunk was dumped as it is; then another round, or the end.
EndRound(p) ==
    LET o == job[p].obj
        s == Save(Put(store, o, store.objs[o].messages, job[p].end), o)
    IN  /\ p # "idle" /\ job[p].step = "archive"
        /\ archived' = archived \cup Elems(job[p].chunk)
        /\ MoreRounds(p, s, line, o)
        /\ UNCHANGED <<world, turn, deleted, cleared, made, asked>>

\* With a summary, _archive of AutoCompact looks the session up once more.
EndIdle ==
    LET o == job["idle"].obj
        s == Save(Put(store, o, job["idle"].kept, 0), o)
    IN  /\ job["idle"].step = "archive"
        /\ archived' = archived \cup Elems(job["idle"].chunk)
        /\ \E t \in {s, Fetch(s)} : Leave("idle", t, line)
        /\ UNCHANGED <<world, turn, deleted, cleared, made, asked>>

\* Neither a summary nor the dump could be written: archive raises, and a turn
\* that waits for it with it.
ArchiveRaises(p) ==
    /\ job[p].step = "archive"
    /\ Leave(p, store, line)
    /\ turn' = IF p = "build" THEN NoTurn ELSE turn
    /\ UNCHANGED <<world, archived, deleted, cleared, made, asked>>

\* check_expired schedules a compaction of a session without a turn.  A session
\* whose last turn is still being consolidated is idle only if that takes long.
ExpireActive ==
    /\ asked < world.asked /\ asked' = asked + 1
    /\ store.file.messages # <<>>
    /\ job["idle"] = NoJob
    /\ line = <<>> \/ "outlast" \in world.events
    /\ Enter("idle", store)
    /\ UNCHANGED <<world, turn, archived, deleted, cleared, made>>

Expire == turn.step = "idle" /\ ExpireActive

-----------------------------------------------------------------------------
(***************************************************************************)
(* Turns, by what they do to the store: look the session up, let it be     *)
(* consolidated, save the user's message, save checkpoints, save the rest. *)
(* Checkpoints are the subject of SessionTurn; here they are saves.        *)
(***************************************************************************)
\* Mutant: BUILD asks for no consolidation, so it does not wait for one either.
StartTurnUnlocked ==
    /\ turn.step = "idle" /\ made < world.made
    /\ made' = made + 1
    /\ store' = Fetch(store)
    /\ turn' = [step |-> "build", obj |-> Fetch(store).cached, of |-> made + 1]
    /\ UNCHANGED <<world, job, line, archived, deleted, cleared, asked>>

\* RESTORE to BUILD, up to the first await.
StartTurn ==
    /\ turn.step = "idle" /\ made < world.made
    /\ made' = made + 1
    /\ turn' = [step |-> "build", obj |-> Fetch(store).cached, of |-> made + 1]
    /\ Enter("build", Fetch(store))
    /\ UNCHANGED <<world, archived, deleted, cleared, asked>>

\* The rest of BUILD: the user's message is saved early.
PersistUser ==
    LET o == turn.obj
        messages == Append(store.objs[o].messages, Message("user", turn.of))
    IN  /\ turn.step = "build" /\ job["build"] = NoJob
        /\ store' = Save(Put(store, o, messages, store.objs[o].cursor), o)
        /\ turn' = [turn EXCEPT !.step = "run"]
        /\ UNCHANGED <<world, job, line, archived, deleted, cleared, made, asked>>

\* _emit_checkpoint saves the session of the turn.
EmitCheckpoint ==
    /\ turn.step = "run"
    /\ store' = Save(store, turn.obj)
    /\ UNCHANGED <<world, turn, job, line, archived, deleted, cleared, made, asked>>

\* What a turn adds in SAVE.
Additions(of) ==
    {<<Message("assistant", of)>>}
    \cup IF "tools" \in world.events
           THEN {<<Message("call", of), Message("tool", of), Message("assistant", of)>>}
           ELSE {}

\* SAVE: append, enforce the cap, save, and schedule a consolidation.
SaveTurn ==
    LET o == turn.obj
        session == store.objs[o]
    IN  /\ turn.step = "run"
        /\ \E new \in Additions(turn.of) :
              LET all == session.messages \o new
              IN  /\ archived' = archived \cup CapArchive(all, session.cursor, world.cap)
                  /\ Wait("background",
                          Save(Put(store, o, Retained(all, world.cap),
                                   RetainedCursor(all, session.cursor, world.cap)), o))
        /\ turn' = NoTurn
        /\ UNCHANGED <<world, deleted, cleared, made, asked>>

\* A turn is cancelled, which looks the session up again, or fails, which does
\* not: if it was in BUILD it gives up its place in the line.
AbandonTurn ==
    /\ turn.step # "idle"
    /\ \E s \in {store, Fetch(store)} :
          IF turn.step = "build" THEN Leave("build", s, line)
          ELSE store' = s /\ UNCHANGED <<job, line>>
    /\ turn' = NoTurn
    /\ UNCHANGED <<world, archived, deleted, cleared, made, asked>>

-----------------------------------------------------------------------------
(***************************************************************************)
(* Those who take no lock.                                                 *)
(***************************************************************************)
\* _deliver_to_channel: a message of cron or of a tool is added and saved.
Deliver ==
    LET f == Fetch(store)
        o == f.cached
        messages == Append(f.objs[o].messages, Message("delivery", made + 1))
    IN  /\ "deliver" \in world.events
        /\ made < world.made /\ made' = made + 1
        /\ asked < world.asked /\ asked' = asked + 1
        /\ store' = Save(Put(f, o, messages, f.objs[o].cursor), o)
        /\ UNCHANGED <<world, turn, job, line, archived, deleted, cleared>>

\* cmd_new, once the turns are cancelled: clear, save and forget the session; what
\* was not consolidated is handed to an archive of its own.
NewSession ==
    LET f == Fetch(store)
        o == f.cached
    IN  /\ "new" \in world.events /\ turn.step = "idle"
        /\ asked < world.asked /\ asked' = asked + 1
        /\ archived' = archived \cup Elems(After(f.objs[o].cursor, f.objs[o].messages))
        /\ cleared' = cleared \cup Elems(f.objs[o].messages) \cup Elems(f.file.messages)
        /\ store' = [Save(Put(f, o, <<>>, 0), o) EXCEPT !.cached = 0]
        /\ UNCHANGED <<world, turn, job, line, deleted, made>>

\* rewind_to_user_message, refused while a turn is in RUN.
Rewind ==
    LET f == Fetch(store)
        o == f.cached
        session == f.objs[o]
    IN  /\ "rewind" \in world.events /\ turn.step # "run"
        /\ asked < world.asked /\ asked' = asked + 1
        /\ \E i \in Users(session.messages) :
              /\ store' = Save(Put(f, o, SubSeq(session.messages, 1, i - 1),
                                   IF session.cursor < i THEN session.cursor ELSE i - 1), o)
              /\ cleared' = cleared \cup Elems(After(i - 1, session.messages))
        /\ UNCHANGED <<world, turn, job, line, archived, deleted, made>>

\* delete_session: forget the object, leave a tombstone, unlink the file.
Delete ==
    /\ "delete" \in world.events
    /\ asked < world.asked /\ asked' = asked + 1
    /\ store' = [store EXCEPT !.cached = 0, !.file = NoFile,
                              !.gen = @ + 1, !.tomb = store.gen + 1]
    /\ deleted' = deleted \cup (UNION {Elems(store.objs[o].messages) : o \in DOMAIN store.objs})
                          \cup Elems(store.file.messages)
    /\ UNCHANGED <<world, turn, job, line, archived, cleared, made>>

\* _enforce_max: other sessions push this one out of the cache.
Evict ==
    /\ "evict" \in world.events /\ store.cached # 0
    /\ asked < world.asked /\ asked' = asked + 1
    /\ store' = [store EXCEPT !.cached = 0]
    /\ UNCHANGED <<world, turn, job, line, archived, deleted, cleared, made>>

JobStep ==
    \/ \E p \in Jobs : ArchiveRaises(p) \/ Resume(p) \/ EndRound(p)
    \/ EndIdle

Next ==
    \/ JobStep \/ Expire
    \/ StartTurn \/ PersistUser \/ EmitCheckpoint \/ SaveTurn \/ AbandonTurn
    \/ Deliver \/ NewSession \/ Rewind \/ Delete \/ Evict

Spec == Init /\ [][Next]_vars

\* A task that got the lock runs, and the provider's answer, error or timeout ends
\* every archive.  Only the holder of the lock has a step to take.
FairSpec == Spec /\ WF_vars(JobStep)

-----------------------------------------------------------------------------
(***************************************************************************)
(* Properties.                                                             *)
(***************************************************************************)
AllMessages == [role : {"user", "call", "tool", "assistant", "delivery"}, of : 1..world.made]

\* The types of the variables, and of the lock: its line holds exactly the jobs at
\* work, once each, and only the first of them may be past its wait.
TypeOK ==
    /\ \A s \in {store.objs[o] : o \in DOMAIN store.objs} \cup {store.file} :
          Elems(s.messages) \subseteq AllMessages /\ s.cursor \in Nat
    /\ store.cached \in 0..Len(store.objs)
    /\ {store.gen, store.tomb, made, asked} \subseteq Nat
    /\ turn.step \in {"idle", "build", "run"} /\ turn.obj \in 0..Len(store.objs)
    /\ archived \cup deleted \cup cleared \subseteq AllMessages
    /\ Elems(line) = {p \in Jobs : job[p] # NoJob}
    /\ Cardinality(Elems(line)) = Len(line)
    /\ \A p \in Jobs : job[p].step = "archive" => Head(line) = p

\* What was in a session when it was deleted never comes back to its file, although
\* turns, jobs and evicted objects go on with it and save it (tombstones).
DeletedStaysDeleted == Elems(store.file.messages) \cap deleted = {}

\* The cache never serves an object from before the delete: its saves would be
\* skipped, and everything the session is told from then on lost without a word.
CachedIsLive == store.cached # 0 => store.objs[store.cached].gen >= store.tomb

\* What lies beyond the first world.suffix messages of the latest turn.
LongEnd(messages) ==
    {messages[i] : i \in {j \in DOMAIN messages :
        Users(messages) # {} /\ j >= Greatest(Users(messages)) + world.suffix}}

\* Without /new, rewind and delete a message leaves the file only when it is in the
\* history: the cap and the saves of other objects lose nothing, and a compaction
\* nothing but the end of a latest turn that is longer than the suffix it keeps
\* (session/manager.py:282 keeps the beginning of such a turn and drops the rest).
SavedKept ==
    [][world.events \subseteq {"tools"} =>
        Elems(store.file.messages) \ Elems(store'.file.messages)
           \subseteq archived' \cup (IF job["idle"].step = "archive"
                                       THEN LongEnd(store.file.messages) ELSE {})]_vars

\* The cursor is an index into the messages: beyond them it would hide from the
\* model, and from later archives, messages that were never consolidated.
CursorInRange ==
    world.events \cap {"new", "rewind"} = {} => store.file.cursor <= Len(store.file.messages)

\* A turn works on the object that everybody else finds: of two objects of one
\* session each save undoes the other's.
SameObject ==
    turn.step # "idle" /\ world.events \cap {"new", "delete", "evict", "outlast"} = {}
        => store.cached = turn.obj

\* The types and the lock; the object a turn and the cache have is the one that is
\* saved, and its cursor an index (session/manager.py, memory/consolidator.py).
StoreConsistent == TypeOK /\ CachedIsLive /\ CursorInRange /\ SameObject

\* Whoever waits for the consolidation lock gets it and is done, whichever of the
\* others gives up, is cancelled or fails: as no more is asked for than a world
\* allows, the line empties.
JobsEnd == line # <<>> ~> line = <<>>
=============================================================================
