# A TLA+ model of Erza's agent core

Erza (the `erza` package under `src/`) is an agent gateway: chat channels put
messages on a bus, a dispatcher turns them into turns of sessions, a turn asks a
model, runs its tools and answers, and the session is a file that survives the
process. This directory models the part of it where order, cancellation, failure
and restart matter, checks it with TLC on small instances, and proves most of the
safety properties with TLAPS for every value of the constants.

## 1. The system

| Component | State | Operations | Talks to |
|---|---|---|---|
| Bus (`bus/queue.py`) | two bounded asyncio queues | `publish_inbound/outbound` (wait while full), `consume_*` (wait while empty) | channels put into inbound, the run loop reads it; turns and commands put into outbound, the channel manager reads it |
| Dispatcher (`agent/dispatch.py`) | `_active_tasks` per session, `_session_locks` (weak), `_concurrency_gate`, `_pending_queues` per session | `run` (route one message), `_dispatch` (a task per message), `_cancel_active_tasks` | commands inline, the turn orchestrator inside the task, the bus in the clean-up |
| Commands (`command/`) | none of their own | `/stop` at once; `/new` and the others inline while a turn runs, else as a turn | dispatcher's task lists, session store |
| Turn orchestration (`agent/turn_orchestrator.py`, `agent/session_turn.py`) | the turn's context; `pending_user_turn` and `runtime_checkpoint` in the session's metadata | RESTORE, COMPACT, COMMAND, BUILD, RUN, SAVE, RESPOND | session store, compaction, runner |
| Runner (`agent/runner.py`, `agent/execution/`) | the prompt's message list, counters of retries, recoveries and injections | one iteration: ask, run tools, recover, drain follow-ups, finish | providers, tools, pending queue, checkpoint callback |
| Session store (`session/manager.py`) | LRU cache of `Session` objects, files, generations and tombstones | get_or_create, save, invalidate, delete, rewind, flush | everybody who holds a `Session` |
| Compaction (`memory/consolidator.py`, `agent/autocompact.py`) | `last_consolidated` and `_last_summary` of a session, locks per session, `_summaries` | consolidate by tokens (BUILD and background), compact an idle session, archive | session store, a model, history file |
| Sub-agents (`agent/subagent.py`) | running tasks per session | spawn, announce, cancel_by_session | bus (announcements), dispatcher (/stop) |
| Cron (`cron/service.py`) | store file, action log, timer task, running tasks | add, update, remove, run, tick, merge | a file lock shared by processes, the bus |
| Memory (`memory/`, `agent/reflection.py`) | `history.jsonl`, `reflections.jsonl` and a cursor of each, a SQLite repository of records | append, reflect, dream, ingest, correct, promote, revoke, prune | compaction, turns, a model, other processes |
| Providers (`providers/`) | the breaker and its count of failures, shared by all requests | chat_with_retry, fallback | ledger and budget, the runner, the stream of a turn |
| Processes (`tools/exec_session.py`) | registered sessions with their reader tasks and output, the manager's lock | exec, write_stdin, wait_for, terminate, list | turns and sub-agents of a chat |
| Delivery (`agent/response.py`, `channels/manager.py`, two channels) | the outbound queue, a message held back, fingerprints of replies, transcripts, cards | stream, merge, send, retry, suppress | turns, clients |
| Other tools, channels, web interface, CLI, configuration | adapters | | bus, store |

Everything in the agent core runs on one asyncio event loop: the code between two
awaits is atomic, and every await is a place where other coroutines run and where a
cancellation can be raised. The locks of `SessionManager` are for threads, but every
caller we found runs on the loop, so an operation of the store is one step.

What is hard to test here, and what the properties are aimed at, is listed line by
line in `PROJECT.json` under `hazards`. In short:

* **Dispatcher.** A message can be routed to a command, a pending queue or a task of
  its own, and the choice depends on state that changes at every await. Tasks are
  cancelled while they wait for a lock, a gate, a model, a full queue or each other.
  The run loop itself waits for tasks that may be waiting for the run loop.
* **Turn and session.** A turn can be cut off at every await by `/stop`, an exception
  or the death of the process. Three things are on file by then in different states of
  completeness: messages, one checkpoint, one flag. What the next turn makes of them
  must be a legal conversation.
* **Store and compaction.** Objects outlive their place in the cache, and a compaction
  waits for a model between reading the session and writing it back.
* **Cron.** One table in memory, one in a file, and a log of changes by others; a timer
  that every change arms again, and runs that outlast changes, stops and crashes.
* **Sub-agents.** Two counts of the same tasks, a result that arrives while the turn
  that could take it closes, a turn that waits for a task about to end, a `/stop` in
  two rounds.
* **Requests to a model.** Retry and fallback nest, share a breaker with every other
  request, and must both stop once a client has seen text.
* **Processes.** Calls of several tasks meet at one process: a sweep, a poll, a kill, a
  time limit, a `/stop` between the start of a shell and its registration.
* **Delivery.** Text of many turns goes through one queue, is merged, held back,
  retried and sent to clients that come and go.
* **Memory.** Lines are known by their numbers and renumbered by others; an ingest is
  several transactions; everything may die between two writes.

## 2. Modules

| Module | What it is | Source |
|---|---|---|
| `Dispatch` | the bus, the run loop, tasks, cancellation | `agent/dispatch.py`, `bus/queue.py`, `command/service.py`, `cmd_new` |
| `SessionService` | the abstract service: serial sessions, bounded turns, each message dealt with once | the promise in `_dispatch`'s docstring |
| `DispatchProofs` | theorems about `Dispatch`: serial sessions, one place for each message; what senders are owed, and the refinement of `SessionService` | |
| `SessionTurn` | one session, its turns, its file | `agent/turn_orchestrator.py`, `agent/session_turn.py`, `agent/runner.py`, `agent/execution/recovery.py` |
| `SessionTurnProofs` | theorems about `SessionTurn` | |
| `Retention` | pure operators: what a session keeps and archives when it is cut down | `session/manager.py`, `utils/helpers.py` |
| `SessionStore` | one session in the store and everybody who changes it | `session/manager.py`, `session/writes.py`, `memory/consolidator.py`, `agent/autocompact.py`, `_deliver_to_channel`, `cmd_new` |
| `SessionStoreProofs` | theorems about `SessionStore` and the operators of `Retention` | |
| `Cron` | the cron service and the other processes that share its store | `cron/service.py`, `cron/types.py` |
| `Subagents` | a session, its background sub-agents and delegates, and the bus between them | `agent/subagent.py`, `tools/spawn.py`, `agent/loop.py`, `agent/runner.py`, `agent/dispatch.py` |
| `BackgroundProofs` | theorems about `Subagents` and `Cron`, the work that no message of a user starts | |
| `ModelCalls` | requests to the model: retry, fallback, breaker, time limit, budget | `providers/base.py`, `providers/fallback_provider.py`, `agent/execution/model_request.py`, `ledger/` |
| `ModelCallsProofs` | theorems about `ModelCalls` | |
| `ExecSessions` | interactive shell sessions | `tools/exec_session.py`, `tools/shell.py` |
| `ExecSessionsProofs` | theorems about `ExecSessions` | |
| `Delivery` | the way of an answer from a turn to its client | `agent/response.py`, `channels/manager.py`, `channels/websocket/channel.py`, `channels/feishu/channel.py` |
| `DeliveryProofs` | theorems about `Delivery` | |
| `Memory` | history and reflections, Dreams, the database of records | `memory/dream.py`, `memory/store.py`, `memory/lifecycle.py`, `memory/repository.py`, `agent/reflection.py` |
| `MemoryProofs` | theorems about `Memory` | |
| `MC...` | the instances of the runs, one module for each | |

`SessionStore` EXTENDS `Retention`; `Dispatch` INSTANCEs `SessionService`. The models
meet at these places:

* `Dispatch` shows that turns of a session are serial. `SessionTurn` assumes it and looks
  inside a turn, `SessionStore` assumes it and looks at what goes on beside a turn, and
  `Subagents` assumes it with a routing and a `/stop` cut down to one session.
* `SessionTurn` takes what the runner asks a model as one step with an outcome;
  `ModelCalls` is the inside of that step.
* The outbound queue of `Dispatch` only counts; `Delivery` has what is in it and who
  reads.
* `SessionStore` archives into a set; `Memory` is what becomes of the history.

In most modules a variable (`world`, `env`, `left`) holds what may happen in one
behaviour and is chosen in `Init`, so that one run covers several small environments
where their product would be out of reach.

### Dispatch

A message becomes a task at most once in its life, so a task is named by its message and
`at[m]` is both where a message is and how far its task has got:
`new -> lock -> gate -> run -> reply -> close -> drain`. `close` is the second publishing
of a turn: the end of a websocket turn, or the apology after a failure. `clearing` is a
`/new` that waits for the tasks it cancelled (`awaits` has them), `abort` the clean-up
after a cancellation, and `leave` a task cancelled while it waited for its lock or the
gate: its outer `finally` still publishes an idle status on the websocket channel, and so
may wait for room while others wait for it. The steps are the awaits of `_dispatch`.
Correspondence of the state:

| Variable | Code |
|---|---|
| `inbound`, `outbound` | the bus queues (the second only counts) |
| `server` | what `run()` awaits: a message, cancelled tasks, room for a command's reply |
| `awaits` | the cancelled tasks that a `/new` turn awaits |
| `listed` | the union of `_active_tasks` |
| `cancelling` | tasks with `cancel()` called and `CancelledError` not yet raised |
| `lockOf`, `locked`, `ahead` | the strong references that keep a weakly registered lock alive, the locks held, the waiters before a task |
| `permits` | the semaphore of the gate |
| `owner`, `queue` | whose queue `_pending_queues[key]` is; each task's queue |
| `taken` | follow-ups a turn has drained into its prompt |

A turn's inside is one step here that takes follow-ups, ends, or fails. The 10 second
wait for a cancelled task times out only for a task that cannot move (`Stuck`: one in
`abort` or `leave` whose leftovers find the inbound queue full, or whose idle status the
outbound queue): in the code other tasks settle in far less.

### SessionTurn

Messages are records that say their role and which input, response or tool call they
come from; text is left out. `disk` is what `save` last wrote. `Crash` replaces the live
session by the file, `CancelTurn` is the `CancelledError` branch of `_dispatch`,
`FailTurn` the `Exception` branch. Each action of `Iterate` is one branch of the runner's
loop with the drain of follow-ups it ends in; a drain takes chats and results of
sub-agents alike. The restoring of a checkpoint is the
operator `Restored`, with the overlap search of `_restore_runtime_checkpoint`.
`Worlds` says which inputs, how many responses and tool calls a behaviour has and whether
archiving may raise; these are bounds of the model, no limits of the code.

### SessionStore

`store` is the `SessionManager` for one key: every `Session` object ever made (turns and
jobs keep references to old ones), the index of the cached one, the file, generation and
tombstone. `Fetch` is `get_or_create`, `Save` is `save`; they are operators that map one
store to another, so a handler is their composition. `line` is the consolidation lock:
its first element holds it. A job enters without an await when the lock is free
(`Enter`), otherwise it waits in the line (`Resume`); it holds the lock while the
archive is awaited, and `EndRound` and `EndIdle` are what runs after that await, with
the values computed before it in `job`. `/new`, rewind, delete, eviction and deliveries
take no lock and are single steps. Of a turn the model has its five contacts with the
store; what it adds in SAVE is an answer, or a call, a result and an answer. The number
of tokens is not in the model: a round by tokens may or may not be needed. A world says
which events it has, the suffix, the cap and the replay window, and how many messages
are `made` and jobs `asked` for; in one of them a turn is longer than the suffix a
compaction keeps.

`Retention` translates `retain_recent_legal_suffix` and `find_legal_message_start`
with the branch for a tail without a user's message; a legal start is the least index from
which every result has its call, which is where the code's scan ends. The second cut of
the code ("hard-cap guarantee") is left out: the window is never longer than the cap.

### Cron

| Variable | Code |
|---|---|
| `mem` | `_store.jobs`; `tasks[s].lost` marks the jobs whose object a task holds and the table no longer has |
| `file`, `bad`, `log` | the store file, whether it can be read, `action.jsonl` |
| `wake`, `tasks`, `active` | the end of the timer's sleep, `_exec_tasks`, `_timer_active` |
| `ext` | a line another process has made of what it loaded and not yet appended |

`Load` is `_load_store` with `_merge_action`; every request is `Load` followed by its
change and `Commit` (save and arm, or append to the log). `Merge` is the result of the
loop over the log in closed form (`Replayed`: a job's last line decides); `MCCron` has
the loop itself as a fold, and TLC evaluates that the two agree for all logs of up to
three lines (`MergeReplays`). A task of the timer runs what was due when it began, job
after job, on the objects of that moment. The environments
are sets of `Events`: requests to a running or stopping gateway, reads, another process,
stops, crashes (one of them between emptying the log and saving), saves that fail, a
file that cannot be read.

### Subagents

A child goes `unborn -> queued -> running -> announcing -> ended -> reaped`, or through
`cancelling`; `Listed` is the registry the spawn tool counts, `Holding` the semaphore,
`Own` what the turn counts when it decides to wait. One session's turn is modelled with
its pending queue, drain, wait, and return of leftovers; `stop` is the run loop inside a
`/stop`: first the tasks, then the children. Children of another session share the
counts and the bus.

### ModelCalls

A request is `begin`, then at the `primary`, at a `fallback`, or in the `sleep` before a
retry. `Returned` is what `_run_with_retry` makes of the outcome of an attempt, `GoOn`
the loop of `_try_with_fallback`. An outcome is a class of errors, as far as the two
classifiers (`_is_transient_response`, `_should_fallback`) tell them apart. `Fallbacks`
whose provider cannot be created (`broken`) are passed over; with no fallback configured
the provider is asked directly, past the chain and its breaker. A turn's ledger counts
answers; prices are not modelled.

### ExecSessions

`proc` is a shell with a descendant that may keep its pipes, `sess` the `_ExecSession`
object with its reader tasks as one, `sessions` the registry, `lock` the manager's lock,
`call` where each caller awaits. The steps of a poll are the awaits of `poll`: a wait for
output, a kill past the deadline, the wait for the readers, the lock to unregister.
`Leak` is the `CancelledError` of readers that an earlier `wait_for` cancelled.
`Stop` cancels a call at any of its awaits.

### Delivery

A piece of text knows the turn and segment it was produced in and is followed through
`queue`, `held` (what ended a merge), `cur` (being sent) to `wire` (what each connection
was shown) and `log` (the transcript of a chat). `Merge` is `_coalesce_stream_deltas`,
`prints` the fingerprints that suppress a repeated reply, `card` the text gathered for and
drawn on a Feishu card.

A chat may be open on several connections (`Clients`, `On`), and a message goes to them
one by one, as the loops of the WebSocket channel do: an attempt `Begins` with the
connections subscribed at that moment in `todo`, `SendsTo` serves one of them, one that
has left is `Gone`, and when a send `Raises` the rest is not served and the attempt
counts as failed, although some have the message. The whole message is then sent again,
to everyone, or given up after the last attempt (`refused`). Feishu is one reader; a
final message of it has several parts, and may raise after some were shown
(`FeishuRaises`). `failed` remembers the messages a send of which raised. Connections
close and open, and the dispatcher may be ended. A turn whose message tool has answered
publishes no final message.

### Memory

`hist`, `refl` and `records` are the history file, the lines of the reflections file and
the database; `counter`, `dcursor`, `rcursor` the three cursor files. A Dream's `run`
goes `asking -> create, look, apply` for each proposal `-> history -> reflections`
(cursors) `-> reset, cut, expire` (pruning). Up to its await of the model it is one
step; after it each write is one, because a write may fail and the process may die
there, and between two transactions another process (`Correct`, `Promote`, `Revoke`) may
come. A line number is remembered across the await, as in the code: that is why a line
can be shifted under a Dream. `Keeper` is the Consolidator's hygiene, which prunes
without asking (`Compact`). All proposals are about one conflict key; level 2 is taken
as confident enough to be promoted.

## 3. Runs

Sizes are chosen so that each queue can be full, the gate can be taken, a drain can
exceed what it may take, a session can exceed what compaction, the cap and the replay
window leave of it, and each limit can be reached. With two workers no run takes
longer than two and a half minutes.

| Run | Instance | States |
|---|---|---|
| `dispatch_stop` | two chats, a query and a `/stop` of one (websocket) session, a chat of another; inbound and outbound queue of one, gate of one; fair | 92 328 |
| `dispatch_new` | two chats, two `/new` and a `/stop` of one session; pending queue of one, gate of two | 145 263 |
| `turn` | two chats with a command, up to three responses and two tool calls; two chats with a sub-agent's result and an archive that may raise; two iterations, cut off anywhere; fair | 309 619 |
| `turn_skew` | three chats | violation |
| `store` | every event with suffix 2, cap 4, replay window 3; tool calls with suffix 4 and cap 6, and with suffix 3, shorter than a turn; fair | 114 082 |
| `cron` | three jobs (the gateway's, recurring, one-shot), a clock of three, two requests, two starts, eight environments; fair | 183 555 |
| `subagents` | two children of the session and one of another, a delegate, a chat, a `/stop`; limit 2, queues of 2 and 1; fair | 66 088 |
| `calls` | a streaming request with images, its turn's reflection, a persistent request with a time limit; two fallbacks that may not exist; breaker opens at 2; fair | 169 809 |
| `exec` | a turn and a sub-agent, up to three calls, limit 1, three environments (idle sweep and deadline; descendants; `/stop` and two chats); fair | 190 939 |
| `delivery` | ten environments: one and two topics of a Feishu group, a WebSocket stream open on two connections that come and go, sends that raise after some readers were served, threads with follow-ups; queue of 2, two attempts; fair | 106 018 |
| `delivery_card` | one topic with two segments of two pieces | violation |
| `memory` | two Dreams over three or four entries with one or two faults; one Dream over two batches with one or two commands of another process, a fault or an expiring record; fair | 95 314 |

Bounds that matter: a gate of one makes a second session wait and a gate of two lets two
run; three tasks of one session are the fewest with a holder, a waiter and a newcomer;
two iterations are the fewest with an earlier one; two objects of a session are the
fewest that can undo each other; two exec tasks of cron are the fewest that overlap;
two Dreams are the fewest that shift each other's lines, and three lines the fewest of
which the middle one can be skipped; two attempts are the fewest with a retry, and two
connections the fewest of which one can have what the other has not.

A property written as a conjunction of named parts is checked as one invariant; its
parts are what a reader looks for:

| Invariant | Parts |
|---|---|
| `NothingStranded` (Dispatch) | `PendingHasKeeper`, `StopLeavesNothing` |
| `TurnConsistent` | `TypeOK`, `BoundedWork`, `NoFalseInterruption` |
| `StoreConsistent` | `TypeOK`, `CachedIsLive`, `CursorInRange`, `SameObject` |
| `CronConsistent` | `CronTypeOK`, `RunsAreSerial`, `OneRunPerDue` |
| `ChangesKept` (Cron) | `AckedSurvives`, `RemovedStaysRemoved` |
| `AgentsConsistent` | `TypeOK`, `SpawnNeverWaits`, `OnePlace` |
| `CallsConsistent` | `TypeOK`, `BudgetHolds` |
| `RegistryConsistent` | `TypeOK`, `NoStrayShell`, `WithinLimit`, `PolledIsKept`, `EndIsFinal` |
| `DeliveryConsistent` | `TypeOK`, `OnlyRepeatsMuted`, `LogHasAll` |
| `MemoryConsistent` | `TypeOK`, `OneActive`, `CreatedOnce`, `ChainsEnd` |

### What they show

`Dispatch`: sessions are serial in spite of weak locks, full pending queues, cancelled
waiters and `/new` as a turn (`SessionSerial`); a published queue always belongs to a
live turn of the session that will take or re-publish what is in it
(`PendingHasKeeper`); a message is in one place (`OnePlace`) and is dropped only in a
session whose user asked to stop or reset (`DroppedOnRequest`); the run loop never waits
for ever, be it for a task that cleans up or one that leaves (`LoopReturns`), and each
message is dealt with (`EventuallySettled`). `ServiceSpec` is the refinement of
`SessionService`: seen from outside there is a waiting, a serving, an absorbed and a
settled message, sessions serve one at a time, no more than the gate allows, and no
message is served twice. `StopCancelsAll` is checked without `/new` turns; with them
only `StopLeavesNothing` holds, because a `/new` run as a turn removes itself from
`_active_tasks` (`dispatch.py:240`) and a later `/stop` neither cancels nor awaits it,
nor a task that the `/new` cancelled, which may be at its idle status (`leave`) while
the `/new` waits for it.

`SessionTurn`: wherever a turn is cut off, the history the next turn starts from answers
every tool call (`CallsAnswered`), repeats nothing (`NothingTwice`), says of no answered
input that it was interrupted (`NoFalseInterruption`), and the file has every answered
input (`AnsweredRecorded`); no way round the loop is free of the iteration limit
(`BoundedWork`), and a turn ends (`TurnEnds`). `NothingTwice` excepts an archive that
raised: SAVE has then added the turn's messages and kept its checkpoint, and the next
turn repeats some.

`SessionStore`, under everything: a deleted session's messages never return to its file,
whatever turns and jobs still hold its objects (`DeletedStaysDeleted`), the cache never
serves an object whose saves are skipped (`CachedIsLive`), and the lock goes round
(`JobsEnd`). In the worlds with turns and jobs only, a message leaves the file only into
the history, but for the end of a latest turn that is longer than what a compaction
keeps, which that compaction drops (`SavedKept`). Without `/new` and rewind the cursor
stays an index (`CursorInRange`). A turn works on the object others find (`SameObject`);
that needs that an archive does not outlast the idle time (`"outlast"`): otherwise an
idle compaction can queue behind a background consolidation, a turn behind the
compaction, and the turn goes on with the object that the compaction replaced.

`Cron`: runs of jobs are serial and one per due time while no change of the
configuration meets a running job (`met`). Only a job of the gateway itself may be
repeated, after a crash or when an unreadable file lost the time of its last run:
`_apply_catch_up` then runs it at the next start. What was accepted survives restarts,
crashes and other processes except in what a crash within the merge takes (`torn`) or an
unreadable file had not saved. A removed job comes back only through a change that did
not see the removal (`raced`). That can be one of another process, or one of the gateway
itself: while it stops with a timer task at work, `_load_store` answers from the table in
memory, so an `enable_job` or `update_job` appends the line of a job behind the line that
removed it. The saved time of a last run never goes back; what is due is run.

`Subagents`: a child that was admitted never waits for a permit, so the two counts
agree; a turn waits only while something can come; results are in one place, and reach a
turn or are lost to a `/stop`; when `/stop` has answered nothing of the session works.

`ModelCalls`: a client is shown one answer, never the start of one and then another;
a request that nothing was shown of fails for want of a model only after every fallback
that exists failed; a turn stops within its budget but for answers under way; a request
that is not persistent ends though every provider fails for ever.

`ExecSessions`: a shell that runs is registered, whatever was stopped, swept or expired;
the limit holds for overlapping starts; a poll keeps its session; output is told once or
lost with a stopped or failed call; the end of a session is final; calls return unless
their process neither reads nor exits.

`Delivery`: to each connection a turn's text arrives in order and at most once, in spite
of merging, holding back and retries, except a message a send of which raised: such a one
may be repeated, whole and before anything that comes after it (`InOrder`). Each piece
waits, is in hand, or is done with (shown to a reader of its chat, or given up), and only
one of these, except while an attempt at it goes on or after one that raised: then some
have what is still to be sent to others (`Placed`). Only a
repetition is suppressed; the transcript has what was shown; everything published is dealt
with while the dispatcher lives (`AllHandled`).

`Memory`: one active record per conflict key; a batch that is ingested again, after a
failure, a crash or by a second Dream, makes no second record of a statement; whoever
follows replacements arrives; every entry is digested or still unread, or was lost in
one of the three ways listed under `Lost`; and every entry is digested some day.

### Findings

1. `turn_skew`: a prompt whose user message was merged into the history's last user
   message is one shorter than SAVE assumes; one message of the turn is not saved
   (`turn_orchestrator.py:458`, `context.py:622`).
2. `delivery_card`: the dispatcher does not pass the end of a stream to Feishu's
   `send_delta`; a card whose last text was held back by the throttle never shows it and
   is never closed (`channels/manager.py:504`, `feishu/channel.py:1557-1577`).

Disagreements without a run: where the code does something else than its comments or docs
say and a property makes an exception for it, which the property's comment states.

* The single checkpoint slot keeps one iteration of a turn: after `/stop` the earlier
  ones are gone (`session_turn.py:212`, `dispatch.py:337-342`).
* A consolidation stores its cursor after its await, although `/new` or a rewind emptied
  the session meanwhile: the first messages of the new conversation count as consolidated
  (`consolidator.py:476`, `session/manager.py:913-915`). An idle compaction writes back
  what a `/new` removed, and overwrites what was delivered meanwhile
  (`consolidator.py:553`).
* A turn longer than the kept suffix loses its end in a compaction: neither kept nor
  archived (`session/manager.py:282`, `docs/configuration.md:1339`).
* A follow-up drained after a failed response is merged into the last user message of
  the prompt, which may be saved already: the session keeps no trace of it
  (`runner.py:311`).
* A `/stop` that meets a clean-up waiting for room in the inbound queue loses the
  follow-ups not yet re-published (`dispatch.py:385-390`, `dispatch.py:373-375`).
* The merge of cron's action log empties the log before it saves (`cron/service.py:233`);
  an unreadable store is moved aside and the next load starts with no jobs
  (`cron/service.py:244`); a change of the jobs while one runs starts a second timer task;
  a save that fails leaves the timer unarmed (`cron/service.py:564`).
* When no fallback can be created the primary's error is replaced by a made-up one that
  is not transient, so the request is given up at once (`fallback_provider.py:259`).
* The next poll of a finished process whose readers an earlier poll cancelled raises
  `CancelledError`, which ends the turn (`exec_session.py:150`).
* A message that raised at one of several connections, or after the first parts of a
  Feishu answer, is sent again from the start, also to those who have it
  (`websocket/channel.py:1488`, `channels/manager.py:563`).
* Merging looks at the chat only: text of two topics of a group runs under one stream id
  (`channels/manager.py:538`, `docs/channel-plugin-guide.md:440`). Text made up after a
  stream (a spent budget, an empty answer) is flagged as streamed and shown to nobody
  (`agent/response.py:68`).
* Dreams may overlap, and pruning, rotation and hygiene renumber the lines of a Dream
  that is asking: it then moves its cursor over lines it was not shown (`dream.py:561`,
  `dream.py:453-455`). A crash in `append_history` before `.cursor` is written gives a
  number twice, and the second entry is never read (`memory/store.py:687`).

### Hazards without a property

A hazard whose step a property makes an exception for is listed in `PROJECT.json`
without that property and with a note. Beside those listed there, reading the code
showed these; they are accepted by the code, below the level of the models, or their
data is not modelled:

* Leftovers go behind messages sent after them (`dispatch.py:390`); `wait_for` around
  `consume_inbound` (`dispatch.py:137`) hands an item back in the supported Pythons; a
  dispatcher task ended by a `CancelledError` of a channel (`channels/manager.py:488`).
* Follow-ups taken into the prompt live only in the turn until SAVE (`loop.py:1112`).
* Tombstones beyond 1024 are forgotten (`session/manager.py:446`); an unlink that fails
  leaves a deleted session's file (`session/manager.py:872`); the in-memory summary
  survives a `/new` (`autocompact.py:123`); a reset keeps checkpoint and pending flag
  (`session/writes.py`).
* A persistent request goes on for ever while two errors alternate
  (`providers/base.py:845`); `CallEnds` is about the others.
* A failing save leaves cron's timer unarmed (`cron/service.py:564`); `DueRuns` is about
  environments in which no save fails.
* After the cool-down every overlapping request probes the primary
  (`fallback_provider.py:117`); each tool of one response opens a ledger of its own
  (`runner.py:425`).
* A delegate runs without a permit (`tools/delegate.py:122`).
* A failed write keeps a finished session registered (`exec_session.py:248`), `kill()`
  reaches the shell and not its group (`exec_session.py:176`), `drain()` has no limit
  (`exec_session.py:119`), only polls look at the deadline (`exec_session.py:146`).
* The transcript is written once per attempt and not at all without a subscriber
  (`websocket/channel.py:1704`); a turn ended by `/stop` sends no end of its stream
  (`dispatch.py:336`); a delta that is sent again is twice in the text gathered for the
  end of the stream (`websocket/channel.py:1697`).

### Fairness

asyncio runs every ready coroutine, its locks are first come, first served, and a turn's
waits are bounded by the time limits of providers and tools. From this:

* `Dispatch!Fairness`: weak fairness of the run loop, each task and the reader of the
  outbound queue. Lock and gate are first come, first served in the model (`ahead`).
  Nothing is assumed of users: publishing and taking follow-ups are unfair.
* `SessionTurn!FairSpec`: a turn under way takes its next step; which one is free.
* `SessionStore!FairSpec`: the job at the head of the line runs, and an archive returns
  or raises (`chat_with_retry` has time limits and bounded retries).
* `Cron!CronFairSpec`: the loop comes round to a due timer, and a job ends some day.
  Stops, crashes and requests are unfair.
* `Subagents!Fairness`: tasks that can run do, runs and waits end by their time limits,
  and a turn reaches its answer (`SF`, for `max_iterations` bounds its tool calls). Users
  and failing announcements are unfair.
* `ModelCalls!Fairness`: a provider answers or fails in the end, delays pass. Which
  outcome is free, for ever the same failure included.
* `ExecSessions!Fairness`: callers and readers go on; `SF` of taking the lock stands for
  its queue. Processes are unfair: they may never write, read or exit.
* `Delivery!Fairness`: the dispatcher goes on and a channel's send returns; a turn goes
  on when the queue has room (`SF` stands for the queue of waiting publishers). Failing
  sends and clients are bounded, not fair.
* `Memory!FairSpec`: code without an await runs on (`WF` of `Sync` and of the Keeper's
  pruning); Dreams are begun again and again, and the model gives a usable answer some
  day (`SF`). The last is an assumption about the model and not about the code: a batch
  it never answers usably, or one that does not fit the prompt, stays at the head for
  ever, since the code has no limit of attempts for it.

## 4. Proofs

TLC covers the instances of section 3; the theorems below hold for every value of the
constants that satisfies the `ASSUME` of the module: any messages, sessions, callers,
limits, worlds. All 25 invariants of the runs are proved, the refinement of
`SessionService`, and the action properties `AllTried`, `SavedKept`, `StopSilences` and
`LastRunKept`: everything the runs check but liveness. Every proof has the same
shape: an inductive invariant that is stronger than the property, one lemma for each
action, and a last step of temporal logic.

### Dispatcher

`DispatchProofs`, from `DispatchAssumption`:

* `TypeCorrect`: `Spec => []TypeOK`.
* `MessagesInOnePlace`: `Spec => []OnePlace`. `OnePlace` is not inductive by itself.
  `PlaceInv` adds that an idle run loop holds no message: without that a message it takes
  from the inbound queue could replace one it still has.
* `SessionSerialHolds`: `Spec => []SessionSerial`. `LockInv` is the argument the code
  relies on and nowhere states: every task between `lock` and its end, one that leaves
  included, refers to a lock; all tasks of a session that refer to a lock refer to the
  same one; and a lock that a task holds is locked, by that task alone. The middle part
  is what makes the weak registry safe: a new lock is made only when no task of the
  session refers to one.

On top of these, with `ServiceInv`:

* `NothingStrandedHolds`. `KeeperInv` says who looks after what waits: a published queue
  is that of a running turn of the session, a queue that holds something is that of a task
  inside the gate, only a chat at work has follow-ups in its prompt.
* `DroppedOnRequestHolds`. `DropInv`: nothing is cancelled or dropped except in a session
  of which a `/stop` or `/new` was read.
* `StopCancelsAllHolds`: `NoResets => (Spec => []StopCancelsAll)`, where `NoResets` says
  that no message is a `/new`. The run of the property has that bound too, and section 3
  says why it is needed: it is what the code does. `CancelInv` accounts for every live
  task: it is on the list, told to end, waited for by the command at work, a `/new`
  turn, or at its idle status and awaited by one (`Told`); and who is told to end is
  waited for.
* `ServiceImplemented`: `Spec => ServiceSpec`, the refinement. Each of the dispatcher's
  steps is a step of the abstract service or a stutter. The bound on what is served at a
  time comes from `GateInv`: permits and tasks inside the gate add up to its size.

### Turn

`SessionTurnProofs`, from `TurnAssumption`, with the invariant `Inv` = `TypeInv`,
`SoundInv`, `TurnInv`:

* `CallsAnsweredHolds`, `NothingTwiceHolds`, `AnsweredRecordedHolds` and
  `TurnConsistentHolds` (with it `NoFalseInterruption` and `BoundedWork`).

The properties speak of what a restore makes of a session; the invariant has to speak of
the session itself. `Sound` holds of the live session and of its file alike: the messages
answer their calls, note no interruption after an input that is answered or at work, and
have nothing of responses and inputs yet to come; a checkpoint is of a response the
messages do not have; the flag is set only if the last message is not an input already
answered; every answered input is there; unless an archive raised, nothing is there twice.
`RestoredIs` then shows that a restore makes a legal history of any such state. The heart
of it is `WholeOverlap`: an answered history overlaps what a checkpoint stands for as a
whole or not at all, because a tail of it that begins with a request has all results of
that request. So the overlap search of `_restore_runtime_checkpoint`, which compares ever
shorter tails, neither repeats nor drops a message. `Working` says of the turn that its
messages, with the results of tools at work, fit behind the session's, and that its
responses are counted by its iterations, which is `BoundedWork`.

### Session store

`SessionStoreProofs`, from `StoreAssumption`:

* `StoreConsistentHolds` and `DeletedStaysDeletedHolds`, in every world of events.
  `LockInv` and `TurnInv` describe the consolidation lock: its line has exactly the jobs
  at work, the first holds it, a turn that waits is last, and when a turn runs the line is
  empty. `DeletedInv`: what was deleted is in no object whose generation is not dead, nor
  in what a compaction is about to write to such an object. `CursorInv`: a round under way
  never outruns the text it works on.
* `SavedKeptHolds`: `Spec => SavedKept`, for any suffix, cap and length of turns.
  `QuietInv`: what is before the cursor was archived, a job under way will archive all
  it does not keep but the end of a turn that is too long, and the object in the cache
  is as the file. The lemma on what a compaction cuts says where each message goes: it
  is archived, kept, or in `LongEnd`, beyond the first `suffix` messages of the latest
  turn.

What the operators of `Retention` return (a suffix, within its limit, at a legal start) is
proved in lemmas from their definitions; they need no recursion, since a legal start is
stated as the least index from which every result has its call.

### Requests to a model

`ModelCallsProofs`, from `ModelCallsAssumption`, which has a turn make finitely many
reflections:

* `OneVoiceHolds`: text is shown only by the attempt and model that is being asked
  (`RequestOK`), so a second voice would need a new attempt after text was sent.
* `AllTriedHolds`, an action property: what was tried is every fallback before the one
  being asked, less the broken ones.
* `CallsConsistentHolds`: the budget. Each answer charged past it is that of a reflection
  that has ended or the turn's own last one (`TurnBudget`), and so at most one for each.

### Processes

`ExecSessionsProofs`, from `ExecSessionsAssumption`, for any callers, limits and
environments:

* `RegistryConsistentHolds`. `RegInv`: who holds the lock, what a sweep has chosen is
  still registered, the limit was checked under the lock before a start. `PollInv`: a
  waiting poll's session was touched late enough that no sweep has chosen it. `EndInv`: a
  reported end was seen after the readers' end.
* `WholeOutputHolds`. `OutInv`: each piece taken from a session was given to a caller,
  lost with a call, or is in the hands of one call, and only one of these.

### Memory

`MemoryProofs`, from `MemoryAssumption` (the types of entries and answers), for any
Dreams, commands, faults and limits:

* `MemoryConsistentHolds`. `DbInv` is one active record of a key, one record per batch and
  statement, and no set of superseded records whose replacements all stay in the set: the
  last is how "whoever follows replacements arrives" is stated without recursion.
  `SeenInv` makes the check of revisions an argument: what a run remembers of a record is
  still so, or the record's revision tells that it is not.
* `NothingSkippedHolds`. `HistInv`: history numbers rise, and an entry is in the file
  until it was digested or dropped. `LineInv`: as long as nothing was renumbered under a
  Dream, the reflections' cursor has passed only lines that are done. `BatchInv`: a batch
  leaves out no earlier entry, and is digested before a cursor moves over it. `OneSync`:
  one run at a time has the event loop, so the writes of two Dreams after their answers do
  not interleave.

### Sub-agents

`BackgroundProofs`, from `SubagentsAssumption`, for any children, messages and queue
sizes:

* `AgentsConsistentHolds`, `NoLonelyWaitHolds`, and `StopSilencesHolds`, an action
  property. The invariant has three parts. `Fit`: no more children are on the list than
  there are permits, so an admitted child never waits for one. `Phases`: what the phase of
  the turn says of its runs (while it is open it is within its task, only a delegation has
  delegates), and what the first round of a `/stop` has done by the time the second
  begins. `Spots`: the five places of a message share nothing, hold what was published and
  once each, and a child is mute only when it has ended.
* `NoLonelyWait` needs `Phases` and nothing of the places: each step that ends a child
  puts a message where the turn will find it, or makes the child mute.

### Cron

`BackgroundProofs`, from `CronAssumption`, for any jobs and schedules, any clock, and any
environments (sets of `Events`), so also for those the run leaves out:

* `CronConsistentHolds`, from `CronTypes`, `OneTask`, `LogOK`, `DueInv` and `RecordInv`.
  `OneTask` is why runs do not overlap: as long as no change meets a running job, one
  task at most is at work, there is no sleep beside it, and it holds the objects of the
  table. `DueInv` is why none is repeated: what is due in the table, in the file when no
  task is at work, or in the list of a task, is due later than the job was last run for.
  A restart computes the next run of the gateway's own jobs from the last one, so
  `RecordInv` has to say that table, file and log know it, and `LogOK` that a gateway on
  its own has nothing in its log but removals.
* `LastRunKeptHolds`. `LastInv`: the table is never behind the file, nor is the log.
  `UsedInv`: only a job that was run has a last run, and no id is given twice, so a new
  job takes no other's place.
* `ChangesKeptHolds`. `KeepInv` is the property said of file and log, and of table and
  log: either pair, replayed, has what was added and lacks what was removed. It needs
  the second pair because a save replaces the file by the table and leaves the log, and
  `LogOK`, for a removal in the log is of a job that was removed. `There` says which
  jobs a replay gives in terms of the last line of each, and replaying lines twice gives
  what once does, which is what a start does that registers jobs and then merges again.
  `SpoiltInv` is the case of an unreadable file: until the next save the table has it
  all.

The lemmas on `Replayed` are proved from its closed form, without induction over the log.

### Delivery

`DeliveryProofs`, from `DeliveryAssumption`, for any turns, chats, texts, attempts and
sizes of the queue, with `IInv`:

* `InOrderHolds`. `Pipe` is the argument: what a connection was shown, the message in
  hand and what waits are, seen as one line of frames, in the order of turn, segment and
  piece for each turn, except among the frames of one message a send of which raised, and
  nothing in the line is beyond what its turn has made. Taking, merging and holding back
  move a boundary in that line and never change it; a send adds a copy of what is in hand
  to what one connection was shown, and puts it in twice only if an attempt at it raised
  before. The lemmas on `Run` and `Joined` show that a merge takes the messages off the
  front of what waits and leaves the rest, the one held back first.
* `PlacedHolds`. `Everywhere` goes the other way: a piece was made exactly if it waits, is
  in hand, was shown to a reader of its chat or was given up, and what was shown or given
  up is in hand only while an attempt goes on or after one that raised. With `Pipe`, in
  which nothing else is twice, that makes exactly one place. `TodoOK` says of an attempt
  that it is at connections of the message's chat, whose transcript has it.
* `DeliveryConsistentHolds`. `Replied`: each fingerprint is of a reply that was shown,
  given up or is being sent, and so what is muted was said before. `Sizes` and `Records`
  are the bounds and types, and that the transcript has what was shown.

### Model-checked only

* Every liveness property (`LoopReturns`, `EventuallySettled`, `TurnEnds`, `JobsEnd`,
  `DueRuns`, `ResultTold`, `CallEnds`, `CallReturns`, `AllHandled`, `AllDigested`):
  fairness and `ENABLED` are out of reach of this prover.
* That `Merge` is what the loop over the log computes (`MergeReplays`), an induction over
  the log: for logs of up to three lines.
* The findings of `turn_skew` and `delivery_card` are counterexamples, not theorems.

## 5. Not modelled

* Text: prompts, rendering, telemetry, titles, what a model says, wording of errors.
* The concurrency among the tools of one response: its results join at one await.
* Threads, and failures of the file system other than those named in the models (an
  archive or a save that raises, a crash between two writes, an unreadable cron store).
* Vendor adapters (`channels/` but for the manager, the WebSocket channel's sending and
  Feishu's cards; `providers/openai_*`): request and response formats. What the core sees
  of them is a message, a piece of text or an error, which the models have.
* HTTP handlers, the web front end, the command line, configuration, security
  predicates, skills, templates: most of the source. Each reads and writes
  data of its own without an order among actors that a model could get wrong, so the
  models cover the core in depth and a small share of the lines.
* MCP connections, planning, the gateway's shutdown order: have control of their own and
  come next (section 6).
* In `Memory`: recall and its ranking, evidence checks, the conditions of the idle
  trigger, Dreams in several processes, degraded health, backup, audit export and import.
* Everything else `PROJECT.json` lists as `not_modelled` or says is left out of a
  component that is `partly` modelled.

## 6. Plan

Done: `Dispatch` with `SessionService`, `SessionTurn`, `Retention`, `SessionStore`,
`Cron`, `Subagents`, `ModelCalls`, `ExecSessions`, `Delivery`, `Memory`, and the theorems
of section 4.

Modules to come: reload of MCP servers while turns use their tools, planning with its
replans, and the shutdown order of the gateway over `Dispatch`, `Cron` and `Delivery`.
