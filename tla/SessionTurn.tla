---------------------------- MODULE SessionTurn ----------------------------
(***************************************************************************)
(* One session and its turns: the state machine RESTORE .. RESPOND         *)
(* (agent/turn_orchestrator.py), the iterations of the runner with their   *)
(* recovery paths (agent/runner.py, agent/execution/recovery.py), and what *)
(* is written to the session and its file on the way                       *)
(* (agent/session_turn.py), so that a turn can be cancelled, fail, or go   *)
(* down with the process at every await.                                   *)
(*                                                                         *)
(* Turns of one session are serial (Dispatch!SessionSerial).  A message is *)
(* a record: what tells two messages apart is their role and which input,  *)
(* model response or tool call they come from.                             *)
(***************************************************************************)
EXTENDS Naturals, Sequences, FiniteSets

CONSTANTS
    Inputs,         \* what users and sub-agents may send to the session
    Commands,       \* the inputs that are slash commands (but not /new)
    Announces,      \* the inputs that are sub-agent results (channel "system")
    MaxIterations,  \* spec.max_iterations
    MaxCycles,      \* _MAX_INJECTION_CYCLES
    MaxPerDrain,    \* _MAX_INJECTIONS_PER_TURN
    MaxEmpty,       \* _MAX_EMPTY_RETRIES
    MaxRecoveries,  \* _MAX_LENGTH_RECOVERIES
    Worlds,         \* bounds: the inputs that arrive, tool calls in one response,
                    \* model responses; may archiving at the file cap raise?
    None            \* no input, no checkpoint

ASSUME TurnAssumption ==
    /\ Commands \subseteq Inputs /\ Announces \subseteq Inputs
    /\ Commands \cap Announces = {}
    /\ MaxIterations \in Nat \ {0}
    /\ {MaxCycles, MaxPerDrain, MaxEmpty, MaxRecoveries} \subseteq Nat
    /\ Worlds \subseteq [inputs : SUBSET Inputs, calls : Nat \ {0}, responses : Nat, archiveFails : BOOLEAN]
    /\ None \notin Inputs

VARIABLES
    world,      \* the bounds of this behaviour
    messages,   \* session.messages
    ckpt,       \* session.metadata["runtime_checkpoint"]
    pending,    \* session.metadata["pending_user_turn"]
    disk,       \* the session file: the three above as last saved
    phase,      \* where the turn is
    turn,       \* what the turn holds in its local variables
    made,       \* model responses so far (they number themselves)
    coming,     \* inputs not yet handed to a turn
    finished,   \* inputs whose turn ran to its reply
    unarchived  \* an archive at the file cap has raised

vars == <<world, messages, ckpt, pending, disk, phase, turn, made, coming, finished, unarchived>>

-----------------------------------------------------------------------------
(***************************************************************************)
(* Messages.                                                               *)
(***************************************************************************)
User(of) == [role |-> "user", of |-> of]            \* {}: written by the runner
Command(i) == [role |-> "command", of |-> {i}]      \* a user message, _command
CommandReply == [role |-> "reply"]                  \* its answer, _command
Announced(i) == [role |-> "announce", of |-> {i}]   \* assistant, subagent_result
Request(n, k) == [role |-> "assistant", id |-> n, calls |-> k]
Answer(n) == Request(n, 0)
Result(n, c) == [role |-> "tool", id |-> n, call |-> c, ok |-> TRUE]
Interrupted(n, c) == [role |-> "tool", id |-> n, call |-> c, ok |-> FALSE]
Notice == [role |-> "notice"]               \* assistant: budget, error, limit
Interruption == [role |-> "interruption"]   \* assistant: no response was made

Requests == {Request(n, k) : n \in 1..world.responses, k \in 0..world.calls}
Messages ==
    Requests \cup {User(of) : of \in SUBSET Inputs} \cup {Command(i) : i \in Inputs}
    \cup {Announced(i) : i \in Inputs} \cup {CommandReply, Notice, Interruption}
    \cup {Result(n, c) : n \in 1..world.responses, c \in 1..world.calls}
    \cup {Interrupted(n, c) : n \in 1..world.responses, c \in 1..world.calls}

IsUser(m) == m.role \in {"user", "command"}
IsPlain(m) == \/ m.role \in {"notice", "interruption", "reply", "announce"}
              \/ m.role = "assistant" /\ m.calls = 0
Carried(m) == IF m.role \in {"user", "command", "announce"} THEN m.of ELSE {}
Elems(s) == {s[i] : i \in DOMAIN s}
Last(s) == s[Len(s)]
Results(m) == [c \in 1..m.calls |-> Result(m.id, c)]

\* A checkpoint keeps one assistant message and whether its tools are done.
Checkpoint(m, done) == [message |-> m, done |-> done]
NoTurn == [input |-> None, skew |-> 0, opening |-> {}, work |-> <<>>, iter |-> 0,
           cycles |-> 0, empties |-> 0, recoveries |-> 0]

Saved(ms, c, p) == [messages |-> ms, ckpt |-> c, pending |-> p]
Persist == disk' = Saved(messages', ckpt', pending')

-----------------------------------------------------------------------------
(***************************************************************************)
(* Restoring an unfinished turn.                                           *)
(***************************************************************************)
\* Mutant: calls without a result are left unanswered.
MaterializedOpen(c) ==
    <<c.message>> \o [i \in 1..(IF c.done THEN c.message.calls ELSE 0) |->
                        Result(c.message.id, i)]

\* The messages of a checkpoint: calls without a result get a synthetic error.
Materialized(c) ==
    <<c.message>> \o [i \in 1..c.message.calls |->
                        IF c.done THEN Result(c.message.id, i)
                                  ELSE Interrupted(c.message.id, i)]

\* The longest tail of ms that the restored messages begin with.
Overlap(ms, rs) ==
    CHOOSE k \in 0..Len(rs) :
        /\ k <= Len(ms) /\ SubSeq(ms, Len(ms) - k + 1, Len(ms)) = SubSeq(rs, 1, k)
        /\ \A j \in (k + 1)..Len(rs) :
              j <= Len(ms) => SubSeq(ms, Len(ms) - j + 1, Len(ms)) # SubSeq(rs, 1, j)

RestoreCheckpoint(ms, c) ==
    LET rs == Materialized(c)
    IN  ms \o SubSeq(rs, Overlap(ms, rs) + 1, Len(rs))

RestorePending(ms) ==
    IF ms # <<>> /\ IsUser(Last(ms)) THEN Append(ms, Interruption) ELSE ms

\* The history a saved state stands for: what RESTORE makes of it.
Restored(s) ==
    IF s.ckpt # None THEN RestoreCheckpoint(s.messages, s.ckpt)
    ELSE IF s.pending THEN RestorePending(s.messages) ELSE s.messages

-----------------------------------------------------------------------------
(***************************************************************************)
(* RESTORE, COMMAND, BUILD.                                                *)
(***************************************************************************)
Init ==
    /\ messages = <<>> /\ ckpt = None /\ pending = FALSE
    /\ disk = Saved(<<>>, None, FALSE)
    /\ phase = "idle"
    /\ turn = NoTurn
    /\ made = 0
    /\ world \in Worlds
    /\ coming = world.inputs
    /\ finished = {}
    /\ unarchived = FALSE

StartTurn(i) ==
    /\ phase = "idle"
    /\ i \in coming
    /\ messages' = Restored(Saved(messages, ckpt, pending))
    /\ ckpt' = None /\ pending' = FALSE
    /\ IF ckpt # None \/ pending THEN Persist ELSE disk' = disk
    /\ phase' = "build"
    /\ turn' = [NoTurn EXCEPT !.input = i]
    /\ coming' = coming \ {i}
    /\ UNCHANGED <<made, finished, unarchived, world>>

\* A command is recorded with its reply.  The flag is cleared after the save,
\* so the file keeps it.
RecordCommand ==
    /\ phase = "build" /\ turn.input \in Commands
    /\ messages' = Append(messages, Command(turn.input))
    /\ pending' = TRUE
    /\ ckpt' = ckpt
    /\ Persist
    /\ phase' = "command"
    /\ UNCHANGED <<turn, made, coming, finished, unarchived, world>>

AnswerCommand ==
    /\ phase = "command"
    /\ messages' = Append(messages, CommandReply)
    /\ disk' = Saved(messages', ckpt, pending)
    /\ pending' = FALSE
    /\ phase' = "idle"
    /\ turn' = NoTurn
    /\ finished' = finished \cup {turn.input}
    /\ UNCHANGED <<ckpt, made, coming, unarchived, world>>

\* get_history leaves commands out; build_messages merges the new user message
\* into a history that ends with one, which SAVE does not allow for.
Visible == {i \in DOMAIN messages : messages[i].role \notin {"command", "reply"}}
Skew == IF \E i \in Visible : messages[i].role = "user" /\ \A j \in Visible : j <= i
          THEN 1 ELSE 0

ReadHistory ==
    /\ phase = "build" /\ turn.input \notin Commands \cup Announces
    /\ turn' = [turn EXCEPT !.skew = Skew, !.opening = {turn.input}]
    /\ phase' = "built"
    /\ UNCHANGED <<messages, ckpt, pending, disk, made, coming, finished, unarchived, world>>

\* Mutant: the user message is left to SAVE, which skips it.
PersistUserLate ==
    /\ phase = "built"
    /\ phase' = "model"
    /\ UNCHANGED <<messages, ckpt, pending, disk, turn, made, coming, finished, unarchived, world>>

PersistUser ==
    /\ phase = "built"
    /\ messages' = Append(messages, User({turn.input}))
    /\ pending' = TRUE
    /\ ckpt' = ckpt
    /\ Persist
    /\ phase' = "model"
    /\ UNCHANGED <<turn, made, coming, finished, unarchived, world>>

\* A sub-agent's result is recorded as the assistant's before history is read.
PersistAnnounce ==
    /\ phase = "build" /\ turn.input \in Announces
    /\ messages' = Append(messages, Announced(turn.input))
    /\ UNCHANGED <<ckpt, pending, unarchived, world>>
    /\ Persist
    /\ phase' = "model"
    /\ UNCHANGED <<turn, made, coming, finished, unarchived, world>>

-----------------------------------------------------------------------------
(***************************************************************************)
(* RUN: what an iteration adds to the turn's messages.                     *)
(***************************************************************************)
NextIteration(t) == [t EXCEPT !.iter = @ + 1]
Add(t, ms) == [t EXCEPT !.work = @ \o ms]

\* The last message the model has seen before the turn's own: the user message,
\* or the sub-agent's result.
OpensWithUser(t) == t.input \notin Announces
EndsWithUser(t) == IF t.work = <<>> THEN OpensWithUser(t) ELSE IsUser(Last(t.work))

\* append_final_message: it replaces an assistant message without tool calls.
AppendFinal(t) ==
    IF t.work = <<>>
      THEN IF OpensWithUser(t) THEN Add(t, <<Notice>>) ELSE t
      ELSE IF IsPlain(Last(t.work))
             THEN [t EXCEPT !.work[Len(t.work)] = Notice]
             ELSE Add(t, <<Notice>>)

\* _append_model_error_placeholder
AppendPlaceholder(t) ==
    LET plain == IF t.work = <<>> THEN ~OpensWithUser(t) ELSE IsPlain(Last(t.work))
    IN  IF plain THEN t ELSE Add(t, <<Notice>>)

\* _append_injected_messages: a user message is merged into one before it.
Merge(t, got) ==
    IF ~EndsWithUser(t) THEN Add(t, <<User(got)>>)
    ELSE IF t.work = <<>> THEN [t EXCEPT !.opening = @ \cup got]
    ELSE [t EXCEPT !.work[Len(t.work)] = User(got \cup Carried(Last(t.work)))]

\* try_drain_injections: follow-ups that happen to wait in the queue; a
\* sub-agent's result is drained as a user's message, too.
Drainable(t) ==
    {got \in SUBSET (coming \ Commands) :
        /\ Cardinality(got) <= MaxPerDrain
        /\ t.cycles < MaxCycles \/ got = {}}
Inject(t, got) ==
    IF got = {} THEN t ELSE [Merge(t, got) EXCEPT !.cycles = @ + 1]

Asking == phase = "model" /\ turn.iter < MaxIterations
Proceed(t) == turn' = NextIteration(t) /\ phase' = "model"
Leave(t) == turn' = t /\ phase' = "save"

\* The turn ends unless follow-ups keep it going (end_turn_with_drain).
EndWithDrain(t) ==
    \E got \in Drainable(t) :
        /\ coming' = coming \ got
        /\ IF got # {} THEN Proceed(Inject(t, got)) ELSE Leave(t)

\* The audit-only checkpoints of tool execution and planning are not kept.
SetCheckpoint(m, done) ==
    /\ ckpt' = Checkpoint(m, done)
    /\ UNCHANGED <<messages, pending, unarchived, world>>
    /\ Persist
KeepSession == UNCHANGED <<messages, ckpt, pending, disk, unarchived, world>>

TurnTimeout ==
    /\ Asking
    /\ Leave(turn)
    /\ KeepSession /\ UNCHANGED <<made, coming, finished, unarchived, world>>

BudgetExceeded ==
    /\ Asking \/ phase = "retry"
    /\ Leave(AppendFinal(turn))
    /\ KeepSession /\ UNCHANGED <<made, coming, finished, unarchived, world>>

RequestTools(k) ==
    /\ Asking /\ made < world.responses
    /\ made' = made + 1
    /\ turn' = Add(turn, <<Request(made', k)>>)
    /\ SetCheckpoint(Request(made', k), FALSE)
    /\ phase' = "tools"
    /\ UNCHANGED <<coming, finished, unarchived, world>>

ToolsDone ==
    LET request == Last(turn.work)
        t == [Add(turn, Results(request)) EXCEPT !.empties = 0, !.recoveries = 0]
    IN  /\ phase = "tools"
        /\ SetCheckpoint(request, TRUE)
        /\ \E got \in Drainable(t) : coming' = coming \ got /\ Proceed(Inject(t, got))
        /\ UNCHANGED <<made, finished, unarchived, world>>

\* A fatal tool error: the plan is replanned, or the turn ends with the error.
ToolsFatal ==
    LET t == Add(turn, Results(Last(turn.work)))
    IN  /\ phase = "tools"
        /\ \/ Proceed(t) /\ coming' = coming
           \/ EndWithDrain(AppendFinal(t))
        /\ KeepSession /\ UNCHANGED <<made, finished, unarchived, world>>

\* A blank response: ask again, the last time without tools.
EmptyResponse ==
    /\ Asking
    /\ LET t == [turn EXCEPT !.empties = @ + 1]
       IN  IF t.empties < MaxEmpty THEN Proceed(t) ELSE turn' = t /\ phase' = "retry"
    /\ KeepSession /\ UNCHANGED <<made, coming, finished, unarchived, world>>

BlankResponse ==
    /\ phase = "retry"
    /\ \/ \E got \in Drainable(turn) \ {{}} :
             coming' = coming \ got /\ Proceed(Inject(turn, got))
       \/ EndWithDrain(AppendFinal(turn))
    /\ KeepSession /\ UNCHANGED <<made, finished, unarchived, world>>

ErrorResponse ==
    /\ Asking \/ phase = "retry"
    /\ \/ \E got \in Drainable(turn) \ {{}} :
             coming' = coming \ got /\ Proceed(Inject(turn, got))
       \/ EndWithDrain(AppendPlaceholder(turn))
    /\ KeepSession /\ UNCHANGED <<made, finished, unarchived, world>>

\* Mutant: a recovery does not count as an iteration.
TruncatedFree ==
    /\ Asking \/ phase = "retry"
    /\ made < world.responses
    /\ turn.recoveries < MaxRecoveries
    /\ made' = made + 1
    /\ turn' = [Add(turn, <<Answer(made'), User({})>>) EXCEPT !.recoveries = @ + 1]
    /\ phase' = "model"
    /\ KeepSession /\ UNCHANGED <<coming, finished, unarchived, world>>

\* Output cut off at the token limit: kept, and the model asked to go on.
Truncated ==
    /\ Asking \/ phase = "retry"
    /\ made < world.responses
    /\ turn.recoveries < MaxRecoveries
    /\ made' = made + 1
    /\ Proceed([Add(turn, <<Answer(made'), User({})>>) EXCEPT !.recoveries = @ + 1])
    /\ KeepSession /\ UNCHANGED <<coming, finished, unarchived, world>>

\* A final response; follow-ups, an active goal or a plan with steps left keep
\* the turn going.
FinalResponse ==
    /\ Asking \/ phase = "retry"
    /\ made < world.responses
    /\ made' = made + 1
    /\ SetCheckpoint(Answer(made'), TRUE)
    /\ LET t == Add(turn, <<Answer(made')>>)
       IN  \E got \in Drainable(turn) :
             /\ coming' = coming \ got
             /\ IF got # {} THEN Proceed(Inject(t, got))
                ELSE Proceed(Merge(t, {})) \/ Proceed(t) \/ Leave(t)
    /\ UNCHANGED finished

\* Mutant: an off-by-one in the limit.
MaxIterationsMissed ==
    /\ phase = "model" /\ turn.iter > MaxIterations
    /\ Leave(AppendFinal(turn))
    /\ KeepSession /\ UNCHANGED <<made, coming, finished, unarchived, world>>

\* Iterations used up; what is drained now nobody answers.
MaxIterationsReached ==
    /\ phase = "model" /\ turn.iter = MaxIterations
    /\ LET t == AppendFinal(turn)
       IN  \E got \in Drainable(t) : coming' = coming \ got /\ Leave(Inject(t, got))
    /\ KeepSession /\ UNCHANGED <<made, finished, unarchived, world>>

-----------------------------------------------------------------------------
(***************************************************************************)
(* SAVE, and the ways a turn ends without it.                              *)
(***************************************************************************)
\* messages[skip:]: after a merge the skip is one too many.
TurnMessages(t) == SubSeq(t.work, 1 + t.skew, Len(t.work))

\* Mutant: the checkpoint is not cleared.
SaveTurnKeepsCheckpoint ==
    /\ phase = "save"
    /\ messages' = messages \o TurnMessages(turn)
    /\ ckpt' = ckpt /\ pending' = FALSE
    /\ Persist
    /\ phase' = "idle"
    /\ turn' = NoTurn
    /\ finished' = finished \cup {turn.input}
    /\ UNCHANGED <<made, coming, unarchived, world>>

SaveTurn ==
    /\ phase = "save"
    /\ messages' = messages \o TurnMessages(turn)
    /\ ckpt' = None /\ pending' = FALSE
    /\ Persist
    /\ phase' = "idle"
    /\ turn' = NoTurn
    /\ finished' = finished \cup {turn.input}
    /\ UNCHANGED <<made, coming, unarchived, world>>

\* enforce_file_cap raises after the messages were added: no flag is cleared
\* and nothing is saved.
SaveFails ==
    /\ phase = "save" /\ world.archiveFails
    /\ messages' = messages \o TurnMessages(turn)
    /\ phase' = "idle"
    /\ turn' = NoTurn
    /\ unarchived' = TRUE
    /\ UNCHANGED <<ckpt, pending, disk, made, coming, finished, world>>

Suspended == phase \in {"build", "built", "model", "tools", "retry", "save"}
Abandon == phase' = "idle" /\ turn' = NoTurn /\ UNCHANGED <<made, coming, finished, unarchived, world>>

\* /stop: the checkpoint is materialised at once.
CancelTurn ==
    /\ Suspended
    /\ Abandon
    /\ IF ckpt # None
         THEN /\ messages' = RestoreCheckpoint(messages, ckpt)
              /\ ckpt' = None /\ pending' = FALSE
              /\ Persist
         ELSE KeepSession

\* An exception ends the turn with an apology.
FailTurn == Suspended /\ Abandon /\ KeepSession

\* The process dies and comes back with what the file holds.
Crash ==
    /\ Abandon
    /\ messages' = disk.messages /\ ckpt' = disk.ckpt /\ pending' = disk.pending
    /\ disk' = disk

-----------------------------------------------------------------------------
Prepare == RecordCommand \/ AnswerCommand \/ ReadHistory \/ PersistUser \/ PersistAnnounce
Iterate ==
    \/ TurnTimeout \/ BudgetExceeded \/ EmptyResponse \/ BlankResponse
    \/ ErrorResponse \/ Truncated \/ FinalResponse \/ MaxIterationsReached
    \/ \E k \in 1..world.calls : RequestTools(k)
    \/ ToolsDone \/ ToolsFatal

Next ==
    \/ \E i \in Inputs : StartTurn(i)
    \/ Prepare \/ Iterate \/ SaveTurn \/ SaveFails
    \/ CancelTurn \/ FailTurn \/ Crash

Spec == Init /\ [][Next]_vars

\* A turn is never left standing: providers and tools have timeouts.
FairSpec == Spec /\ WF_vars(Prepare \/ Iterate \/ SaveTurn \/ SaveFails)

-----------------------------------------------------------------------------
(***************************************************************************)
(* Properties.                                                             *)
(***************************************************************************)
Checkpoints == [message : Requests, done : BOOLEAN] \cup {None}
Phases == {"idle", "build", "command", "built", "model", "tools", "retry", "save"}

TypeOK ==
    /\ messages \in Seq(Messages)
    /\ ckpt \in Checkpoints
    /\ pending \in BOOLEAN
    /\ disk \in [messages : Seq(Messages), ckpt : Checkpoints, pending : BOOLEAN]
    /\ phase \in Phases
    /\ turn \in [input : Inputs \cup {None}, skew : 0..1, opening : SUBSET Inputs,
                 work : Seq(Messages), iter : 0..MaxIterations, cycles : 0..MaxCycles,
                 empties : Nat, recoveries : 0..MaxRecoveries]
    /\ made \in 0..world.responses
    /\ coming \subseteq Inputs
    /\ finished \subseteq Inputs \ coming

\* The three histories a later turn may start from: the live session, the one a
\* cancelled or failed turn leaves, the one a restart leaves.
Histories == {messages, Restored(Saved(messages, ckpt, pending)), Restored(disk)}

\* Wherever a turn is cut off, every tool call in the history is directly
\* followed by its results: a provider rejects a call without one.
CallsAnswered ==
    \A h \in Histories : \A i \in DOMAIN h :
        h[i].role = "assistant" =>
            \A c \in 1..h[i].calls :
                /\ i + c <= Len(h)
                /\ h[i + c] \in {Result(h[i].id, c), Interrupted(h[i].id, c)}

\* Restoring never repeats a response, a tool result or a user's input, unless
\* the archive at the file cap raised between adding them and clearing the
\* checkpoint.
Repeats(m, n) ==
    \/ m.role = "assistant" /\ n.role = "assistant" /\ m.id = n.id
    \/ m.role = "tool" /\ n.role = "tool" /\ m.id = n.id /\ m.call = n.call
    \/ Carried(m) \cap Carried(n) # {}
NothingTwice ==
    unarchived \/ \A h \in Histories : \A i, j \in DOMAIN h : Repeats(h[i], h[j]) => i = j

\* The history never claims that an input got no response when its turn ran to
\* the reply, in spite of the flag a command leaves in the file.
NoFalseInterruption ==
    \A h \in Histories : \A i \in 2..Len(h) :
        h[i] = Interruption => Carried(h[i - 1]) \cap finished = {}

\* Every input whose turn came to its reply is in the session file.
AnsweredRecorded ==
    \A i \in finished : \E m \in Elems(disk.messages) : i \in Carried(m)

\* Every way round the loop counts as an iteration: recoveries, follow-ups, goals
\* and plan steps never buy a turn more responses than it may have.
BoundedWork ==
    Cardinality({j \in DOMAIN turn.work : turn.work[j].role = "assistant"}) <= MaxIterations

\* The parts that hold of every state of a turn: the types, the work it may do,
\* and that no restore calls an answered input interrupted (agent/runner.py,
\* agent/session_turn.py).
TurnConsistent == TypeOK /\ BoundedWork /\ NoFalseInterruption

\* A turn comes to an end: no way of answering leaves it without a next step.
TurnEnds == phase # "idle" ~> phase = "idle"

\* _save_turn: "Save new-turn messages into session".
SavedWhole == [][SaveTurn => Elems(turn.work) \subseteq Elems(messages')]_vars
=============================================================================
