----------------------------- MODULE Subagents -----------------------------
(***************************************************************************)
(* Background sub-agents (agent/subagent.py) and the session that spawns   *)
(* them.  A child runs as a task of its own under a semaphore and, at its  *)
(* end, publishes its result to the inbound queue as a message of its      *)
(* parent's session.  The run loop (agent/dispatch.py) routes it to the    *)
(* pending queue of the turn at work, which takes it into its prompt       *)
(* (agent/loop.py, agent/runner.py) or waits for it, or makes it a turn of *)
(* its own.  delegate and execute_plan run children within the turn.       *)
(* /stop cancels the session's turns, then its children.                   *)
(*                                                                         *)
(* One session is modelled in full; another one only spawns children and   *)
(* takes their results.  A step is what runs between two awaits.           *)
(***************************************************************************)
EXTENDS Naturals, Sequences, FiniteSetsExt, SequencesExt

CONSTANTS
    Children,       \* background children (task ids), each spawned at most once
    Foreign,        \* those spawned by another session
    Delegates,      \* children that are awaited within the turn
    Chats,          \* messages of the user
    Stops,          \* /stop commands of the user
    Limit,          \* max_concurrent_subagents
    InboundMax,     \* maxsize of the inbound queue
    PendingMax,     \* maxsize of the pending queue of a turn
    DrainMax,       \* _MAX_INJECTIONS_PER_TURN
    MaxCycles,      \* _MAX_INJECTION_CYCLES
    NoItem

Items == Children \cup Chats

ASSUME SubagentsAssumption ==
    /\ Foreign \subseteq Children
    /\ Children \cap (Delegates \cup Chats \cup Stops) = {}
    /\ Delegates \cap (Chats \cup Stops) = {} /\ Chats \cap Stops = {}
    /\ NoItem \notin Items
    /\ {Limit, InboundMax, PendingMax, DrainMax} \subseteq Nat \ {0}
    /\ MaxCycles \in Nat

VARIABLES
    child,      \* the state of each background child
    direct,     \* the delegates at work
    inbound,    \* the inbound queue
    turn,       \* the task that holds the session lock
    pending,    \* its pending queue
    open,       \* the pending queue is registered for routing
    line,       \* messages whose tasks wait for the session lock
    stop,       \* the run loop serves /stop: "no", "turns", "children"
    sent,       \* messages the user has sent
    \* What the properties remember:
    told,       \* items a turn has taken, or was started for
    mute,       \* children that ended without a result: failed to send it, or stopped
    lost        \* items dropped because /stop lost patience or cancelled their task

vars == <<child, direct, inbound, turn, pending, open, line, stop, sent,
          told, mute, lost>>

NoTurn == [step |-> "idle", of |-> NoItem, cycles |-> 0, then |-> "work", stopped |-> FALSE]

-----------------------------------------------------------------------------
Alive == {"queued", "running", "announcing", "cancelling"}

\* Those the registry still lists: a finished task leaves it in a callback.
Listed == {c \in Children : child[c] \in Alive \cup {"ended"}}

\* get_running_count_by_session.
Own == {c \in Children \ Foreign : child[c] \in Alive}

\* Those that hold a permit of _spawn_semaphore.
Holding == {c \in Children : child[c] \in {"running", "announcing", "cancelling"}}

Working == turn.step = "work" /\ ~turn.stopped

Init ==
    /\ child = [c \in Children |-> "unborn"]
    /\ direct = {}
    /\ inbound = <<>> /\ pending = <<>> /\ line = <<>>
    /\ turn = NoTurn /\ open = FALSE
    /\ stop = "no"
    /\ sent = {} /\ told = {} /\ mute = {} /\ lost = {}

\* The spawn tool refuses when as many as allowed are listed.
MaySpawn == Cardinality(Listed) < Limit

\* execute_plan adds its steps to the background children; delegate, which is
\* never run beside another tool, is a plan of one.
PlanFits(D) == Cardinality(Listed) + Cardinality(D) <= Limit

(***************************************************************************)
(* Children.                                                               *)
(***************************************************************************)
\* A child task is born.  After the tool the turn drains its pending queue.
Spawn(c) ==
    /\ child[c] = "unborn" /\ MaySpawn
    /\ IF c \in Foreign THEN UNCHANGED turn
       ELSE Working /\ turn' = [turn EXCEPT !.step = "drain", !.then = "work"]
    /\ child' = [child EXCEPT ![c] = "queued"]
    /\ UNCHANGED <<direct, inbound, pending, open, line, stop, sent, told, mute, lost>>

\* The semaphore lets a child run.
Begin(c) ==
    /\ child[c] = "queued" /\ Cardinality(Holding) < Limit
    /\ child' = [child EXCEPT ![c] = "running"]
    /\ UNCHANGED <<direct, inbound, turn, pending, open, line, stop, sent,
                   told, mute, lost>>

\* The run is over, well or not: both announce, still under the semaphore.
RunEnds(c) ==
    /\ child[c] = "running"
    /\ child' = [child EXCEPT ![c] = "announcing"]
    /\ UNCHANGED <<direct, inbound, turn, pending, open, line, stop, sent,
                   told, mute, lost>>

\* publish_inbound waits for room.
Announce(c) ==
    /\ child[c] = "announcing" /\ Len(inbound) < InboundMax
    /\ inbound' = Append(inbound, c)
    /\ child' = [child EXCEPT ![c] = "ended"]
    /\ UNCHANGED <<direct, turn, pending, open, line, stop, sent, told, mute, lost>>

\* Both attempts to announce raise; the child only logs it.
AnnounceFails(c) ==
    /\ child[c] = "announcing"
    /\ child' = [child EXCEPT ![c] = "ended"]
    /\ mute' = mute \cup {c}
    /\ UNCHANGED <<direct, inbound, turn, pending, open, line, stop, sent, told, lost>>

\* A cancelled child ends without a word, wherever it was.
Cancelled(c) ==
    /\ child[c] = "cancelling"
    /\ child' = [child EXCEPT ![c] = "ended"]
    /\ mute' = mute \cup {c}
    /\ UNCHANGED <<direct, inbound, turn, pending, open, line, stop, sent, told, lost>>

\* _cleanup.
Reap(c) ==
    /\ child[c] = "ended"
    /\ child' = [child EXCEPT ![c] = "reaped"]
    /\ UNCHANGED <<direct, inbound, turn, pending, open, line, stop, sent,
                   told, mute, lost>>

(***************************************************************************)
(* The turn.                                                               *)
(***************************************************************************)
\* A task gets the session lock and registers its pending queue.
Start ==
    /\ turn.step = "idle" /\ line # <<>>
    /\ turn' = [NoTurn EXCEPT !.step = "work", !.of = Head(line)]
    /\ line' = Tail(line)
    /\ open' = TRUE
    /\ told' = told \cup {Head(line)}
    /\ UNCHANGED <<child, direct, inbound, pending, stop, sent, mute, lost>>

\* delegate and execute_plan: the turn awaits the children D.
Delegate(D) ==
    /\ Working /\ D # {} /\ PlanFits(D)
    /\ direct' = D
    /\ turn' = [turn EXCEPT !.step = "delegate"]
    /\ UNCHANGED <<child, inbound, pending, open, line, stop, sent, told, mute, lost>>

DirectEnds(d) ==
    /\ turn.step = "delegate" /\ d \in direct
    /\ direct' = direct \ {d}
    /\ turn' = IF direct' = {} THEN [turn EXCEPT !.step = "drain", !.then = "work"] ELSE turn
    /\ UNCHANGED <<child, inbound, pending, open, line, stop, sent, told, mute, lost>>

\* The model answers without a tool call.
Answer ==
    /\ Working
    /\ turn' = [turn EXCEPT !.step = "drain", !.then = "close"]
    /\ UNCHANGED <<child, direct, inbound, pending, open, line, stop, sent,
                   told, mute, lost>>

\* What the turn does when it has taken n items.
Took(n) ==
    /\ told' = told \cup {pending[i] : i \in 1 .. n}
    /\ pending' = SubSeq(pending, n + 1, Len(pending))
    /\ turn' = [turn EXCEPT !.step = IF n > 0 THEN "work" ELSE turn.then,
                            !.cycles = IF n > 0 THEN @ + 1 ELSE @]

\* Mutant: a turn that found nothing waits whether or not a child is at work.
DrainWaits ==
    /\ turn.step = "drain" /\ ~turn.stopped
    /\ IF turn.cycles = MaxCycles THEN Took(0)
       ELSE IF pending = <<>>
       THEN turn' = [turn EXCEPT !.step = "wait"] /\ UNCHANGED <<told, pending>>
       ELSE Took(Min({Len(pending), DrainMax}))
    /\ UNCHANGED <<child, direct, inbound, open, line, stop, sent, mute, lost>>

\* try_drain_injections and _drain_pending_messages: take what is there; wait
\* when there is nothing and a child of the session is at work.
Drain ==
    /\ turn.step = "drain" /\ ~turn.stopped
    /\ IF turn.cycles = MaxCycles THEN Took(0)
       ELSE IF pending = <<>> /\ Own # {}
       THEN turn' = [turn EXCEPT !.step = "wait"] /\ UNCHANGED <<told, pending>>
       ELSE Took(Min({Len(pending), DrainMax}))
    /\ UNCHANGED <<child, direct, inbound, open, line, stop, sent, mute, lost>>

Wake ==
    /\ turn.step = "wait" /\ ~turn.stopped /\ pending # <<>>
    /\ Took(Min({Len(pending), DrainMax}))
    /\ UNCHANGED <<child, direct, inbound, open, line, stop, sent, mute, lost>>

\* _SUBAGENT_DRAIN_WAIT_S is over.
WaitTimeout ==
    /\ turn.step = "wait" /\ ~turn.stopped /\ pending = <<>>
    /\ Took(0)
    /\ UNCHANGED <<child, direct, inbound, open, line, stop, sent, mute, lost>>

\* The turn raises, or its cancellation reaches it; delegates end with it.
Abort ==
    /\ turn.step \in {"work", "delegate", "drain", "wait"}
    /\ turn.step = "work" \/ turn.stopped
    /\ turn' = [turn EXCEPT !.step = "close"]
    /\ direct' = {}
    /\ UNCHANGED <<child, inbound, pending, open, line, stop, sent, told, mute, lost>>

Room == InboundMax - Len(inbound)

\* Puts as much of q as there is room for on the bus and keeps the rest.
GiveBack(q) ==
    LET n == Min({Room, Len(q)}) IN
    /\ inbound' = inbound \o SubSeq(q, 1, n)
    /\ pending' = SubSeq(q, n + 1, Len(q))
    /\ turn' = IF n = Len(q) THEN NoTurn ELSE [turn EXCEPT !.step = "return"]

\* Mutant: what is left is dropped with the queue.
CloseDropping ==
    /\ turn.step = "close"
    /\ open' = FALSE
    /\ turn' = NoTurn /\ pending' = <<>>
    /\ UNCHANGED <<child, direct, inbound, line, stop, sent, told, mute, lost>>

\* Mutant: what is left goes back, but the queue stays registered.
CloseKeepsOpen ==
    /\ turn.step = "close"
    /\ GiveBack(pending)
    /\ UNCHANGED <<child, direct, line, open, stop, sent, told, mute, lost>>

\* The end of _dispatch: no routing to the queue any more, then what is left
\* goes back to the bus, each item waiting for room.
Close ==
    /\ turn.step = "close"
    /\ open' = FALSE
    /\ GiveBack(pending)
    /\ UNCHANGED <<child, direct, line, stop, sent, told, mute, lost>>

Return ==
    /\ turn.step = "return" /\ Room > 0
    /\ GiveBack(pending)
    /\ UNCHANGED <<child, direct, line, open, stop, sent, told, mute, lost>>

(***************************************************************************)
(* The run loop and the user.                                              *)
(***************************************************************************)
UserSends(m) ==
    /\ m \notin sent /\ Room > 0
    /\ sent' = sent \cup {m}
    /\ inbound' = Append(inbound, m)
    /\ UNCHANGED <<child, direct, turn, pending, open, line, stop, told, mute, lost>>

\* The head of the inbound queue: a message of this session goes to the turn at
\* work or, when there is none or its queue is full, to a task of its own.
\* The other session takes its result itself.
Route ==
    /\ stop = "no" /\ inbound # <<>> /\ Head(inbound) \notin Stops
    /\ inbound' = Tail(inbound)
    /\ LET m == Head(inbound) IN
       \/ m \in Foreign /\ told' = told \cup {m} /\ UNCHANGED <<pending, line>>
       \/ /\ m \notin Foreign /\ open /\ Len(pending) < PendingMax
          /\ pending' = Append(pending, m) /\ UNCHANGED <<told, line>>
       \/ /\ m \notin Foreign /\ ~(open /\ Len(pending) < PendingMax)
          /\ line' = Append(line, m) /\ UNCHANGED <<told, pending>>
    /\ UNCHANGED <<child, direct, turn, open, stop, sent, mute, lost>>

\* Mutant: /stop cancels the turn at work and forgets those that wait.
StopBeginHolder ==
    /\ stop = "no" /\ inbound # <<>> /\ Head(inbound) \in Stops
    /\ inbound' = Tail(inbound)
    /\ stop' = "turns"
    /\ IF turn.step = "return"
       THEN turn' = NoTurn /\ pending' = <<>> /\ lost' = lost \cup ToSet(pending)
       ELSE /\ turn' = IF turn = NoTurn THEN turn ELSE [turn EXCEPT !.stopped = TRUE]
            /\ UNCHANGED <<pending, lost>>
    /\ UNCHANGED <<child, direct, open, line, sent, told, mute>>

\* /stop: every task of the session is cancelled.  One that waits for the lock
\* ends with its message; one that waits for room to give items back loses them.
StopBegin ==
    /\ stop = "no" /\ inbound # <<>> /\ Head(inbound) \in Stops
    /\ inbound' = Tail(inbound)
    /\ stop' = "turns"
    /\ line' = <<>>
    /\ IF turn.step = "return"
       THEN /\ turn' = NoTurn /\ pending' = <<>>
            /\ lost' = lost \cup ToSet(line) \cup ToSet(pending)
       ELSE /\ turn' = IF turn = NoTurn THEN turn ELSE [turn EXCEPT !.stopped = TRUE]
            /\ lost' = lost \cup ToSet(line)
            /\ UNCHANGED pending
    /\ UNCHANGED <<child, direct, open, sent, told, mute>>

\* The turn has not ended in time: it is cancelled again, while it gives back.
StopTurnsTimeout ==
    /\ stop = "turns" /\ turn.step = "return"
    /\ turn' = NoTurn /\ pending' = <<>>
    /\ lost' = lost \cup ToSet(pending)
    /\ UNCHANGED <<child, direct, inbound, open, line, stop, sent, told, mute>>

\* cancel_by_session, once the tasks have ended.
StopChildren ==
    /\ stop = "turns" /\ turn = NoTurn
    /\ stop' = "children"
    /\ child' = [c \in Children |-> IF c \in Own THEN "cancelling" ELSE child[c]]
    /\ UNCHANGED <<direct, inbound, turn, pending, open, line, sent, told, mute, lost>>

\* They have ended, or have not in time; both end the command.
StopEnds ==
    /\ stop = "children"
    /\ stop' = "no"
    /\ UNCHANGED <<child, direct, inbound, turn, pending, open, line, sent, told, mute, lost>>

-----------------------------------------------------------------------------
ChildStep ==
    \E c \in Children :
        Spawn(c) \/ Begin(c) \/ RunEnds(c) \/ Announce(c) \/ AnnounceFails(c) \/ Cancelled(c) \/ Reap(c)

TurnStep ==
    \/ Start \/ Answer \/ Drain \/ Wake \/ WaitTimeout \/ Abort \/ Close \/ Return
    \/ \E D \in SUBSET Delegates : Delegate(D)
    \/ \E d \in Delegates : DirectEnds(d)

LoopStep == Route \/ StopBegin \/ StopTurnsTimeout \/ StopChildren \/ StopEnds

Next == ChildStep \/ TurnStep \/ LoopStep \/ \E m \in Chats \cup Stops : UserSends(m)

Spec == Init /\ [][Next]_vars

\* Tasks that can run do; a sub-agent's run ends (max_iterations, the wall
\* timeout) and so do the timeouts.  A turn reaches its answer: max_iterations
\* bounds how often it calls a tool before.
Fairness ==
    /\ \A c \in Children :
          /\ WF_vars(Begin(c)) /\ WF_vars(RunEnds(c)) /\ WF_vars(Cancelled(c))
          /\ WF_vars(Announce(c) \/ AnnounceFails(c)) /\ WF_vars(Reap(c))
    /\ \A d \in Delegates : WF_vars(DirectEnds(d))
    /\ WF_vars(Start) /\ WF_vars(Drain \/ Wake \/ WaitTimeout) /\ WF_vars(Close \/ Return)
    /\ SF_vars(Answer) /\ WF_vars(turn.stopped /\ Abort)
    /\ WF_vars(LoopStep)

FairSpec == Spec /\ Fairness

-----------------------------------------------------------------------------
ChildStates == Alive \cup {"unborn", "ended", "reaped"}
TurnSteps == {"idle", "work", "delegate", "drain", "wait", "close", "return"}

\* The type of the state: the queues within their sizes and the taken
\* batches within the cycles a turn is allowed (bus/queue.py, agent/runner.py).
TypeOK ==
    /\ child \in [Children -> ChildStates]
    /\ direct \subseteq Delegates
    /\ inbound \in Seq(Items \cup Stops) /\ Len(inbound) <= InboundMax
    /\ pending \in Seq(Items) /\ Len(pending) <= PendingMax
    /\ line \in Seq(Items)
    /\ turn \in [step : TurnSteps, of : Items \cup {NoItem}, cycles : 0 .. MaxCycles,
                 then : {"work", "close"}, stopped : BOOLEAN]
    /\ open \in BOOLEAN /\ stop \in {"no", "turns", "children"}
    /\ sent \subseteq Chats \cup Stops
    /\ told \subseteq Items /\ mute \subseteq Children /\ lost \subseteq Items

\* The tool's count and the semaphore agree: a spawned child never waits for a
\* permit, whatever the order of ends, clean-ups and spawns of two sessions
\* (tools/spawn.py, SubagentManager.spawn and _cleanup).
SpawnNeverWaits ==
    \A c \in Children : child[c] = "queued" => Cardinality(Holding) < Limit

\* A turn that waits for a sub-agent has something to wait for: a child of the
\* session is at work, or a message of the session is on its way to the turn,
\* unless a child has ended without a word (_drain_pending_messages, the
\* routing of DispatchCoordinator.run, _announce_result).
NoLonelyWait ==
    turn.step = "wait" =>
        \/ Own # {} \/ pending # <<>> \/ turn.stopped
        \/ ToSet(inbound) \ Foreign # {}
        \/ mute \ Foreign # {}

\* What has been published: the user's messages and the announced results.
Published ==
    (sent \cap Chats) \cup ({c \in Children : child[c] \in {"ended", "reaped"}} \ mute)

\* A result and a message are in one place and once: on the bus, in the pending
\* queue, with a waiting task, with a turn, or lost to a /stop.  Routing,
\* waiting, the return of leftovers and cancellation neither copy nor drop one.
OnePlace ==
    LET waiting == inbound \o pending \o line
        places == ToSet(waiting) \cap Items
    IN  /\ \A k, l \in DOMAIN waiting :
            waiting[k] = waiting[l] /\ waiting[k] \in Items => k = l
        /\ places \cap (told \cup lost) = {} /\ told \cap lost = {}
        /\ Published = places \cup told \cup lost

\* The types, the permits and the places of every message.
AgentsConsistent == TypeOK /\ SpawnNeverWaits /\ OnePlace

\* When /stop has answered, nothing of the session goes on: no turn, no
\* delegate, no child that has not been cancelled, and no child born since
\* (_cancel_active_tasks cancels the tasks first, then the sub-agents).
StopSilences ==
    [][stop = "children" /\ stop' = "no" =>
        /\ turn = NoTurn /\ direct = {}
        /\ \A c \in Own : child[c] = "cancelling"]_vars

\* Every published result and message reaches a turn, or a /stop has lost it.
ResultTold ==
    \A i \in Items : i \in Published ~> i \in told \cup lost
=============================================================================
