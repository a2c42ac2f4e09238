------------------------------ MODULE Dispatch ------------------------------
(***************************************************************************)
(* The message dispatcher (agent/dispatch.py) with the bus it reads        *)
(* (bus/queue.py), the run loop that routes messages, the task it creates  *)
(* per message, and the cancellation that /stop and /new perform.          *)
(*                                                                         *)
(* Everything runs on one asyncio event loop, so a step of this module is  *)
(* the code between two awaits.  A message becomes a task at most once in  *)
(* its life (what is re-published was never a task), so a task is named by *)
(* the message it was created for.  What a turn does with its session is   *)
(* the subject of SessionTurn; here a turn runs, takes follow-ups from     *)
(* its pending queue, and ends.                                            *)
(***************************************************************************)
EXTENDS Naturals, Sequences, FiniteSets

CONSTANTS
    Msgs,           \* inbound messages, each sent once by some channel
    Sessions,       \* effective session keys
    SessionOf,      \* [Msgs -> Sessions]: _effective_session_key
    Kind,           \* [Msgs -> Kinds]: chat, or the command it is
    WebSessions,    \* sessions on the websocket channel (publish run status)
    InboundMax,     \* bus.inbound maxsize (1000 in the code)
    OutboundMax,    \* bus.outbound maxsize (1000 in the code)
    PendingMax,     \* pending queue maxsize (20 in the code)
    DrainMax,       \* _MAX_INJECTIONS_PER_TURN (3 in the code)
    GateMax,        \* ERZA_MAX_CONCURRENT_REQUESTS; 0 stands for unlimited
    NoTask          \* "no task"

ASSUME DispatchAssumption ==
    /\ SessionOf \in [Msgs -> Sessions]
    /\ Kind \in [Msgs -> {"chat", "query", "new", "stop"}]
    /\ WebSessions \subseteq Sessions
    /\ InboundMax \in Nat \ {0} /\ OutboundMax \in Nat \ {0}
    /\ PendingMax \in Nat \ {0} /\ DrainMax \in Nat \ {0}
    /\ GateMax \in Nat
    /\ NoTask \notin Msgs

VARIABLES
    at,         \* where each message is, or how far the task it became has got
    inbound,    \* bus.inbound
    outbound,   \* number of messages in bus.outbound
    server,     \* the run loop: [step, msg, waits]
    listed,     \* the tasks in some list of _active_tasks
    cancelling, \* tasks with a cancellation requested and not yet delivered
    lockOf,     \* the Lock object a task holds a reference to, named by the
                \* task that created it (the WeakValueDictionary's values)
    locked,     \* the Lock objects that are locked
    ahead,      \* the tasks that joined the same wait line before this one
    permits,    \* value of the concurrency semaphore
    owner,      \* whose queue _pending_queues[session] is
    queue,      \* contents of the pending queue each task created
    taken,      \* follow-ups a running turn has taken into its prompt
    awaits      \* the tasks a /new turn cancelled and waits for

vars == <<at, inbound, outbound, server, listed, cancelling, lockOf, locked,
          ahead, permits, owner, queue, taken, awaits>>

TaskSteps == {"new", "lock", "gate", "run", "clearing", "reply", "close", "drain",
              "abort", "leave"}
Places == {"unsent", "inbound", "serving", "pending", "taken", "done", "failed",
           "stopped", "lost"} \cup TaskSteps
Idle == [step |-> "idle", msg |-> NoTask, waits |-> {}]

\* Steps of a task that is inside "async with lock, gate"; one at "leave" was
\* cancelled before it got there and has its status left to publish.
Turning == {"run", "clearing", "reply", "close"}
Inside == {"run", "clearing", "reply", "close", "drain", "abort"}
Holding == Inside \cup {"gate"}
Live(t) == at[t] \in TaskSteps
Peers(s) == {t \in Msgs : SessionOf[t] = s}
Elems(q) == {q[i] : i \in DOMAIN q}
NoRepeat(q) == \A i, j \in DOMAIN q : q[i] = q[j] => i = j
First(n, q) == SubSeq(q, 1, n)
Rest(n, q) == SubSeq(q, n + 1, Len(q))

TypeOK ==
    /\ at \in [Msgs -> Places]
    /\ inbound \in Seq(Msgs) /\ Len(inbound) <= InboundMax
    /\ outbound \in 0..OutboundMax
    /\ server \in [step : {"idle", "cancel", "reply"}, msg : Msgs \cup {NoTask},
                   waits : SUBSET Msgs]
    /\ listed \subseteq Msgs
    /\ cancelling \subseteq Msgs
    /\ lockOf \in [Msgs -> Msgs \cup {NoTask}]
    /\ locked \subseteq Msgs \cup {NoTask}
    /\ ahead \in [Msgs -> SUBSET Msgs]
    /\ permits \in Nat
    /\ owner \in [Sessions -> Msgs \cup {NoTask}]
    /\ queue \in [Msgs -> Seq(Msgs)]
    /\ taken \in [Msgs -> SUBSET Msgs]
    /\ awaits \in [Msgs -> SUBSET Msgs]

Init ==
    /\ at = [m \in Msgs |-> "unsent"]
    /\ inbound = <<>>
    /\ outbound = 0
    /\ server = Idle
    /\ listed = {}
    /\ cancelling = {}
    /\ lockOf = [t \in Msgs |-> NoTask]
    /\ locked = {}
    /\ ahead = [t \in Msgs |-> {}]
    /\ permits = GateMax
    /\ owner = [s \in Sessions |-> NoTask]
    /\ queue = [t \in Msgs |-> <<>>]
    /\ taken = [t \in Msgs |-> {}]
    /\ awaits = [t \in Msgs |-> {}]

-----------------------------------------------------------------------------
(***************************************************************************)
(* The bus.  A channel's publish_inbound waits while the queue is full;    *)
(* the channel manager takes replies off the outbound queue.               *)
(***************************************************************************)
\* Mutant: publishing does not wait for room.
PublishInboundUnbounded(m) ==
    /\ at[m] = "unsent"
    /\ inbound' = Append(inbound, m)
    /\ at' = [at EXCEPT ![m] = "inbound"]
    /\ UNCHANGED <<outbound, server, listed, cancelling, lockOf, locked, ahead,
                   permits, owner, queue, taken, awaits>>

PublishInbound(m) ==
    /\ at[m] = "unsent"
    /\ Len(inbound) < InboundMax
    /\ inbound' = Append(inbound, m)
    /\ at' = [at EXCEPT ![m] = "inbound"]
    /\ UNCHANGED <<outbound, server, listed, cancelling, lockOf, locked, ahead,
                   permits, owner, queue, taken, awaits>>

ConsumeOutbound ==
    /\ outbound > 0
    /\ outbound' = outbound - 1
    /\ UNCHANGED <<at, inbound, server, listed, cancelling, lockOf, locked, ahead,
                   permits, owner, queue, taken, awaits>>

-----------------------------------------------------------------------------
(***************************************************************************)
(* The run loop.  It is one coroutine: while it waits for a cancelled task *)
(* or for room in the outbound queue, nobody reads the inbound queue.      *)
(***************************************************************************)
NextInbound(m) ==
    /\ server.step = "idle"
    /\ inbound # <<>>
    /\ m = Head(inbound)
    /\ inbound' = Tail(inbound)

\* Commands below the priority tier: /new, and those that only answer.
Dispatchable(m) == Kind[m] \in {"new", "query"} /\ owner[SessionOf[m]] # NoTask
Injectable(m) ==
    LET o == owner[SessionOf[m]]
    IN  Kind[m] = "chat" /\ o # NoTask /\ Len(queue[o]) < PendingMax

\* /stop always, another command when the session has a pending queue: handled
\* in the run loop.  /stop and /new pop the session's tasks from _active_tasks
\* and cancel them.
ServeCommand(m) ==
    LET popped == IF Kind[m] = "query" THEN {} ELSE listed \cap Peers(SessionOf[m])
    IN  /\ NextInbound(m)
        /\ Kind[m] = "stop" \/ Dispatchable(m)
        /\ server' = [step |-> "cancel", msg |-> m, waits |-> popped]
        /\ at' = [at EXCEPT ![m] = "serving"]
        /\ listed' = listed \ popped
        /\ cancelling' = cancelling \cup popped
        /\ UNCHANGED <<outbound, lockOf, locked, ahead, permits, owner, queue, taken,
                       awaits>>

\* A follow-up for a session whose task owns a pending queue with room.
EnqueuePending(m) ==
    LET o == owner[SessionOf[m]]
    IN  /\ NextInbound(m)
        /\ Injectable(m)
        /\ queue' = [queue EXCEPT ![o] = Append(@, m)]
        /\ at' = [at EXCEPT ![m] = "pending"]
        /\ UNCHANGED <<outbound, server, listed, cancelling, lockOf, locked, ahead,
                       permits, owner, taken, awaits>>

\* Everything else becomes a task: also a follow-up whose queue is full.
SpawnTask(m) ==
    /\ NextInbound(m)
    /\ Kind[m] # "stop" /\ ~Dispatchable(m) /\ ~Injectable(m)
    /\ at' = [at EXCEPT ![m] = "new"]
    /\ listed' = listed \cup {m}
    /\ UNCHANGED <<outbound, server, cancelling, lockOf, locked, ahead, permits,
                   owner, queue, taken, awaits>>

\* wait_for(t, 10 s) gives up on a task that cannot move, in its clean-up or
\* with its idle status, and cancels it again.
Stuck(t) ==
    /\ at[t] \in {"abort", "leave"} /\ t \notin cancelling
    /\ IF queue[t] # <<>> THEN Len(inbound) = InboundMax
                          ELSE SessionOf[t] \in WebSessions /\ outbound = OutboundMax

GiveUp(t) ==
    /\ Stuck(t)
    /\ cancelling' = cancelling \cup {t}
    /\ UNCHANGED <<at, inbound, outbound, server, listed, lockOf, locked, ahead,
                   permits, owner, queue, taken, awaits>>

\* Mutant: cancelled tasks are awaited without a timeout.
CancelTimeoutNever(t) == FALSE /\ UNCHANGED vars

CancelTimeout(t) ==
    /\ server.step = "cancel"
    /\ t \in server.waits
    /\ GiveUp(t)

\* Mutant: the cancelled tasks are not awaited.
CancelDoneAtOnce ==
    /\ server.step = "cancel"
    /\ server' = [server EXCEPT !.step = "reply", !.waits = {}]
    /\ UNCHANGED <<at, inbound, outbound, listed, cancelling, lockOf, locked, ahead,
                   permits, owner, queue, taken, awaits>>

CancelDone ==
    /\ server.step = "cancel"
    /\ \A t \in server.waits : ~Live(t)
    /\ server' = [server EXCEPT !.step = "reply", !.waits = {}]
    /\ UNCHANGED <<at, inbound, outbound, listed, cancelling, lockOf, locked, ahead,
                   permits, owner, queue, taken, awaits>>

CommandReply ==
    /\ server.step = "reply"
    /\ outbound < OutboundMax
    /\ outbound' = outbound + 1
    /\ at' = [at EXCEPT ![server.msg] = "done"]
    /\ server' = Idle
    /\ UNCHANGED <<inbound, listed, cancelling, lockOf, locked, ahead, permits,
                   owner, queue, taken, awaits>>

-----------------------------------------------------------------------------
(***************************************************************************)
(* The task of one message, _dispatch.                                     *)
(***************************************************************************)
\* The steps of a task while no cancellation is due: Task(t, step).
Running(t, step) == at[t] = step /\ t \notin cancelling

\* The task joins a wait line behind the tasks already in it.
Line(t, step) == {u \in Msgs \ {t} : at[u] = step}
Leave(t) == [u \in Msgs |-> ahead[u] \ {t}]

\* _session_locks.get(key) finds the lock while some task references it;
\* otherwise the task makes a new one.
Registered(s) == {lockOf[u] : u \in {v \in Peers(s) : lockOf[v] # NoTask}}
\* Mutant: every task makes its own lock.
CandidatesOwn(t) == {t}

Candidates(t) == IF Registered(SessionOf[t]) = {} THEN {t} ELSE Registered(SessionOf[t])

StartTask(t) ==
    /\ Running(t, "new")
    /\ at' = [at EXCEPT ![t] = "lock"]
    /\ \E l \in Candidates(t) : lockOf' = [lockOf EXCEPT ![t] = l]
    /\ ahead' = [ahead EXCEPT ![t] = Line(t, "lock")]
    /\ UNCHANGED <<inbound, outbound, server, listed, cancelling, locked, permits,
                   owner, queue, taken, awaits>>

\* asyncio.Lock serves its waiters first come, first served; a cancelled
\* waiter is passed over.
AcquireLock(t) ==
    /\ Running(t, "lock")
    /\ lockOf[t] \notin locked
    /\ \A u \in ahead[t] : lockOf[u] # lockOf[t] \/ u \in cancelling
    /\ locked' = locked \cup {lockOf[t]}
    /\ at' = [at EXCEPT ![t] = "gate"]
    /\ ahead' = [Leave(t) EXCEPT ![t] = Line(t, "gate")]
    /\ UNCHANGED <<inbound, outbound, server, listed, cancelling, lockOf, permits,
                   owner, queue, taken, awaits>>

\* Mutant: the gate lets everybody through.
AcquireGateOpen(t) ==
    /\ Running(t, "gate")
    /\ permits' = permits
    /\ ahead' = Leave(t)
    /\ owner' = [owner EXCEPT ![SessionOf[t]] = t]
    /\ at' = [at EXCEPT ![t] = "run"]
    /\ UNCHANGED <<inbound, outbound, server, listed, cancelling, lockOf, locked,
                   queue, taken, awaits>>

\* With the gate too, the task publishes its own pending queue.
AcquireGate(t) ==
    /\ Running(t, "gate")
    /\ GateMax > 0 => permits > 0 /\ ahead[t] \subseteq cancelling
    /\ permits' = IF GateMax > 0 THEN permits - 1 ELSE permits
    /\ ahead' = Leave(t)
    /\ owner' = [owner EXCEPT ![SessionOf[t]] = t]
    /\ at' = [at EXCEPT ![t] = "run"]
    /\ UNCHANGED <<inbound, outbound, server, listed, cancelling, lockOf, locked,
                   queue, taken, awaits>>

\* A chat turn takes up to DrainMax follow-ups into its prompt.
Inject(t) ==
    /\ Running(t, "run") /\ Kind[t] = "chat"
    /\ queue[t] # <<>>
    /\ LET n == IF Len(queue[t]) < DrainMax THEN Len(queue[t]) ELSE DrainMax
           got == Elems(First(n, queue[t]))
       IN  /\ queue' = [queue EXCEPT ![t] = Rest(n, @)]
           /\ taken' = [taken EXCEPT ![t] = @ \cup got]
           /\ at' = [m \in Msgs |-> IF m \in got THEN "taken" ELSE at[m]]
    /\ UNCHANGED <<inbound, outbound, server, listed, cancelling, lockOf, locked,
                   ahead, permits, owner, awaits>>

\* How the follow-ups of a turn end with it.
Settle(t, step, fate) ==
    [m \in Msgs |-> IF m = t THEN step ELSE IF m \in taken[t] THEN fate ELSE at[m]]

FinishTurn(t) ==
    /\ Running(t, "run") /\ Kind[t] # "new"
    /\ at' = Settle(t, "reply", "done")
    /\ taken' = [taken EXCEPT ![t] = {}]
    /\ UNCHANGED <<inbound, outbound, server, listed, cancelling, lockOf, locked,
                   ahead, permits, owner, queue, awaits>>

\* An exception: an apology is all that is left to publish.
FailTurn(t) ==
    /\ Running(t, "run") /\ Kind[t] # "new"
    /\ at' = Settle(t, "close", "failed")
    /\ taken' = [taken EXCEPT ![t] = {}]
    /\ UNCHANGED <<inbound, outbound, server, listed, cancelling, lockOf, locked,
                   ahead, permits, owner, queue, awaits>>

\* /new as a turn: cmd_new pops and cancels the session's tasks, and waits for
\* each as the run loop does.  Its own task is among them; that cancellation is
\* swallowed by those waits, and with the task off the list none follows it.
ClearSession(t) ==
    LET popped == listed \cap Peers(SessionOf[t])
    IN  /\ Running(t, "run") /\ Kind[t] = "new"
        /\ listed' = listed \ popped
        /\ cancelling' = cancelling \cup (popped \ {t})
        /\ awaits' = [awaits EXCEPT ![t] = popped \ {t}]
        /\ at' = [at EXCEPT ![t] = "clearing"]
        /\ UNCHANGED <<inbound, outbound, server, lockOf, locked, ahead, permits,
                       owner, queue, taken>>

ClearTimeout(t) == \E u \in awaits[t] : GiveUp(u)

SessionCleared(t) ==
    /\ Running(t, "clearing")
    /\ \A u \in awaits[t] : ~Live(u)
    /\ awaits' = [awaits EXCEPT ![t] = {}]
    /\ at' = [at EXCEPT ![t] = "reply"]
    /\ UNCHANGED <<inbound, outbound, server, listed, cancelling, lockOf, locked,
                   ahead, permits, owner, queue, taken>>

\* Mutant: the queue of an ended task stays published.
WithdrawNever(t) == [s \in Sessions |-> owner[s]]

\* Only a task whose queue is still the published one withdraws it.
Withdraw(t) == [s \in Sessions |-> IF owner[s] = t THEN NoTask ELSE owner[s]]

\* The finally block: what the turn did not take goes back to the end of the
\* inbound queue, without a pause until that queue is full.
Fits(t) == LET room == InboundMax - Len(inbound)
           IN  IF Len(queue[t]) < room THEN Len(queue[t]) ELSE room
Returned(t) == Elems(First(Fits(t), queue[t]))
\* Mutant: what is re-published also stays in the queue.
RepublishCopied(t) ==
    /\ inbound' = inbound \o First(Fits(t), queue[t])
    /\ queue' = queue

Republish(t) ==
    /\ inbound' = inbound \o First(Fits(t), queue[t])
    /\ queue' = [queue EXCEPT ![t] = Rest(Fits(t), @)]

CleanUp(t) ==
    /\ owner' = Withdraw(t)
    /\ Republish(t)
    /\ at' = [m \in Msgs |-> IF m \in Returned(t) THEN "inbound"
                             ELSE IF m = t THEN "drain" ELSE at[m]]

\* On the websocket channel the end of the turn is announced after the reply.
AfterReply(t) ==
    IF SessionOf[t] \in WebSessions
      THEN at' = [at EXCEPT ![t] = "close"] /\ UNCHANGED <<owner, inbound, queue>>
      ELSE CleanUp(t)

PublishReply(t) ==
    /\ Running(t, "reply")
    /\ outbound < OutboundMax
    /\ outbound' = outbound + 1
    /\ AfterReply(t)
    /\ UNCHANGED <<server, listed, cancelling, lockOf, locked, ahead, permits, taken,
                   awaits>>

\* A turn may also end with nothing to send.
SkipReply(t) ==
    /\ Running(t, "reply")
    /\ AfterReply(t)
    /\ UNCHANGED <<outbound, server, listed, cancelling, lockOf, locked, ahead,
                   permits, taken, awaits>>

\* The apology of a failed turn, or the announced end of a websocket turn.
PublishClose(t) ==
    /\ Running(t, "close")
    /\ outbound < OutboundMax
    /\ outbound' = outbound + 1
    /\ CleanUp(t)
    /\ UNCHANGED <<server, listed, cancelling, lockOf, locked, ahead, permits, taken,
                   awaits>>

\* Mutant: what does not fit at once is dropped.
RepublishLeftoverDropped(t) ==
    /\ Running(t, "drain") \/ Running(t, "abort")
    /\ queue[t] # <<>>
    /\ queue' = [queue EXCEPT ![t] = <<>>]
    /\ at' = [m \in Msgs |-> IF m \in Elems(queue[t]) THEN "lost" ELSE at[m]]
    /\ UNCHANGED <<inbound, outbound, server, listed, cancelling, lockOf, locked, ahead,
                   permits, owner, taken, awaits>>

\* There is room in the inbound queue again.
RepublishLeftover(t) ==
    /\ Running(t, "drain") \/ Running(t, "abort")
    /\ queue[t] # <<>>
    /\ Len(inbound) < InboundMax
    /\ Republish(t)
    /\ at' = [m \in Msgs |-> IF m \in Returned(t) THEN "inbound" ELSE at[m]]
    /\ UNCHANGED <<outbound, server, listed, cancelling, lockOf, locked, ahead,
                   permits, owner, taken, awaits>>

\* The task leaves "async with lock, gate" and its done callback runs.
Exit(t) ==
    /\ locked' = locked \ {lockOf[t]}
    /\ lockOf' = [lockOf EXCEPT ![t] = NoTask]
    /\ permits' = IF GateMax > 0 THEN permits + 1 ELSE permits
    /\ listed' = listed \ {t}

\* On the websocket channel the idle status is published first.
EndTask(t) ==
    /\ Running(t, "drain") \/ Running(t, "abort")
    /\ queue[t] = <<>>
    /\ IF SessionOf[t] \in WebSessions
         THEN outbound < OutboundMax /\ outbound' = outbound + 1
         ELSE outbound' = outbound
    /\ at' = [at EXCEPT ![t] = IF @ = "abort" THEN "stopped" ELSE "done"]
    /\ Exit(t)
    /\ UNCHANGED <<inbound, server, cancelling, ahead, owner, queue, taken, awaits>>

(***************************************************************************)
(* CancelledError is raised at the await where the task stands.            *)
(***************************************************************************)
\* The task is over and refers to its lock no more.
Drop(t) ==
    /\ at' = [at EXCEPT ![t] = "stopped"]
    /\ lockOf' = [lockOf EXCEPT ![t] = NoTask]
    /\ listed' = listed \ {t}

\* Waiting for the lock or the gate: the message is dropped.  A task that has
\* not begun, or has no status to publish, ends with it.
CancelWaiting(t) ==
    /\ t \in cancelling /\ at[t] \in {"new", "lock", "gate"}
    /\ at[t] = "new" \/ SessionOf[t] \notin WebSessions
    /\ Drop(t)
    /\ locked' = IF at[t] = "gate" THEN locked \ {lockOf[t]} ELSE locked
    /\ ahead' = [Leave(t) EXCEPT ![t] = {}]
    /\ cancelling' = cancelling \ {t}
    /\ UNCHANGED <<inbound, outbound, server, permits, owner, queue, taken, awaits>>

\* On the websocket channel the outer finally block comes first: the task has
\* left the line, but is not over before its idle status is published.
CancelToLeave(t) ==
    /\ t \in cancelling /\ at[t] \in {"lock", "gate"}
    /\ SessionOf[t] \in WebSessions
    /\ at' = [at EXCEPT ![t] = "leave"]
    /\ locked' = IF at[t] = "gate" THEN locked \ {lockOf[t]} ELSE locked
    /\ ahead' = [Leave(t) EXCEPT ![t] = {}]
    /\ cancelling' = cancelling \ {t}
    /\ UNCHANGED <<inbound, outbound, server, listed, lockOf, permits, owner, queue,
                   taken, awaits>>

EndWaiting(t) ==
    /\ Running(t, "leave")
    /\ outbound < OutboundMax
    /\ outbound' = outbound + 1
    /\ Drop(t)
    /\ UNCHANGED <<inbound, server, cancelling, locked, ahead, permits, owner, queue,
                   taken, awaits>>

\* Cancelled again while it waits for room: its status goes unpublished.
CancelLeaving(t) ==
    /\ t \in cancelling /\ at[t] = "leave"
    /\ Drop(t)
    /\ cancelling' = cancelling \ {t}
    /\ UNCHANGED <<inbound, outbound, server, locked, ahead, permits, owner, queue,
                   taken, awaits>>

\* In the turn or in its replies: on to the clean-up in the finally block.
CancelTurn(t) ==
    /\ t \in cancelling /\ at[t] \in {"run", "reply", "close"}
    /\ Republish(t)
    /\ at' = [m \in Msgs |-> IF m \in Returned(t) THEN "inbound"
                             ELSE Settle(t, "abort", "stopped")[m]]
    /\ taken' = [taken EXCEPT ![t] = {}]
    /\ owner' = Withdraw(t)
    /\ cancelling' = cancelling \ {t}
    /\ UNCHANGED <<outbound, server, listed, lockOf, locked, ahead, permits, awaits>>

\* In the clean-up: the leftovers not yet re-published go down with the task.
CancelCleanup(t) ==
    /\ t \in cancelling /\ at[t] \in {"drain", "abort"}
    /\ at' = [m \in Msgs |-> IF m = t THEN (IF at[t] = "abort" THEN "stopped" ELSE "done")
                             ELSE IF m \in Elems(queue[t]) THEN "lost" ELSE at[m]]
    /\ queue' = [queue EXCEPT ![t] = <<>>]
    /\ Exit(t)
    /\ cancelling' = cancelling \ {t}
    /\ UNCHANGED <<inbound, outbound, server, ahead, owner, taken, awaits>>

-----------------------------------------------------------------------------
RunLoop ==
    \/ \E m \in Msgs : ServeCommand(m) \/ EnqueuePending(m) \/ SpawnTask(m)
    \/ CancelDone \/ CommandReply
    \/ \E t \in Msgs : CancelTimeout(t)

TurnEnds(t) ==
    \/ FinishTurn(t) \/ FailTurn(t)
    \/ ClearSession(t) \/ ClearTimeout(t) \/ SessionCleared(t)
TaskStep(t) ==
    \/ StartTask(t) \/ AcquireLock(t) \/ AcquireGate(t) \/ TurnEnds(t)
    \/ PublishReply(t) \/ SkipReply(t) \/ PublishClose(t)
    \/ RepublishLeftover(t) \/ EndTask(t)
    \/ CancelWaiting(t) \/ CancelToLeave(t) \/ EndWaiting(t) \/ CancelLeaving(t)
    \/ CancelTurn(t) \/ CancelCleanup(t)

AllSettled ==
    /\ \A m \in Msgs : at[m] \in {"done", "failed", "stopped", "lost"}
    /\ outbound = 0
    /\ UNCHANGED vars

Next ==
    \/ \E m \in Msgs : PublishInbound(m) \/ TaskStep(m) \/ Inject(m)
    \/ ConsumeOutbound
    \/ RunLoop
    \/ AllSettled

Spec == Init /\ [][Next]_vars

\* The event loop runs every ready coroutine, a turn ends (iterations and
\* waits are bounded), and the channel manager keeps reading replies.
Fairness ==
    /\ WF_vars(RunLoop)
    /\ WF_vars(ConsumeOutbound)
    /\ \A t \in Msgs : WF_vars(TaskStep(t))

FairSpec == Spec /\ Fairness
-----------------------------------------------------------------------------
(***************************************************************************)
(* Properties.                                                             *)
(***************************************************************************)
\* Per-session serial: two tasks of one session never hold its lock together,
\* although the lock lives in a weak registry and is re-created when idle.
SessionSerial ==
    \A t, u \in Msgs :
        t # u /\ SessionOf[t] = SessionOf[u] => ~(at[t] \in Holding /\ at[u] \in Holding)

\* Follow-ups are only ever put where a live turn of the same session can take
\* them or its clean-up will re-publish them.
PendingHasKeeper ==
    /\ \A s \in Sessions : owner[s] # NoTask =>
           at[owner[s]] \in Turning /\ SessionOf[owner[s]] = s
    /\ \A m \in Msgs : at[m] = "pending" =>
           \E t \in Msgs : /\ m \in Elems(queue[t]) /\ at[t] \in Inside
                           /\ SessionOf[t] = SessionOf[m]

\* No message is duplicated or in two places: routing, injection and
\* re-publishing move it, they never copy it.
OnePlace ==
    /\ NoRepeat(inbound) /\ \A t \in Msgs : NoRepeat(queue[t])
    /\ \A m \in Msgs :
          /\ at[m] = "inbound" <=> m \in Elems(inbound)
          /\ at[m] = "serving" <=> m = server.msg
          /\ at[m] = "pending" <=> \E t \in Msgs : m \in Elems(queue[t])
          /\ at[m] = "taken" <=> \E t \in Msgs : m \in taken[t]
    /\ \A m, t, u \in Msgs :
          \/ m \in Elems(queue[t]) /\ m \in Elems(queue[u])
          \/ m \in taken[t] /\ m \in taken[u]
          => t = u

\* When /stop (or an inline /new) reports back, every task of the session has
\* ended or been told to, or waits with its idle status while a /new turn waits
\* for it; except a /new turn itself, which took itself off the list.
StopLeavesNothing ==
    server.step = "reply" /\ Kind[server.msg] # "query" =>
        \A t \in Peers(SessionOf[server.msg]) :
            Live(t) => \/ t \in cancelling \/ Kind[t] = "new"
                       \/ at[t] = "leave" /\ \E c \in Msgs : t \in awaits[c]

\* Neither a turn that closes its queue nor a reset leaves anything of a session
\* behind that nobody looks after (_dispatch's clean-up, _cancel_active_tasks).
NothingStranded == PendingHasKeeper /\ StopLeavesNothing

\* _cancel_active_tasks: "Cancel and await all active tasks" of the session.
StopCancelsAll ==
    server.step = "reply" /\ Kind[server.msg] # "query" =>
        \A t \in Peers(SessionOf[server.msg]) : ~Live(t)

\* A message is dropped only in a session in which the user stopped or reset:
\* leftovers are re-published, however little room there is.
DroppedOnRequest ==
    \A m \in Msgs : at[m] \in {"stopped", "lost"} =>
        \E c \in Peers(SessionOf[m]) :
            Kind[c] \in {"stop", "new"} /\ at[c] \notin {"unsent", "inbound", "pending"}

\* Every message that reaches the bus is dealt with.
EventuallySettled ==
    \A m \in Msgs : at[m] = "inbound" ~> at[m] \in {"done", "failed", "stopped", "lost"}

\* The run loop always gets back to the inbound queue.
LoopReturns == server.step # "idle" ~> server.step = "idle"

-----------------------------------------------------------------------------
\* The service the dispatcher implements.
Phase(place) ==
    CASE place = "unsent" -> "unsent"
      [] place = "taken" -> "absorbed"
      [] place \in Inside -> "serving"
      [] place = "done" -> "settled"
      [] place \in {"failed", "stopped", "lost"} -> "discarded"
      [] OTHER -> "waiting"

Service == INSTANCE SessionService WITH
               Capacity <- GateMax, phase <- [m \in Msgs |-> Phase(at[m])]
ServiceSpec == Service!Spec
=============================================================================
