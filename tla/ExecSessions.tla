---------------------------- MODULE ExecSessions ----------------------------
(***************************************************************************)
(* Interactive shell sessions (tools/exec_session.py, tools/shell.py).     *)
(* exec with a yield time starts a process and registers it as a session;  *)
(* write_stdin writes to it, waits for its output or ends it; each call     *)
(* returns the output gathered since the last.  A turn and its sub-agents  *)
(* share the sessions of their chat and may use one at once.  A sweep of   *)
(* idle sessions runs at the start of every call, under the manager's lock.*)
(*                                                                         *)
(* A step is what runs between two awaits.  A process writes numbered      *)
(* pieces of output; the shell of a session may leave a descendant that    *)
(* keeps its pipes open.  stdout and stderr are one stream.                 *)
(***************************************************************************)
EXTENDS Integers, FiniteSetsExt

CONSTANTS
    Callers,       \* tasks that call the tools
    Chats,         \* the chats they work for: the owner keys
    MaxSids,       \* bound: sessions started
    MaxSessions,   \* ExecSessionManager.max_sessions
    IdleTimeout,   \* ExecSessionManager.idle_timeout
    PollMax,       \* the longest a poll may last; each poll is a call
    Timeout,       \* the command's hard timeout
    MaxRounds,     \* bound: polls of one wait_for call
    Environments,  \* bounds: tool calls, their kinds and chats, stopped turns, the clock,
                   \* pieces of output of a session; whether shells fork
    NoOne

Ops == {"exec", "list", "write", "wait"}

Sids == 1 .. MaxSids

ASSUME ExecSessionsAssumption ==
    /\ {MaxSessions, IdleTimeout, PollMax, Timeout, MaxRounds} \subseteq Nat \ {0}
    /\ MaxSids \in Nat
    /\ \A e \in Environments : e.calls <= MaxSids
    /\ Environments \subseteq [calls : Nat, ops : SUBSET Ops, chats : SUBSET Chats, stops : Nat, horizon : Nat,
                                  pieces : Nat, forks : BOOLEAN]
    /\ PollMax < IdleTimeout      \* 37 s and 30 minutes in the code
    /\ NoOne \notin Callers \cup Nat

VARIABLES
    now,
    proc,       \* per id: the shell, its descendant, what they have written
    sess,       \* per id: what the _ExecSession object holds
    sessions,   \* the ids that are registered
    lock,       \* who holds the manager's lock
    call,       \* what each caller is at
    left,       \* what the environment may still do
    \* What the properties remember, per id:
    told,       \* the pieces a caller was given
    lost,       \* the pieces a call had taken when it was stopped or failed
    ended       \* a call has reported the end of the session

vars == <<now, proc, sess, sessions, lock, call, left, told, lost, ended>>
history == <<told, lost, ended>>

-----------------------------------------------------------------------------
Idle == [pc |-> "idle", op |-> "none", chat |-> NoOne, sid |-> NoOne, with |-> "none",
         sweep |-> {}, until |-> 0, got |-> {}, rounds |-> 0, done |-> FALSE]

NoProcess == [shell |-> "none", kid |-> FALSE, wrote |-> 0]

NoSession == [chat |-> NoOne, deadline |-> 0, access |-> 0, read |-> 0, taken |-> 0, reader |-> "none"]

Init ==
    /\ now = 0
    /\ proc = [s \in Sids |-> NoProcess]
    /\ sess = [s \in Sids |-> NoSession]
    /\ sessions = {} /\ lock = NoOne
    /\ call = [c \in Callers |-> Idle]
    /\ left \in Environments
    /\ told = [s \in Sids |-> {}] /\ lost = [s \in Sids |-> {}]
    /\ ended = {}

Exited(p) == p.shell = "exited"
Made == {s \in Sids : proc[s].shell # "none"}

\* process.kill(): a signal to the shell, not to its descendants.
Killed(p) == IF Exited(p) THEN p ELSE [p EXCEPT !.shell = "killed"]

Stale == {s \in sessions : now - sess[s].access > IdleTimeout}

(***************************************************************************)
(* Polling.  Each operator gives the caller's next wait, k being its call  *)
(* so far, p and x the process and the session.                            *)
(***************************************************************************)
At(c, k, p, x) ==
    /\ call' = [call EXCEPT ![c] = k]
    /\ proc' = [proc EXCEPT ![k.sid] = p]
    /\ sess' = [sess EXCEPT ![k.sid] = x]

\* Take what the readers have gathered.
Take(c, k, p, x) ==
    At(c, [k EXCEPT !.pc = IF Exited(p) THEN "pop" ELSE "return", !.done = Exited(p),
                    !.got = @ \cup (x.taken + 1 .. x.read)],
       p, [x EXCEPT !.taken = x.read])

\* Mutant: the output is taken before the readers have finished.
GatherNothing(c, k, p, x) == Take(c, k, p, x)

\* Of an exited process the readers are awaited first.  Those that another
\* call's wait has cancelled cancel this one.
Gather(c, k, p, x) ==
    \/ ~Exited(p) /\ Take(c, k, p, x)
    \/ Exited(p) /\ x.reader = "done" /\ Take(c, k, p, x)
    \/ Exited(p) /\ x.reader = "reading" /\ At(c, [k EXCEPT !.pc = "gather"], p, x)
    \/ Exited(p) /\ x.reader = "cancelled" /\ At(c, [k EXCEPT !.pc = "leak"], p, x)

\* A process past its deadline is killed, by a poll only.
Expire(c, k, p, x) ==
    IF ~Exited(p) /\ now >= x.deadline
    THEN At(c, [k EXCEPT !.pc = "expire"], Killed(p), x)
    ELSE Gather(c, k, p, x)

\* A poll counts as an access; it may wait for output first.
BeginPoll(c, k, p, x) ==
    LET seen == [x EXCEPT !.access = now]
    IN  \/ ~Exited(p) /\ At(c, [k EXCEPT !.pc = "sleep", !.until = now + PollMax], p, seen)
        \/ Expire(c, [k EXCEPT !.until = now + PollMax], p, seen)

-----------------------------------------------------------------------------
(***************************************************************************)
(* The calls.                                                              *)
(***************************************************************************)
\* A turn or a sub-agent calls exec, write_stdin (to poll, write or terminate,
\* with or without wait_for) or list_exec_sessions, on an id it has seen.
Call(c) ==
    /\ call[c].pc = "idle" /\ left.calls > 0
    /\ \E ch \in left.chats :
          LET k == [Idle EXCEPT !.pc = "lock", !.chat = ch]
          IN  \/ \E op \in {"exec", "list"} \cap left.ops : call' = [call EXCEPT ![c] = [k EXCEPT !.op = op]]
              \/ \E op \in {"write", "wait"} \cap left.ops, s \in Made, with \in {"none", "chars", "kill"} :
                    call' = [call EXCEPT ![c] = [k EXCEPT !.op = op, !.sid = s, !.with = with]]
    /\ left' = [left EXCEPT !.calls = @ - 1]
    /\ UNCHANGED <<now, proc, sess, sessions, lock, history>>

\* The manager's lock is free: take it and list the idle sessions.
Lock(c) ==
    /\ call[c].pc = "lock" /\ lock = NoOne
    /\ lock' = c
    /\ call' = [call EXCEPT ![c].pc = "sweep", ![c].sweep = Stale]
    /\ UNCHANGED <<now, proc, sess, sessions, left, history>>

\* Mutant: an idle session is forgotten and its process left alone.
SweepOnly(c) ==
    /\ call[c].pc = "sweep"
    /\ \E s \in call[c].sweep :
          /\ sessions' = sessions \ {s}
          /\ call' = [call EXCEPT ![c].sweep = @ \ {s}]
    /\ UNCHANGED <<now, proc, sess, lock, left, history>>

\* Remove the next idle session and kill its process.
Sweep(c) ==
    /\ call[c].pc = "sweep"
    /\ \E s \in call[c].sweep :
          /\ sessions' = sessions \ {s}
          /\ proc' = [proc EXCEPT ![s] = Killed(@)]
          /\ call' = [call EXCEPT ![c].sweep = @ \ {s}, ![c].pc = IF Exited(proc[s]) THEN @ ELSE "swept"]
    /\ UNCHANGED <<now, sess, lock, left, history>>

\* The awaits of kill() end with the process or after five seconds.
KillWaited(c) ==
    \/ /\ call[c].pc = "swept"
       /\ call' = [call EXCEPT ![c].pc = "sweep"]
       /\ UNCHANGED <<proc, sess>>
    \/ /\ call[c].pc = "kill"
       /\ BeginPoll(c, call[c], proc[call[c].sid], sess[call[c].sid])
    \/ /\ call[c].pc = "expire"
       /\ Gather(c, call[c], proc[call[c].sid], sess[call[c].sid])

\* Mutant: a kill is awaited for as long as the process takes.
WaitsForDeath(c) ==
    /\ call[c].pc \in {"swept", "kill", "expire"}
    /\ call[c].pc # "swept" => Exited(proc[call[c].sid])

WaitsForKill(c) == call[c].pc \in {"swept", "kill", "expire"}

AfterKill(c) ==
    /\ WaitsForKill(c) /\ KillWaited(c)
    /\ UNCHANGED <<now, sessions, lock, left, history>>

Swept(c, op) == call[c].pc = "sweep" /\ call[c].sweep = {} /\ call[c].op \in op

\* list_exec_sessions returns; so does an exec that finds no room, and a
\* write to a session that is unknown or of another chat.  What a wait_for has
\* gathered until then goes with it.
Refuse(c) ==
    /\ \/ Swept(c, {"list"})
       \/ Swept(c, {"exec"}) /\ Cardinality(sessions) >= MaxSessions
       \/ Swept(c, {"write", "wait"})
             /\ (call[c].sid \notin sessions \/ sess[call[c].sid].chat # call[c].chat)
    /\ lock' = NoOne
    /\ lost' = [s \in Sids |-> IF s = call[c].sid THEN lost[s] \cup call[c].got ELSE lost[s]]
    /\ call' = [call EXCEPT ![c] = Idle]
    /\ UNCHANGED <<now, proc, sess, sessions, left, told, ended>>

\* There is room: the shell is being started, under the lock.
Spawn(c) ==
    /\ Swept(c, {"exec"}) /\ Cardinality(sessions) < MaxSessions
    /\ call' = [call EXCEPT ![c].pc = "spawn"]
    /\ UNCHANGED <<now, proc, sess, sessions, lock, left, history>>

\* It runs: register the session, release the lock and poll.
Started(c) ==
    /\ call[c].pc = "spawn"
    /\ LET s == Cardinality(Made) + 1
       IN /\ s \in Sids
          /\ sessions' = sessions \cup {s}
          /\ BeginPoll(c, [call[c] EXCEPT !.sid = s], [NoProcess EXCEPT !.shell = "runs"],
                       [chat |-> call[c].chat, deadline |-> now + Timeout, access |-> now,
                        read |-> 0, taken |-> 0, reader |-> "reading"])
    /\ lock' = IF lock = c THEN NoOne ELSE lock
    /\ UNCHANGED <<now, left, history>>

\* terminate, then the poll.
Terminate(c, k, p, x) ==
    IF k.with = "kill" /\ ~Exited(p) THEN At(c, [k EXCEPT !.pc = "kill", !.until = now + PollMax], Killed(p), x)
    ELSE BeginPoll(c, k, p, x)

\* The session is found: release the lock, write to stdin first or poll.
Found(c) ==
    /\ Swept(c, {"write", "wait"})
    /\ call[c].sid \in sessions /\ sess[call[c].sid].chat = call[c].chat
    /\ lock' = NoOne
    /\ LET k == call[c]  p == proc[k.sid]  x == sess[k.sid]
       IN  IF k.with = "chars" THEN At(c, [k EXCEPT !.pc = "write"], p, x) ELSE Terminate(c, k, p, x)
    /\ UNCHANGED <<now, sessions, left, history>>

\* The process has taken the input (drain(), wait_closed()): no time limit.
Written(c) ==
    /\ call[c].pc = "write"
    /\ LET k == call[c]
       IN  ~Exited(proc[k.sid]) /\ Terminate(c, k, proc[k.sid], sess[k.sid])
    /\ UNCHANGED <<now, sessions, lock, left, history>>

\* The process was gone or goes meanwhile: an error, and the session stays.
WriteFails(c) ==
    /\ call[c].pc = "write" /\ proc[call[c].sid].shell # "runs"
    /\ call' = [call EXCEPT ![c] = Idle]
    /\ UNCHANGED <<now, proc, sess, sessions, lock, left, history>>

\* The time a poll waits for output is over.
Slept(c) ==
    /\ call[c].pc = "sleep"
    /\ Expire(c, call[c], proc[call[c].sid], sess[call[c].sid])
    /\ UNCHANGED <<now, sessions, lock, left, history>>

\* The readers have ended, or were cancelled by another call, or two seconds
\* have passed: then wait_for cancels them.
Gathered(c) ==
    /\ call[c].pc = "gather"
    /\ LET k == call[c]  p == proc[k.sid]  x == sess[k.sid]
       IN  \/ x.reader # "reading" /\ Gather(c, k, p, x)
           \/ x.reader = "reading" /\ p.kid /\ Take(c, k, p, [x EXCEPT !.reader = "cancelled"])
    /\ UNCHANGED <<now, sessions, lock, left, history>>

\* The poll that saw the end forgets the session, under the lock.
Pop(c) ==
    /\ call[c].pc = "pop" /\ lock = NoOne
    /\ sessions' = sessions \ {call[c].sid}
    /\ call' = [call EXCEPT ![c].pc = "return"]
    /\ UNCHANGED <<now, proc, sess, lock, left, history>>

\* The caller gets the output, and is told of the end.
Return(c) ==
    /\ call[c].pc = "return"
    /\ told' = [told EXCEPT ![call[c].sid] = @ \cup call[c].got]
    /\ ended' = IF call[c].done THEN ended \cup {call[c].sid} ELSE ended
    /\ call' = [call EXCEPT ![c] = Idle]
    /\ UNCHANGED <<now, proc, sess, sessions, lock, left, lost>>

\* wait_for: the text has not come and there is time, so poll again, with
\* what was gathered kept aside.
Again(c) ==
    /\ call[c].pc = "return" /\ call[c].op = "wait" /\ ~call[c].done
    /\ call[c].rounds < MaxRounds - 1
    /\ call' = [call EXCEPT ![c].pc = "lock", ![c].with = "none", ![c].rounds = @ + 1]
    /\ UNCHANGED <<now, proc, sess, sessions, lock, left, history>>

\* A call that awaits ends without an answer.
Drop(c) ==
    /\ lost' = [s \in Sids |-> IF s = call[c].sid THEN lost[s] \cup call[c].got ELSE lost[s]]
    /\ call' = [call EXCEPT ![c] = Idle]
    /\ UNCHANGED <<now, proc, sessions, told, ended>>

\* The cancellation of the readers reaches a call that nobody stopped.
Leak(c) ==
    /\ call[c].pc = "leak"
    /\ Drop(c)
    /\ UNCHANGED <<sess, lock, left>>

\* /stop, a timeout of the sub-agent: the task is cancelled where it awaits.
\* A shell that is being started is ended by asyncio; readers that are awaited
\* are cancelled; a lock that is held is released.
Stop(c) ==
    /\ call[c].pc \in {"lock", "swept", "spawn", "write", "kill", "sleep", "expire", "gather", "pop"}
    /\ left.stops > 0 /\ left' = [left EXCEPT !.stops = @ - 1]
    /\ Drop(c)
    /\ lock' = IF lock = c THEN NoOne ELSE lock
    /\ sess' = IF call[c].pc = "gather" /\ sess[call[c].sid].reader = "reading"
               THEN [sess EXCEPT ![call[c].sid].reader = "cancelled"] ELSE sess

-----------------------------------------------------------------------------
(***************************************************************************)
(* The processes, the reader tasks and the clock.                          *)
(***************************************************************************)
\* A running shell or its descendant writes.
Writes(s) ==
    /\ proc[s].shell = "runs" \/ proc[s].kid
    /\ proc[s].wrote < left.pieces
    /\ proc' = [proc EXCEPT ![s].wrote = @ + 1]
    /\ UNCHANGED <<now, sess, sessions, lock, call, left, history>>

Forks(s) ==
    /\ left.forks /\ proc[s].shell = "runs" /\ ~proc[s].kid
    /\ proc' = [proc EXCEPT ![s].kid = TRUE]
    /\ UNCHANGED <<now, sess, sessions, lock, call, left, history>>

KidExits(s) ==
    /\ proc[s].kid
    /\ proc' = [proc EXCEPT ![s].kid = FALSE]
    /\ UNCHANGED <<now, sess, sessions, lock, call, left, history>>

\* The event loop learns that the shell has exited.
Exits(s) ==
    /\ proc[s].shell \in {"runs", "killed"}
    /\ proc' = [proc EXCEPT ![s].shell = "exited"]
    /\ UNCHANGED <<now, sess, sessions, lock, call, left, history>>

\* The reader tasks gather what was written, and end with the pipe.
Reads(s) ==
    /\ sess[s].reader = "reading"
    /\ \/ sess[s].read < proc[s].wrote /\ sess' = [sess EXCEPT ![s].read = @ + 1]
       \/ /\ sess[s].read = proc[s].wrote /\ Exited(proc[s]) /\ ~proc[s].kid
          /\ sess' = [sess EXCEPT ![s].reader = "done"]
    /\ UNCHANGED <<now, proc, sessions, lock, call, left, history>>

Polling == {"kill", "sleep", "expire", "gather"}

\* The event loop keeps up with the timers of the polls.
Tick ==
    /\ now < left.horizon
    /\ \A c \in Callers : call[c].pc \in Polling => now < call[c].until
    /\ now' = now + 1
    /\ UNCHANGED <<proc, sess, sessions, lock, call, left, history>>

CallStep(c) ==
    \/ Sweep(c) \/ AfterKill(c) \/ Refuse(c) \/ Spawn(c) \/ Started(c) \/ Found(c)
    \/ WriteFails(c) \/ Slept(c) \/ Gathered(c) \/ Return(c) \/ Leak(c)

Next ==
    \/ \E c \in Callers : Call(c) \/ Lock(c) \/ CallStep(c) \/ Written(c) \/ Pop(c) \/ Again(c) \/ Stop(c)
    \/ \E s \in Sids : Writes(s) \/ Forks(s) \/ KidExits(s) \/ Exits(s) \/ Reads(s)
    \/ Tick

Spec == Init /\ [][Next]_vars

\* Tasks that can run do, timers fire, and the lock is first come, first
\* served.  Processes may run for ever and never read their input.
Fairness ==
    /\ \A c \in Callers : WF_vars(CallStep(c)) /\ SF_vars(Lock(c)) /\ SF_vars(Pop(c))
    /\ \A s \in Sids : WF_vars(Reads(s))

FairSpec == Spec /\ Fairness

-----------------------------------------------------------------------------
Pcs == {"idle", "lock", "sweep", "swept", "spawn", "write", "pop", "return", "leak"} \cup Polling

\* The type of the state.  What is read was written, what is taken was read
\* (_ExecSession._read_stream, poll).
TypeOK ==
    /\ now \in 0 .. left.horizon
    /\ proc \in [Sids -> [shell : {"none", "runs", "killed", "exited"}, kid : BOOLEAN, wrote : 0 .. left.pieces]]
    /\ \A s \in Sids :
          /\ sess[s].reader \in {"none", "reading", "done", "cancelled"}
          /\ 0 <= sess[s].taken /\ sess[s].taken <= sess[s].read /\ sess[s].read <= proc[s].wrote
          /\ sess[s].access <= now
    /\ sessions \subseteq Made /\ ended \subseteq Made
    /\ lock \in Callers \cup {NoOne}
    /\ \A c \in Callers : call[c].pc \in Pcs /\ call[c].sid \in Sids \cup {NoOne} /\ call[c].rounds < MaxRounds
    /\ \A s \in Sids : told[s] \cup lost[s] \subseteq 1 .. left.pieces

\* No shell runs behind the manager's back: one that was not signalled is
\* registered, whoever started it was stopped, and whatever the sweep, the
\* expiry and the polls of other callers did (ExecSessionManager).
NoStrayShell == \A s \in Sids : proc[s].shell = "runs" => s \in sessions

\* The limit holds for starts that overlap (ExecSessionManager.start).
WithinLimit == Cardinality(sessions) <= MaxSessions

\* The sweep does not take a session from a call that waits for its output:
\* the wait is over before the session can be idle.  A call that wrote first
\* may have been held up for longer (_cleanup_locked, poll).
PolledIsKept ==
    \A c \in Callers :
        call[c].pc = "sleep" /\ call[c].with = "none" /\ call[c].sid \notin sessions
            => Exited(proc[call[c].sid])

InHand(s) == UNION {call[c].got : c \in {d \in Callers : call[d].sid = s}}

\* When a session's end is reported and the readers got to the end of its
\* output, callers have all of it, or hold it, or lost it with a stopped or
\* failed call; and no piece twice (_ExecSession.poll).
WholeOutput ==
    \A s \in Sids :
        /\ s \in ended /\ sess[s].reader \in {"done", "reading"}
              => told[s] \cup lost[s] \cup InHand(s) = 1 .. proc[s].wrote
        /\ told[s] \cap (lost[s] \cup InHand(s)) = {}

\* A session whose end was reported is not listed or found again
\* (ExecSessionManager.start and write).
EndIsFinal == ended \cap sessions = {}

\* The types, and what the registry promises of the sessions: it has every shell,
\* keeps to its limit, leaves a session to the call that polls it and does not
\* bring one back (ExecSessionManager).
RegistryConsistent == TypeOK /\ NoStrayShell /\ WithinLimit /\ PolledIsKept /\ EndIsFinal

\* A call ends, unless its process neither reads its input nor exits: the
\* lock goes round, and the waits for a kill and for the readers are bounded.
CallReturns ==
    \A c \in Callers : call[c].pc # "idle" ~> call[c].pc \in {"idle", "write"}
=============================================================================
