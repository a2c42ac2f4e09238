-------------------------------- MODULE Cron --------------------------------
(***************************************************************************)
(* The cron service of the gateway (cron/service.py): a table of jobs in   *)
(* memory, the store file it is saved to, the action log in which other    *)
(* processes (an SDK program, the command line) leave their changes, the   *)
(* sleeping timer and the tasks that run what is due.                      *)
(*                                                                         *)
(* The gateway's side runs in one event loop, so a step is what runs       *)
(* between two awaits; a job is awaited while it runs.  The other process  *)
(* is interleaved with it and takes the file lock only to append.  A tick  *)
(* of the timer and the task it spawns are one step.  A job that ignores   *)
(* its cancellation and a request whose own save fails are left out.  Time *)
(* is a small counter; like the code, 0 stands for "no time".              *)
(***************************************************************************)
EXTENDS Naturals, Sequences, FiniteSetsExt, SequencesExt

CONSTANTS
    Jobs,           \* job ids
    System,         \* jobs the gateway registers itself, with catch_up_on_start
    Schedule,       \* for each job: "every", "at" (kept when run), "once" (deleted)
    Interval,       \* every_ms
    AtTime,         \* at_ms of the one-shot jobs
    MaxSleep,       \* max_sleep_ms
    Environments,   \* what may happen around the service: sets of Events
    Slots,          \* exec tasks at once at most (a bound of the model)
    Horizon,        \* the clock ends here (a bound of the model)
    MaxJobs,        \* user's jobs at once (a bound of the model)
    MaxOps,         \* requests and external changes (a bound of the model)
    MaxBoots,       \* starts of the service (a bound of the model)
    NoJob

\* "config": requests of the web interface and the cron tool that change jobs.
\* "late": such requests to a service that is stopping.  "list": requests
\* that only read.  "external": another process changes jobs.
\* "stop", "crash": the gateway ends.  "disk": the save after a run fails.
\* "corrupt": the store file is found unreadable.
Events == {"config", "late", "list", "external", "stop", "crash", "disk", "corrupt"}

ASSUME CronAssumption ==
    /\ System \subseteq Jobs /\ NoJob \notin Jobs
    /\ Schedule \in [Jobs -> {"every", "at", "once"}]
    /\ \A j \in System : Schedule[j] = "every"
    /\ {Interval, MaxSleep, Slots, AtTime, Horizon, MaxBoots} \subseteq Nat \ {0}
    /\ {MaxOps, MaxJobs} \subseteq Nat
    /\ Environments \subseteq SUBSET Events

VARIABLES
    env,        \* what may happen in this behaviour
    now,        \* the clock
    proc,       \* the gateway: "down", "running", "stopping"
    mem,        \* _store.jobs
    file,       \* the jobs in the store file
    bad,        \* the store file is unreadable
    log,        \* action.jsonl
    wake,       \* when the timer's sleep ends, 0 when there is no sleep
    tasks,      \* _exec_tasks
    active,     \* _timer_active
    ext,        \* what the other process is about to append, if anything
    ops, boots, \* counters of the bounds
    \* What the properties remember:
    acked,      \* jobs added with success, neither removed nor run to their end
    removed,    \* jobs removed with success
    raced,      \* of those, jobs of which another process had a change under way
    torn,       \* jobs whose logged change a crash within a merge took
    met,        \* a change of the configuration met a running job
    ran,        \* for each job the last due time it was run for
    twice       \* jobs run again for a due time they were run for

timer == <<wake, tasks, active>>
disk == <<file, bad, log>>
history == <<acked, removed, raced, torn, met, ran, twice>>
cronVars == <<env, now, proc, mem, disk, timer, ext, ops, boots, history>>

-----------------------------------------------------------------------------
Job == [on : BOOLEAN, next : Nat, last : 0 .. Horizon]
IsTable(m) == DOMAIN m \subseteq Jobs /\ \A j \in DOMAIN m : m[j] \in Job
Idle == [cur |-> NoJob, due |-> 0, at |-> 0, todo |-> <<>>, lost |-> {}]

\* _compute_next_run.  A one-shot whose time has passed has no next run.
NextRun(j) ==
    IF Schedule[j] = "every" THEN now + Interval
    ELSE IF AtTime > now THEN AtTime ELSE 0

NewJob(j) == [on |-> TRUE, next |-> NextRun(j), last |-> 0]
Put(m, j, job) == [i \in DOMAIN m \cup {j} |-> IF i = j THEN job ELSE m[i]]
Drop(m, S) == [i \in DOMAIN m \ S |-> m[i]]

\* What the service holds and what the disk holds.
Store == [mem |-> mem, file |-> file, bad |-> bad, log |-> log, fresh |-> FALSE]

\* The lines of the action log are applied one after another: the last line
\* of a job decides, and a "del" of an unknown id raises and is skipped.
Replayed(m, lines) ==
    LET named == {lines[i].id : i \in DOMAIN lines}
        last(j) == lines[Max({i \in DOMAIN lines : lines[i].id = j})]
    IN  [j \in {i \in DOMAIN m \cup named : i \in named => last(i).op # "del"} |->
            IF j \in named THEN last(j).job ELSE m[j]]

\* _merge_action: the jobs after the log, and whether a line changed anything.
Merge(st) ==
    [jobs |-> Replayed(st.file, st.log),
     changed |-> \E i \in DOMAIN st.log : st.log[i].op # "del" \/ st.log[i].id \in DOMAIN st.file]
Merged == Merge(Store)

\* Mutant: the log is emptied, the merged table not saved.
LoadUnsaved(st) ==
    LET merged == Merge(st)
    IN  CASE active -> st
          [] ~active /\ st.bad -> [st EXCEPT !.file = <<>>, !.bad = FALSE]
          [] OTHER -> [mem |-> merged.jobs, bad |-> FALSE, fresh |-> TRUE, file |-> st.file,
                       log |-> IF proc = "running" THEN <<>> ELSE st.log]

(***************************************************************************)
(* _load_store.  While a timer task is at work the table in memory is      *)
(* used.  Otherwise file and log are read anew, into new objects; the      *)
(* service that runs then empties the log and saves.  An unreadable file   *)
(* is moved aside and the table kept.                                      *)
(***************************************************************************)
Load(st) ==
    LET merged == Merge(st)
        save == proc = "running" /\ merged.changed
    IN  CASE active -> st
          [] ~active /\ st.bad -> [st EXCEPT !.file = <<>>, !.bad = FALSE]
          [] OTHER -> [mem |-> merged.jobs, bad |-> FALSE, fresh |-> TRUE,
                       file |-> IF save THEN merged.jobs ELSE st.file,
                       log |-> IF save THEN <<>> ELSE st.log]
Loaded == Load(Store)

Busy == {s \in 1 .. Slots : tasks[s].cur # NoJob}

\* New objects: what the tasks at work hold is no longer in the table.
Detached(l) ==
    [s \in 1 .. Slots |-> IF l.fresh /\ s \in Busy THEN [tasks[s] EXCEPT !.lost = Jobs]
                                                   ELSE tasks[s]]

\* _get_next_wake_ms and _arm_timer: when the sleep over table m ends.
NextWake(m) ==
    LET due == {m[j].next : j \in {i \in DOMAIN m : m[i].on /\ m[i].next # 0}}
        delay == IF due = {} THEN MaxSleep
                 ELSE IF Min(due) <= now THEN 0
                 ELSE Min({Min(due) - now, MaxSleep})
    IN  now + delay

-----------------------------------------------------------------------------
\* The gateway is not up yet.  Its user's jobs are in the file.
CronInit ==
    /\ env \in Environments
    /\ now = 1
    /\ proc = "down"
    /\ mem = <<>>
    /\ \E S \in {T \in SUBSET (Jobs \ System) : Cardinality(T) <= MaxJobs} :
        /\ file = [j \in S |-> NewJob(j)]
        /\ acked = S
    /\ bad = FALSE
    /\ log = <<>>
    /\ wake = 0
    /\ tasks = [s \in 1 .. Slots |-> Idle]
    /\ active = FALSE
    /\ ext = <<>>
    /\ ops = 0 /\ boots = 0
    /\ removed = {} /\ raced = {} /\ torn = {} /\ met = FALSE
    /\ ran = [j \in Jobs |-> 0] /\ twice = {}

Tick ==
    /\ now < Horizon
    /\ now' = now + 1
    /\ UNCHANGED <<env, proc, mem, disk, timer, ext, ops, boots, history>>

\* Mutant: the last run of the table is not taken over.
RegisteredAnew(m, j) == Put(m, j, NewJob(j))

(***************************************************************************)
(* The life of the service.                                                *)
(***************************************************************************)
\* register_system_job: the schedule anew, the last run from the table.
Registered(m, j) ==
    Put(m, j, [NewJob(j) EXCEPT !.last = IF j \in DOMAIN m THEN m[j].last ELSE 0])

AllRegistered(m) ==
    [j \in DOMAIN m \cup System |-> IF j \in System THEN Registered(m, j)[j] ELSE m[j]]

\* _recompute_next_runs and _apply_catch_up.
Restarted(m) ==
    [j \in DOMAIN m |->
        IF ~m[j].on THEN m[j]
        ELSE [m[j] EXCEPT !.next =
                IF j \in System /\ (m[j].last = 0 \/ m[j].last + Interval <= now)
                THEN now ELSE NextRun(j)]]

\* The gateway registers its jobs, which saves the merged table but keeps the
\* log, and starts the service, which merges once more (no await between).
Boot ==
    /\ proc = "down" /\ boots < MaxBoots /\ ~bad
    /\ LET registered == AllRegistered(Merged.jobs)
           again == Merge([file |-> IF System = {} THEN file ELSE registered, log |-> log])
           m == Restarted(again.jobs)
       IN  /\ mem' = m /\ file' = m
           /\ log' = IF again.changed THEN <<>> ELSE log
           /\ wake' = NextWake(m)
    /\ proc' = "running"
    /\ boots' = boots + 1
    /\ UNCHANGED <<env, now, bad, tasks, active, ext, ops, history>>

\* stop: the sleep is cancelled, the tasks are asked to end.
Stop ==
    /\ "stop" \in env /\ proc = "running"
    /\ proc' = "stopping" /\ wake' = 0
    /\ UNCHANGED <<env, now, mem, disk, tasks, active, ext, ops, boots, history>>

Gone ==
    /\ proc' = "down" /\ mem' = <<>> /\ wake' = 0 /\ active' = FALSE
    /\ tasks' = [s \in 1 .. Slots |-> Idle]

\* await_stop is over and the process ends.
Exit ==
    /\ proc = "stopping" /\ Busy = {}
    /\ Gone
    /\ UNCHANGED <<env, now, disk, ext, ops, boots, history>>

Crash ==
    /\ "crash" \in env /\ proc # "down"
    /\ Gone
    /\ UNCHANGED <<env, now, disk, ext, ops, boots, history>>

\* A crash within _merge_action: the log is emptied, the table not yet saved.
CrashInMerge ==
    /\ "crash" \in env /\ proc = "running"
    /\ ~active /\ ~bad /\ Merged.changed
    /\ log' = <<>>
    /\ torn' = torn \cup {log[i].id : i \in DOMAIN log}
    /\ Gone
    /\ UNCHANGED <<env, now, file, bad, ext, ops, boots,
                   acked, removed, raced, met, ran, twice>>

\* Somebody spoils the file (the service itself replaces it atomically).
Corrupt ==
    /\ "corrupt" \in env /\ proc = "running" /\ ~bad
    /\ bad' = TRUE
    /\ UNCHANGED <<env, now, proc, mem, file, log, timer, ext, ops, boots, history>>

(***************************************************************************)
(* The timer.  A task holds the jobs that were due when it began, as       *)
(* objects of the table of that moment, and runs them one after another.   *)
(***************************************************************************)
Begins(j, due) ==
    /\ ran' = [ran EXCEPT ![j] = due]
    /\ twice' = IF due <= ran[j] THEN twice \cup {j} ELSE twice

\* Mutant: the timer task returns without its last steps.
EndOfTimerStuck(m, l, w) ==
    /\ mem' = m /\ log' = l.log /\ file' = m /\ bad' = FALSE
    /\ wake' = w /\ active' = TRUE

\* The end of _on_timer: save, then sleep again.  When the save raises there
\* is no new sleep (w stays), and _exec_task_done tries to save once more.
EndOfTimer(m, l, w) ==
    /\ mem' = m /\ active' = FALSE /\ log' = l.log
    /\ \/ /\ file' = m /\ bad' = FALSE
          /\ wake' = NextWake(m)
       \/ /\ "disk" \in env
          /\ \/ file' = l.file /\ bad' = l.bad
             \/ file' = m /\ bad' = FALSE
          /\ wake' = w

Due(m) == {j \in DOMAIN m : m[j].on /\ m[j].next # 0 /\ m[j].next <= now}

\* Mutant: the next sleep is armed when the task begins.
BeginRunArmed(l, j) ==
    /\ Busy # 1 .. Slots
    /\ tasks' = [Detached(l) EXCEPT ![Min((1 .. Slots) \ Busy)] =
          [cur |-> j, due |-> l.mem[j].next, at |-> now,
           todo |-> [k \in Due(l.mem) \ {j} |-> l.mem[k].next], lost |-> {}]]
    /\ Begins(j, l.mem[j].next)
    /\ active' = TRUE /\ wake' = NextWake(l.mem)
    /\ mem' = l.mem /\ file' = l.file /\ bad' = l.bad /\ log' = l.log

\* A task begins with job j.  There is no sleep until it has run all that is due.
BeginRun(l, j) ==
    /\ Busy # 1 .. Slots
    /\ tasks' = [Detached(l) EXCEPT ![Min((1 .. Slots) \ Busy)] =
          [cur |-> j, due |-> l.mem[j].next, at |-> now,
           todo |-> [k \in Due(l.mem) \ {j} |-> l.mem[k].next], lost |-> {}]]
    /\ Begins(j, l.mem[j].next)
    /\ active' = TRUE /\ wake' = 0
    /\ mem' = l.mem /\ file' = l.file /\ bad' = l.bad /\ log' = l.log

\* tick and the beginning of _on_timer, up to the first await.
OnTimer ==
    /\ proc = "running" /\ wake # 0 /\ wake <= now
    /\ LET l == Loaded
       IN  \/ /\ Due(l.mem) = {}
              /\ EndOfTimer(l.mem, l, 0)
              /\ tasks' = Detached(l)
              /\ UNCHANGED <<ran, twice>>
           \/ \E j \in Due(l.mem) : BeginRun(l, j)
    /\ UNCHANGED <<env, now, proc, ext, ops, boots, acked, removed, raced, torn, met>>

\* The table after _execute_job.  A task changes its own object; it is the one
\* of the table unless the table was read anew or the job registered again.
Finished(t) ==
    LET j == t.cur
        own == j \in DOMAIN mem /\ j \notin t.lost
    IN  CASE Schedule[j] = "once" -> Drop(mem, {j})
          [] Schedule[j] = "at" /\ own -> [mem EXCEPT ![j] = [on |-> FALSE, next |-> 0,
                                                              last |-> t.at]]
          [] Schedule[j] = "every" /\ own -> [mem EXCEPT ![j].next = NextRun(j),
                                                         ![j].last = t.at]
          [] OTHER -> mem

\* The task goes on to job k.
GoneOn(t, k) ==
    [t EXCEPT !.cur = k, !.due = t.todo[k], !.at = now, !.todo = Drop(t.todo, {k})]

\* A job ends, well or with an error; the task goes on to its next one.
FinishJob(s) ==
    /\ proc = "running" /\ s \in Busy
    /\ LET t == tasks[s]
           m == Finished(t)
       IN  /\ acked' = IF Schedule[t.cur] = "once" THEN acked \ {t.cur} ELSE acked
           /\ \/ /\ t.todo = <<>>
                 /\ tasks' = [tasks EXCEPT ![s] = Idle]
                 /\ EndOfTimer(m, Store, wake)
                 /\ UNCHANGED <<ran, twice>>
              \/ \E k \in DOMAIN t.todo :
                 /\ tasks' = [tasks EXCEPT ![s] = GoneOn(t, k)]
                 /\ Begins(k, t.todo[k])
                 /\ mem' = m
                 /\ UNCHANGED <<disk, wake, active>>
    /\ UNCHANGED <<env, now, proc, ext, ops, boots, removed, raced, torn, met>>

\* A job is cancelled by stop: it is rescheduled, whatever its kind, the task
\* ends, and _exec_task_done saves.
CancelJob(s) ==
    /\ proc = "stopping" /\ s \in Busy
    /\ LET t == tasks[s]
           own == t.cur \in DOMAIN mem /\ t.cur \notin t.lost
           m == IF own THEN [mem EXCEPT ![t.cur].next = NextRun(t.cur),
                                        ![t.cur].last = t.at]
                ELSE mem
       IN  mem' = m /\ file' = m
    /\ bad' = FALSE /\ active' = FALSE
    /\ tasks' = [tasks EXCEPT ![s] = Idle]
    /\ UNCHANGED <<env, now, proc, log, wake, ext, ops, boots, history>>

(***************************************************************************)
(* Requests to the gateway.  All of them load first.  A running service    *)
(* saves and arms the timer anew, which leaves running jobs alone; one     *)
(* that does not run appends to the action log.                            *)
(***************************************************************************)
Asks ==
    /\ \/ "config" \in env /\ proc = "running"
       \/ "late" \in env /\ proc = "stopping"
    /\ ops < MaxOps /\ ops' = ops + 1


\* m is the changed table, kept the one of a service that does not run.
Commit(l, m, kept, e) ==
    /\ tasks' = Detached(l)
    /\ IF proc = "running"
       THEN /\ mem' = m /\ file' = m /\ bad' = FALSE /\ log' = l.log
            /\ wake' = NextWake(m)
       ELSE /\ mem' = kept /\ file' = l.file /\ bad' = l.bad /\ log' = Append(l.log, e)
            /\ wake' = wake
    /\ met' = (met \/ Busy # {})
    /\ UNCHANGED <<env, now, proc, active, ext, boots, torn, ran, twice>>

\* Ids are never used twice.
Unused(j) ==
    /\ j \in Jobs \ (System \cup acked \cup removed) /\ ran[j] = 0
    /\ Cardinality(acked) < MaxJobs

Line(op, j, job) == [op |-> op, id |-> j, job |-> job]

\* add_job.  _generate_job_id loads as well, so a running service loads twice.
AddJob(j) ==
    /\ Asks
    /\ Unused(j)
    /\ LET first == Loaded
           l == IF proc = "running"
                THEN [Load(first) EXCEPT !.fresh = @ \/ first.fresh] ELSE first
       IN  Commit(l, Put(l.mem, j, NewJob(j)), l.mem, Line("add", j, NewJob(j)))
    /\ acked' = acked \cup {j}
    /\ UNCHANGED <<removed, raced>>

\* remove_job.  System jobs are protected.
RemoveJob(j) ==
    /\ Asks
    /\ LET l == Loaded
           m == Drop(l.mem, {j})
       IN  /\ j \in DOMAIN l.mem \ System
           /\ Commit(l, m, m, Line("del", j, l.mem[j]))
           /\ raced' = IF ext # <<>> \/ \E i \in DOMAIN l.log : l.log[i].id = j
                       THEN raced \cup {j} ELSE raced
    /\ acked' = acked \ {j} /\ removed' = removed \cup {j}

\* A service that stops may not have read that the job was removed: its line
\* comes after that of the removal.
Overtakes(j) ==
    raced' = IF proc = "stopping" /\ j \in removed THEN raced \cup {j} ELSE raced

Switched(job, j, on) == [job EXCEPT !.on = on, !.next = IF on THEN NextRun(j) ELSE 0]
Updated(job, j) == [job EXCEPT !.next = IF job.on THEN NextRun(j) ELSE @]

\* enable_job.
EnableJob(j, on) ==
    /\ Asks
    /\ LET l == Loaded
           job == Switched(l.mem[j], j, on)
           m == Put(l.mem, j, job)
       IN  /\ j \in DOMAIN l.mem
           /\ Commit(l, m, m, Line("update", j, job))
    /\ Overtakes(j)
    /\ UNCHANGED <<acked, removed>>

\* update_job: an enabled job is scheduled anew.
UpdateJob(j) ==
    /\ Asks
    /\ LET l == Loaded
           job == Updated(l.mem[j], j)
           m == Put(l.mem, j, job)
       IN  /\ j \in DOMAIN l.mem \ System
           /\ Commit(l, m, m, Line("update", j, job))
    /\ Overtakes(j)
    /\ UNCHANGED <<acked, removed>>

\* register_system_job after the configuration was read again: a new object.
Reregister(j) ==
    /\ Asks /\ proc = "running"
    /\ j \in System
    /\ LET l == Loaded
           m == Registered(l.mem, j)
       IN  /\ mem' = m /\ file' = m /\ bad' = FALSE /\ log' = l.log
           /\ wake' = NextWake(m)
           /\ tasks' = [s \in 1 .. Slots |-> [Detached(l)[s] EXCEPT
                            !.lost = IF s \in Busy THEN @ \cup {j} ELSE @]]
    /\ met' = (met \/ Busy # {})
    /\ UNCHANGED <<env, now, proc, active, ext, boots, acked, removed, raced, torn, ran, twice>>

\* list_jobs, get_job, status: they load and change nothing themselves.
ReadJobs ==
    /\ "list" \in env /\ proc # "down"
    /\ LET l == Loaded
       IN  /\ mem' = l.mem /\ file' = l.file /\ bad' = l.bad /\ log' = l.log
           /\ tasks' = Detached(l)
    /\ UNCHANGED <<env, now, proc, wake, active, ext, ops, boots, history>>

(***************************************************************************)
(* Another process with a service of its own that does not run: it loads,  *)
(* then appends a line.  An update is the whole job as it was loaded.      *)
(***************************************************************************)
ExtAdd(j) ==
    /\ "external" \in env /\ ops < MaxOps /\ ops' = ops + 1
    /\ Unused(j)
    /\ log' = Append(log, Line("add", j, NewJob(j)))
    /\ acked' = acked \cup {j}
    /\ UNCHANGED <<env, now, proc, mem, file, bad, timer, ext, boots,
                   removed, raced, torn, met, ran, twice>>

ExtLoad(j) ==
    /\ "external" \in env /\ ext = <<>> /\ ~bad /\ ops < MaxOps /\ ops' = ops + 1
    /\ j \in DOMAIN Merged.jobs \ System
    /\ LET job == Merged.jobs[j]
       IN  ext' \in {<<Line("del", j, job)>>,
                     <<Line("update", j, Switched(job, j, FALSE))>>,
                     <<Line("update", j, Switched(job, j, TRUE))>>}
    /\ UNCHANGED <<env, now, proc, mem, disk, timer, boots, history>>

ExtAppend ==
    /\ ext # <<>>
    /\ log' = log \o ext
    /\ ext' = <<>>
    /\ LET e == ext[1]
       IN  IF e.op = "del"
           THEN /\ acked' = acked \ {e.id} /\ removed' = removed \cup {e.id}
                /\ UNCHANGED raced
           ELSE /\ raced' = IF e.id \in removed THEN raced \cup {e.id} ELSE raced
                /\ UNCHANGED <<acked, removed>>
    /\ UNCHANGED <<env, now, proc, mem, file, bad, timer, ops, boots, torn, met, ran, twice>>

-----------------------------------------------------------------------------
Requests ==
    \E j \in Jobs :
        \/ AddJob(j) \/ RemoveJob(j) \/ UpdateJob(j) \/ Reregister(j)
        \/ \E on \in BOOLEAN : EnableJob(j, on)

External == ExtAppend \/ \E j \in Jobs : ExtAdd(j) \/ ExtLoad(j)

Runs == \E s \in 1 .. Slots : FinishJob(s) \/ CancelJob(s)

CronNext ==
    \/ Tick \/ Boot \/ Stop \/ Exit \/ Crash \/ CrashInMerge \/ Corrupt
    \/ OnTimer \/ Runs \/ Requests \/ ReadJobs \/ External

CronSpec == CronInit /\ [][CronNext]_cronVars

\* The event loop comes round to a timer that is due, and a job ends some day
\* (a turn has a limit of iterations, its calls have timeouts).
CronFairSpec == CronSpec /\ WF_cronVars(OnTimer) /\ WF_cronVars(Runs)

-----------------------------------------------------------------------------
\* The types, and a task holds the file lock of no one: idle slots are empty.
CronTypeOK ==
    /\ env \in Environments /\ now \in 1 .. Horizon
    /\ proc \in {"down", "running", "stopping"}
    /\ IsTable(mem) /\ IsTable(file) /\ bad \in BOOLEAN
    /\ \A i \in DOMAIN log :
        /\ log[i].op \in {"add", "del", "update"}
        /\ log[i].id \in Jobs /\ log[i].job \in Job
    /\ wake \in 0 .. Horizon + MaxSleep
    /\ \A s \in 1 .. Slots :
        \/ tasks[s] = Idle
        \/ /\ tasks[s].cur \in Jobs /\ tasks[s].cur \notin DOMAIN tasks[s].todo
           /\ DOMAIN tasks[s].todo \subseteq Jobs /\ proc # "down"
    /\ active \in BOOLEAN /\ (active => Busy # {})
    /\ Len(ext) <= 1 /\ ops \in 0 .. MaxOps /\ boots \in 0 .. MaxBoots

Quiet == env \cap {"external", "disk"} = {} /\ ~met

\* One task runs what is due, job after job, and no other runs beside it, as
\* long as no change of the configuration meets a running job.
RunsAreSerial == ~met => Cardinality(Busy) <= 1

\* A job is run once for a due time.  After a crash, or with an unreadable file,
\* the gateway may repeat a job of its own whose run was not saved (_apply_catch_up),
\* and no other.
OneRunPerDue ==
    Quiet => \A j \in twice : env \cap {"crash", "corrupt"} # {} /\ j \in System

\* The types, and that runs neither overlap nor repeat (_on_timer, _arm_timer).
CronConsistent == CronTypeOK /\ RunsAreSerial /\ OneRunPerDue

\* What was added stays in the file or in the log until it is removed or has
\* run to its end, through restarts and crashes; a crash within the merge takes
\* what the log held, an unreadable file what nobody saved in time.
AckedSurvives ==
    "corrupt" \notin env \/ env = {"corrupt"} =>
        acked \ torn \subseteq DOMAIN Merged.jobs
                               \cup (IF active \/ bad THEN DOMAIN mem ELSE {})

\* A removed job does not come back, unless a change of one process was under
\* way when another removed it, or a crash took the removal from the log.
RemovedStaysRemoved ==
    "corrupt" \notin env => removed \cap DOMAIN Merged.jobs \subseteq raced \cup torn

\* Every change of the jobs is kept: the file and the log together forget none
\* and bring none back (_save_store, _merge_action).
ChangesKept == AckedSurvives /\ RemovedStaysRemoved

\* The saved time of a job's last run never goes back: not by a registration,
\* a restart or a crash.  (System jobs are caught up by it.)
LastRunKept ==
    [][~met' /\ "external" \notin env =>
        \A j \in DOMAIN file \cap DOMAIN file' : file'[j].last >= file[j].last]_cronVars

\* A job that is due is run, changed or removed, or the service ends.
DueRuns ==
    \A j \in Jobs :
        (proc = "running" /\ Quiet /\ j \in Due(mem)) ~>
        (proc # "running" \/ met \/ j \notin Due(mem))
=============================================================================
