------------------------- MODULE ExecSessionsProofs -------------------------
(***************************************************************************)
(* The shell sessions, for any callers, limits and environments: the       *)
(* registry has every running shell and keeps to its limit, and a caller    *)
(* that is told of a session's end has been given all of its output once.  *)
(***************************************************************************)
EXTENDS ExecSessions, FiniteSetTheorems, TLAPS

LEMMA Limits ==
    /\ MaxSessions \in Nat /\ IdleTimeout \in Nat /\ PollMax \in Nat /\ Timeout \in Nat
    /\ MaxRounds \in Nat /\ MaxRounds > 0 /\ MaxSids \in Nat /\ PollMax < IdleTimeout
    /\ MaxSessions > 0 /\ NoOne \notin Callers /\ NoOne \notin Nat /\ Sids \subseteq Nat
    /\ NoOne \notin Sids
  BY ExecSessionsAssumption DEF ExecSessionsAssumption, Sids

-----------------------------------------------------------------------------
(***************************************************************************)
(* The types of the records.                                               *)
(***************************************************************************)
Shells == {"none", "runs", "killed", "exited"}
Readers == {"none", "reading", "done", "cancelled"}
ProcType == [shell : Shells, kid : BOOLEAN, wrote : Nat]

ChatNames == Chats \cup {NoOne}
SessType ==
    [chat : ChatNames, deadline : Nat, access : Nat, read : Nat, taken : Nat, reader : Readers]

OpNames == Ops \cup {"none"}
SidNames == Sids \cup {NoOne}
Withs == {"none", "chars", "kill"}
SidSets == SUBSET Sids
Pieces == SUBSET Nat
Rounds == 0 .. MaxRounds - 1
CallType ==
    [pc : Pcs, op : OpNames, chat : ChatNames, sid : SidNames, with : Withs, sweep : SidSets,
     until : Nat, got : Pieces, rounds : Rounds, done : BOOLEAN]

LeftType ==
    [calls : Nat, ops : SUBSET Ops, chats : SUBSET Chats, stops : Nat, horizon : Nat,
     pieces : Nat, forks : BOOLEAN]

\* What a call's record says of where the call is.
Before == {"lock", "sweep", "swept", "spawn"}
PlaceOK(k) ==
    /\ k.pc = "idle" <=> k.op = "none"
    /\ k.pc = "idle" => k.sid = NoOne
    /\ k.sid = NoOne => k.got = {}
    /\ k.pc \in {"write", "pop", "return", "leak"} \cup Polling => k.sid # NoOne
    /\ k.pc \in Before /\ k.op \in {"write", "wait"} => k.sid # NoOne
    /\ k.pc \in Before /\ k.op \in {"exec", "list"} => k.sid = NoOne
    /\ k.pc = "spawn" => k.op = "exec"
    /\ k.pc \in Before \cup {"write"} /\ k.with # "none" => k.got = {}
    /\ k.pc = "write" => k.with = "chars"
    /\ k.pc = "kill" => k.with = "kill"
    /\ k.op \in {"exec", "list"} => k.with = "none"
    /\ k.done => k.pc \in {"pop", "return"}
    /\ k.pc = "pop" => k.done

TypeInv ==
    /\ left \in LeftType /\ now \in Nat /\ now <= left.horizon
    /\ proc \in [Sids -> ProcType] /\ sess \in [Sids -> SessType]
    /\ call \in [Callers -> CallType] /\ \A c \in Callers : PlaceOK(call[c])
    /\ sessions \subseteq Sids /\ ended \subseteq Sids
    /\ lock \in Callers \cup {NoOne}
    /\ told \in [Sids -> Pieces] /\ lost \in [Sids -> Pieces]

-----------------------------------------------------------------------------
(***************************************************************************)
(* Polling.                                                                *)
(***************************************************************************)
\* What a poll by caller c, its call being k, makes of k, the process p and the
\* session x: the call waits, or takes all that was read; the end is reported
\* once the readers have ended.
Outcome(k, p, x, k2, p2, x2) ==
    /\ k2 \in CallType /\ p2 \in ProcType /\ x2 \in SessType
    /\ k2.sid = k.sid /\ k2.op = k.op /\ k2.with = k.with /\ k2.sweep = k.sweep
    /\ p2.kid = p.kid /\ p2.wrote = p.wrote
    /\ p2.shell = p.shell \/ (p2.shell = "killed" /\ ~Exited(p))
    /\ x2.read = x.read /\ x2.reader = x.reader /\ x2.access \in {x.access, now}
    /\ \/ /\ k2.got = k.got /\ x2.taken = x.taken /\ k2.done = k.done
          /\ k2.pc \in {"kill", "sleep", "expire", "gather", "leak"}
       \/ /\ k2.got = k.got \cup (x.taken + 1 .. x.read) /\ x2.taken = x.read
          /\ k2.done = Exited(p2) /\ k2.pc = (IF Exited(p2) THEN "pop" ELSE "return")
          /\ Exited(p2) => x.reader \in {"done", "cancelled"}
    /\ k2.pc = "sleep" => ~Exited(p2) /\ x2.access = now /\ k2.until = now + PollMax
    /\ k2.pc = "kill" => k2.with = "kill"

Late == {"expire", "gather", "leak", "pop", "return"}
Places == Late \cup {"kill", "sleep"}
Polled(c, k, p, x, places) ==
    \E k2, p2, x2 :
        Outcome(k, p, x, k2, p2, x2) /\ k2.pc \in places /\ At(c, k2, p2, x2)

LEMMA KilledIs ==
    ASSUME NEW p \in ProcType
    PROVE  /\ Killed(p) \in ProcType /\ Killed(p).kid = p.kid /\ Killed(p).wrote = p.wrote
           /\ Exited(Killed(p)) <=> Exited(p)
           /\ Killed(p).shell = p.shell \/ (Killed(p).shell = "killed" /\ ~Exited(p))
           /\ Killed(p).shell # "runs" /\ (Killed(p).shell = "none" => Exited(p))
  BY DEF Killed, ProcType, Exited, Shells

LEMMA TakePolled ==
    ASSUME NEW c, NEW k \in CallType, NEW p \in ProcType, NEW x \in SessType,
           Exited(p) => x.reader \in {"done", "cancelled"}, Take(c, k, p, x)
    PROVE  Polled(c, k, p, x, Late)
<1> DEFINE g == k.got \cup (x.taken + 1 .. x.read)
           n == IF Exited(p) THEN "pop" ELSE "return"
           e == Exited(p)
           k2 == [k EXCEPT !.pc = n, !.done = e, !.got = g]
           x2 == [x EXCEPT !.taken = x.read]
<1>1. g \in Pieces /\ n \in Pcs /\ e \in BOOLEAN
  BY DEF Pieces, CallType, SessType, Pcs, Exited
<1>2. At(c, k2, p, x2)
  BY DEF Take, CallType, SessType
<1> HIDE DEF g, n, e
<1>3. /\ k2 \in CallType /\ k2.sid = k.sid /\ k2.op = k.op /\ k2.with = k.with
      /\ k2.sweep = k.sweep /\ k2.got = g /\ k2.pc = n /\ k2.done = e
  BY <1>1 DEF CallType
<1>4. /\ x2 \in SessType /\ x2.read = x.read /\ x2.reader = x.reader /\ x2.access = x.access
      /\ x2.taken = x.read
  BY DEF SessType
<1> HIDE DEF k2, x2
<1>5. n \notin {"sleep", "kill"} /\ n \in Late
  BY DEF n, Late
<1>6. Outcome(k, p, x, k2, p, x2)
  BY <1>3, <1>4, <1>5 DEF Outcome, g, n, e
<1> QED
  BY <1>2, <1>3, <1>5, <1>6 DEF Polled

\* A call that waits.
LEMMA WaitPolled ==
    ASSUME NEW c, NEW k \in CallType, NEW p \in ProcType, NEW x \in SessType, ~k.done,
           NEW n \in {"expire", "gather", "leak"}, NEW p2 \in {p, Killed(p)},
           At(c, [k EXCEPT !.pc = n], p2, x)
    PROVE  Polled(c, k, p, x, Late)
<1> DEFINE k2 == [k EXCEPT !.pc = n]
<1>1. /\ k2 \in CallType /\ k2.sid = k.sid /\ k2.op = k.op /\ k2.with = k.with
      /\ k2.sweep = k.sweep /\ k2.got = k.got /\ k2.pc = n /\ k2.done = k.done
  BY DEF CallType, Pcs, Polling
<1> HIDE DEF k2
<1>2. Outcome(k, p, x, k2, p2, x)
  BY <1>1, KilledIs DEF Outcome
<1> QED
  BY <1>1, <1>2 DEF Polled, Late, k2

LEMMA GatherPolled ==
    ASSUME NEW c, NEW k \in CallType, NEW p \in ProcType, NEW x \in SessType, ~k.done,
           Gather(c, k, p, x)
    PROVE  Polled(c, k, p, x, Late)
<1>1. CASE Take(c, k, p, x) /\ (Exited(p) => x.reader = "done")
  BY <1>1, TakePolled
<1>2. CASE \E n \in {"gather", "leak"} : At(c, [k EXCEPT !.pc = n], p, x)
  BY <1>2, WaitPolled
<1> QED
  BY <1>1, <1>2 DEF Gather

LEMMA ExpirePolled ==
    ASSUME NEW c, NEW k \in CallType, NEW p \in ProcType, NEW x \in SessType, ~k.done,
           Expire(c, k, p, x)
    PROVE  Polled(c, k, p, x, Late)
  BY GatherPolled, WaitPolled DEF Expire

LEMMA BeginPolled ==
    ASSUME TypeInv, NEW c, NEW k \in CallType, NEW p \in ProcType, NEW x \in SessType, ~k.done,
           BeginPoll(c, k, p, x)
    PROVE  Polled(c, k, p, x, Places)
<1> DEFINE seen == [x EXCEPT !.access = now]
           u == now + PollMax
           polling == [k EXCEPT !.until = u]
           asleep == [k EXCEPT !.pc = "sleep", !.until = u]
<1>1. now \in Nat /\ u \in Nat
  BY Limits DEF TypeInv
<1>2. /\ (~Exited(p) /\ At(c, asleep, p, seen)) \/ Expire(c, polling, p, seen)
      /\ u = now + PollMax
  BY DEF BeginPoll
<1> HIDE DEF u
<1>3. /\ seen \in SessType /\ seen.access = now /\ seen.read = x.read /\ seen.taken = x.taken
      /\ seen.reader = x.reader
  BY <1>1 DEF SessType
<1>4. /\ polling \in CallType /\ polling.sid = k.sid /\ polling.op = k.op
      /\ polling.with = k.with /\ polling.sweep = k.sweep /\ polling.got = k.got
      /\ polling.done = k.done
  BY <1>1 DEF CallType
<1>5. /\ asleep \in CallType /\ asleep.sid = k.sid /\ asleep.op = k.op
      /\ asleep.with = k.with /\ asleep.sweep = k.sweep /\ asleep.got = k.got
      /\ asleep.done = k.done /\ asleep.pc = "sleep" /\ asleep.until = u
  BY <1>1 DEF CallType, Pcs, Polling
<1> HIDE DEF seen, polling, asleep
<1>6. CASE ~Exited(p) /\ At(c, asleep, p, seen)
  <2>1. Outcome(k, p, x, asleep, p, seen)
    BY <1>2, <1>3, <1>5, <1>6 DEF Outcome
  <2> QED
    BY <1>5, <1>6, <2>1 DEF Polled, Places
<1>7. CASE Expire(c, polling, p, seen)
  <2>1. PICK k2, p2, x2 : Outcome(polling, p, seen, k2, p2, x2) /\ At(c, k2, p2, x2)
                          /\ k2.pc \in Late
    BY <1>3, <1>4, <1>7, ExpirePolled DEF Polled
  <2>2. Outcome(k, p, x, k2, p2, x2)
    BY <1>3, <1>4, <2>1 DEF Outcome
  <2> QED
    BY <2>1, <2>2 DEF Polled, Places
<1> QED
  BY <1>2, <1>6, <1>7

LEMMA TerminatePolled ==
    ASSUME TypeInv, NEW c, NEW k \in CallType, NEW p \in ProcType, NEW x \in SessType, ~k.done,
           Terminate(c, k, p, x)
    PROVE  Polled(c, k, p, x, Places)
<1>1. CASE k.with = "kill" /\ ~Exited(p)
  <2> DEFINE u == now + PollMax
             k2 == [k EXCEPT !.pc = "kill", !.until = u]
  <2>1. At(c, k2, Killed(p), x)
    BY <1>1 DEF Terminate
  <2>2. u \in Nat
    BY Limits DEF TypeInv
  <2> HIDE DEF u
  <2>3. /\ k2 \in CallType /\ k2.sid = k.sid /\ k2.op = k.op /\ k2.with = k.with
        /\ k2.sweep = k.sweep /\ k2.got = k.got /\ k2.pc = "kill" /\ k2.done = k.done
    BY <2>2 DEF CallType, Pcs, Polling
  <2> HIDE DEF k2
  <2>4. Outcome(k, p, x, k2, Killed(p), x)
    BY <1>1, <2>3, KilledIs DEF Outcome
  <2> QED
    BY <2>1, <2>3, <2>4 DEF Polled, Places
<1>2. CASE BeginPoll(c, k, p, x)
  BY <1>2, BeginPolled
<1> QED
  BY <1>1, <1>2 DEF Terminate

-----------------------------------------------------------------------------
\* A step in which caller c polls session s, the one it starts included.
PollEffect(c, s) ==
    /\ call' \in [Callers -> CallType] /\ \A d \in Callers \ {c} : call'[d] = call[d]
    /\ proc' \in [Sids -> ProcType] /\ \A q \in Sids \ {s} : proc'[q] = proc[q]
    /\ sess' \in [Sids -> SessType] /\ \A q \in Sids \ {s} : sess'[q] = sess[q]
    /\ UNCHANGED <<now, left, told, lost, ended>>
    /\ call'[c].sid = s /\ call'[c].op = call[c].op /\ call'[c].with = call[c].with
    /\ call'[c].sweep = call[c].sweep
    /\ call[c].op # "none" /\ call[c].sid \in {s, NoOne}
    /\ call'[c].pc \in Places
    /\ call'[c].pc = "kill" => call[c].with = "kill"
    /\ call'[c].pc = "pop" <=> call'[c].done
    /\ call'[c].done => /\ Exited(proc'[s]) /\ sess'[s].reader \in {"done", "cancelled"}
                        /\ sess'[s].taken = sess'[s].read
    /\ \/ call'[c].got = call[c].got /\ sess'[s].taken = sess[s].taken
       \/ /\ call'[c].got = call[c].got \cup (sess[s].taken + 1 .. sess[s].read)
          /\ sess'[s].taken = sess[s].read
    /\ proc'[s].kid = proc[s].kid /\ proc'[s].wrote = proc[s].wrote
    /\ Exited(proc[s]) => Exited(proc'[s])
    /\ sess'[s].read = sess[s].read /\ sess'[s].access \in {sess[s].access, now}
    /\ \/ sess'[s].reader = sess[s].reader
       \/ sess[s].reader \in {"none", "reading"} /\ sess'[s].reader # "done"
    /\ call'[c].pc = "sleep" =>
          /\ sess'[s].access = now /\ call'[c].until = now + PollMax
          /\ call[c].with = "none" => s \in sessions' /\ call[c].pc \in {"sweep", "spawn"}

LEMMA PolledEffect ==
    ASSUME TypeInv, NEW c \in Callers, NEW k \in CallType, NEW p \in ProcType, NEW x \in SessType,
           NEW s \in Sids, NEW places \in {Late, Places}, Polled(c, k, p, x, places),
           UNCHANGED <<now, left, told, lost, ended>>,
           ~k.done, k.sid = s, k.op = call[c].op, k.op # "none", k.with = call[c].with, k.sweep = call[c].sweep,
           k.got = call[c].got, call[c].sid \in {s, NoOne},
           p.kid = proc[s].kid, p.wrote = proc[s].wrote, Exited(proc[s]) => Exited(p),
           x.read = sess[s].read, x.taken = sess[s].taken, x.access \in {sess[s].access, now},
           \/ x.reader = sess[s].reader
           \/ sess[s].reader \in {"none", "reading"} /\ x.reader # "done",
           places = Places /\ call[c].with = "none" =>
              s \in sessions' /\ call[c].pc \in {"sweep", "spawn"}
    PROVE  /\ PollEffect(c, s)
           /\ proc'[s].shell = p.shell \/ (proc'[s].shell = "killed" /\ ~Exited(p))
<1>1. PICK k2, p2, x2 :
          Outcome(k, p, x, k2, p2, x2) /\ k2.pc \in places /\ At(c, k2, p2, x2)
  BY DEF Polled
<1>2. /\ call' = [call EXCEPT ![c] = k2] /\ proc' = [proc EXCEPT ![s] = p2]
      /\ sess' = [sess EXCEPT ![s] = x2]
      /\ k2 \in CallType /\ p2 \in ProcType /\ x2 \in SessType
  BY <1>1 DEF At, Outcome
<1>3. /\ call' \in [Callers -> CallType] /\ \A d \in Callers \ {c} : call'[d] = call[d]
      /\ proc' \in [Sids -> ProcType] /\ \A q \in Sids \ {s} : proc'[q] = proc[q]
      /\ sess' \in [Sids -> SessType] /\ \A q \in Sids \ {s} : sess'[q] = sess[q]
      /\ call'[c] = k2 /\ proc'[s] = p2 /\ sess'[s] = x2
  BY <1>2 DEF TypeInv
<1>4. /\ k2.sid = s /\ k2.op = call[c].op /\ k2.with = call[c].with /\ k2.sweep = call[c].sweep
      /\ k2.pc \in Places /\ (k2.pc = "kill" => call[c].with = "kill")
      /\ p2.kid = proc[s].kid /\ p2.wrote = proc[s].wrote /\ x2.read = sess[s].read
      /\ x2.access \in {sess[s].access, now}
      /\ p2.shell = p.shell \/ (p2.shell = "killed" /\ ~Exited(p))
  BY <1>1 DEF Outcome, Places
<1>5. /\ k2.pc = "pop" <=> k2.done
      /\ k2.done => Exited(p2) /\ x2.reader \in {"done", "cancelled"} /\ x2.taken = x2.read
      /\ \/ k2.got = call[c].got /\ x2.taken = sess[s].taken
         \/ k2.got = call[c].got \cup (sess[s].taken + 1 .. sess[s].read) /\ x2.taken = sess[s].read
  BY <1>1 DEF Outcome
<1>6. Exited(proc[s]) => Exited(p2)
  BY <1>4 DEF Exited
<1>7. /\ k2.pc = "sleep" => x2.access = now /\ k2.until = now + PollMax
      /\ k2.pc = "sleep" /\ call[c].with = "none" =>
            s \in sessions' /\ call[c].pc \in {"sweep", "spawn"}
      /\ \/ x2.reader = sess[s].reader
         \/ sess[s].reader \in {"none", "reading"} /\ x2.reader # "done"
  BY <1>1 DEF Outcome, Late
<1> QED
  BY <1>3, <1>4, <1>5, <1>6, <1>7 DEF PollEffect

\* The steps that poll.
PollStep(c) ==
    \/ WaitsForKill(c) /\ call[c].pc # "swept" /\ AfterKill(c)
    \/ Started(c) \/ Written(c) \/ Slept(c) \/ Gathered(c)
    \/ Found(c) /\ call[c].with # "chars"

\* A new session gets the next number.
MadeInv ==
    /\ \A c \in Callers : call[c].sid \in Made \cup {NoOne} /\ call[c].sweep \subseteq Made
    /\ \A s \in Sids \ Made :
          /\ proc[s].wrote = 0 /\ ~proc[s].kid
          /\ sess[s].read = 0 /\ sess[s].taken = 0 /\ sess[s].reader = "none"
          /\ told[s] = {} /\ lost[s] = {} /\ s \notin sessions /\ s \notin ended
    /\ \E n \in Nat : Made = 1 .. n

LEMMA NextSid ==
    ASSUME TypeInv, MadeInv, Cardinality(Made) + 1 \in Sids
    PROVE  Cardinality(Made) + 1 \notin Made
           /\ \E n \in Nat : Made = 1 .. n /\ Cardinality(Made) = n
<1>1. PICK n \in Nat : Made = 1 .. n
  BY DEF MadeInv
<1>2. Cardinality(1 .. n) = n
  <2>1. 1 \in Int /\ n \in Int
    OBVIOUS
  <2>2. Cardinality(1 .. n) = IF 1 > n THEN 0 ELSE n - 1 + 1
    BY <2>1, FS_Interval
  <2> QED
    BY <2>2
<1> QED
  BY <1>1, <1>2

LEMMA PollSteps ==
    ASSUME TypeInv, MadeInv, NEW c \in Callers, PollStep(c)
    PROVE  \E s \in Sids :
               /\ PollEffect(c, s)
               /\ \/ /\ s \in Made /\ sessions' = sessions /\ call[c].sid = s
                     /\ proc'[s].shell \in {proc[s].shell, "killed"}
                     /\ call[c].pc \in {"kill", "expire", "write", "sleep", "gather", "sweep"}
                     /\ IF call[c].pc = "sweep" THEN lock' = NoOne ELSE lock' = lock
                  \/ /\ s \notin Made /\ sessions' = sessions \cup {s} /\ call[c].sid = NoOne
                     /\ \E n \in Nat : Made = 1 .. n /\ s = n + 1
                     /\ proc'[s].shell \in {"runs", "killed"} /\ call[c].pc = "spawn"
                     /\ lock' = IF lock = c THEN NoOne ELSE lock
<1> DEFINE k == call[c]
           s == k.sid
           p == proc[s]
           x == sess[s]
           Goal == \E q \in Sids :
                   /\ PollEffect(c, q)
                   /\ \/ /\ q \in Made /\ sessions' = sessions /\ call[c].sid = q
                         /\ proc'[q].shell \in {proc[q].shell, "killed"}
                         /\ call[c].pc \in {"kill", "expire", "write", "sleep", "gather", "sweep"}
                         /\ IF call[c].pc = "sweep" THEN lock' = NoOne ELSE lock' = lock
                      \/ /\ q \notin Made /\ sessions' = sessions \cup {q} /\ call[c].sid = NoOne
                         /\ \E n \in Nat : Made = 1 .. n /\ q = n + 1
                         /\ proc'[q].shell \in {"runs", "killed"} /\ call[c].pc = "spawn"
                         /\ lock' = IF lock = c THEN NoOne ELSE lock
<1>1. k \in CallType /\ PlaceOK(k) /\ k.sid \in Made \cup {NoOne} /\ Made \subseteq Sids
  BY DEF TypeInv, MadeInv, Made
<1>2. ASSUME k.pc \in {"kill", "expire", "write", "sleep", "gather", "sweep"}, s # NoOne
      PROVE  /\ s \in Sids /\ s \in Made /\ p \in ProcType /\ x \in SessType /\ ~k.done
             /\ k.op # "none"
  BY <1>1, <1>2 DEF TypeInv, PlaceOK, Polling
<1>3. ASSUME NEW places \in {Late, Places}, NEW y \in SessType, Polled(c, k, p, y, places),
             k.pc \in {"kill", "expire", "write", "sleep", "gather", "sweep"}, s # NoOne,
             UNCHANGED <<now, left, told, lost, ended, sessions>>,
             y.read = x.read, y.taken = x.taken, y.access = x.access,
             y.reader = x.reader \/ (x.reader = "reading" /\ y.reader = "cancelled"),
             places = Places /\ k.with = "none" => s \in sessions /\ k.pc = "sweep",
             IF k.pc = "sweep" THEN lock' = NoOne ELSE lock' = lock
      PROVE  Goal
  <2>1. s \in Sids /\ s \in Made /\ p \in ProcType /\ ~k.done /\ k.op # "none"
    BY <1>2, <1>3
  <2>2. /\ PollEffect(c, s)
        /\ proc'[s].shell = p.shell \/ (proc'[s].shell = "killed" /\ ~Exited(p))
    BY <1>1, <1>3, <2>1, PolledEffect
  <2> QED
    BY <1>3, <2>1, <2>2
<1>4. ASSUME AfterKill(c), k.pc = "kill" PROVE Goal
  <2>1. s # NoOne /\ k.with = "kill"
    BY <1>1, <1>4 DEF PlaceOK, Polling
  <2>2. Polled(c, k, p, x, Places)
    BY <1>1, <1>2, <1>4, <2>1, BeginPolled DEF AfterKill, KillWaited
  <2> QED
    BY <1>1, <1>2, <1>3, <1>4, <2>1, <2>2 DEF AfterKill, history
<1>5. ASSUME AfterKill(c), k.pc = "expire" PROVE Goal
  <2>1. s # NoOne
    BY <1>1, <1>5 DEF PlaceOK, Polling
  <2>2. Polled(c, k, p, x, Late)
    BY <1>1, <1>2, <1>5, <2>1, GatherPolled DEF AfterKill, KillWaited
  <2>3. Late # Places
    BY DEF Late, Places
  <2> QED
    BY <1>1, <1>2, <1>3, <1>5, <2>1, <2>2, <2>3 DEF AfterKill, history
<1>6. ASSUME Started(c) PROVE Goal
  <2> DEFINE n == Cardinality(Made) + 1
             j == [k EXCEPT !.sid = n]
             b == [NoProcess EXCEPT !.shell = "runs"]
             d == now + Timeout
             y == [chat |-> k.chat, deadline |-> d, access |-> now,
                   read |-> 0, taken |-> 0, reader |-> "reading"]
  <2>1. /\ k.pc = "spawn" /\ n \in Sids /\ sessions' = sessions \cup {n} /\ BeginPoll(c, j, b, y)
        /\ lock' = IF lock = c THEN NoOne ELSE lock
        /\ UNCHANGED <<now, left, told, lost, ended>>
    BY <1>6 DEF Started, history
  <2>2. n \notin Made /\ \E m \in Nat : Made = 1 .. m /\ n = m + 1
    BY <2>1, NextSid
  <2>3. k.op = "exec" /\ k.sid = NoOne /\ k.got = {} /\ ~k.done
    BY <1>1, <2>1 DEF PlaceOK, Before
  <2>4. now \in Nat /\ d \in Nat
    BY Limits DEF TypeInv
  <2> HIDE DEF n, d
  <2>5. /\ j \in CallType /\ j.sid = n /\ j.op = k.op /\ j.with = k.with /\ j.got = k.got
        /\ j.done = k.done /\ j.sweep = k.sweep
    BY <1>1, <2>1 DEF CallType, SidNames
  <2>6. b \in ProcType /\ b.shell = "runs" /\ b.kid = FALSE /\ b.wrote = 0
    BY DEF NoProcess, ProcType, Shells
  <2>7. y \in SessType /\ y.read = 0 /\ y.taken = 0 /\ y.access = now /\ y.reader = "reading"
    BY <1>1, <2>4 DEF SessType, CallType, Readers
  <2>8. /\ proc[n].wrote = 0 /\ ~proc[n].kid /\ sess[n].read = 0 /\ sess[n].taken = 0
        /\ sess[n].reader = "none" /\ proc[n].shell = "none" /\ proc[n].kid \in BOOLEAN
    BY <2>1, <2>2 DEF MadeInv, Made, TypeInv, ProcType
  <2> HIDE DEF j, b, y
  <2>9. Polled(c, j, b, y, Places)
    BY <2>1, <2>3, <2>5, <2>6, <2>7, BeginPolled
  <2>10. /\ PollEffect(c, n)
         /\ proc'[n].shell = b.shell \/ (proc'[n].shell = "killed" /\ ~Exited(b))
    <3>1. /\ ~j.done /\ j.sid = n /\ j.op = call[c].op /\ j.op # "none"
          /\ j.with = call[c].with /\ j.sweep = call[c].sweep /\ j.got = call[c].got /\ call[c].sid \in {n, NoOne}
          /\ n \in sessions'
      BY <2>1, <2>3, <2>5
    <3>2. /\ b.kid = proc[n].kid /\ b.wrote = proc[n].wrote /\ (Exited(proc[n]) => Exited(b))
          /\ y.read = sess[n].read /\ y.taken = sess[n].taken
          /\ y.access \in {sess[n].access, now}
          /\ sess[n].reader \in {"none", "reading"} /\ y.reader # "done"
      BY <2>6, <2>7, <2>8 DEF Exited
    <3> QED
      BY <2>1, <2>5, <2>6, <2>7, <2>9, <3>1, <3>2, PolledEffect
  <2> QED
    BY <2>1, <2>2, <2>3, <2>6, <2>10
<1>7. ASSUME Written(c) PROVE Goal
  <2>1. s # NoOne /\ k.with = "chars" /\ k.pc = "write"
    BY <1>1, <1>7 DEF PlaceOK, Written
  <2>2. Polled(c, k, p, x, Places)
    BY <1>1, <1>2, <1>7, <2>1, TerminatePolled DEF Written
  <2> QED
    BY <1>1, <1>2, <1>3, <1>7, <2>1, <2>2 DEF Written, history
<1>8. ASSUME Slept(c) PROVE Goal
  <2>1. s # NoOne /\ k.pc = "sleep"
    BY <1>1, <1>8 DEF PlaceOK, Polling, Slept
  <2>2. Polled(c, k, p, x, Late)
    BY <1>1, <1>2, <1>8, <2>1, ExpirePolled DEF Slept
  <2>3. Late # Places
    BY DEF Late, Places
  <2> QED
    BY <1>1, <1>2, <1>3, <1>8, <2>1, <2>2, <2>3 DEF Slept, history
<1>9. ASSUME Gathered(c) PROVE Goal
  <2>1. s # NoOne /\ k.pc = "gather"
    BY <1>1, <1>9 DEF PlaceOK, Polling, Gathered
  <2>2. Late # Places
    BY DEF Late, Places
  <2>3. UNCHANGED <<now, left, told, lost, ended, sessions, lock>>
    BY <1>9 DEF Gathered, history
  <2>4. CASE Gather(c, k, p, x)
    <3>1. Polled(c, k, p, x, Late)
      BY <1>1, <1>2, <2>1, <2>4, GatherPolled
    <3> QED
      BY <1>1, <1>2, <1>3, <2>1, <2>2, <2>3, <3>1
  <2>5. CASE x.reader = "reading" /\ Take(c, k, p, [x EXCEPT !.reader = "cancelled"])
    <3> DEFINE y == [x EXCEPT !.reader = "cancelled"]
    <3>1. /\ y \in SessType /\ y.read = x.read /\ y.taken = x.taken /\ y.access = x.access
          /\ y.reader = "cancelled"
      BY <1>2, <2>1 DEF SessType, Readers
    <3> HIDE DEF y
    <3>2. Take(c, k, p, y)
      BY <2>5 DEF y
    <3>3. Polled(c, k, p, y, Late)
      BY <1>1, <1>2, <2>1, <3>1, <3>2, TakePolled
    <3> QED
      BY <1>1, <1>2, <1>3, <2>1, <2>2, <2>3, <2>5, <3>1, <3>3
  <2> QED
    BY <1>9, <2>4, <2>5 DEF Gathered
<1>10. ASSUME Found(c), k.with # "chars" PROVE Goal
  <2>1. /\ k.pc = "sweep" /\ s \in sessions /\ s \in Sids /\ s # NoOne
        /\ UNCHANGED <<now, left, told, lost, ended, sessions>> /\ lock' = NoOne
    BY <1>10, Limits DEF Found, Swept, history, TypeInv
  <2>2. Polled(c, k, p, x, Places)
    BY <1>1, <1>2, <1>10, <2>1, TerminatePolled DEF Found
  <2> QED
    BY <1>1, <1>2, <1>3, <2>1, <2>2
<1> QED
  BY <1>4, <1>5, <1>6, <1>7, <1>8, <1>9, <1>10 DEF PollStep, WaitsForKill

-----------------------------------------------------------------------------
(***************************************************************************)
(* The other steps of a caller, by what they do to its record.             *)
(***************************************************************************)
Moves(c, pc, sid, with, sweep, got, done) ==
    /\ call' \in [Callers -> CallType] /\ \A d \in Callers \ {c} : call'[d] = call[d]
    /\ PlaceOK(call'[c])
    /\ call'[c].pc = pc /\ call'[c].sid = sid /\ call'[c].with = with
    /\ call'[c].sweep = sweep /\ call'[c].got = got /\ call'[c].done = done

LEMMA MovesTo ==
    ASSUME TypeInv, NEW c \in Callers, NEW k \in CallType, PlaceOK(k),
           call' = [call EXCEPT ![c] = k]
    PROVE  Moves(c, k.pc, k.sid, k.with, k.sweep, k.got, k.done)
<1>1. call' \in [Callers -> CallType] /\ call'[c] = k /\ \A d \in Callers \ {c} : call'[d] = call[d]
  BY DEF TypeInv
<1> QED
  BY <1>1 DEF Moves

LEMMA IdleIs ==
    /\ Idle \in CallType /\ PlaceOK(Idle) /\ Idle.pc = "idle" /\ Idle.op = "none"
    /\ Idle.sid = NoOne /\ Idle.with = "none" /\ Idle.sweep = {} /\ Idle.got = {}
    /\ Idle.done = FALSE /\ Idle.rounds \in Rounds
<1>1. 0 \in Rounds /\ {} \in SidSets /\ {} \in Pieces /\ 0 \in Nat
  BY Limits DEF Rounds, SidSets, Pieces
<1>2. /\ Idle.pc = "idle" /\ Idle.op = "none" /\ Idle.chat = NoOne /\ Idle.sid = NoOne
      /\ Idle.with = "none" /\ Idle.sweep = {} /\ Idle.got = {} /\ Idle.done = FALSE
      /\ Idle.rounds = 0
  BY DEF Idle
<1>3. Idle \in CallType
  BY <1>1 DEF Idle, CallType, Pcs, OpNames, ChatNames, SidNames, Withs
<1>4. PlaceOK(Idle)
  BY <1>2 DEF PlaceOK, Before, Polling
<1> QED
  BY <1>1, <1>2, <1>3, <1>4

LEMMA IdleMoves ==
    ASSUME TypeInv, NEW c \in Callers, call' = [call EXCEPT ![c] = Idle]
    PROVE  Moves(c, "idle", NoOne, "none", {}, {}, FALSE)
  BY IdleIs, MovesTo

LEMMA CallMoves ==
    ASSUME TypeInv, NEW c \in Callers, Call(c)
    PROVE  \E sid \in Made \cup {NoOne}, with \in Withs :
              Moves(c, "lock", sid, with, {}, {}, FALSE)
<1>1. PICK ch \in left.chats :
         \/ \E op \in {"exec", "list"} \cap left.ops :
               call' = [call EXCEPT ![c] = [[Idle EXCEPT !.pc = "lock", !.chat = ch]
                                             EXCEPT !.op = op]]
         \/ \E op \in {"write", "wait"} \cap left.ops, s \in Made, with \in Withs :
               call' = [call EXCEPT ![c] = [[Idle EXCEPT !.pc = "lock", !.chat = ch]
                                             EXCEPT !.op = op, !.sid = s, !.with = with]]
  BY DEF Call, Withs
<1>2. ch \in ChatNames /\ Made \subseteq Sids
  BY DEF TypeInv, LeftType, ChatNames, Made
<1> DEFINE k == [Idle EXCEPT !.pc = "lock", !.chat = ch]
<1>3. /\ k \in CallType /\ k.pc = "lock" /\ k.sid = NoOne /\ k.with = "none" /\ k.sweep = {}
      /\ k.got = {} /\ k.done = FALSE
  BY <1>2, IdleIs DEF CallType, Pcs
<1>4. ASSUME NEW op \in {"exec", "list"}, call' = [call EXCEPT ![c] = [k EXCEPT !.op = op]]
      PROVE  Moves(c, "lock", NoOne, "none", {}, {}, FALSE)
  <2> HIDE DEF k
  <2> DEFINE j == [k EXCEPT !.op = op]
  <2>1. /\ j \in CallType /\ j.pc = "lock" /\ j.sid = NoOne /\ j.with = "none" /\ j.sweep = {}
        /\ j.got = {} /\ j.done = FALSE /\ j.op = op
    BY <1>3 DEF CallType, OpNames, Ops
  <2> HIDE DEF j
  <2>2. PlaceOK(j)
    BY <2>1 DEF PlaceOK, Before, Polling
  <2>3. call' = [call EXCEPT ![c] = j]
    BY <1>4 DEF j
  <2>4. Moves(c, j.pc, j.sid, j.with, j.sweep, j.got, j.done)
    BY <2>1, <2>2, <2>3, MovesTo
  <2> QED
    BY <2>1, <2>4
<1>5. ASSUME NEW op \in {"write", "wait"}, NEW s \in Made, NEW with \in Withs,
             call' = [call EXCEPT ![c] = [k EXCEPT !.op = op, !.sid = s, !.with = with]]
      PROVE  Moves(c, "lock", s, with, {}, {}, FALSE)
  <2> HIDE DEF k
  <2> DEFINE j == [k EXCEPT !.op = op, !.sid = s, !.with = with]
  <2>1. /\ j \in CallType /\ j.pc = "lock" /\ j.sid = s /\ j.with = with /\ j.sweep = {}
        /\ j.got = {} /\ j.done = FALSE /\ j.op = op
    BY <1>2, <1>3 DEF CallType, OpNames, Ops, SidNames
  <2> HIDE DEF j
  <2>2. PlaceOK(j)
    BY <1>2, <2>1, Limits DEF PlaceOK, Before, Polling
  <2>3. call' = [call EXCEPT ![c] = j]
    BY <1>5 DEF j
  <2>4. Moves(c, j.pc, j.sid, j.with, j.sweep, j.got, j.done)
    BY <2>1, <2>2, <2>3, MovesTo
  <2> QED
    BY <2>1, <2>4
<1>6. "none" \in Withs /\ NoOne \in Made \cup {NoOne}
  BY DEF Withs
<1> HIDE DEF k
<1>7. CASE \E op \in {"exec", "list"} : call' = [call EXCEPT ![c] = [k EXCEPT !.op = op]]
  BY <1>4, <1>6, <1>7
<1>8. CASE \E op \in {"write", "wait"}, s \in Made, with \in Withs :
               call' = [call EXCEPT ![c] = [k EXCEPT !.op = op, !.sid = s, !.with = with]]
  BY <1>5, <1>8
<1> QED
  BY <1>1, <1>7, <1>8 DEF k

\* The steps that change the place and what is swept, and keep the rest.
LEMMA StepMoves ==
    ASSUME TypeInv, NEW c \in Callers, NEW n \in Pcs, NEW w \in SidSets,
           call' = [call EXCEPT ![c].pc = n, ![c].sweep = w],
           ~call[c].done \/ (call[c].pc = "pop" /\ n = "return"),
           call[c].pc # "idle", n \notin {"idle", "kill", "pop"},
           n \in {"return", "leak"} \cup Polling => call[c].sid # NoOne,
           n = "write" => call[c].with = "chars" /\ call[c].pc \in Before /\ call[c].sid # NoOne,
           n \in Before => call[c].pc \in Before /\ (n = "spawn" => call[c].op = "exec")
    PROVE  Moves(c, n, call[c].sid, call[c].with, w, call[c].got, call[c].done)
<1> DEFINE k == call[c]
           j == [k EXCEPT !.pc = n, !.sweep = w]
<1>1. k \in CallType /\ PlaceOK(k) /\ call' = [call EXCEPT ![c] = j]
  BY DEF TypeInv
<1>2. /\ j \in CallType /\ j.pc = n /\ j.op = k.op /\ j.sid = k.sid /\ j.with = k.with
      /\ j.sweep = w /\ j.got = k.got /\ j.done = k.done
  BY <1>1 DEF CallType
<1> HIDE DEF j
<1>3. PlaceOK(j)
  BY <1>1, <1>2 DEF PlaceOK, Before, Polling
<1>4. Moves(c, j.pc, j.sid, j.with, j.sweep, j.got, j.done)
  BY <1>1, <1>2, <1>3, MovesTo
<1> QED
  BY <1>2, <1>4

LEMMA AgainMoves ==
    ASSUME TypeInv, NEW c \in Callers, Again(c)
    PROVE  Moves(c, "lock", call[c].sid, "none", call[c].sweep, call[c].got, FALSE)
<1> DEFINE k == call[c]
           j == [k EXCEPT !.pc = "lock", !.with = "none", !.rounds = @ + 1]
<1>1. /\ k \in CallType /\ PlaceOK(k) /\ call' = [call EXCEPT ![c] = j]
      /\ k.pc = "return" /\ k.op = "wait" /\ ~k.done /\ k.rounds < MaxRounds - 1
  BY DEF TypeInv, Again
<1>2. k.rounds + 1 \in Rounds
  BY <1>1, Limits DEF CallType, Rounds
<1>3. /\ j \in CallType /\ j.pc = "lock" /\ j.op = k.op /\ j.sid = k.sid /\ j.with = "none"
      /\ j.sweep = k.sweep /\ j.got = k.got /\ j.done = k.done /\ k.done \in BOOLEAN
  BY <1>1, <1>2 DEF CallType, Pcs, Withs
<1> HIDE DEF j
<1>4. PlaceOK(j)
  BY <1>1, <1>3 DEF PlaceOK, Before, Polling
<1>5. Moves(c, j.pc, j.sid, j.with, j.sweep, j.got, j.done)
  BY <1>1, <1>3, <1>4, MovesTo
<1> QED
  BY <1>1, <1>3, <1>5

LEMMA LockMoves ==
    ASSUME TypeInv, NEW c \in Callers, Lock(c)
    PROVE  /\ Moves(c, "sweep", call[c].sid, call[c].with, Stale, call[c].got, FALSE)
           /\ call[c].pc = "lock"
<1>1. /\ Stale \in SidSets /\ "sweep" \in Pcs /\ call[c].pc = "lock"
      /\ call' = [call EXCEPT ![c].pc = "sweep", ![c].sweep = Stale]
  BY DEF Lock, Stale, SidSets, TypeInv, Pcs
<1>2. call[c].done = FALSE
  BY <1>1 DEF TypeInv, PlaceOK, CallType
<1> QED
  BY <1>1, <1>2, StepMoves DEF Before, Polling

LEMMA SweepMoves ==
    ASSUME TypeInv, NEW c \in Callers, Sweep(c)
    PROVE  \E s \in call[c].sweep, n \in {"sweep", "swept"} :
              /\ Moves(c, n, call[c].sid, call[c].with, call[c].sweep \ {s}, call[c].got, FALSE)
              /\ s \in Sids /\ sessions' = sessions \ {s}
              /\ proc' = [proc EXCEPT ![s] = Killed(proc[s])]
              /\ call[c].pc = "sweep"
<1>1. PICK s \in call[c].sweep :
          /\ sessions' = sessions \ {s}
          /\ proc' = [proc EXCEPT ![s] = Killed(@)]
          /\ call' = [call EXCEPT ![c].sweep = @ \ {s},
                                  ![c].pc = IF Exited(proc[s]) THEN @ ELSE "swept"]
  BY DEF Sweep
<1> DEFINE n == IF Exited(proc[s]) THEN "sweep" ELSE "swept"
           w == call[c].sweep \ {s}
<1>2. call[c].pc = "sweep" /\ call[c] \in CallType
  BY DEF Sweep, TypeInv
<1>3. /\ w \in SidSets /\ n \in Pcs /\ s \in Sids
      /\ call' = [call EXCEPT ![c].pc = n, ![c].sweep = w] /\ n \in {"sweep", "swept"}
  BY <1>1, <1>2 DEF CallType, SidSets, Pcs, TypeInv
<1>4. call[c].done = FALSE
  BY <1>2 DEF TypeInv, PlaceOK, CallType
<1> HIDE DEF n, w
<1>5. Moves(c, n, call[c].sid, call[c].with, w, call[c].got, FALSE)
  BY <1>2, <1>3, <1>4, StepMoves DEF Before, Polling
<1> QED
  BY <1>1, <1>2, <1>3, <1>5 DEF w

LEMMA SweptMoves ==
    ASSUME TypeInv, NEW c \in Callers, AfterKill(c), call[c].pc = "swept"
    PROVE  Moves(c, "sweep", call[c].sid, call[c].with, call[c].sweep, call[c].got, FALSE)
<1>1. /\ call[c] \in CallType /\ call[c].sweep \in SidSets /\ "sweep" \in Pcs
      /\ call' = [call EXCEPT ![c].pc = "sweep", ![c].sweep = call[c].sweep]
  BY DEF AfterKill, KillWaited, TypeInv, Pcs, CallType
<1>2. call[c].done = FALSE
  BY <1>1 DEF TypeInv, PlaceOK, CallType
<1> QED
  BY <1>1, <1>2, StepMoves DEF Before, Polling

LEMMA SpawnMoves ==
    ASSUME TypeInv, NEW c \in Callers, Spawn(c)
    PROVE  /\ Moves(c, "spawn", call[c].sid, call[c].with, {}, call[c].got, FALSE)
           /\ call[c].pc = "sweep" /\ call[c].sweep = {}
<1>1. /\ call[c] \in CallType /\ {} \in SidSets /\ "spawn" \in Pcs /\ call[c].sweep = {}
      /\ call' = [call EXCEPT ![c].pc = "spawn", ![c].sweep = {}]
      /\ call[c].pc = "sweep" /\ call[c].op = "exec"
  BY DEF Spawn, TypeInv, Pcs, CallType, SidSets, Swept
<1>2. call[c].done = FALSE
  BY <1>1 DEF TypeInv, PlaceOK, CallType
<1> QED
  BY <1>1, <1>2, StepMoves DEF Before, Polling

LEMMA FoundMoves ==
    ASSUME TypeInv, NEW c \in Callers, Found(c), call[c].with = "chars"
    PROVE  /\ Moves(c, "write", call[c].sid, call[c].with, {}, call[c].got, FALSE)
           /\ call[c].pc = "sweep" /\ call[c].sweep = {}
           /\ UNCHANGED <<now, proc, sess, sessions, left, told, lost, ended>>
           /\ lock' = NoOne
<1>1. /\ call[c] \in CallType /\ {} \in SidSets /\ "write" \in Pcs /\ call[c].sweep = {}
      /\ call[c].pc = "sweep" /\ call[c].sid \in Sids
  BY DEF Found, TypeInv, Pcs, CallType, SidSets, Swept
<1>2. /\ call' = [call EXCEPT ![c].pc = "write", ![c].sweep = {}]
      /\ proc' = proc /\ sess' = sess
  <2>1. At(c, [call[c] EXCEPT !.pc = "write"], proc[call[c].sid], sess[call[c].sid])
    BY DEF Found
  <2>2. /\ call' = [call EXCEPT ![c] = [call[c] EXCEPT !.pc = "write"]]
        /\ proc' = [proc EXCEPT ![call[c].sid] = proc[call[c].sid]]
        /\ sess' = [sess EXCEPT ![call[c].sid] = sess[call[c].sid]]
    BY <1>1, <2>1 DEF At, CallType
  <2>3. proc' = proc /\ sess' = sess
    BY <1>1, <2>2 DEF TypeInv
  <2>4. [call[c] EXCEPT !.pc = "write"] = [call[c] EXCEPT !.pc = "write", !.sweep = {}]
    BY <1>1 DEF CallType
  <2> QED
    BY <1>1, <2>2, <2>3, <2>4
<1>3. call[c].done = FALSE
  BY <1>1 DEF TypeInv, PlaceOK, CallType
<1>4. call[c].sid # NoOne
  BY <1>1, Limits
<1>5. Moves(c, "write", call[c].sid, call[c].with, {}, call[c].got, FALSE)
  BY <1>1, <1>2, <1>3, <1>4, StepMoves DEF Before, Polling
<1> QED
  BY <1>1, <1>2, <1>5 DEF Found, history

LEMMA PopMoves ==
    ASSUME TypeInv, NEW c \in Callers, Pop(c)
    PROVE  /\ Moves(c, "return", call[c].sid, call[c].with, call[c].sweep, call[c].got, TRUE)
           /\ call[c].pc = "pop" /\ call[c].done /\ call[c].sid \in Sids
<1>1. /\ call[c] \in CallType /\ call[c].sweep \in SidSets /\ "return" \in Pcs
      /\ call' = [call EXCEPT ![c].pc = "return", ![c].sweep = call[c].sweep]
      /\ call[c].pc = "pop"
  BY DEF Pop, TypeInv, Pcs, CallType
<1>2. call[c].done = TRUE /\ call[c].sid # NoOne /\ call[c].sid \in Sids
  BY <1>1 DEF TypeInv, PlaceOK, CallType, SidNames
<1> QED
  BY <1>1, <1>2, StepMoves DEF Before, Polling

\* A stopped or failed call: what it has taken is lost, and the readers it
\* awaits are cancelled.
Drops(c) ==
    /\ Moves(c, "idle", NoOne, "none", {}, {}, FALSE)
    /\ lost' = [s \in Sids |-> IF s = call[c].sid THEN lost[s] \cup call[c].got ELSE lost[s]]
    /\ UNCHANGED <<told, ended, now, proc, sessions>>
    /\ left' \in LeftType /\ left'.pieces = left.pieces /\ left'.horizon = left.horizon
    /\ sess' \in [Sids -> SessType]
    /\ \A s \in Sids :
          /\ sess'[s].read = sess[s].read /\ sess'[s].taken = sess[s].taken
          /\ sess'[s].access = sess[s].access
          /\ \/ sess'[s].reader = sess[s].reader
             \/ sess[s].reader = "reading" /\ sess'[s].reader = "cancelled"
    /\ lock' \in {lock, NoOne} /\ (call[c].pc \in {"sweep", "swept", "spawn"} /\ lock = c => lock' = NoOne)
    /\ lock' # lock => lock = c \/ call[c].pc = "sweep"

LEMMA Dropped ==
    ASSUME TypeInv, NEW c \in Callers, Refuse(c) \/ Leak(c) \/ Stop(c)
    PROVE  Drops(c)
<1>1. /\ call' = [call EXCEPT ![c] = Idle]
      /\ lost' = [s \in Sids |-> IF s = call[c].sid THEN lost[s] \cup call[c].got ELSE lost[s]]
      /\ UNCHANGED <<told, ended, now, proc, sessions>>
  BY DEF Refuse, Leak, Stop, Drop
<1>2. left' \in LeftType /\ left'.pieces = left.pieces /\ left'.horizon = left.horizon
  <2>1. CASE left' = left
    BY <2>1 DEF TypeInv
  <2>2. CASE left.stops > 0 /\ left' = [left EXCEPT !.stops = @ - 1]
    <3>1. left \in LeftType /\ left.stops \in Nat
      BY DEF TypeInv, LeftType
    <3>2. left.stops - 1 \in Nat
      BY <2>2, <3>1
    <3> QED
      BY <2>2, <3>1, <3>2 DEF LeftType
  <2> QED
    BY <2>1, <2>2 DEF Refuse, Leak, Stop
<1>3. /\ sess' \in [Sids -> SessType]
      /\ \A s \in Sids :
            /\ sess'[s].read = sess[s].read /\ sess'[s].taken = sess[s].taken
            /\ sess'[s].access = sess[s].access
            /\ \/ sess'[s].reader = sess[s].reader
               \/ sess[s].reader = "reading" /\ sess'[s].reader = "cancelled"
  <2>1. CASE sess' = sess
    BY <2>1 DEF TypeInv
  <2>2. CASE /\ call[c].pc = "gather" /\ sess[call[c].sid].reader = "reading"
             /\ sess' = [sess EXCEPT ![call[c].sid].reader = "cancelled"]
    <3>1. call[c].sid \in Sids /\ sess \in [Sids -> SessType]
      BY <2>2 DEF TypeInv, PlaceOK, Polling, CallType, SidNames
    <3> DEFINE y == [sess[call[c].sid] EXCEPT !.reader = "cancelled"]
    <3>2. /\ y \in SessType /\ y.read = sess[call[c].sid].read /\ y.reader = "cancelled"
          /\ y.taken = sess[call[c].sid].taken /\ y.access = sess[call[c].sid].access
      BY <3>1 DEF SessType, Readers
    <3>3. sess' = [sess EXCEPT ![call[c].sid] = y]
      BY <2>2
    <3> HIDE DEF y
    <3> QED
      BY <2>2, <3>1, <3>2, <3>3
  <2> QED
    BY <2>1, <2>2 DEF Refuse, Leak, Stop
<1>4. /\ lock' \in {lock, NoOne}
      /\ (call[c].pc \in {"sweep", "swept", "spawn"} /\ lock = c => lock' = NoOne)
      /\ lock' # lock => lock = c \/ call[c].pc = "sweep"
  BY DEF Refuse, Leak, Stop, Swept
<1> QED
  BY <1>1, <1>2, <1>3, <1>4, IdleMoves DEF Drops

\* A call whose input fails has taken nothing.
LEMMA WriteFailsMoves ==
    ASSUME TypeInv, NEW c \in Callers, WriteFails(c)
    PROVE  Moves(c, "idle", NoOne, "none", {}, {}, FALSE) /\ call[c].got = {} /\ call[c].pc = "write"
<1>1. call[c].pc = "write" /\ call' = [call EXCEPT ![c] = Idle]
  BY DEF WriteFails
<1>2. call[c].got = {}
  BY <1>1 DEF TypeInv, PlaceOK
<1> QED
  BY <1>1, <1>2, IdleMoves

LEMMA ReturnMoves ==
    ASSUME TypeInv, NEW c \in Callers, Return(c)
    PROVE  /\ Moves(c, "idle", NoOne, "none", {}, {}, FALSE)
           /\ call[c].pc = "return" /\ call[c].sid \in Sids
           /\ told' = [told EXCEPT ![call[c].sid] = @ \cup call[c].got]
<1>1. call[c].pc = "return" /\ call' = [call EXCEPT ![c] = Idle]
      /\ told' = [told EXCEPT ![call[c].sid] = @ \cup call[c].got]
  BY DEF Return
<1>2. call[c].sid \in Sids
  BY <1>1 DEF TypeInv, PlaceOK, CallType, SidNames
<1> QED
  BY <1>1, <1>2, IdleMoves

-----------------------------------------------------------------------------
(***************************************************************************)
(* The steps, sorted.                                                      *)
(***************************************************************************)
\* A step of a process or of its reader tasks.
Runs(s) == Writes(s) \/ Forks(s) \/ KidExits(s) \/ Exits(s) \/ Reads(s)

\* A step that moves a call and takes, loses or gives nothing.
Goes(c) ==
    \/ Call(c) \/ Lock(c) \/ Sweep(c) \/ (AfterKill(c) /\ call[c].pc = "swept") \/ Spawn(c)
    \/ (Found(c) /\ call[c].with = "chars") \/ WriteFails(c) \/ Pop(c) \/ Again(c)

LEMMA Kinds ==
    [Next]_vars <=> \/ \E c \in Callers : \/ PollStep(c) \/ Goes(c) \/ Return(c)
                                          \/ Refuse(c) \/ Leak(c) \/ Stop(c)
                    \/ \E s \in Sids : Runs(s)
                    \/ Tick \/ UNCHANGED vars
  BY DEF Next, CallStep, PollStep, Goes, Runs, AfterKill, WaitsForKill

\* What a move leaves alone.
GoesTo(c) ==
    /\ call' \in [Callers -> CallType] /\ \A d \in Callers \ {c} : call'[d] = call[d]
    /\ PlaceOK(call'[c])
    /\ \/ call'[c].sid = call[c].sid /\ call'[c].got = call[c].got
       \/ call'[c].sid \in Made \cup {NoOne} /\ call[c].got = {} /\ call'[c].got = {}
    /\ call'[c].done => call[c].done /\ call'[c].sid = call[c].sid /\ call[c].sid \notin sessions'
    /\ call'[c].pc \in {"idle", "lock", "sweep", "swept", "spawn", "write", "return"}
    /\ sessions' \subseteq sessions /\ sess' = sess /\ now' = now
    /\ proc' \in [Sids -> ProcType]
    /\ call'[c].sweep \subseteq call[c].sweep \cup sessions
    /\ \A s \in Sids : \/ proc'[s] = proc[s]
                       \/ proc'[s] = Killed(proc[s]) /\ s \notin sessions' /\ s \in call[c].sweep
    /\ told' = told /\ lost' = lost /\ ended' = ended
    /\ left' \in LeftType /\ left'.pieces = left.pieces /\ left'.horizon = left.horizon
    /\ lock' \in Callers \cup {NoOne}

LEMMA GoesMove ==
    ASSUME TypeInv, NEW c \in Callers, Goes(c)
    PROVE  GoesTo(c)
<1>0. /\ left \in LeftType /\ proc \in [Sids -> ProcType] /\ lock \in Callers \cup {NoOne}
      /\ NoOne \in Made \cup {NoOne}
  BY DEF TypeInv
<1>1. ASSUME Call(c) PROVE GoesTo(c)
  <2>1. PICK sid \in Made \cup {NoOne}, with \in Withs : Moves(c, "lock", sid, with, {}, {}, FALSE)
    BY <1>1, CallMoves
  <2>2. call[c].got = {}
    BY <1>1 DEF Call, TypeInv, PlaceOK
  <2>3. left' \in LeftType /\ left'.pieces = left.pieces /\ left'.horizon = left.horizon
    <3>1. left.calls \in Nat /\ left.calls > 0 /\ left' = [left EXCEPT !.calls = @ - 1]
      BY <1>0, <1>1 DEF Call, LeftType
    <3>2. left.calls - 1 \in Nat
      BY <3>1
    <3> QED
      BY <1>0, <3>1, <3>2 DEF LeftType
  <2>4. UNCHANGED <<now, proc, sess, sessions, lock, told, lost, ended>>
    BY <1>1 DEF Call, history
  <2> QED
    BY <1>0, <2>1, <2>2, <2>3, <2>4 DEF GoesTo, Moves
<1>2. ASSUME Lock(c) PROVE GoesTo(c)
  <2>1. UNCHANGED <<now, proc, sess, sessions, left, told, lost, ended>> /\ lock' = c
    BY <1>2 DEF Lock, history
  <2> QED
    BY <1>0, <1>2, <2>1, LockMoves DEF GoesTo, Moves, Stale
<1>3. ASSUME Sweep(c) PROVE GoesTo(c)
  <2>1. PICK s \in call[c].sweep, n \in {"sweep", "swept"} :
              /\ Moves(c, n, call[c].sid, call[c].with, call[c].sweep \ {s}, call[c].got, FALSE)
              /\ s \in Sids /\ sessions' = sessions \ {s}
              /\ proc' = [proc EXCEPT ![s] = Killed(proc[s])]
    BY <1>3, SweepMoves
  <2>2. /\ proc' \in [Sids -> ProcType]
        /\ \A q \in Sids : \/ proc'[q] = proc[q]
                           \/ /\ proc'[q] = Killed(proc[q]) /\ q \notin sessions'
                              /\ q \in call[c].sweep
    BY <1>0, <2>1, KilledIs
  <2>3. UNCHANGED <<now, sess, lock, left, told, lost, ended>>
    BY <1>3 DEF Sweep, history
  <2> QED
    BY <1>0, <2>1, <2>2, <2>3 DEF GoesTo, Moves
<1>4. ASSUME AfterKill(c), call[c].pc = "swept" PROVE GoesTo(c)
  <2>1. UNCHANGED <<now, proc, sess, sessions, lock, left, told, lost, ended>>
    BY <1>4 DEF AfterKill, KillWaited, history
  <2> QED
    BY <1>0, <1>4, <2>1, SweptMoves DEF GoesTo, Moves
<1>5. ASSUME Spawn(c) PROVE GoesTo(c)
  <2>1. UNCHANGED <<now, proc, sess, sessions, lock, left, told, lost, ended>>
    BY <1>5 DEF Spawn, history
  <2> QED
    BY <1>0, <1>5, <2>1, SpawnMoves DEF GoesTo, Moves
<1>6. ASSUME Found(c), call[c].with = "chars" PROVE GoesTo(c)
  BY <1>0, <1>6, FoundMoves DEF GoesTo, Moves
<1>7. ASSUME WriteFails(c) PROVE GoesTo(c)
  <2>1. UNCHANGED <<now, proc, sess, sessions, lock, left, told, lost, ended>>
    BY <1>7 DEF WriteFails, history
  <2> QED
    BY <1>0, <1>7, <2>1, WriteFailsMoves DEF GoesTo, Moves
<1>8. ASSUME Pop(c) PROVE GoesTo(c)
  <2>1. UNCHANGED <<now, proc, sess, lock, left, told, lost, ended>>
        /\ sessions' = sessions \ {call[c].sid}
    BY <1>8 DEF Pop, history
  <2> QED
    BY <1>0, <1>8, <2>1, PopMoves DEF GoesTo, Moves
<1>9. ASSUME Again(c) PROVE GoesTo(c)
  <2>1. UNCHANGED <<now, proc, sess, sessions, lock, left, told, lost, ended>>
    BY <1>9 DEF Again, history
  <2> QED
    BY <1>0, <1>9, <2>1, AgainMoves DEF GoesTo, Moves
<1> QED
  BY <1>1, <1>2, <1>3, <1>4, <1>5, <1>6, <1>7, <1>8, <1>9 DEF Goes

\* What a process and its readers do: output is written by what runs, and read
\* as far as it is written.
RunsTo(s) ==
    /\ UNCHANGED <<now, sessions, lock, call, left, told, lost, ended>>
    /\ proc' \in [Sids -> ProcType] /\ \A q \in Sids \ {s} : proc'[q] = proc[q]
    /\ sess' \in [Sids -> SessType] /\ \A q \in Sids \ {s} : sess'[q] = sess[q]
    /\ proc[s].shell # "none" \/ proc[s].kid \/ sess[s].reader = "reading"
    /\ \/ proc'[s].shell = proc[s].shell
       \/ proc[s].shell \in {"runs", "killed"} /\ proc'[s].shell = "exited"
    /\ Exited(proc[s]) /\ ~proc[s].kid => proc'[s] = proc[s]
    /\ proc[s].wrote <= proc'[s].wrote
    /\ proc'[s].wrote = proc[s].wrote \/ proc'[s].wrote <= left.pieces
    /\ sess'[s].taken = sess[s].taken /\ sess'[s].access = sess[s].access
    /\ sess[s].read <= sess'[s].read
    /\ sess'[s].read = sess[s].read
          \/ (sess'[s].read <= proc'[s].wrote /\ sess[s].reader = "reading")
    /\ \/ sess'[s].reader = sess[s].reader
       \/ /\ sess[s].reader = "reading" /\ sess'[s].reader = "done"
          /\ Exited(proc'[s]) /\ ~proc'[s].kid /\ sess'[s].read = proc'[s].wrote

LEMMA RunsMove ==
    ASSUME TypeInv, NEW s \in Sids, Runs(s)
    PROVE  RunsTo(s)
<1> DEFINE p == proc[s]
           x == sess[s]
<1>0. /\ p \in ProcType /\ x \in SessType /\ p.wrote \in Nat /\ x.read \in Nat
      /\ left.pieces \in Nat /\ proc \in [Sids -> ProcType] /\ sess \in [Sids -> SessType]
  BY DEF TypeInv, ProcType, SessType, LeftType
<1>1. ASSUME NEW q \in ProcType, proc' = [proc EXCEPT ![s] = q], q.wrote >= p.wrote,
             q.wrote = p.wrote \/ q.wrote <= left.pieces,
             p.shell # "none" \/ p.kid,
             q.shell = p.shell \/ (p.shell \in {"runs", "killed"} /\ q.shell = "exited"),
             Exited(p) /\ ~p.kid => q = p,
             UNCHANGED <<now, sess, sessions, lock, call, left, history>>
      PROVE  RunsTo(s)
  <2>1. /\ proc' \in [Sids -> ProcType] /\ \A t \in Sids \ {s} : proc'[t] = proc[t]
        /\ proc'[s] = q
    BY <1>0, <1>1
  <2>2. q.wrote \in Nat /\ sess' = sess
    BY <1>1 DEF ProcType
  <2> QED
    BY <1>0, <1>1, <2>1, <2>2 DEF RunsTo, history
<1>2. ASSUME Writes(s) PROVE RunsTo(s)
  <2> DEFINE n == p.wrote + 1
             q == [p EXCEPT !.wrote = n]
  <2>1. /\ proc' = [proc EXCEPT ![s] = q] /\ (p.shell = "runs" \/ p.kid) /\ n \in Nat
        /\ UNCHANGED <<now, sess, sessions, lock, call, left, history>>
        /\ n > p.wrote /\ n <= left.pieces
    BY <1>0, <1>2 DEF Writes
  <2> HIDE DEF n
  <2>2. q \in ProcType /\ q.wrote = n /\ q.shell = p.shell /\ q.kid = p.kid
    BY <1>0, <2>1 DEF ProcType
  <2> HIDE DEF q
  <2> QED
    <3>1. /\ q.wrote >= p.wrote /\ (q.wrote = p.wrote \/ q.wrote <= left.pieces)
          /\ (p.shell # "none" \/ p.kid)
          /\ (q.shell = p.shell \/ (p.shell \in {"runs", "killed"} /\ q.shell = "exited"))
          /\ (Exited(p) /\ ~p.kid => q = p)
      BY <1>0, <2>1, <2>2 DEF Exited
    <3> QED
      BY <1>1, <2>1, <2>2, <3>1
<1>3. ASSUME Forks(s) \/ KidExits(s) PROVE RunsTo(s)
  <2> DEFINE b == ~p.kid
             q == [p EXCEPT !.kid = b]
  <2>1. /\ proc' = [proc EXCEPT ![s] = q] /\ (p.shell = "runs" \/ p.kid) /\ b \in BOOLEAN
        /\ UNCHANGED <<now, sess, sessions, lock, call, left, history>>
    BY <1>0, <1>3 DEF Forks, KidExits
  <2> HIDE DEF b
  <2>2. q \in ProcType /\ q.wrote = p.wrote /\ q.shell = p.shell
    BY <1>0, <2>1 DEF ProcType
  <2> HIDE DEF q
  <2> QED
    <3>1. /\ q.wrote >= p.wrote /\ (q.wrote = p.wrote \/ q.wrote <= left.pieces)
          /\ (p.shell # "none" \/ p.kid)
          /\ (q.shell = p.shell \/ (p.shell \in {"runs", "killed"} /\ q.shell = "exited"))
          /\ (Exited(p) /\ ~p.kid => q = p)
      BY <1>0, <2>1, <2>2 DEF Exited
    <3> QED
      BY <1>1, <2>1, <2>2, <3>1
<1>4. ASSUME Exits(s) PROVE RunsTo(s)
  <2> DEFINE q == [p EXCEPT !.shell = "exited"]
  <2>1. /\ proc' = [proc EXCEPT ![s] = q] /\ p.shell \in {"runs", "killed"}
        /\ UNCHANGED <<now, sess, sessions, lock, call, left, history>>
    BY <1>0, <1>4 DEF Exits
  <2>2. q \in ProcType /\ q.wrote = p.wrote /\ q.shell = "exited"
    BY <1>0 DEF ProcType, Shells
  <2> HIDE DEF q
  <2> QED
    <3>1. /\ q.wrote >= p.wrote /\ (q.wrote = p.wrote \/ q.wrote <= left.pieces)
          /\ (p.shell # "none" \/ p.kid)
          /\ (q.shell = p.shell \/ (p.shell \in {"runs", "killed"} /\ q.shell = "exited"))
          /\ (Exited(p) /\ ~p.kid => q = p)
      BY <1>0, <2>1, <2>2 DEF Exited
    <3> QED
      BY <1>1, <2>1, <2>2, <3>1
<1>5. ASSUME Reads(s) PROVE RunsTo(s)
  <2>1. /\ x.reader = "reading" /\ proc' = proc
        /\ UNCHANGED <<now, sessions, lock, call, left, told, lost, ended>>
    BY <1>5 DEF Reads, history
  <2>2. ASSUME NEW y \in SessType, sess' = [sess EXCEPT ![s] = y], y.taken = x.taken,
               y.access = x.access, x.read <= y.read,
               y.read = x.read \/ y.read <= p.wrote,
               \/ y.reader = x.reader
               \/ y.reader = "done" /\ Exited(p) /\ ~p.kid /\ y.read = p.wrote
        PROVE  RunsTo(s)
    <3>1. /\ sess' \in [Sids -> SessType] /\ \A t \in Sids \ {s} : sess'[t] = sess[t]
          /\ sess'[s] = y
      BY <1>0, <2>2
    <3> QED
      BY <1>0, <2>1, <2>2, <3>1 DEF RunsTo
  <2>3. CASE x.read < p.wrote /\ sess' = [sess EXCEPT ![s].read = @ + 1]
    <3> DEFINE n == x.read + 1
               y == [x EXCEPT !.read = n]
    <3>1. sess' = [sess EXCEPT ![s] = y] /\ n \in Nat /\ n <= p.wrote /\ x.read <= n
      BY <1>0, <2>3
    <3> HIDE DEF n
    <3>2. /\ y \in SessType /\ y.taken = x.taken /\ y.access = x.access /\ y.read = n
          /\ y.reader = x.reader
      BY <1>0, <3>1 DEF SessType
    <3> HIDE DEF y
    <3> QED
      BY <2>2, <3>1, <3>2
  <2>4. CASE /\ x.read = p.wrote /\ Exited(p) /\ ~p.kid
             /\ sess' = [sess EXCEPT ![s].reader = "done"]
    <3> DEFINE y == [x EXCEPT !.reader = "done"]
    <3>1. sess' = [sess EXCEPT ![s] = y]
      BY <2>4
    <3>2. /\ y \in SessType /\ y.taken = x.taken /\ y.access = x.access /\ y.read = x.read
          /\ y.reader = "done"
      BY <1>0 DEF SessType, Readers
    <3> HIDE DEF y
    <3> QED
      <4>1. x.read <= y.read /\ y.read = p.wrote
        BY <1>0, <2>4, <3>2
      <4> QED
        BY <2>2, <2>4, <3>1, <3>2, <4>1
  <2> QED
    BY <1>5, <2>3, <2>4 DEF Reads
<1> QED
  BY <1>2, <1>3, <1>4, <1>5 DEF Runs

\* Every step, by its effect.
LEMMA Effects ==
    ASSUME TypeInv, MadeInv, [Next]_vars
    PROVE  \/ \E c \in Callers : \/ GoesTo(c) /\ Goes(c)
                                 \/ Drops(c) /\ (Refuse(c) \/ Leak(c) \/ Stop(c))
                                 \/ Return(c) \/ PollStep(c)
           \/ \E s \in Sids : RunsTo(s)
           \/ Tick \/ UNCHANGED vars
  BY Kinds, GoesMove, Dropped, RunsMove

-----------------------------------------------------------------------------
(***************************************************************************)
(* Types, numbers and counts.                                              *)
(***************************************************************************)
LEMMA TypeStep ==
    ASSUME TypeInv, MadeInv, [Next]_vars
    PROVE  TypeInv'
<1>0. /\ left \in LeftType /\ now \in Nat /\ now <= left.horizon
      /\ proc \in [Sids -> ProcType] /\ sess \in [Sids -> SessType]
      /\ call \in [Callers -> CallType] /\ \A c \in Callers : PlaceOK(call[c])
      /\ sessions \subseteq Sids /\ ended \subseteq Sids
      /\ lock \in Callers \cup {NoOne}
      /\ told \in [Sids -> Pieces] /\ lost \in [Sids -> Pieces]
  BY DEF TypeInv
<1>1. ASSUME NEW c \in Callers, GoesTo(c) PROVE TypeInv'
  BY <1>0, <1>1 DEF GoesTo, TypeInv
<1>2. ASSUME NEW c \in Callers, Drops(c) PROVE TypeInv'
  <2>1. lost' \in [Sids -> Pieces]
    BY <1>0, <1>2 DEF Drops, Pieces, CallType
  <2>2. call' \in [Callers -> CallType] /\ \A d \in Callers : PlaceOK(call'[d])
    BY <1>0, <1>2 DEF Drops, Moves
  <2>3. /\ UNCHANGED <<told, ended, now, proc, sessions>>
        /\ left' \in LeftType /\ left'.horizon = left.horizon /\ sess' \in [Sids -> SessType]
        /\ lock' \in {lock, NoOne}
    BY <1>2 DEF Drops
  <2> QED
    BY <1>0, <2>1, <2>2, <2>3 DEF TypeInv
<1>3. ASSUME NEW c \in Callers, Return(c) PROVE TypeInv'
  <2>0. /\ call[c].sid \in Sids /\ told' = [told EXCEPT ![call[c].sid] = @ \cup call[c].got]
        /\ ended' = ended \/ ended' = ended \cup {call[c].sid}
    BY <1>0, <1>3, ReturnMoves DEF Return
  <2>1. told' \in [Sids -> Pieces] /\ ended' \subseteq Sids
    <3>1. told[call[c].sid] \cup call[c].got \in Pieces
      BY <1>0, <2>0 DEF Pieces, CallType
    <3> QED
      BY <1>0, <2>0, <3>1
  <2>2. call' \in [Callers -> CallType] /\ \A d \in Callers : PlaceOK(call'[d])
    BY <1>0, <1>3, ReturnMoves DEF Moves
  <2>3. UNCHANGED <<now, proc, sess, sessions, lock, left, lost>>
    BY <1>3 DEF Return
  <2> QED
    BY <1>0, <2>1, <2>2, <2>3 DEF TypeInv
<1>4. ASSUME NEW c \in Callers, PollStep(c) PROVE TypeInv'
  <2>1. PICK s \in Sids :
            /\ PollEffect(c, s) /\ sessions' \in {sessions, sessions \cup {s}}
            /\ lock' \in {lock, NoOne}
    BY <1>4, PollSteps
  <2>2. PlaceOK(call'[c])
    <3>1. s # NoOne
      BY Limits
    <3>2. PlaceOK(call[c]) /\ call[c] \in CallType /\ call'[c] \in CallType
      BY <1>0, <2>1 DEF PollEffect
    <3>3. /\ call'[c].sid = s /\ call'[c].op = call[c].op /\ call'[c].with = call[c].with
          /\ call[c].op # "none"
          /\ call'[c].pc \in {"kill", "sleep", "expire", "gather", "leak", "pop", "return"}
          /\ call'[c].pc = "kill" => call[c].with = "kill"
          /\ call'[c].pc = "pop" <=> call'[c].done
      BY <2>1 DEF PollEffect, Places, Late
    <3> QED
      BY <3>1, <3>2, <3>3 DEF PlaceOK, Before, Polling
  <2>3. /\ call' \in [Callers -> CallType] /\ \A d \in Callers \ {c} : call'[d] = call[d]
        /\ proc' \in [Sids -> ProcType] /\ sess' \in [Sids -> SessType]
        /\ UNCHANGED <<now, left, told, lost, ended>>
    BY <2>1 DEF PollEffect
  <2> QED
    BY <1>0, <2>1, <2>2, <2>3 DEF TypeInv
<1>5. ASSUME NEW s \in Sids, RunsTo(s) PROVE TypeInv'
  BY <1>0, <1>5 DEF RunsTo, TypeInv
<1>6. ASSUME Tick PROVE TypeInv'
  <2>1. now + 1 \in Nat /\ left.horizon \in Nat /\ now < left.horizon
    BY <1>0, <1>6 DEF Tick, LeftType
  <2> QED
    BY <1>0, <1>6, <2>1 DEF Tick, TypeInv, history
<1>7. ASSUME UNCHANGED vars PROVE TypeInv'
  BY <1>0, <1>7 DEF vars, TypeInv
<1> QED
  BY <1>1, <1>2, <1>3, <1>4, <1>5, <1>6, <1>7, Effects

LEMMA MadeStep ==
    ASSUME TypeInv, TypeInv', MadeInv, [Next]_vars
    PROVE  MadeInv'
<1>0. /\ \A c \in Callers : call[c].sid \in Made \cup {NoOne} /\ call[c].sweep \subseteq Made
      /\ \A s \in Sids \ Made :
            /\ proc[s].wrote = 0 /\ ~proc[s].kid /\ proc[s].shell = "none"
            /\ sess[s].read = 0 /\ sess[s].taken = 0 /\ sess[s].reader = "none"
            /\ told[s] = {} /\ lost[s] = {} /\ s \notin sessions /\ s \notin ended
      /\ sessions \subseteq Made /\ Made \subseteq Sids
  BY DEF MadeInv, Made, TypeInv
\* No new session.
<1>a. ASSUME \A s \in Sids : proc'[s].shell = "none" <=> proc[s].shell = "none",
             \A c \in Callers : call'[c].sid \in Made \cup {NoOne} /\ call'[c].sweep \subseteq Made,
             \A s \in Sids \ Made :
                proc'[s].wrote = 0 /\ ~proc'[s].kid /\ sess'[s].read = 0 /\ sess'[s].taken = 0
                /\ sess'[s].reader = "none" /\ told'[s] = {} /\ lost'[s] = {},
             sessions' \subseteq sessions, ended' \cap (Sids \ Made) = {}
      PROVE  MadeInv'
  <2>1. Made' = Made
    BY <1>a DEF Made
  <2>2. \E n \in Nat : Made' = 1 .. n
    BY <2>1 DEF MadeInv
  <2>3. \A s \in Sids \ Made : s \notin sessions' /\ s \notin ended'
    BY <1>0, <1>a
  <2> QED
    BY <1>a, <2>1, <2>2, <2>3 DEF MadeInv
<1>b. ASSUME NEW p \in ProcType
      PROVE  p.shell # "none" => Killed(p).shell # "none"
  BY DEF Killed, ProcType, Exited
<1>1. ASSUME NEW c \in Callers, GoesTo(c) PROVE MadeInv'
  <2>1. ASSUME NEW s \in Sids
        PROVE  (proc'[s].shell = "none" <=> proc[s].shell = "none")
               /\ (s \notin Made => proc'[s].wrote = 0 /\ ~proc'[s].kid)
    <3>1. CASE proc'[s] = proc[s]
      BY <1>0, <3>1
    <3>2. CASE proc'[s] = Killed(proc[s]) /\ s \in call[c].sweep
      BY <1>0, <1>b, <3>2 DEF TypeInv, Made
    <3> QED
      BY <1>1, <3>1, <3>2 DEF GoesTo
  <2>2. \A d \in Callers : call'[d].sid \in Made \cup {NoOne} /\ call'[d].sweep \subseteq Made
    BY <1>0, <1>1 DEF GoesTo
  <2>3. sess' = sess /\ told' = told /\ lost' = lost /\ sessions' \subseteq sessions /\ ended' = ended
    BY <1>1 DEF GoesTo
  <2> QED
    BY <1>0, <1>a, <2>1, <2>2, <2>3
<1>2. ASSUME NEW c \in Callers, Drops(c) PROVE MadeInv'
  <2>1. \A d \in Callers : call'[d].sid \in Made \cup {NoOne} /\ call'[d].sweep \subseteq Made
    BY <1>0, <1>2 DEF Drops, Moves
  <2>2. \A s \in Sids : sess'[s].read = sess[s].read /\ sess'[s].taken = sess[s].taken
                        /\ (sess'[s].reader = sess[s].reader \/ sess[s].reader = "reading")
    BY <1>2 DEF Drops
  <2>3. \A s \in Sids \ Made : lost'[s] = {}
    <3>1. \A s \in Sids \ Made : s # call[c].sid
      BY <1>0, Limits
    <3> QED
      BY <1>0, <1>2, <3>1 DEF Drops
  <2>4. UNCHANGED <<told, ended, proc, sessions>>
    BY <1>2 DEF Drops
  <2> QED
    BY <1>0, <1>a, <2>1, <2>2, <2>3, <2>4
<1>3. ASSUME NEW c \in Callers, Return(c) PROVE MadeInv'
  <2>1. \A d \in Callers : call'[d].sid \in Made \cup {NoOne} /\ call'[d].sweep \subseteq Made
    BY <1>0, <1>3, ReturnMoves DEF Moves
  <2>2. /\ call[c].sid \in Made
        /\ told' = [told EXCEPT ![call[c].sid] = @ \cup call[c].got]
        /\ ended' = ended \/ ended' = ended \cup {call[c].sid}
    BY <1>0, <1>3, ReturnMoves, Limits DEF Return
  <2>3. UNCHANGED <<proc, sess, sessions, lost>>
    BY <1>3 DEF Return
  <2>4. \A s \in Sids \ Made : told'[s] = {} /\ s \notin ended'
    BY <1>0, <2>2 DEF TypeInv
  <2> QED
    BY <1>0, <1>a, <2>1, <2>3, <2>4
<1>4. ASSUME NEW c \in Callers, PollStep(c) PROVE MadeInv'
  <2>1. PICK s \in Sids :
               /\ PollEffect(c, s)
               /\ \/ /\ s \in Made /\ sessions' = sessions
                     /\ proc'[s].shell \in {proc[s].shell, "killed"}
                  \/ /\ s \notin Made /\ sessions' = sessions \cup {s}
                     /\ \E n \in Nat : Made = 1 .. n /\ s = n + 1
                     /\ proc'[s].shell \in {"runs", "killed"}
    BY <1>4, PollSteps
  <2>2. /\ \A d \in Callers \ {c} : call'[d] = call[d]
        /\ \A q \in Sids \ {s} : proc'[q] = proc[q] /\ sess'[q] = sess[q]
        /\ told' = told /\ lost' = lost /\ ended' = ended
        /\ call'[c].sid = s /\ call'[c].sweep = call[c].sweep
    BY <2>1 DEF PollEffect
  <2>3. CASE s \in Made
    <3>1. sessions' = sessions /\ proc'[s].shell \in {proc[s].shell, "killed"}
      BY <2>1, <2>3
    <3>2. \A q \in Sids : proc'[q].shell = "none" <=> proc[q].shell = "none"
      BY <2>2, <2>3, <3>1 DEF Made
    <3> QED
      BY <1>0, <1>a, <2>2, <2>3, <3>1, <3>2
  <2>4. CASE s \notin Made
    <3>1. /\ sessions' = sessions \cup {s} /\ \E n \in Nat : Made = 1 .. n /\ s = n + 1
          /\ proc'[s].shell \in {"runs", "killed"}
      BY <2>1, <2>4
    <3>2. Made' = Made \cup {s}
      BY <2>2, <3>1 DEF Made
    <3>3. \E n \in Nat : Made' = 1 .. n
      <4>1. PICK n \in Nat : Made = 1 .. n /\ s = n + 1
        BY <3>1
      <4>2. Made' = 1 .. n + 1
        BY <3>2, <4>1
      <4> QED
        BY <4>1, <4>2
    <3>4. \A d \in Callers : call'[d].sid \in Made' \cup {NoOne} /\ call'[d].sweep \subseteq Made'
      BY <1>0, <2>2, <3>2
    <3>5. \A q \in Sids \ Made' :
            /\ proc'[q].wrote = 0 /\ ~proc'[q].kid
            /\ sess'[q].read = 0 /\ sess'[q].taken = 0 /\ sess'[q].reader = "none"
            /\ told'[q] = {} /\ lost'[q] = {} /\ q \notin sessions' /\ q \notin ended'
      BY <1>0, <2>2, <3>1, <3>2
    <3> QED
      BY <3>3, <3>4, <3>5 DEF MadeInv
  <2> QED
    BY <2>3, <2>4
<1>5. ASSUME NEW s \in Sids, RunsTo(s) PROVE MadeInv'
  <2>1. s \in Made
    BY <1>0, <1>5 DEF RunsTo, Made
  <2>2. /\ \A q \in Sids \ {s} : proc'[q] = proc[q] /\ sess'[q] = sess[q]
        /\ UNCHANGED <<sessions, call, told, lost, ended>>
        /\ \/ proc'[s].shell = proc[s].shell
           \/ proc[s].shell \in {"runs", "killed"} /\ proc'[s].shell = "exited"
    BY <1>5 DEF RunsTo
  <2>3. \A q \in Sids : proc'[q].shell = "none" <=> proc[q].shell = "none"
    BY <2>2
  <2> QED
    BY <1>0, <1>a, <2>1, <2>2, <2>3
<1>6. ASSUME UNCHANGED <<proc, sess, sessions, call, told, lost, ended>> PROVE MadeInv'
  BY <1>0, <1>6, <1>a
<1> QED
  BY <1>1, <1>2, <1>3, <1>4, <1>5, <1>6, Effects DEF Tick, vars, history

\* What is read was written, and what is taken was read.
CountInv ==
    \A s \in Sids : /\ sess[s].taken <= sess[s].read /\ sess[s].read <= proc[s].wrote
                    /\ proc[s].wrote <= left.pieces /\ sess[s].access <= now

\* What the end of a session that was reported rests on.
Finished(s) ==
    /\ Exited(proc[s]) /\ sess[s].reader \in {"done", "cancelled"}
    /\ sess[s].reader = "done" => sess[s].taken = sess[s].read

\* Readers end with the pipe; a call that reports the end has seen them end, and
\* the session is forgotten.
EndInv ==
    /\ \A s \in Sids :
          sess[s].reader = "done" =>
             sess[s].read = proc[s].wrote /\ Exited(proc[s]) /\ ~proc[s].kid
    /\ \A c \in Callers : call[c].done =>
          Finished(call[c].sid) /\ (call[c].pc = "return" => call[c].sid \notin sessions)
    /\ \A s \in ended : Finished(s) /\ s \notin sessions

LEMMA Numbers ==
    ASSUME TypeInv
    PROVE  /\ now \in Nat /\ left.pieces \in Nat /\ left.horizon \in Nat
           /\ \A s \in Sids : /\ sess[s].read \in Nat /\ sess[s].taken \in Nat
                              /\ sess[s].access \in Nat /\ proc[s].wrote \in Nat
                              /\ proc[s].kid \in BOOLEAN
  BY DEF TypeInv, SessType, ProcType, LeftType

LEMMA CountStep ==
    ASSUME TypeInv, TypeInv', MadeInv, CountInv, [Next]_vars
    PROVE  CountInv'
<1>0. /\ now \in Nat /\ left.pieces \in Nat
      /\ \A s \in Sids : /\ sess[s].read \in Nat /\ sess[s].taken \in Nat
                         /\ sess[s].access \in Nat /\ proc[s].wrote \in Nat
  BY Numbers
<1>1. ASSUME NEW c \in Callers, GoesTo(c) PROVE CountInv'
  <2>1. ASSUME NEW s \in Sids PROVE proc'[s].wrote = proc[s].wrote
    BY <1>1, KilledIs DEF GoesTo, TypeInv
  <2> QED
    BY <1>0, <1>1, <2>1 DEF GoesTo, CountInv
<1>2. ASSUME NEW c \in Callers, Drops(c) PROVE CountInv'
  BY <1>2 DEF Drops, CountInv
<1>3. ASSUME NEW c \in Callers, Return(c) PROVE CountInv'
  BY <1>3 DEF Return, CountInv
<1>4. ASSUME NEW c \in Callers, PollStep(c) PROVE CountInv'
  <2>1. PICK s \in Sids : PollEffect(c, s)
    BY <1>4, PollSteps
  <2>2. /\ \A q \in Sids \ {s} : proc'[q] = proc[q] /\ sess'[q] = sess[q]
        /\ now' = now /\ left' = left
        /\ sess'[s].read = sess[s].read /\ sess'[s].access \in {sess[s].access, now}
        /\ sess'[s].taken \in {sess[s].taken, sess[s].read} /\ proc'[s].wrote = proc[s].wrote
    BY <2>1 DEF PollEffect
  <2> QED
    BY <1>0, <2>2 DEF CountInv
<1>5. ASSUME NEW s \in Sids, RunsTo(s) PROVE CountInv'
  <2>1. /\ sess'[s].read \in Nat /\ proc'[s].wrote \in Nat
    BY Numbers DEF TypeInv, SessType, ProcType
  <2> QED
    BY <1>0, <1>5, <2>1 DEF RunsTo, CountInv
<1>6. ASSUME Tick PROVE CountInv'
  BY <1>0, <1>6 DEF Tick, CountInv
<1>7. ASSUME UNCHANGED vars PROVE CountInv'
  BY <1>7 DEF vars, CountInv
<1> QED
  BY <1>1, <1>2, <1>3, <1>4, <1>5, <1>6, <1>7, Effects

LEMMA FinishedKept ==
    ASSUME TypeInv, MadeInv, [Next]_vars, NEW s \in Sids, Finished(s)
    PROVE  Finished(s)'
<1>1. ASSUME NEW c \in Callers, GoesTo(c) PROVE Finished(s)'
  <2>1. Exited(proc'[s])
    BY <1>1, KilledIs DEF GoesTo, TypeInv, Finished
  <2> QED
    BY <1>1, <2>1 DEF GoesTo, Finished
<1>2. ASSUME NEW c \in Callers, Drops(c) PROVE Finished(s)'
  BY <1>2 DEF Drops, Finished
<1>3. ASSUME NEW c \in Callers, Return(c) PROVE Finished(s)'
  BY <1>3 DEF Return, Finished
<1>4. ASSUME NEW c \in Callers, PollStep(c) PROVE Finished(s)'
  <2>1. PICK q \in Sids : PollEffect(c, q)
    BY <1>4, PollSteps
  <2>2. /\ Exited(proc'[s]) /\ sess'[s].reader = sess[s].reader /\ sess'[s].read = sess[s].read
        /\ sess'[s].taken \in {sess[s].taken, sess[s].read}
    BY <2>1 DEF PollEffect, Finished
  <2> QED
    BY <2>2 DEF Finished
<1>5. ASSUME NEW q \in Sids, RunsTo(q) PROVE Finished(s)'
  <2>1. Exited(proc'[s])
    BY <1>5 DEF RunsTo, Finished, Exited
  <2> QED
    BY <1>5, <2>1 DEF RunsTo, Finished
<1>6. ASSUME UNCHANGED <<proc, sess>> PROVE Finished(s)'
  BY <1>6 DEF Finished
<1> QED
  BY <1>1, <1>2, <1>3, <1>4, <1>5, <1>6, Effects DEF Tick, vars

LEMMA EndStep ==
    ASSUME TypeInv, TypeInv', MadeInv, EndInv, [Next]_vars
    PROVE  EndInv'
<1>0. /\ \A s \in Sids : Finished(s) => Finished(s)'
      /\ \A s \in ended : s \in Sids /\ Finished(s) /\ s \notin sessions /\ s \in Made
      /\ \A c \in Callers : call[c].done =>
            /\ call[c].sid \in Made /\ call[c].sid \in Sids /\ Finished(call[c].sid)
            /\ call[c].pc = "return" => call[c].sid \notin sessions
            /\ call[c].pc \in {"pop", "return"}
  BY FinishedKept DEF EndInv, TypeInv, MadeInv, PlaceOK, Made
\* The readers' end is kept, the sessions that were forgotten stay so.
<1>a. ASSUME \A s \in Sids :
                sess'[s].reader = "done" =>
                   sess'[s].read = proc'[s].wrote /\ Exited(proc'[s]) /\ ~proc'[s].kid,
             \A c \in Callers, s \in Sids : call'[c].done /\ call'[c].sid = s =>
                \/ call[c].done /\ call[c].sid = s
                   /\ (call'[c].pc = "return" => s \notin sessions')
                \/ Finished(s)' /\ call'[c].pc # "return",
             \A s \in ended' : s \notin sessions' /\ (s \in ended \/ Finished(s))
      PROVE  EndInv'
  <2>1. \A s \in ended' : s \in Sids /\ Finished(s)' /\ s \notin sessions'
    BY <1>0, <1>a DEF TypeInv
  <2>2. ASSUME NEW c \in Callers, call'[c].done
        PROVE  Finished(call[c].sid)' /\ (call'[c].pc = "return" => call'[c].sid \notin sessions')
    <3>1. PICK s \in Sids : call'[c].sid = s
      BY <2>2 DEF TypeInv, PlaceOK, CallType, SidNames
    <3>2. Finished(s)' /\ (call'[c].pc = "return" => s \notin sessions')
      BY <1>0, <1>a, <2>2, <3>1
    <3> QED
      BY <3>1, <3>2 DEF Finished
  <2> QED
    BY <1>a, <2>1, <2>2 DEF EndInv
<1>1. ASSUME NEW c \in Callers, GoesTo(c) PROVE EndInv'
  <2>1. \A s \in Sids : proc'[s].wrote = proc[s].wrote /\ (Exited(proc[s]) => Exited(proc'[s]))
                        /\ proc'[s].kid = proc[s].kid
    BY <1>1, KilledIs DEF GoesTo, TypeInv
  <2>2. \A d \in Callers : call'[d].done => call[d].done /\ call'[d].sid = call[d].sid
           /\ (call'[d].pc = "return" => call[d].sid \notin sessions')
    BY <1>0, <1>1 DEF GoesTo
  <2>3. sess' = sess /\ ended' = ended /\ sessions' \subseteq sessions
    BY <1>1 DEF GoesTo
  <2> QED
    BY <1>0, <1>a, <2>1, <2>2, <2>3 DEF EndInv
<1>2. ASSUME NEW c \in Callers, Drops(c) PROVE EndInv'
  <2>1. \A s \in Sids : sess'[s].reader = "done" => sess[s].reader = "done"
                        /\ sess'[s].read = sess[s].read
    BY <1>2 DEF Drops
  <2>2. \A d \in Callers : call'[d].done => call[d].done /\ call'[d] = call[d]
    BY <1>2 DEF Drops, Moves
  <2>3. proc' = proc /\ ended' = ended /\ sessions' = sessions
    BY <1>2 DEF Drops
  <2> QED
    BY <1>0, <1>a, <2>1, <2>2, <2>3 DEF EndInv
<1>3. ASSUME NEW c \in Callers, Return(c) PROVE EndInv'
  <2>1. \A d \in Callers : call'[d].done => call[d].done /\ call'[d] = call[d]
    BY <1>3, ReturnMoves DEF Moves
  <2>2. proc' = proc /\ sess' = sess /\ sessions' = sessions
    BY <1>3 DEF Return
  <2>3. /\ call[c].pc = "return"
        /\ ended' = IF call[c].done THEN ended \cup {call[c].sid} ELSE ended
    BY <1>3 DEF Return
  <2> QED
    BY <1>0, <1>a, <2>1, <2>2, <2>3 DEF EndInv
<1>4. ASSUME NEW c \in Callers, PollStep(c) PROVE EndInv'
  <2>1. PICK s \in Sids :
            PollEffect(c, s) /\ (sessions' = sessions \/ (s \notin Made /\ sessions' = sessions \cup {s}))
    BY <1>4, PollSteps
  <2>2. /\ \A q \in Sids \ {s} : proc'[q] = proc[q] /\ sess'[q] = sess[q]
        /\ proc'[s].kid = proc[s].kid /\ proc'[s].wrote = proc[s].wrote
        /\ Exited(proc[s]) => Exited(proc'[s])
        /\ sess'[s].read = sess[s].read
        /\ sess'[s].reader = "done" => sess[s].reader = "done"
        /\ ended' = ended
    BY <2>1 DEF PollEffect
  <2>3. /\ \A d \in Callers \ {c} : call'[d] = call[d]
        /\ call'[c].sid = s /\ (call'[c].pc = "pop" <=> call'[c].done)
        /\ call'[c].done => /\ Exited(proc'[s]) /\ sess'[s].reader \in {"done", "cancelled"}
                            /\ sess'[s].taken = sess'[s].read
    BY <2>1 DEF PollEffect
  <2>4. call'[c].done => Finished(s)'
    BY <2>3 DEF Finished
  <2>5. ASSUME NEW d \in Callers, NEW q \in Sids, call'[d].done, call'[d].sid = q
        PROVE  \/ call[d].done /\ call[d].sid = q /\ (call'[d].pc = "return" => q \notin sessions')
               \/ Finished(q)' /\ call'[d].pc # "return"
    <3>1. CASE d = c
      <4>1. q = s /\ call'[d].pc # "return"
        BY <2>3, <2>5, <3>1
      <4>2. Finished(s)'
        BY <2>4, <2>5, <3>1
      <4> QED
        BY <4>1, <4>2
    <3>2. CASE d # c
      BY <1>0, <2>1, <2>3, <2>5, <3>2
    <3> QED
      BY <3>1, <3>2
  <2> QED
    BY <1>0, <1>a, <2>1, <2>2, <2>5 DEF EndInv
<1>5. ASSUME NEW s \in Sids, RunsTo(s) PROVE EndInv'
  <2>1. UNCHANGED <<call, sessions, ended>>
    BY <1>5 DEF RunsTo
  <2>2. ASSUME NEW q \in Sids, sess'[q].reader = "done"
        PROVE  sess'[q].read = proc'[q].wrote /\ Exited(proc'[q]) /\ ~proc'[q].kid
    <3>1. CASE sess[q].reader = "done"
      BY <1>5, <2>2, <3>1 DEF RunsTo, EndInv
    <3>2. CASE sess[q].reader # "done"
      BY <1>5, <2>2, <3>2 DEF RunsTo
    <3> QED
      BY <3>1, <3>2
  <2> QED
    BY <1>0, <1>a, <2>1, <2>2 DEF EndInv
<1>6. ASSUME UNCHANGED <<proc, sess, sessions, call, ended>> PROVE EndInv'
  BY <1>0, <1>6, <1>a DEF EndInv
<1> QED
  BY <1>1, <1>2, <1>3, <1>4, <1>5, <1>6, Effects DEF Tick, vars, history

-----------------------------------------------------------------------------
\* The lock's holder is the one caller that looks at the registry: what it
\* sweeps is registered, and there is room for what it starts.
Holding == {"sweep", "swept", "spawn"}
RegInv ==
    /\ \A c \in Callers : lock = c <=> call[c].pc \in Holding
    /\ \A c \in Callers : call[c].pc \in {"sweep", "swept"} => call[c].sweep \subseteq sessions
    /\ \A c \in Callers : call[c].pc = "spawn" => Cardinality(sessions) < MaxSessions
    /\ Cardinality(sessions) <= MaxSessions
    /\ NoStrayShell

LEMMA Registry ==
    ASSUME TypeInv, NEW S \in SUBSET sessions
    PROVE  /\ IsFiniteSet(sessions) /\ IsFiniteSet(S) /\ Cardinality(S) <= Cardinality(sessions)
           /\ Cardinality(sessions) \in Nat /\ Cardinality(S) \in Nat
<1>1. IsFiniteSet(Sids)
  BY Limits, FS_Interval DEF Sids
<1>2. sessions \subseteq Sids
  BY DEF TypeInv
<1>3. IsFiniteSet(sessions)
  BY <1>1, <1>2, FS_Subset
<1> QED
  BY <1>3, FS_Subset, FS_CardinalityType

LEMMA RegStep ==
    ASSUME TypeInv, TypeInv', MadeInv, EndInv, RegInv, [Next]_vars
    PROVE  RegInv'
<1>0. /\ \A c \in Callers : lock = c <=> call[c].pc \in Holding
      /\ \A c \in Callers : call[c].pc \in {"sweep", "swept"} => call[c].sweep \subseteq sessions
      /\ \A c \in Callers : call[c].pc = "spawn" => Cardinality(sessions) < MaxSessions
      /\ Cardinality(sessions) <= MaxSessions
      /\ \A s \in Sids : proc[s].shell = "runs" => s \in sessions
      /\ MaxSessions \in Nat /\ NoOne \notin Callers
  BY Limits DEF RegInv, NoStrayShell
\* A step that registers nothing.
<1>a. ASSUME sessions' \subseteq sessions,
             \A c \in Callers : lock' = c <=> call'[c].pc \in Holding,
             \A c \in Callers : call'[c].pc \in {"sweep", "swept"} => call'[c].sweep \subseteq sessions',
             \A c \in Callers : call'[c].pc = "spawn" =>
                call[c].pc = "spawn" \/ Cardinality(sessions) < MaxSessions,
             \A s \in Sids : proc'[s].shell = "runs" => proc[s].shell = "runs" /\
                                                        (s \in sessions => s \in sessions')
      PROVE  RegInv'
  <2>1. Cardinality(sessions') <= Cardinality(sessions) /\ Cardinality(sessions) \in Nat
        /\ Cardinality(sessions') \in Nat
    BY <1>a, Registry
  <2>2. \A c \in Callers : call'[c].pc = "spawn" => Cardinality(sessions') < MaxSessions
    BY <1>0, <1>a, <2>1
  <2>3. Cardinality(sessions') <= MaxSessions
    BY <1>0, <2>1
  <2> QED
    BY <1>0, <1>a, <2>2, <2>3 DEF RegInv, NoStrayShell
<1>1. ASSUME NEW c \in Callers, NEW n, ~(n \in {"sweep", "swept", "spawn"}),
             \A d \in Callers \ {c} : call'[d] = call[d], call'[c].pc = n,
             lock' = (IF call[c].pc \in Holding THEN NoOne ELSE lock),
             sessions' = sessions, \A s \in Sids : proc'[s].shell = "runs" => proc[s].shell = "runs"
      PROVE  RegInv'
  <2>1. \A d \in Callers : lock' = d <=> call'[d].pc \in Holding
    BY <1>0, <1>1 DEF Holding
  <2> QED
    BY <1>0, <1>1, <1>a, <2>1
<1>2. ASSUME NEW c \in Callers, Goes(c) PROVE RegInv'
  <2>1. CASE Call(c)
    <3>1. UNCHANGED <<proc, sessions, lock>> /\ call[c].pc = "idle"
      BY <2>1 DEF Call
    <3>2. call'[c].pc = "lock" /\ \A d \in Callers \ {c} : call'[d] = call[d]
      BY <2>1, CallMoves DEF Moves
    <3> QED
      BY <1>1, <3>1, <3>2 DEF Holding
  <2>2. CASE Lock(c)
    <3>1. UNCHANGED <<proc, sessions>> /\ lock' = c /\ lock = NoOne
      BY <2>2 DEF Lock
    <3>2. /\ call'[c].pc = "sweep" /\ call'[c].sweep = Stale
          /\ \A d \in Callers \ {c} : call'[d] = call[d]
      BY <2>2, LockMoves DEF Moves
    <3>3. \A d \in Callers : lock' = d <=> call'[d].pc \in Holding
      BY <1>0, <3>1, <3>2 DEF Holding
    <3> QED
      BY <1>0, <1>a, <3>1, <3>2, <3>3 DEF Stale
  <2>3. CASE Sweep(c)
    <3>1. PICK s \in call[c].sweep, n \in {"sweep", "swept"} :
              /\ Moves(c, n, call[c].sid, call[c].with, call[c].sweep \ {s}, call[c].got, FALSE)
              /\ s \in Sids /\ sessions' = sessions \ {s}
              /\ proc' = [proc EXCEPT ![s] = Killed(proc[s])] /\ call[c].pc = "sweep"
      BY <2>3, SweepMoves
    <3>2. lock' = lock
      BY <2>3 DEF Sweep
    <3>3. /\ call'[c].pc = n /\ call'[c].sweep = call[c].sweep \ {s}
          /\ \A d \in Callers \ {c} : call'[d] = call[d]
      BY <3>1 DEF Moves
    <3>4. lock = c /\ \A d \in Callers \ {c} : call[d].pc \notin Holding
      BY <1>0, <3>1 DEF Holding
    <3>5. \A d \in Callers : lock' = d <=> call'[d].pc \in Holding
      BY <1>0, <3>1, <3>2, <3>3, <3>4 DEF Holding
    <3>6. \A d \in Callers : call'[d].pc \in {"sweep", "swept"} => call'[d].sweep \subseteq sessions'
      BY <1>0, <3>1, <3>3, <3>4 DEF Holding
    <3>7. \A d \in Callers : call'[d].pc = "spawn" => call[d].pc = "spawn"
      BY <3>1, <3>3
    <3>8. \A q \in Sids : proc'[q].shell = "runs" => proc[q].shell = "runs" /\
                                                     (q \in sessions => q \in sessions')
      BY <3>1, KilledIs DEF TypeInv
    <3> QED
      BY <1>a, <3>1, <3>5, <3>6, <3>7, <3>8
  <2>4. CASE AfterKill(c) /\ call[c].pc = "swept"
    <3>1. UNCHANGED <<proc, sessions, lock>>
      BY <2>4 DEF AfterKill, KillWaited
    <3>2. /\ call'[c].pc = "sweep" /\ call'[c].sweep = call[c].sweep
          /\ \A d \in Callers \ {c} : call'[d] = call[d]
      BY <2>4, SweptMoves DEF Moves
    <3>3. \A d \in Callers : lock' = d <=> call'[d].pc \in Holding
      BY <1>0, <2>4, <3>1, <3>2 DEF Holding
    <3> QED
      BY <1>0, <1>a, <2>4, <3>1, <3>2, <3>3
  <2>5. CASE Spawn(c)
    <3>1. UNCHANGED <<proc, sessions, lock>> /\ Cardinality(sessions) < MaxSessions
      BY <2>5 DEF Spawn
    <3>2. /\ call'[c].pc = "spawn" /\ call[c].pc = "sweep"
          /\ \A d \in Callers \ {c} : call'[d] = call[d]
      BY <2>5, SpawnMoves DEF Moves
    <3>3. \A d \in Callers : lock' = d <=> call'[d].pc \in Holding
      BY <1>0, <3>1, <3>2 DEF Holding
    <3> QED
      BY <1>0, <1>a, <3>1, <3>2, <3>3
  <2>6. CASE Found(c) /\ call[c].with = "chars"
    <3>1. /\ call'[c].pc = "write" /\ \A d \in Callers \ {c} : call'[d] = call[d]
          /\ UNCHANGED <<proc, sessions>> /\ lock' = NoOne /\ call[c].pc = "sweep"
      BY <2>6, FoundMoves DEF Moves
    <3> QED
      BY <1>1, <3>1 DEF Holding
  <2>7. CASE WriteFails(c)
    <3>1. /\ call'[c].pc = "idle" /\ \A d \in Callers \ {c} : call'[d] = call[d]
          /\ UNCHANGED <<proc, sessions, lock>> /\ call[c].pc = "write"
      BY <2>7, WriteFailsMoves DEF Moves, WriteFails
    <3> QED
      BY <1>1, <3>1 DEF Holding
  <2>8. CASE Pop(c)
    <3>1. UNCHANGED <<proc, lock>> /\ lock = NoOne /\ sessions' = sessions \ {call[c].sid}
      BY <2>8 DEF Pop
    <3>2. /\ call'[c].pc = "return" /\ \A d \in Callers \ {c} : call'[d] = call[d]
          /\ call[c].done /\ call[c].sid \in Sids
      BY <2>8, PopMoves DEF Moves
    <3>3. \A d \in Callers : lock' = d <=> call'[d].pc \in Holding
      BY <1>0, <3>1, <3>2 DEF Holding
    <3>4. \A d \in Callers : call'[d].pc \notin Holding
      BY <1>0, <3>1, <3>3
    <3>5. Exited(proc[call[c].sid])
      BY <3>2 DEF EndInv, Finished
    <3>6. \A q \in Sids : proc'[q].shell = "runs" => proc[q].shell = "runs" /\
                                                     (q \in sessions => q \in sessions')
      BY <3>1, <3>5 DEF Exited
    <3> QED
      BY <1>a, <3>1, <3>3, <3>4, <3>6 DEF Holding
  <2>9. CASE Again(c)
    <3>1. UNCHANGED <<proc, sessions, lock>> /\ call[c].pc = "return"
      BY <2>9 DEF Again
    <3>2. call'[c].pc = "lock" /\ \A d \in Callers \ {c} : call'[d] = call[d]
      BY <2>9, AgainMoves DEF Moves
    <3> QED
      BY <1>1, <3>1, <3>2 DEF Holding
  <2> QED
    BY <1>2, <2>1, <2>2, <2>3, <2>4, <2>5, <2>6, <2>7, <2>8, <2>9 DEF Goes
<1>3. ASSUME NEW c \in Callers, Drops(c) PROVE RegInv'
  <2>1. /\ call'[c].pc = "idle" /\ \A d \in Callers \ {c} : call'[d] = call[d]
        /\ UNCHANGED <<proc, sessions>> /\ lock' \in {lock, NoOne}
        /\ (call[c].pc \in Holding /\ lock = c => lock' = NoOne)
        /\ (lock' # lock => lock = c \/ call[c].pc = "sweep")
    BY <1>3 DEF Drops, Moves, Holding
  <2>2. lock' = IF call[c].pc \in Holding THEN NoOne ELSE lock
    BY <1>0, <2>1 DEF Holding
  <2> QED
    BY <1>1, <2>1, <2>2
<1>4. ASSUME NEW c \in Callers, Return(c) PROVE RegInv'
  <2>1. UNCHANGED <<proc, sessions, lock>> /\ call[c].pc = "return"
    BY <1>4 DEF Return
  <2>2. call'[c].pc = "idle" /\ \A d \in Callers \ {c} : call'[d] = call[d]
    BY <1>4, ReturnMoves DEF Moves
  <2> QED
    BY <1>1, <2>1, <2>2 DEF Holding
<1>5. ASSUME NEW c \in Callers, PollStep(c) PROVE RegInv'
  <2>1. PICK s \in Sids :
               /\ PollEffect(c, s)
               /\ \/ /\ s \in Made /\ sessions' = sessions /\ call[c].sid = s
                     /\ proc'[s].shell \in {proc[s].shell, "killed"}
                     /\ call[c].pc \in {"kill", "expire", "write", "sleep", "gather", "sweep"}
                     /\ IF call[c].pc = "sweep" THEN lock' = NoOne ELSE lock' = lock
                  \/ /\ s \notin Made /\ sessions' = sessions \cup {s} /\ call[c].sid = NoOne
                     /\ \E n \in Nat : Made = 1 .. n /\ s = n + 1
                     /\ proc'[s].shell \in {"runs", "killed"} /\ call[c].pc = "spawn"
                     /\ lock' = IF lock = c THEN NoOne ELSE lock
    BY <1>5, PollSteps
  <2>2. /\ \A d \in Callers \ {c} : call'[d] = call[d]
        /\ \A q \in Sids \ {s} : proc'[q] = proc[q]
        /\ call'[c].pc \in {"kill", "sleep", "expire", "gather", "leak", "pop", "return"}
    BY <2>1 DEF PollEffect, Places, Late
  <2>3. CASE s \in Made
    <3>1. /\ sessions' = sessions /\ proc'[s].shell \in {proc[s].shell, "killed"}
          /\ lock' = IF call[c].pc \in Holding THEN NoOne ELSE lock
      BY <2>1, <2>3 DEF Holding
    <3>2. \A q \in Sids : proc'[q].shell = "runs" => proc[q].shell = "runs"
      BY <2>2, <3>1
    <3> QED
      BY <1>1, <2>2, <3>1, <3>2
  <2>4. CASE s \notin Made
    <3>1. /\ sessions' = sessions \cup {s} /\ call[c].pc = "spawn"
          /\ lock' = IF lock = c THEN NoOne ELSE lock
      BY <2>1, <2>4
    <3>2. lock = c /\ lock' = NoOne /\ Cardinality(sessions) < MaxSessions
      BY <1>0, <3>1 DEF Holding
    <3>3. s \notin sessions
      BY <2>4 DEF MadeInv
    <3>4. Cardinality(sessions') = Cardinality(sessions) + 1 /\ Cardinality(sessions) \in Nat
      BY <3>1, <3>3, Registry, FS_AddElement
    <3>5. Cardinality(sessions') <= MaxSessions
      BY <1>0, <3>2, <3>4
    <3>6. \A d \in Callers : call'[d].pc \notin Holding
      BY <1>0, <2>2, <3>1, <3>2 DEF Holding
    <3>7. \A q \in Sids : proc'[q].shell = "runs" => q \in sessions'
      BY <1>0, <2>2, <3>1
    <3>8. \A d \in Callers : lock' = d <=> call'[d].pc \in Holding
      BY <1>0, <3>2, <3>6
    <3> QED
      BY <3>5, <3>6, <3>7, <3>8 DEF RegInv, NoStrayShell, Holding
  <2> QED
    BY <2>3, <2>4
<1>6. ASSUME NEW s \in Sids, RunsTo(s) PROVE RegInv'
  <2>1. UNCHANGED <<call, sessions, lock>> /\ \A q \in Sids \ {s} : proc'[q] = proc[q]
    BY <1>6 DEF RunsTo
  <2>2. proc'[s].shell = "runs" => proc[s].shell = "runs"
    BY <1>6 DEF RunsTo
  <2> QED
    BY <1>0, <1>a, <2>1, <2>2
<1>7. ASSUME UNCHANGED <<proc, sessions, call, lock>> PROVE RegInv'
  BY <1>0, <1>7, <1>a
<1> QED
  BY <1>2, <1>3, <1>4, <1>5, <1>6, <1>7, Effects DEF Tick, vars

-----------------------------------------------------------------------------
\* A call that polls and waits holds its session: it was accessed when the wait
\* began, the wait is not over, and no sweep has listed it.
Waits(c, s) ==
    /\ call[c].pc = "sleep" /\ call[c].with = "none" /\ call[c].sid = s
    /\ ~Exited(proc[s])

PollInv ==
    \A c \in Callers, s \in Sids : Waits(c, s) =>
        /\ s \in sessions
        /\ call[c].until <= sess[s].access + PollMax /\ now <= call[c].until
        /\ \A d \in Callers : call[d].pc \in {"sweep", "swept"} => s \notin call[d].sweep

LEMMA Untils ==
    ASSUME TypeInv
    PROVE  \A c \in Callers : call[c].until \in Nat
  BY DEF TypeInv, CallType

\* A step that polls nothing keeps the waiting calls' sessions.
LEMMA WaitsKept ==
    ASSUME TypeInv, PollInv, NEW c \in Callers, NEW s \in Sids, Waits(c, s)', Waits(c, s),
           call'[c].until = call[c].until, sess'[s].access = sess[s].access, now' = now,
           s \in sessions',
           \A d \in Callers : call'[d].pc \in {"sweep", "swept"} =>
               \/ call[d].pc \in {"sweep", "swept"} /\ call'[d].sweep \subseteq call[d].sweep
               \/ call'[d].sweep \subseteq Stale
    PROVE  /\ s \in sessions'
           /\ call'[c].until <= sess'[s].access + PollMax /\ now' <= call'[c].until
           /\ \A d \in Callers : call'[d].pc \in {"sweep", "swept"} => s \notin call'[d].sweep
<1>1. /\ s \in sessions
      /\ call[c].until <= sess[s].access + PollMax /\ now <= call[c].until
      /\ \A d \in Callers : call[d].pc \in {"sweep", "swept"} => s \notin call[d].sweep
  BY DEF PollInv
<1>2. s \notin Stale
  <2>1. sess[s].access \in Nat /\ now \in Nat /\ call[c].until \in Nat
    BY Numbers, Untils
  <2>2. ~(now - sess[s].access > IdleTimeout)
    BY <1>1, <2>1, Limits
  <2> QED
    BY <2>2 DEF Stale
<1> QED
  BY <1>1, <1>2

LEMMA PollInvStep ==
    ASSUME TypeInv, TypeInv', MadeInv, CountInv, EndInv, RegInv, PollInv, [Next]_vars
    PROVE  PollInv'
<1> SUFFICES ASSUME NEW c \in Callers, NEW s \in Sids, Waits(c, s)'
             PROVE  /\ s \in sessions'
                    /\ call'[c].until <= sess'[s].access + PollMax /\ now' <= call'[c].until
                    /\ \A d \in Callers : call'[d].pc \in {"sweep", "swept"} => s \notin call'[d].sweep
  BY DEF PollInv
<1>0. /\ call'[c].pc = "sleep" /\ call'[c].with = "none" /\ call'[c].sid = s
      /\ ~Exited(proc'[s])
  BY DEF Waits
<1>1. ASSUME NEW d \in Callers, GoesTo(d), Goes(d)
      PROVE  /\ s \in sessions'
             /\ call'[c].until <= sess'[s].access + PollMax /\ now' <= call'[c].until
             /\ \A e \in Callers : call'[e].pc \in {"sweep", "swept"} => s \notin call'[e].sweep
  <2>1. c # d /\ call'[c] = call[c] /\ sess' = sess /\ now' = now
    BY <1>0, <1>1 DEF GoesTo
  <2>2. ~Exited(proc[s])
    BY <1>0, <1>1, KilledIs DEF GoesTo, TypeInv
  <2>3. Waits(c, s)
    BY <1>0, <2>1, <2>2 DEF Waits
  <2>4. s \in sessions /\ \A e \in Callers : call[e].pc \in {"sweep", "swept"} => s \notin call[e].sweep
    BY <2>3 DEF PollInv
  <2>5. /\ s \in sessions'
        /\ call'[d].pc \in {"sweep", "swept"} =>
              \/ call[d].pc \in {"sweep", "swept"} /\ call'[d].sweep \subseteq call[d].sweep
              \/ call'[d].sweep \subseteq Stale
    <3>1. CASE Call(d)
      BY <2>4, <3>1, CallMoves DEF Call, Moves
    <3>2. CASE Lock(d)
      BY <2>4, <3>2, LockMoves DEF Lock, Moves
    <3>3. CASE Sweep(d)
      <4>1. PICK q \in call[d].sweep, n \in {"sweep", "swept"} :
              /\ Moves(d, n, call[d].sid, call[d].with, call[d].sweep \ {q}, call[d].got, FALSE)
              /\ sessions' = sessions \ {q} /\ call[d].pc = "sweep"
        BY <3>3, SweepMoves
      <4> QED
        BY <2>4, <4>1 DEF Moves
    <3>4. CASE AfterKill(d) /\ call[d].pc = "swept"
      BY <2>4, <3>4, SweptMoves DEF AfterKill, Moves
    <3>5. CASE Spawn(d)
      BY <2>4, <3>5, SpawnMoves DEF Spawn, Moves
    <3>6. CASE Found(d) /\ call[d].with = "chars"
      BY <2>4, <3>6, FoundMoves DEF Moves
    <3>7. CASE WriteFails(d)
      BY <2>4, <3>7, WriteFailsMoves DEF WriteFails, Moves
    <3>8. CASE Pop(d)
      <4>1. sessions' = sessions \ {call[d].sid} /\ Exited(proc[call[d].sid])
            /\ call'[d].pc = "return"
        BY <3>8, PopMoves DEF Pop, EndInv, Finished, Moves
      <4> QED
        BY <2>2, <2>4, <4>1
    <3>9. CASE Again(d)
      BY <2>4, <3>9, AgainMoves DEF Again, Moves
    <3> QED
      BY <1>1, <3>1, <3>2, <3>3, <3>4, <3>5, <3>6, <3>7, <3>8, <3>9 DEF Goes
  <2>6. \A e \in Callers : call'[e].pc \in {"sweep", "swept"} =>
               \/ call[e].pc \in {"sweep", "swept"} /\ call'[e].sweep \subseteq call[e].sweep
               \/ call'[e].sweep \subseteq Stale
    BY <1>1, <2>5 DEF GoesTo
  <2> QED
    BY <2>1, <2>3, <2>5, <2>6, WaitsKept
<1>2. ASSUME NEW d \in Callers, Moves(d, "idle", NoOne, "none", {}, {}, FALSE),
             sessions' = sessions, proc' = proc, now' = now,
             \A q \in Sids : sess'[q].access = sess[q].access
      PROVE  /\ s \in sessions'
             /\ call'[c].until <= sess'[s].access + PollMax /\ now' <= call'[c].until
             /\ \A e \in Callers : call'[e].pc \in {"sweep", "swept"} => s \notin call'[e].sweep
  <2>1. call'[d].pc = "idle" /\ \A e \in Callers \ {d} : call'[e] = call[e]
    BY <1>2 DEF Moves
  <2>2. call'[c] = call[c]
    BY <1>0, <2>1
  <2>3. Waits(c, s)
    BY <1>0, <1>2, <2>2 DEF Waits
  <2>4. s \in sessions
    BY <2>3 DEF PollInv
  <2>5. \A e \in Callers : call'[e].pc \in {"sweep", "swept"} =>
               \/ call[e].pc \in {"sweep", "swept"} /\ call'[e].sweep \subseteq call[e].sweep
               \/ call'[e].sweep \subseteq Stale
    BY <2>1
  <2> QED
    BY <1>2, <2>2, <2>3, <2>4, <2>5, WaitsKept
<1>3. ASSUME NEW d \in Callers, PollStep(d)
      PROVE  /\ s \in sessions'
             /\ call'[c].until <= sess'[s].access + PollMax /\ now' <= call'[c].until
             /\ \A e \in Callers : call'[e].pc \in {"sweep", "swept"} => s \notin call'[e].sweep
  <2>1. PICK q \in Sids : PollEffect(d, q) /\ sessions \subseteq sessions'
    BY <1>3, PollSteps
  <2>2. /\ \A e \in Callers \ {d} : call'[e] = call[e]
        /\ call'[d].sid = q /\ call'[d].with = call[d].with /\ now' = now
        /\ call'[d].pc \in {"kill", "sleep", "expire", "gather", "leak", "pop", "return"}
        /\ \A t \in Sids \ {q} : proc'[t] = proc[t] /\ sess'[t] = sess[t]
        /\ Exited(proc[q]) => Exited(proc'[q])
        /\ sess'[q].access \in {sess[q].access, now}
    BY <2>1 DEF PollEffect, Places, Late
  <2>3. CASE c = d
    <3>1. /\ s = q /\ sess'[s].access = now /\ call'[c].until = now + PollMax /\ s \in sessions'
          /\ call[c].pc \in {"sweep", "spawn"}
      BY <1>0, <2>1, <2>2, <2>3 DEF PollEffect
    <3>2. \A e \in Callers \ {c} : call[e].pc \notin Holding
      BY <3>1 DEF RegInv, Holding
    <3>3. \A e \in Callers : call'[e].pc \notin {"sweep", "swept"}
      BY <2>2, <2>3, <3>2 DEF Holding
    <3> QED
      BY <2>2, <3>1, <3>3, Numbers, Limits
  <2>4. CASE c # d
    <3>1. call'[c] = call[c] /\ ~Exited(proc[s])
      BY <1>0, <2>2, <2>4
    <3>2. Waits(c, s)
      BY <1>0, <3>1 DEF Waits
    <3>3. /\ s \in sessions
          /\ call[c].until <= sess[s].access + PollMax /\ now <= call[c].until
          /\ \A e \in Callers : call[e].pc \in {"sweep", "swept"} => s \notin call[e].sweep
      BY <3>2 DEF PollInv
    <3>4. sess'[s].access \in Nat /\ sess[s].access \in Nat /\ sess[s].access <= sess'[s].access
          /\ call[c].until \in Nat
      BY <2>2, Numbers, Untils DEF CountInv
    <3> QED
      BY <2>1, <2>2, <3>1, <3>3, <3>4, Limits
  <2> QED
    BY <2>3, <2>4
<1>4. ASSUME NEW q \in Sids, RunsTo(q)
      PROVE  /\ s \in sessions'
             /\ call'[c].until <= sess'[s].access + PollMax /\ now' <= call'[c].until
             /\ \A e \in Callers : call'[e].pc \in {"sweep", "swept"} => s \notin call'[e].sweep
  <2>1. /\ call' = call /\ sessions' = sessions /\ now' = now /\ ~Exited(proc[s])
        /\ sess'[s].access = sess[s].access
    BY <1>0, <1>4 DEF RunsTo, Exited
  <2>2. Waits(c, s)
    BY <1>0, <2>1 DEF Waits
  <2> QED
    BY <2>1, <2>2 DEF PollInv
<1>5. ASSUME Tick
      PROVE  /\ s \in sessions'
             /\ call'[c].until <= sess'[s].access + PollMax /\ now' <= call'[c].until
             /\ \A e \in Callers : call'[e].pc \in {"sweep", "swept"} => s \notin call'[e].sweep
  <2>1. /\ call' = call /\ sessions' = sessions /\ now' = now + 1 /\ proc' = proc /\ sess' = sess
        /\ call[c].pc \in Polling => now < call[c].until
    BY <1>5 DEF Tick
  <2>2. Waits(c, s) /\ now < call[c].until
    BY <1>0, <2>1 DEF Waits, Polling
  <2>3. now \in Nat /\ call[c].until \in Nat
    BY Numbers, Untils
  <2> QED
    BY <2>1, <2>2, <2>3 DEF PollInv
<1>6. ASSUME UNCHANGED vars
      PROVE  /\ s \in sessions'
             /\ call'[c].until <= sess'[s].access + PollMax /\ now' <= call'[c].until
             /\ \A e \in Callers : call'[e].pc \in {"sweep", "swept"} => s \notin call'[e].sweep
  BY <1>0, <1>6 DEF vars, Waits, PollInv
<1>7. ASSUME NEW d \in Callers, Return(d)
      PROVE  /\ Moves(d, "idle", NoOne, "none", {}, {}, FALSE)
             /\ UNCHANGED <<sessions, proc, now, sess>>
  BY <1>7, ReturnMoves DEF Return
<1>8. ASSUME NEW d \in Callers, Drops(d)
      PROVE  /\ Moves(d, "idle", NoOne, "none", {}, {}, FALSE)
             /\ UNCHANGED <<sessions, proc, now>> /\ \A q \in Sids : sess'[q].access = sess[q].access
  BY <1>8 DEF Drops
<1> QED
  BY <1>1, <1>2, <1>3, <1>4, <1>5, <1>6, <1>7, <1>8, Effects

-----------------------------------------------------------------------------
(***************************************************************************)
(* The pieces of output.                                                   *)
(***************************************************************************)
Held(c, s) == {n \in call[c].got : call[c].sid = s}

\* What was taken from a session was given to a caller, lost with a call or is
\* in the hands of one call, and only one of these.
OutInv ==
    /\ \A s \in Sids, n \in Nat :
          n \in 1 .. sess[s].taken <=>
             \/ n \in told[s] \/ n \in lost[s]
             \/ \E c \in Callers : n \in Held(c, s)
    /\ \A s \in Sids, n \in Nat : ~(n \in told[s] /\ n \in lost[s])
    /\ \A s \in Sids, n \in Nat, c \in Callers : n \in Held(c, s) =>
          /\ n \notin told[s] /\ n \notin lost[s]
          /\ \A d \in Callers \ {c} : n \notin Held(d, s)

LEMMA OutStep ==
    ASSUME TypeInv, TypeInv', MadeInv, CountInv, OutInv, [Next]_vars
    PROVE  OutInv'
<1>0. /\ \A s \in Sids, n \in Nat :
            n \in 1 .. sess[s].taken <=>
               \/ n \in told[s] \/ n \in lost[s]
               \/ \E c \in Callers : n \in Held(c, s)
      /\ \A s \in Sids, n \in Nat : ~(n \in told[s] /\ n \in lost[s])
      /\ \A s \in Sids, n \in Nat, c \in Callers : n \in Held(c, s) =>
            /\ n \notin told[s] /\ n \notin lost[s]
            /\ \A d \in Callers \ {c} : n \notin Held(d, s)
      /\ NoOne \notin Sids
  BY Limits DEF OutInv
<1>n. \A s \in Sids : sess[s].read \in Nat /\ sess[s].taken \in Nat /\ sess[s].taken <= sess[s].read
  BY Numbers DEF CountInv
\* A step that takes, gives and loses nothing.
<1>a. ASSUME \A s \in Sids : sess'[s].taken = sess[s].taken, told' = told, lost' = lost,
             \A s \in Sids, n \in Nat, c \in Callers : n \in Held(c, s)' <=> n \in Held(c, s)
      PROVE  OutInv'
  BY <1>0, <1>a DEF OutInv
<1>b. ASSUME NEW c \in Callers, \A d \in Callers \ {c} : call'[d] = call[d],
             \/ call'[c].sid = call[c].sid /\ call'[c].got = call[c].got
             \/ call[c].got = {} /\ call'[c].got = {}
      PROVE  \A s \in Sids, n \in Nat, d \in Callers : n \in Held(d, s)' <=> n \in Held(d, s)
  BY <1>b DEF Held
\* A call that gives or loses what it holds.
<1>c. ASSUME NEW c \in Callers, Moves(c, "idle", NoOne, "none", {}, {}, FALSE)
      PROVE  \A s \in Sids, n \in Nat, d \in Callers :
                n \in Held(d, s)' <=> d # c /\ n \in Held(d, s)
  BY <1>c DEF Held, Moves
<1>1. ASSUME NEW c \in Callers, GoesTo(c) PROVE OutInv'
  <2>1. /\ \A d \in Callers \ {c} : call'[d] = call[d]
        /\ \/ call'[c].sid = call[c].sid /\ call'[c].got = call[c].got
           \/ call[c].got = {} /\ call'[c].got = {}
        /\ told' = told /\ lost' = lost /\ sess' = sess
    BY <1>1 DEF GoesTo
  <2>2. \A s \in Sids, n \in Nat, d \in Callers : n \in Held(d, s)' <=> n \in Held(d, s)
    BY <1>b, <2>1
  <2> QED
    BY <1>a, <2>1, <2>2
<1>2. ASSUME NEW c \in Callers, Drops(c) PROVE OutInv'
  <2>1. \A s \in Sids, n \in Nat, d \in Callers :
           n \in Held(d, s)' <=> d # c /\ n \in Held(d, s)
    BY <1>2, <1>c DEF Drops
  <2>2. /\ \A s \in Sids, n \in Nat : n \in lost'[s] <=> n \in lost[s] \/ n \in Held(c, s)
        /\ told' = told /\ \A s \in Sids : sess'[s].taken = sess[s].taken
    BY <1>2 DEF Drops, Held
  <2> QED
    BY <1>0, <2>1, <2>2 DEF OutInv
<1>3. ASSUME NEW c \in Callers, Return(c) PROVE OutInv'
  <2>1. \A s \in Sids, n \in Nat, d \in Callers :
           n \in Held(d, s)' <=> d # c /\ n \in Held(d, s)
    BY <1>3, <1>c, ReturnMoves
  <2>2. told' = [told EXCEPT ![call[c].sid] = @ \cup call[c].got] /\ told \in [Sids -> Pieces]
    BY <1>3, ReturnMoves DEF TypeInv
  <2>3. /\ \A s \in Sids, n \in Nat : n \in told'[s] <=> n \in told[s] \/ n \in Held(c, s)
        /\ lost' = lost /\ sess' = sess
    BY <1>3, <2>2 DEF Return, Held
  <2> QED
    BY <1>0, <2>1, <2>3 DEF OutInv
<1>4. ASSUME NEW c \in Callers, PollStep(c) PROVE OutInv'
  <2>1. PICK s \in Sids : PollEffect(c, s)
    BY <1>4, PollSteps
  <2>2. /\ \A d \in Callers \ {c} : call'[d] = call[d]
        /\ \A q \in Sids \ {s} : sess'[q] = sess[q]
        /\ told' = told /\ lost' = lost
        /\ call'[c].sid = s /\ call[c].sid \in {s, NoOne}
    BY <2>1 DEF PollEffect
  <2>3. call[c].sid = NoOne => call[c].got = {}
    BY DEF TypeInv, PlaceOK
  <2>4. CASE call'[c].got = call[c].got /\ sess'[s].taken = sess[s].taken
    <3>1. \A q \in Sids : sess'[q].taken = sess[q].taken
      BY <2>2, <2>4
    <3>2. \A q \in Sids, n \in Nat, d \in Callers : n \in Held(d, q)' <=> n \in Held(d, q)
      BY <1>0, <2>2, <2>3, <2>4 DEF Held
    <3> QED
      BY <1>a, <2>2, <3>1, <3>2
  <2>5. CASE /\ call'[c].got = call[c].got \cup (sess[s].taken + 1 .. sess[s].read)
             /\ sess'[s].taken = sess[s].read
    <3> DEFINE New(n) == n > sess[s].taken /\ n <= sess[s].read
    <3>1. \A n \in Nat : n \in sess[s].taken + 1 .. sess[s].read <=> New(n)
      BY <1>n
    <3>2. \A q \in Sids, n \in Nat, d \in Callers :
             n \in Held(d, q)' <=> n \in Held(d, q) \/ (d = c /\ q = s /\ New(n))
      <4> HIDE DEF New
      <4> QED
        BY <1>0, <2>2, <2>3, <2>5, <3>1 DEF Held
    <3>3. \A n \in Nat : New(n) =>
             n \notin told[s] /\ n \notin lost[s] /\ \A d \in Callers : n \notin Held(d, s)
      <4>1. \A n \in Nat : New(n) => n \notin 1 .. sess[s].taken
        BY <1>n
      <4> HIDE DEF New
      <4> QED
        BY <1>0, <4>1
    <3>4. \A n \in Nat : n \in 1 .. sess'[s].taken <=> n \in 1 .. sess[s].taken \/ New(n)
      BY <1>n, <2>5
    <3>5. \A q \in Sids : q # s => sess'[q] = sess[q]
      BY <2>2
    <3> HIDE DEF New
    <3>6. \A q \in Sids, n \in Nat :
             n \in 1 .. sess'[q].taken <=>
                \/ n \in told'[q] \/ n \in lost'[q]
                \/ \E d \in Callers : n \in Held(d, q)'
      BY <1>0, <2>2, <3>2, <3>4, <3>5
    <3>7. \A q \in Sids, n \in Nat, d \in Callers : n \in Held(d, q)' =>
            /\ n \notin told'[q] /\ n \notin lost'[q]
            /\ \A e \in Callers \ {d} : n \notin Held(e, q)'
      BY <1>0, <2>2, <3>2, <3>3
    <3> QED
      BY <1>0, <2>2, <3>6, <3>7 DEF OutInv
  <2> QED
    BY <2>1, <2>4, <2>5 DEF PollEffect
<1>5. ASSUME NEW s \in Sids, RunsTo(s) PROVE OutInv'
  <2>1. /\ call' = call /\ told' = told /\ lost' = lost
        /\ \A q \in Sids : sess'[q].taken = sess[q].taken
    BY <1>5 DEF RunsTo
  <2>2. \A q \in Sids, n \in Nat, d \in Callers : n \in Held(d, q)' <=> n \in Held(d, q)
    BY <2>1 DEF Held
  <2> QED
    BY <1>a, <2>1, <2>2
<1>6. ASSUME UNCHANGED <<sess, call, told, lost>> PROVE OutInv'
  <2>2. \A q \in Sids, n \in Nat, d \in Callers : n \in Held(d, q)' <=> n \in Held(d, q)
    BY <1>6 DEF Held
  <2> QED
    BY <1>a, <1>6, <2>2
<1> QED
  BY <1>1, <1>2, <1>3, <1>4, <1>5, <1>6, Effects DEF Tick, vars, history

-----------------------------------------------------------------------------
(***************************************************************************)
(* The inductive invariant.                                                *)
(***************************************************************************)
IInv == TypeInv /\ MadeInv /\ CountInv /\ EndInv /\ RegInv /\ PollInv /\ OutInv

LEMMA InitInv == Init => IInv
<1> SUFFICES ASSUME Init PROVE IInv
  OBVIOUS
<1>1. /\ now = 0 /\ sessions = {} /\ lock = NoOne /\ left \in Environments /\ ended = {}
      /\ \A c \in Callers : call[c] = Idle
      /\ \A s \in Sids : /\ proc[s].shell = "none" /\ ~proc[s].kid /\ proc[s].wrote = 0
                         /\ sess[s].read = 0 /\ sess[s].taken = 0 /\ sess[s].access = 0
                         /\ sess[s].reader = "none" /\ told[s] = {} /\ lost[s] = {}
  BY DEF Init, NoProcess, NoSession
<1>2. TypeInv
  <2>1. left \in LeftType /\ now \in Nat /\ now <= left.horizon
    BY <1>1, ExecSessionsAssumption DEF ExecSessionsAssumption, LeftType
  <2>2. NoProcess \in ProcType /\ NoSession \in SessType
    BY DEF NoProcess, NoSession, ProcType, SessType, Shells, Readers, ChatNames
  <2>3. proc \in [Sids -> ProcType] /\ sess \in [Sids -> SessType]
    BY <2>2 DEF Init
  <2>4. call \in [Callers -> CallType] /\ \A c \in Callers : PlaceOK(call[c])
    BY <1>1, IdleIs DEF Init
  <2>5. told \in [Sids -> Pieces] /\ lost \in [Sids -> Pieces]
    BY DEF Init, Pieces
  <2> QED
    BY <1>1, <2>1, <2>3, <2>4, <2>5 DEF TypeInv
<1>3. MadeInv
  <2>1. Made = {}
    BY <1>1 DEF Made
  <2>2. \E n \in Nat : Made = 1 .. n
    <3>1. Made = 1 .. 0
      BY <2>1
    <3> QED
      BY <3>1
  <2> QED
    BY <1>1, <2>2, IdleIs DEF MadeInv
<1>4. CountInv
  BY <1>1, <1>2, Numbers DEF CountInv
<1>5. EndInv
  BY <1>1, IdleIs DEF EndInv
<1>6. RegInv
  <2>1. \A c \in Callers : lock # c
    BY <1>1, Limits
  <2>2. Cardinality(sessions) = 0
    BY <1>1, FS_EmptySet
  <2> QED
    BY <1>1, <2>1, <2>2, IdleIs, Limits DEF RegInv, NoStrayShell, Holding
<1>7. PollInv
  BY <1>1, IdleIs DEF PollInv, Waits
<1>8. OutInv
  BY <1>1, IdleIs DEF OutInv, Held
<1> QED
  BY <1>2, <1>3, <1>4, <1>5, <1>6, <1>7, <1>8 DEF IInv

LEMMA StepInv == IInv /\ [Next]_vars => IInv'
<1> SUFFICES ASSUME IInv, [Next]_vars PROVE IInv'
  OBVIOUS
<1>1. TypeInv /\ MadeInv /\ CountInv /\ EndInv /\ RegInv /\ PollInv /\ OutInv
  BY DEF IInv
<1>2. TypeInv'
  BY <1>1, TypeStep
<1>3. MadeInv'
  BY <1>1, <1>2, MadeStep
<1>4. CountInv'
  BY <1>1, <1>2, CountStep
<1>5. EndInv'
  BY <1>1, <1>2, EndStep
<1>6. RegInv'
  BY <1>1, <1>2, RegStep
<1>7. PollInv'
  BY <1>1, <1>2, PollInvStep
<1>8. OutInv'
  BY <1>1, <1>2, OutStep
<1> QED
  BY <1>2, <1>3, <1>4, <1>5, <1>6, <1>7, <1>8 DEF IInv

LEMMA Invariance == Spec => []IInv
<1>1. Init => IInv
  BY InitInv
<1>2. IInv /\ [Next]_vars => IInv'
  BY StepInv
<1> QED
  BY <1>1, <1>2, PTL DEF Spec

-----------------------------------------------------------------------------
\* In every state a running shell is registered and the registry keeps to its
\* limit, a poll that waits keeps its session, and a session whose end was
\* reported is gone (ExecSessionManager, _ExecSession.poll).
THEOREM RegistryConsistentHolds == Spec => []RegistryConsistent
<1>1. IInv => RegistryConsistent
  <2> SUFFICES ASSUME IInv PROVE RegistryConsistent
    OBVIOUS
  <2>0. TypeInv /\ MadeInv /\ CountInv /\ EndInv /\ RegInv /\ PollInv /\ OutInv
    BY DEF IInv
  <2>n. /\ now \in Nat /\ left.pieces \in Nat /\ left.horizon \in Nat
        /\ \A s \in Sids : /\ sess[s].read \in Nat /\ sess[s].taken \in Nat
                           /\ sess[s].access \in Nat /\ proc[s].wrote \in Nat
                           /\ proc[s].kid \in BOOLEAN
    BY <2>0, Numbers
  <2>1. TypeOK
    <3>1. now \in 0 .. left.horizon
      BY <2>0, <2>n DEF TypeInv
    <3>2. proc \in [Sids -> [shell : {"none", "runs", "killed", "exited"}, kid : BOOLEAN, wrote : 0 .. left.pieces]]
      <4>1. ASSUME NEW s \in Sids
            PROVE  proc[s] \in [shell : Shells, kid : BOOLEAN, wrote : 0 .. left.pieces]
        <5>1. proc[s] \in ProcType /\ proc[s].wrote \in 0 .. left.pieces
          BY <2>0, <2>n DEF TypeInv, CountInv
        <5> QED
          BY <5>1 DEF ProcType
      <4>2. proc = [s \in Sids |-> proc[s]]
        BY <2>0 DEF TypeInv
      <4> QED
        BY <4>1, <4>2 DEF Shells
    <3>3. ASSUME NEW s \in Sids
          PROVE  /\ sess[s].reader \in {"none", "reading", "done", "cancelled"}
                 /\ 0 <= sess[s].taken /\ sess[s].taken <= sess[s].read /\ sess[s].read <= proc[s].wrote
                 /\ sess[s].access <= now
      <4>1. sess[s].reader \in Readers
        BY <2>0 DEF TypeInv, SessType
      <4> QED
        BY <2>0, <2>n, <4>1 DEF CountInv, Readers
    <3>4. sessions \subseteq Made /\ ended \subseteq Made
      BY <2>0 DEF MadeInv, TypeInv
    <3>5. ASSUME NEW c \in Callers
          PROVE  call[c].pc \in Pcs /\ call[c].sid \in Sids \cup {NoOne} /\ call[c].rounds < MaxRounds
      <4>1. call[c].pc \in Pcs /\ call[c].sid \in SidNames /\ call[c].rounds \in Rounds
        BY <2>0 DEF TypeInv, CallType
      <4> QED
        BY <4>1, Limits DEF SidNames, Rounds
    <3>6. ASSUME NEW s \in Sids PROVE told[s] \cup lost[s] \subseteq 1 .. left.pieces
      <4>1. \A n \in Nat : n \in told[s] \cup lost[s] => n \in 1 .. sess[s].taken
        BY <2>0 DEF OutInv
      <4>2. sess[s].taken <= left.pieces
        BY <2>0, <2>n DEF CountInv
      <4>3. told[s] \cup lost[s] \subseteq Nat
        BY <2>0 DEF TypeInv, Pieces
      <4> QED
        BY <2>n, <4>1, <4>2, <4>3
    <3>7. lock \in Callers \cup {NoOne}
      BY <2>0 DEF TypeInv
    <3> QED
      BY <3>1, <3>2, <3>3, <3>4, <3>5, <3>6, <3>7 DEF TypeOK
  <2>2. NoStrayShell /\ WithinLimit
    BY <2>0 DEF RegInv, WithinLimit
  <2>3. PolledIsKept
    <3> SUFFICES ASSUME NEW c \in Callers, call[c].pc = "sleep", call[c].with = "none",
                        call[c].sid \notin sessions, ~Exited(proc[call[c].sid])
                 PROVE  FALSE
      BY DEF PolledIsKept
    <3>1. call[c].sid \in Sids
      BY <2>0 DEF TypeInv, PlaceOK, Polling, CallType, SidNames
    <3>2. Waits(c, call[c].sid)
      BY DEF Waits
    <3> QED
      BY <2>0, <3>1, <3>2 DEF PollInv
  <2>4. EndIsFinal
    BY <2>0 DEF EndInv, EndIsFinal
  <2> QED
    BY <2>1, <2>2, <2>3, <2>4 DEF RegistryConsistent
<1> QED
  BY <1>1, Invariance, PTL

\* In every state, of a session whose end was reported and whose readers got to
\* the end of its output, all pieces were given to callers, are held by a call
\* or were lost with one, and no piece twice (_ExecSession.poll).
THEOREM WholeOutputHolds == Spec => []WholeOutput
<1>1. IInv => WholeOutput
  <2> SUFFICES ASSUME IInv, NEW s \in Sids
               PROVE  /\ s \in ended /\ sess[s].reader \in {"done", "reading"}
                            => told[s] \cup lost[s] \cup InHand(s) = 1 .. proc[s].wrote
                      /\ told[s] \cap (lost[s] \cup InHand(s)) = {}
    BY DEF WholeOutput
  <2>0. TypeInv /\ EndInv /\ OutInv
    BY DEF IInv
  <2>1. \A n : n \in InHand(s) <=> \E c \in Callers : n \in Held(c, s)
    BY DEF InHand, Held
  <2>2. told[s] \subseteq Nat /\ lost[s] \subseteq Nat /\ InHand(s) \subseteq Nat
    <3>1. \A c \in Callers : call[c].got \subseteq Nat
      BY <2>0 DEF TypeInv, CallType, Pieces
    <3> QED
      BY <2>0, <2>1, <3>1 DEF TypeInv, Pieces, Held
  <2>3. told[s] \cap (lost[s] \cup InHand(s)) = {}
    BY <2>0, <2>1, <2>2 DEF OutInv
  <2>4. ASSUME s \in ended, sess[s].reader \in {"done", "reading"}
        PROVE  told[s] \cup lost[s] \cup InHand(s) = 1 .. proc[s].wrote
    <3>1. sess[s].taken = proc[s].wrote
      BY <2>0, <2>4 DEF EndInv, Finished
    <3>2. \A n \in Nat : n \in 1 .. sess[s].taken <=> n \in told[s] \cup lost[s] \cup InHand(s)
      BY <2>0, <2>1 DEF OutInv
    <3>3. 1 .. sess[s].taken \subseteq Nat
      OBVIOUS
    <3> QED
      BY <2>2, <3>1, <3>2, <3>3
  <2> QED
    BY <2>3, <2>4
<1> QED
  BY <1>1, Invariance, PTL
=============================================================================
